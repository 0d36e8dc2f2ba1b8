-------------------------------- MODULE Fifo --------------------------------
(***************************************************************************)
(* What crates/arb-arbos/src/storage/queue.rs promises its callers: a      *)
(* first-in first-out queue under a journal whose reads see the writes     *)
(* before them.  Queue is shown to implement it for transactions of one    *)
(* call.                                                                   *)
(***************************************************************************)
EXTENDS TxJournal, Sequences

CONSTANTS
  Val,    \* the 32-byte values that are queued
  None    \* what get() returns for an empty queue

VARIABLE got    \* what the last get() returned

vars == <<db, jrn, calls, got>>

Init == JournalInit(<<>>) /\ got = None

Put(v) == Call(Append(jrn, v)) /\ UNCHANGED got

Get ==
  \/ jrn = <<>> /\ Call(jrn) /\ got' = None
  \/ jrn # <<>> /\ Call(Tail(jrn)) /\ got' = Head(jrn)

\* Shift moves the elements' storage, never the elements.
Shift == Call(jrn) /\ UNCHANGED got

Next ==
  \/ \E v \in Val : Put(v)
  \/ Get
  \/ Shift
  \/ Commit /\ UNCHANGED got
  \/ Revert /\ UNCHANGED got

Spec == Init /\ [][Next]_vars
=============================================================================
