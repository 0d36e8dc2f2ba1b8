----------------------------- MODULE TypedStore -----------------------------
(***************************************************************************)
(* What the storage-backed types of crates/arb-arbos/src/storage/storage.rs *)
(* promise: a cell that holds one value of its type, and one string of     *)
(* bytes, with no words, paddings or chunks.  A call reads the committed   *)
(* value and writes the pending one (see TxJournal); op is the last call   *)
(* with its arguments, so that each call has to have its own effect.       *)
(***************************************************************************)
EXTENDS TxJournal, Integers, Sequences

CONSTANTS
  Value(_),   \* the values of a kind of cell
  Strings     \* the strings of bytes

VARIABLES
  kind,       \* the kind of the cell
  op          \* the last call: its name and what it was given

Named(name) == [name |-> name, v |-> 0, b |-> <<>>]

Init ==
  /\ JournalInit([val |-> 0, bytes |-> <<>>])
  /\ op = Named("none")

Holds(v) == Call([jrn EXCEPT !.val = v])

Get == Call(jrn) /\ op' = Named("get")

Set(v) == Holds(v) /\ op' = [Named("set") EXCEPT !.v = v]

\* The format before version 7 keeps the magnitude only, and the smallest
\* number, which has none, as it is.
SetMagnitude(v) ==
  /\ Holds(IF v < 0 /\ -v \in Value(kind) THEN -v ELSE v)
  /\ op' = [Named("magnitude") EXCEPT !.v = v]

Increment == Holds(db.val + 1) /\ op' = Named("increment")

Decrement == Holds(db.val - 1) /\ op' = Named("decrement")

SetBytes(b) ==
  /\ Call([jrn EXCEPT !.bytes = b])
  /\ op' = [Named("bytes") EXCEPT !.b = b]

End(E) == E /\ op' = Named("none")

Next ==
  /\ \/ Get
     \/ \E v \in Value(kind) : Set(v) \/ SetMagnitude(v)
     \/ db.val + 1 \in Value(kind) /\ Increment
     \/ db.val - 1 \in Value(kind) /\ Decrement
     \/ \E b \in Strings : SetBytes(b)
     \/ End(Commit)
     \/ End(Revert)
  /\ UNCHANGED kind

Spec == Init /\ [][Next]_<<txVars, kind, op>>
=============================================================================
