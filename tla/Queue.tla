------------------------------- MODULE Queue -------------------------------
(***************************************************************************)
(* crates/arb-arbos/src/storage/queue.rs: the storage-backed queue of the  *)
(* retryable tickets' timeouts.  Slots 0 and 1 hold the offsets of the     *)
(* next put and the next get, slots 2 and up the elements.                 *)
(***************************************************************************)
EXTENDS TxJournal, Sequences

CONSTANTS
  Val,         \* the 32-byte values that are queued
  ZeroVal,     \* the zero value, which is also what an empty slot reads as
  None,        \* what get() and peek() return for an empty queue
  MaxOffset    \* bound on the offsets; u64 in the code

ASSUME ValAssumption == ZeroVal \in Val /\ None \notin Val
ASSUME MaxOffsetAssumption == MaxOffset \in Nat /\ MaxOffset > 2

VARIABLE got   \* what the last get() returned

vars == <<db, jrn, calls, got>>

First == 2     \* the offset of the first element of a queue at its start

Offsets == First..MaxOffset

Slots == First..(MaxOffset - 1)

QueueStorage == [put: Offsets, get: Offsets, slot: [Slots -> Val]]

\* Queue::initialize on fresh storage.
EmptyQueue == [put |-> First, get |-> First, slot |-> [i \in Slots |-> ZeroVal]]

-----------------------------------------------------------------------------
(* The handlers, of the storage read, r, and the storage written, w. *)

IsEmpty(s) == s.put = s.get

Peek(s) == IF IsEmpty(s) THEN None ELSE s.slot[s.get]

\* What for_each visits, in its order: the elements of the queue.
Contents(s) == [i \in 1..(s.put - s.get) |-> s.slot[s.get + i - 1]]

Put(r, w, v) == [w EXCEPT !.put = r.put + 1, !.slot[r.put] = v]

\* The slot of the element taken keeps its value: a bug to catch.
GetKeeps(r, w) == IF IsEmpty(r) THEN w ELSE [w EXCEPT !.get = r.get + 1]

\* get() takes the first element and zeroes its slot (Storage::swap).
Get(r, w) ==
  IF IsEmpty(r) THEN w
  ELSE [w EXCEPT !.get = r.get + 1, !.slot[r.get] = ZeroVal]

\* A shift of a queue that is not empty: a bug to catch.
ShiftAlways(r, w) == [w EXCEPT !.put = First, !.get = First]

Shift(r, w) ==
  IF ~IsEmpty(r) THEN w ELSE [w EXCEPT !.put = First, !.get = First]

-----------------------------------------------------------------------------
(* The actions: one call of a handler in the transaction under way. *)

\* The increment of an offset at its bound panics (StorageBackedUint64).
PutCall(v) ==
  /\ db.put < MaxOffset
  /\ Call(Put(db, jrn, v))
  /\ UNCHANGED got

GetCall ==
  /\ Call(Get(db, jrn))
  /\ got' = Peek(db)

ShiftCall ==
  /\ Call(Shift(db, jrn))
  /\ UNCHANGED got

Init == JournalInit(EmptyQueue) /\ got = None

Next ==
  \/ \E v \in Val : PutCall(v)
  \/ GetCall
  \/ ShiftCall
  \/ Commit /\ UNCHANGED got
  \/ Revert /\ UNCHANGED got

Spec == Init /\ [][Next]_vars

-----------------------------------------------------------------------------
(* Properties. *)

\* The offsets are in their range and the get offset never passes the put
\* offset: size(), their unsigned difference, does not wrap.
OffsetsInOrder(s) == s \in QueueStorage /\ s.get <= s.put

TypeOK ==
  /\ OffsetsInOrder(db)
  /\ OffsetsInOrder(jrn)
  /\ calls \in 0..MaxCalls
  /\ got \in Val \cup {None}

\* A slot outside the queue is zero in every committed state ("Swap with zero
\* to clear the slot", Queue::get): storage is given back, and a queue that was
\* shifted to its start finds nothing of its past there.
RestIsZero(s) ==
  \A i \in Slots : i < s.get \/ i >= s.put => s.slot[i] = ZeroVal

ConsumedIsZero == RestIsZero(db)

Promise == INSTANCE Fifo WITH db <- Contents(db), jrn <- Contents(jrn)

\* The queue implements a first-in first-out queue: every value put comes out
\* of get() once, in the order of the puts, across shifts and reverts.
ImplementsFifo == Promise!Spec
=============================================================================
