----------------------------- MODULE QueueProofs -----------------------------
(***************************************************************************)
(* Theorems about Queue for every set of values and every bound on the     *)
(* offsets, in transactions of one call: the offsets stay in order, what   *)
(* is outside of the queue is zero, and the storage is a first-in          *)
(* first-out queue of values.                                              *)
(***************************************************************************)
EXTENDS Queue, SequenceTheorems, TLAPS

\* The elements of a queue are a sequence of values, one for each slot from
\* the get offset up to the put offset.
LEMMA ContentsIsSeq ==
  ASSUME NEW s, OffsetsInOrder(s)
  PROVE  /\ s.put - s.get \in Nat
         /\ \A i \in 1..(s.put - s.get) : s.get + i - 1 \in Slots
         /\ Contents(s) \in Seq(Val)
         /\ Len(Contents(s)) = s.put - s.get
         /\ \A i \in 1..(s.put - s.get) : Contents(s)[i] = s.slot[s.get + i - 1]
<1>1. /\ s.put \in Nat /\ s.get \in Nat /\ s.get >= 2 /\ s.put <= MaxOffset
      /\ s.get <= s.put /\ s.slot \in [Slots -> Val] /\ MaxOffset \in Nat
  BY MaxOffsetAssumption DEF OffsetsInOrder, QueueStorage, Offsets, First
<1>2. \A i \in 1..(s.put - s.get) : s.get + i - 1 \in Slots
  BY <1>1 DEF Slots, First
<1>3. s.put - s.get \in Nat
  BY <1>1
<1>4. Contents(s) \in [1..(s.put - s.get) -> Val]
  BY <1>1, <1>2 DEF Contents
<1> QED BY <1>2, <1>3, <1>4 DEF Contents

\* A queue is empty exactly when its elements are the empty sequence.
LEMMA EmptyIsEmpty ==
  ASSUME NEW s, OffsetsInOrder(s)
  PROVE  IsEmpty(s) <=> Contents(s) = <<>>
<1>1. s.put \in Int /\ s.get \in Int
  BY MaxOffsetAssumption DEF OffsetsInOrder, QueueStorage, Offsets, First
<1>2. Contents(s) = <<>> <=> Len(Contents(s)) = 0
  BY ContentsIsSeq, EmptySeq
<1> QED BY <1>1, <1>2, ContentsIsSeq DEF IsEmpty

\* The fresh queue is well-formed and empty.
LEMMA EmptyQueueIsRight ==
  OffsetsInOrder(EmptyQueue) /\ RestIsZero(EmptyQueue) /\ Contents(EmptyQueue) = <<>>
<1>1. OffsetsInOrder(EmptyQueue) /\ RestIsZero(EmptyQueue)
  BY ValAssumption, MaxOffsetAssumption
     DEF EmptyQueue, OffsetsInOrder, QueueStorage, RestIsZero, Offsets, First, Slots
<1>2. IsEmpty(EmptyQueue)
  BY DEF IsEmpty, EmptyQueue
<1> QED BY <1>1, <1>2, EmptyIsEmpty

\* put() below the bound appends its value.
LEMMA PutAppends ==
  ASSUME NEW s, OffsetsInOrder(s), RestIsZero(s), s.put < MaxOffset, NEW v \in Val
  PROVE  /\ OffsetsInOrder(Put(s, s, v)) /\ RestIsZero(Put(s, s, v))
         /\ Contents(Put(s, s, v)) = Append(Contents(s), v)
<1> DEFINE t == Put(s, s, v)
<1>1. /\ s \in QueueStorage /\ s.slot \in [Slots -> Val] /\ MaxOffset \in Nat
      /\ s.put \in Nat /\ s.get \in Nat /\ s.get >= 2 /\ s.get <= s.put
      /\ s.put \in Slots /\ s.put + 1 \in Offsets
  BY MaxOffsetAssumption DEF OffsetsInOrder, QueueStorage, Offsets, Slots, First
<1>2. t.put = s.put + 1 /\ t.get = s.get /\ t.slot = [s.slot EXCEPT ![s.put] = v]
  BY <1>1 DEF Put, QueueStorage
<1>3. OffsetsInOrder(t)
  <2>1. t \in QueueStorage
    BY <1>1 DEF Put, QueueStorage
  <2> HIDE DEF t
  <2> QED BY <1>1, <1>2, <2>1 DEF OffsetsInOrder
<1>4. RestIsZero(t)
  <2> HIDE DEF t
  <2> QED BY <1>1, <1>2 DEF RestIsZero, Slots, First
<1>5. Contents(t) = Append(Contents(s), v)
  <2> HIDE DEF t
  <2> DEFINE n == s.put - s.get
             c == Contents(t)
             d == Append(Contents(s), v)
  <2>1. c \in Seq(Val) /\ Len(c) = n + 1
    BY <1>1, <1>2, <1>3, ContentsIsSeq
  <2>2. /\ d \in Seq(Val) /\ Len(d) = n + 1 /\ d[n + 1] = v
        /\ \A i \in 1..n : d[i] = Contents(s)[i]
    BY ContentsIsSeq, AppendProperties
  <2>3. \A i \in 1..(n + 1) : c[i] = t.slot[s.get + i - 1]
    <3>1. t.put - t.get = n + 1
      BY <1>1, <1>2
    <3>2. \A i \in 1..(t.put - t.get) : c[i] = t.slot[t.get + i - 1]
      BY <1>3, ContentsIsSeq
    <3> HIDE DEF c, n
    <3> QED BY <3>1, <3>2, <1>2
  <2>4. c[n + 1] = v
    <3>1. s.get + (n + 1) - 1 = s.put /\ n + 1 \in 1..(n + 1)
      BY <1>1
    <3>2. c[n + 1] = t.slot[s.put]
      BY <2>3, <3>1
    <3> QED BY <3>2, <1>1, <1>2
  <2>5. \A i \in 1..n : c[i] = Contents(s)[i]
    <3> SUFFICES ASSUME NEW i \in 1..n PROVE c[i] = Contents(s)[i]
      OBVIOUS
    <3>1. i \in 1..(n + 1) /\ s.get + i - 1 # s.put /\ s.get + i - 1 \in Slots
      BY <1>1, ContentsIsSeq
    <3>2. c[i] = t.slot[s.get + i - 1] /\ Contents(s)[i] = s.slot[s.get + i - 1]
      BY <3>1, <2>3, ContentsIsSeq
    <3> QED BY <3>1, <3>2, <1>1, <1>2
  <2>6. \A i \in 1..(n + 1) : c[i] = d[i]
    BY <1>1, <2>2, <2>4, <2>5
  <2> HIDE DEF c, d, n
  <2>7. c = d
    BY <2>1, <2>2, <2>6, SeqEqual
  <2> QED BY <2>7 DEF c, d
<1> QED BY <1>3, <1>4, <1>5

\* get() of a queue that has an element takes the first.
LEMMA GetTakesFirst ==
  ASSUME NEW s, OffsetsInOrder(s), RestIsZero(s), ~IsEmpty(s)
  PROVE  /\ OffsetsInOrder(Get(s, s)) /\ RestIsZero(Get(s, s))
         /\ Contents(Get(s, s)) = Tail(Contents(s))
         /\ Peek(s) = Head(Contents(s))
         /\ Peek(s) \in Val
<1> DEFINE t == Get(s, s)
<1>1. /\ s \in QueueStorage /\ s.slot \in [Slots -> Val] /\ MaxOffset \in Nat
      /\ s.put \in Nat /\ s.get \in Nat /\ s.get >= 2 /\ s.get < s.put
      /\ s.get \in Slots /\ s.get + 1 \in Offsets
  BY MaxOffsetAssumption
     DEF OffsetsInOrder, QueueStorage, Offsets, Slots, First, IsEmpty
<1>2. t = [s EXCEPT !.get = s.get + 1, !.slot[s.get] = ZeroVal]
  BY DEF Get
<1>3. t.put = s.put /\ t.get = s.get + 1 /\ t.slot = [s.slot EXCEPT ![s.get] = ZeroVal]
  BY <1>1, <1>2 DEF QueueStorage
<1>4. OffsetsInOrder(t)
  <2>1. t \in QueueStorage
    <3>1. [s.slot EXCEPT ![s.get] = ZeroVal] \in [Slots -> Val]
      BY <1>1, ValAssumption
    <3>2. t = [put |-> s.put, get |-> s.get + 1,
               slot |-> [s.slot EXCEPT ![s.get] = ZeroVal]]
      BY <1>1, <1>2 DEF QueueStorage
    <3>3. s.put \in Offsets
      BY <1>1 DEF QueueStorage
    <3> HIDE DEF t
    <3> QED BY <1>1, <3>1, <3>2, <3>3 DEF QueueStorage
  <2> HIDE DEF t
  <2> QED BY <1>1, <1>3, <2>1 DEF OffsetsInOrder
<1>5. RestIsZero(t)
  <2> HIDE DEF t
  <2> QED BY <1>1, <1>3 DEF RestIsZero, Slots, First
<1>6. Contents(s) # <<>>
  BY EmptyIsEmpty
<1>7. Contents(t) = Tail(Contents(s))
  <2> HIDE DEF t
  <2> DEFINE n == s.put - s.get
             c == Contents(t)
             d == Tail(Contents(s))
  <2>1. c \in Seq(Val) /\ Len(c) = n - 1
    BY <1>1, <1>3, <1>4, ContentsIsSeq
  <2>2. /\ d \in Seq(Val) /\ Len(d) = n - 1
        /\ \A i \in 1..(n - 1) : d[i] = Contents(s)[i + 1]
    BY <1>6, ContentsIsSeq, HeadTailProperties
  <2>3. \A i \in 1..(n - 1) : c[i] = t.slot[s.get + 1 + i - 1]
    <3>1. t.put - t.get = n - 1
      BY <1>1, <1>3
    <3>2. \A i \in 1..(t.put - t.get) : c[i] = t.slot[t.get + i - 1]
      BY <1>4, ContentsIsSeq
    <3> HIDE DEF c, n
    <3> QED BY <3>1, <3>2, <1>3
  <2>4. \A i \in 1..(n - 1) : c[i] = d[i]
    <3> SUFFICES ASSUME NEW i \in 1..(n - 1) PROVE c[i] = d[i]
      OBVIOUS
    <3>1. /\ i + 1 \in 1..n /\ s.get + (i + 1) - 1 # s.get
          /\ s.get + 1 + i - 1 = s.get + (i + 1) - 1
      BY <1>1
    <3>2. /\ s.get + (i + 1) - 1 \in Slots
          /\ Contents(s)[i + 1] = s.slot[s.get + (i + 1) - 1]
      BY <3>1, ContentsIsSeq
    <3>3. c[i] = t.slot[s.get + (i + 1) - 1]
      BY <3>1, <2>3
    <3> QED BY <3>1, <3>2, <3>3, <2>2, <1>1, <1>3
  <2> HIDE DEF c, d, n
  <2>5. c = d
    BY <2>1, <2>2, <2>4, SeqEqual
  <2> QED BY <2>5 DEF c, d
<1>8. Peek(s) = Head(Contents(s)) /\ Peek(s) \in Val
  <2>1. 1 \in 1..(s.put - s.get) /\ s.get + 1 - 1 = s.get
    BY <1>1
  <2>2. Contents(s)[1] = s.slot[s.get]
    BY <2>1, ContentsIsSeq
  <2>3. Head(Contents(s)) = Contents(s)[1]
    BY <1>6, ContentsIsSeq
  <2> QED BY <2>2, <2>3, <1>1 DEF Peek
<1> QED BY <1>4, <1>5, <1>7, <1>8

\* shift() moves no element.
LEMMA ShiftMovesNothing ==
  ASSUME NEW s, OffsetsInOrder(s), RestIsZero(s)
  PROVE  /\ OffsetsInOrder(Shift(s, s)) /\ RestIsZero(Shift(s, s))
         /\ Contents(Shift(s, s)) = Contents(s)
<1> DEFINE t == Shift(s, s)
<1>1. CASE ~IsEmpty(s)
  BY <1>1 DEF Shift
<1>2. CASE IsEmpty(s)
  <2>1. /\ s \in QueueStorage /\ MaxOffset \in Nat /\ First \in Offsets
        /\ s.slot \in [Slots -> Val] /\ s.put \in Nat /\ s.get = s.put
    BY <1>2, MaxOffsetAssumption
       DEF OffsetsInOrder, QueueStorage, Offsets, First, IsEmpty
  <2>2. t.put = First /\ t.get = First /\ t.slot = s.slot /\ t \in QueueStorage
    BY <1>2, <2>1 DEF Shift, QueueStorage
  <2> HIDE DEF t
  <2>3. OffsetsInOrder(t)
    BY <2>2 DEF OffsetsInOrder, First
  <2>4. \A i \in Slots : s.slot[i] = ZeroVal
    BY <2>1 DEF RestIsZero, Slots, First
  <2>5. RestIsZero(t)
    BY <2>2, <2>4 DEF RestIsZero
  <2>6. IsEmpty(t)
    BY <2>2 DEF IsEmpty
  <2>7. Contents(t) = <<>> /\ Contents(s) = <<>>
    BY <1>2, <2>3, <2>6, EmptyIsEmpty
  <2> QED BY <2>3, <2>5, <2>7 DEF t
<1> QED BY <1>1, <1>2

-----------------------------------------------------------------------------
(* The invariant. *)

\* Both views of the storage are in order and zero outside of the queue, and
\* are the same when a transaction starts.
IInv ==
  /\ TypeOK
  /\ RestIsZero(db)
  /\ RestIsZero(jrn)
  /\ calls = 0 => jrn = db

\* With one call in a transaction, a call reads the storage that it writes.
LEMMA OneStorage ==
  ASSUME MaxCalls = 1, IInv, calls < MaxCalls
  PROVE  jrn = db /\ OffsetsInOrder(db) /\ RestIsZero(db)
BY DEF IInv, TypeOK

\* A call that leaves a storage in order keeps the invariant.
LEMMA CallKeeps ==
  ASSUME MaxCalls = 1, IInv, NEW s, OffsetsInOrder(s), RestIsZero(s),
         Call(s), got' \in Val \cup {None}
  PROVE  IInv'
BY DEF IInv, TypeOK, Call

\* The initial states have the invariant.
LEMMA InitInvariant == Init => IInv
BY EmptyQueueIsRight, MaxCallsAssumption DEF Init, JournalInit, IInv, TypeOK

\* Every step keeps the invariant.
LEMMA StepInvariant ==
  ASSUME MaxCalls = 1, IInv, [Next]_vars
  PROVE  IInv'
<1>1. ASSUME NEW v \in Val, PutCall(v) PROVE IInv'
  <2>1. /\ db.put < MaxOffset /\ Call(Put(db, jrn, v)) /\ calls < MaxCalls
        /\ got' \in Val \cup {None}
    BY <1>1 DEF PutCall, Call, IInv, TypeOK
  <2>2. jrn = db /\ OffsetsInOrder(db) /\ RestIsZero(db)
    BY <2>1, OneStorage
  <2> QED BY <2>1, <2>2, PutAppends, CallKeeps
<1>2. ASSUME GetCall PROVE IInv'
  <2>1. Call(Get(db, jrn)) /\ calls < MaxCalls /\ got' = Peek(db)
    BY <1>2 DEF GetCall, Call
  <2>2. jrn = db /\ OffsetsInOrder(db) /\ RestIsZero(db)
    BY <2>1, OneStorage
  <2>3. CASE IsEmpty(db)
    BY <2>1, <2>2, <2>3, CallKeeps DEF Get, Peek
  <2>4. CASE ~IsEmpty(db)
    BY <2>1, <2>2, <2>4, GetTakesFirst, CallKeeps
  <2> QED BY <2>3, <2>4
<1>3. ASSUME ShiftCall PROVE IInv'
  <2>1. Call(Shift(db, jrn)) /\ calls < MaxCalls /\ got' \in Val \cup {None}
    BY <1>3 DEF ShiftCall, Call, IInv, TypeOK
  <2>2. jrn = db /\ OffsetsInOrder(db) /\ RestIsZero(db)
    BY <2>1, OneStorage
  <2> QED BY <2>1, <2>2, ShiftMovesNothing, CallKeeps
<1>4. ASSUME Commit, UNCHANGED got PROVE IInv'
  BY <1>4, MaxCallsAssumption DEF Commit, IInv, TypeOK
<1>5. ASSUME Revert, UNCHANGED got PROVE IInv'
  BY <1>5, MaxCallsAssumption DEF Revert, IInv, TypeOK
<1>6. ASSUME UNCHANGED vars PROVE IInv'
  BY <1>6 DEF vars, IInv, TypeOK
<1> QED BY <1>1, <1>2, <1>3, <1>4, <1>5, <1>6 DEF Next

\* The invariant holds in every reachable state.
THEOREM Invariance == ASSUME MaxCalls = 1 PROVE Spec => []IInv
<1>1. Init => IInv
  BY InitInvariant
<1>2. IInv /\ [Next]_vars => IInv'
  BY StepInvariant
<1> QED BY <1>1, <1>2, PTL DEF Spec

\* The get offset never passes the put offset: size() does not wrap, and no
\* offset leaves its range.
THEOREM TypeCorrect == ASSUME MaxCalls = 1 PROVE Spec => []TypeOK
<1>1. IInv => TypeOK
  BY DEF IInv
<1> QED BY <1>1, Invariance, PTL

\* Every slot outside of the queue is zero in every committed state.
THEOREM NothingIsLeft == ASSUME MaxCalls = 1 PROVE Spec => []ConsumedIsZero
<1>1. IInv => ConsumedIsZero
  BY DEF IInv, ConsumedIsZero
<1> QED BY <1>1, Invariance, PTL

-----------------------------------------------------------------------------
(* The refinement. *)

\* Every step of the storage-backed queue is a step of the plain one, or none.
LEMMA StepRefines ==
  ASSUME MaxCalls = 1, IInv, [Next]_vars
  PROVE  [Promise!Next]_(Promise!vars)
<1>1. ASSUME NEW v \in Val, PutCall(v) PROVE Promise!Next
  <2>1. db.put < MaxOffset /\ Call(Put(db, jrn, v)) /\ UNCHANGED got
    BY <1>1 DEF PutCall
  <2>2. jrn = db /\ OffsetsInOrder(db) /\ RestIsZero(db)
    BY <2>1, OneStorage DEF Call
  <2>3. Contents(jrn') = Append(Contents(jrn), v)
    BY <2>1, <2>2, PutAppends DEF Call
  <2>4. Promise!Put(v)
    BY <2>1, <2>3 DEF Promise!Put, Promise!Call, Call
  <2> QED BY <2>4 DEF Promise!Next
<1>2. ASSUME GetCall PROVE Promise!Next
  <2>1. Call(Get(db, jrn)) /\ got' = Peek(db)
    BY <1>2 DEF GetCall
  <2>2. jrn = db /\ OffsetsInOrder(db) /\ RestIsZero(db)
    BY <2>1, OneStorage DEF Call
  <2>3. CASE IsEmpty(db)
    <3>1. /\ Contents(jrn) = <<>> /\ Contents(jrn') = Contents(jrn)
          /\ got' = None
      BY <2>1, <2>2, <2>3, EmptyIsEmpty DEF Get, Peek, Call
    <3>2. Promise!Get
      BY <2>1, <3>1 DEF Promise!Get, Promise!Call, Call
    <3> QED BY <3>2 DEF Promise!Next
  <2>4. CASE ~IsEmpty(db)
    <3>1. /\ Contents(jrn) # <<>> /\ Contents(jrn') = Tail(Contents(jrn))
          /\ got' = Head(Contents(jrn))
      BY <2>1, <2>2, <2>4, EmptyIsEmpty, GetTakesFirst DEF Call
    <3>2. Promise!Get
      BY <2>1, <3>1 DEF Promise!Get, Promise!Call, Call
    <3> QED BY <3>2 DEF Promise!Next
  <2> QED BY <2>3, <2>4
<1>3. ASSUME ShiftCall PROVE Promise!Next
  <2>1. Call(Shift(db, jrn)) /\ UNCHANGED got
    BY <1>3 DEF ShiftCall
  <2>2. jrn = db /\ OffsetsInOrder(db) /\ RestIsZero(db)
    BY <2>1, OneStorage DEF Call
  <2>3. Contents(jrn') = Contents(jrn)
    BY <2>1, <2>2, ShiftMovesNothing DEF Call
  <2>4. Promise!Shift
    BY <2>1, <2>3 DEF Promise!Shift, Promise!Call, Call
  <2> QED BY <2>4 DEF Promise!Next
<1>4. ASSUME Commit, UNCHANGED got PROVE Promise!Next
  BY <1>4 DEF Commit, Promise!Commit, Promise!Next
<1>5. ASSUME Revert, UNCHANGED got PROVE Promise!Next
  BY <1>5 DEF Revert, Promise!Revert, Promise!Next
<1>6. ASSUME UNCHANGED vars PROVE UNCHANGED Promise!vars
  BY <1>6 DEF vars, Promise!vars
<1> QED BY <1>1, <1>2, <1>3, <1>4, <1>5, <1>6 DEF Next

\* The storage-backed queue implements a first-in first-out queue.
THEOREM Refinement == ASSUME MaxCalls = 1 PROVE Spec => ImplementsFifo
<1>1. Init => Promise!Init
  BY EmptyQueueIsRight DEF Init, JournalInit, Promise!Init, Promise!JournalInit
<1>2. IInv /\ [Next]_vars => [Promise!Next]_(Promise!vars)
  BY StepRefines
<1> QED BY <1>1, <1>2, Invariance, PTL DEF Spec, ImplementsFifo, Promise!Spec
=============================================================================
