---------------------------- MODULE StorageSlots ----------------------------
(***************************************************************************)
(* crates/arb-arbos/src/storage/storage.rs: one cell of storage of one of  *)
(* the storage-backed types, as the word of its slot, or, for a            *)
(* StorageBackedBytes, as the words of its slots, with the gas that the    *)
(* accesses burn and the guard against a read-only burner.  A read goes to *)
(* the committed words, a write to the journaled ones (see TxJournal).  A  *)
(* call that panics, on a word too wide for the type or by the guard,      *)
(* leaves nothing behind but a revert.                                     *)
(***************************************************************************)
EXTENDS TxJournal, Integers, Sequences

CONSTANTS
  U16, U24, U32, U64,  \* the number of values of each width
  AddrSpace,           \* the number of addresses
  Words,               \* the number of values of a slot
  ChunkSize,           \* the bytes in a word; 32 in the code
  Byte,                \* the bytes tried, with 0
  MaxLen,              \* bound on the length of a string of bytes
  ReadCost, WriteCost, WriteZeroCost,  \* gas of an access
  MaxGas               \* the largest u64 that gas is counted to

ASSUME WidthAssumption ==
  /\ {U16, U24, U32, U64, AddrSpace, Words} \subseteq Nat \ {0}
  /\ U16 <= U24 /\ U24 <= U32 /\ U32 <= U64
  /\ U64 <= AddrSpace /\ 2 * AddrSpace <= Words
  /\ U64 % 2 = 0 /\ Words % 2 = 0
ASSUME BytesAssumption == ChunkSize \in Nat \ {0} /\ MaxLen \in Nat /\ 0 \in Byte
ASSUME GasAssumption ==
  /\ {ReadCost, WriteCost, WriteZeroCost} \subseteq Nat \ {0}
  /\ MaxGas \in Nat

VARIABLES
  kind,   \* the type the cell was opened as; it never changes
  gas,    \* the gas burnt by the burners of the accesses, together
  op      \* the last call and what it was given

vars == <<txVars, kind, gas, op>>

-----------------------------------------------------------------------------
(* The types of one slot and their words.  Bips is i64 and UBips u64; a    *)
(* "key" is a word written by key, a "raw" one is written around the guard *)
(* as well.                                                                *)

Unsigned ==
  [u16 |-> U16, u24 |-> U24, u32 |-> U32, u64 |-> U64, uint |-> Words,
   addr |-> AddrSpace, key |-> Words, raw |-> Words]

Signed == [i64 |-> U64, int |-> Words]

Kind == DOMAIN Unsigned \cup DOMAIN Signed \cup {"addrOrNil", "bytes"}

\* StorageBackedAddressOrNil::NIL, 1 << 255, stands for None.
Nil == Words \div 2

None == -1

Value(k) ==
  CASE k \in DOMAIN Unsigned -> 0..(Unsigned[k] - 1)
    [] k \in DOMAIN Signed -> -(Signed[k] \div 2)..((Signed[k] \div 2) - 1)
    [] k = "addrOrNil" -> (0..(AddrSpace - 1)) \cup {None}
    [] k = "bytes" -> {}

\* A negative i64 is extended over the whole word: a bug to catch.
EncodeExtends(k, v) ==
  CASE k \in DOMAIN Signed -> v % Words
    [] k = "addrOrNil" /\ v = None -> Nil
    [] OTHER -> v

\* A negative number is stored as its two's complement of its own width.
Encode(k, v) ==
  CASE k \in DOMAIN Signed -> v % Signed[k]
    [] k = "addrOrNil" /\ v = None -> Nil
    [] OTHER -> v

DecodePanics(k, word) ==
  \/ k \in {"u16", "u24", "u32", "u64"} /\ word >= Unsigned[k]
  \/ k = "i64" /\ word >= U64

\* None reads as the address in its low bytes: a bug to catch.
DecodeNoNil(k, word) ==
  CASE k \in DOMAIN Signed /\ word >= Signed[k] \div 2 -> word - Signed[k]
    [] k \in {"addr", "addrOrNil"} -> word % AddrSpace
    [] OTHER -> word

Decode(k, word) ==
  CASE k \in DOMAIN Signed /\ word >= Signed[k] \div 2 -> word - Signed[k]
    [] k = "addrOrNil" /\ word = Nil -> None
    [] k = "addr" \/ (k = "addrOrNil" /\ word # Nil) -> word % AddrSpace
    [] OTHER -> word

-----------------------------------------------------------------------------
(* Strings of bytes: the length in slot 0, full words from slot 1 on, and  *)
(* what is left right-aligned in the last word.                            *)

Strings == UNION {[1..n -> Byte] : n \in 0..MaxLen}

ChunksOf(len) == (len + ChunkSize - 1) \div ChunkSize

Chunks == 1..ChunksOf(MaxLen)

Chunk == [1..ChunkSize -> Byte]

ZeroChunk == [j \in 1..ChunkSize |-> 0]

\* The number of bytes that word i of a string of that length does not use.
Padding(len, i) == IF i * ChunkSize > len THEN i * ChunkSize - len ELSE 0

WordOf(b, i) ==
  [j \in 1..ChunkSize |->
     IF j > Padding(Len(b), i)
     THEN b[(i - 1) * ChunkSize + j - Padding(Len(b), i)]
     ELSE 0]

GetBytes(s) ==
  [n \in 1..s.len |->
     LET i == ChunksOf(n)
     IN s.chunk[i][n - (i - 1) * ChunkSize + Padding(s.len, i)]]

\* Only the full words are cleared: a bug to catch.
ClearFullChunks(r, w) ==
  [w EXCEPT !.len = 0,
            !.chunk = [i \in Chunks |->
                         IF i <= r.len \div ChunkSize THEN ZeroChunk ELSE @[i]]]

ClearBytes(r, w) ==
  [w EXCEPT !.len = 0,
            !.chunk = [i \in Chunks |->
                         IF i <= ChunksOf(r.len) THEN ZeroChunk ELSE @[i]]]

SetBytes(r, w, b) ==
  [ClearBytes(r, w) EXCEPT
     !.len = Len(b),
     !.chunk = [i \in Chunks |->
                  IF i <= ChunksOf(Len(b)) THEN WordOf(b, i) ELSE @[i]]]

Storage == [slot: 0..(Words - 1), len: 0..MaxLen, chunk: [Chunks -> Chunk]]

Empty == [slot |-> 0, len |-> 0, chunk |-> [i \in Chunks |-> ZeroChunk]]

-----------------------------------------------------------------------------
(* Accesses.  ro tells whether the burner of the caller is read-only.      *)

Named(name) == [name |-> name, v |-> 0, b |-> <<>>]

\* StorageSlot::set and Storage::set panic before they burn or write.
Guard(ro) == ~ro

Burnt(g, cost) == IF g + cost > MaxGas THEN MaxGas ELSE g + cost

CostOf(word) == IF word = 0 THEN WriteZeroCost ELSE WriteCost

\* The writes of a slot that go through the guard, after reads of that cost.
SlotWrite(ro, reads, word) ==
  /\ Guard(ro)
  /\ Call([jrn EXCEPT !.slot = word])
  /\ gas' = Burnt(Burnt(gas, reads), CostOf(word))

\* A read burns gas as well, whoever the burner is.
GetCall ==
  /\ kind \notin {"bytes", "key", "raw"}
  /\ ~DecodePanics(kind, db.slot)
  /\ Call(jrn)
  /\ gas' = Burnt(gas, ReadCost)
  /\ op' = Named("get")

\* Every set, set_checked and set_saturating_with_warning, the clear of u32 and
\* u64, set_by_uint of an int, and the set family, clear and swap by key.
SetCall(ro, v) ==
  /\ SlotWrite(ro, 0, Encode(kind, v))
  /\ op' = [Named("set") EXCEPT !.v = v]

SetPreVersion7Call(ro, v) ==
  /\ kind = "int"
  /\ SlotWrite(ro, 0, IF v < 0 THEN -v ELSE v)
  /\ op' = [Named("magnitude") EXCEPT !.v = v]

IncrementCall(ro) ==
  /\ kind = "u64"
  /\ ~DecodePanics(kind, db.slot)
  /\ db.slot # U64 - 1
  /\ SlotWrite(ro, ReadCost, db.slot + 1)
  /\ op' = Named("increment")

DecrementCall(ro) ==
  /\ kind = "u64"
  /\ ~DecodePanics(kind, db.slot)
  /\ db.slot # 0
  /\ SlotWrite(ro, ReadCost, db.slot - 1)
  /\ op' = Named("decrement")

\* set_by_key, clear_by_key and write_slot ask no burner.
RawCall(v) ==
  /\ kind = "raw"
  /\ Call([jrn EXCEPT !.slot = v])
  /\ op' = [Named("set") EXCEPT !.v = v]
  /\ UNCHANGED gas

\* StorageBackedBytes::set, whose words are written by write_slot.
SetBytesCall(b) ==
  /\ kind = "bytes"
  /\ Call(SetBytes(db, jrn, b))
  /\ op' = [Named("bytes") EXCEPT !.b = b]
  /\ UNCHANGED gas

ClearBytesCall ==
  /\ kind = "bytes"
  /\ Call(ClearBytes(db, jrn))
  /\ op' = Named("bytes")
  /\ UNCHANGED gas

CommitTx == Commit /\ op' = Named("none") /\ UNCHANGED gas

\* The gas that was burnt stays burnt.
RevertTx == Revert /\ op' = Named("none") /\ UNCHANGED gas

Init ==
  /\ JournalInit(Empty)
  /\ kind \in Kind
  /\ gas = 0
  /\ op = Named("none")

Next ==
  /\ \/ GetCall
     \/ \E ro \in BOOLEAN :
          \/ \E v \in Value(kind) : SetCall(ro, v) \/ SetPreVersion7Call(ro, v)
          \/ IncrementCall(ro)
          \/ DecrementCall(ro)
     \/ \E v \in Value(kind) : RawCall(v)
     \/ \E b \in Strings : SetBytesCall(b)
     \/ ClearBytesCall
     \/ CommitTx
     \/ RevertTx
  /\ UNCHANGED kind

Spec == Init /\ [][Next]_vars

-----------------------------------------------------------------------------
(* Properties. *)

\* No write leaves a word that the reads of its type panic on.
TypeOK ==
  /\ kind \in Kind
  /\ gas \in 0..MaxGas
  /\ \A s \in {db, jrn} : s \in Storage /\ ~DecodePanics(kind, s.slot)
  /\ calls \in 0..MaxCalls

\* A cell is what its type says: each call has the effect on the value, or on
\* the string, that it has on a cell without words.  Sign, None and the padding
\* of the last word survive the way to storage and back, an increment starts
\* from the committed value, and words that an earlier string left behind are
\* not read (the get of each storage-backed type).
ValueOf(s) == [val |-> Decode(kind, s.slot), bytes |-> GetBytes(s)]

Promise == INSTANCE TypedStore WITH
  db <- ValueOf(db), jrn <- ValueOf(jrn)

ImplementsTypedStore == Promise!Spec

\* A transaction that makes one call on a string leaves exactly the words that
\* the string has on fresh storage, if that is what it found: clear_bytes goes
\* by the committed length, so two strings written in one transaction may leave
\* words of the longer one behind (Storage::set_bytes).
Canonical(s) == s = SetBytes(Empty, [Empty EXCEPT !.slot = s.slot], GetBytes(s))

LeavesNoRest ==
  [][calls = 1 /\ calls' = 0 /\ Canonical(db) => Canonical(db')]_vars
=============================================================================
