----------------------------- MODULE TxJournal -----------------------------
(***************************************************************************)
(* The environment every ArbOS handler runs in: one EVM transaction over a *)
(* revm context.  The context gives a handler two views of storage:        *)
(*   db   the committed state behind the context's Database.  Every read   *)
(*        of crates/arb-arbos/src/storage/storage.rs goes here             *)
(*        (StorageSlot::get, Storage::read_slot, Storage::get_by_key).     *)
(*   jrn  what the storage will be once the journal of the transaction is  *)
(*        committed.  Every write goes here (journal_mut().sstore in       *)
(*        StorageSlot::set, Storage::write_slot, Storage::set_by_key).     *)
(* Both hold a value of the component's storage type, so a handler is an   *)
(* operator from the view it reads and the view it writes to the written   *)
(* view.  Nothing else in the repository runs transactions: how they begin *)
(* and end is revm's part and is external here.                            *)
(***************************************************************************)
EXTENDS Naturals

\* The number of handler calls that one transaction makes.  A bound on the
\* environment: the crate puts no limit on it.
CONSTANT MaxCalls

ASSUME MaxCallsAssumption == MaxCalls \in Nat \ {0}

VARIABLES
  db,      \* the committed storage, all that reads see
  jrn,     \* the journaled storage, all that writes change
  calls    \* handler calls made by the transaction under way

txVars == <<db, jrn, calls>>

JournalInit(s) ==
  /\ db = s
  /\ jrn = s
  /\ calls = 0

\* A handler call that leaves storage s in the journal.
Call(s) ==
  /\ calls < MaxCalls
  /\ calls' = calls + 1
  /\ jrn' = s
  /\ UNCHANGED db

\* The transaction succeeds and revm writes its journal to the database.
Commit ==
  /\ calls > 0
  /\ db' = jrn
  /\ calls' = 0
  /\ UNCHANGED jrn

\* The transaction reverts, runs out of gas, or a handler panics: the journal
\* is dropped.  A call that panics is therefore no action of its own.
Revert ==
  /\ calls > 0
  /\ jrn' = db
  /\ calls' = 0
  /\ UNCHANGED db

\* No transaction is under way.
Idle == calls = 0
=============================================================================
