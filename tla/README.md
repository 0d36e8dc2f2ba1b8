# A TLA+ model of the ArbOS state in arb-reth

The repository ports ArbOS, the operating-system layer of Arbitrum chains, from
Go to Rust on top of reth and revm. About eleven thousand lines of Rust files are
for the larger part the Go original, kept in comments as the specification; what
has been ported are handlers over the storage of one EVM account, the storage layer
under them, a shared hash cache, multi-dimensional gas, and the precompile side of
the EVM. This directory models them as they are ported, checks them with TLC on
small instances and proves what matters most about them with TLAPS for every
instance.

- [The system](#the-system)
- [One fact that everything turns on](#one-fact-that-everything-turns-on)
- [Modules](#modules)
- [Runs](#runs)
- [Findings](#findings)
- [Theorems](#theorems)
- [What is not modelled](#what-is-not-modelled)
- [Plan](#plan)

## The system

| Component | State | Operations | Uses | What makes it correct |
|---|---|---|---|---|
| Storage access, `arb-arbos/src/storage/storage.rs` | slots of the ArbOS account, at keys hashed from the path of a sub-storage | `get`/`set` of slots, typed slots (u64, I256, U256, bips, address, bytes), sub-storages | revm `Database` (reads) and `Journal` (writes), burner | what is read is what was written; widths; no write of a read-only caller |
| Key hash cache, same file | process-wide LRU behind a mutex, flag of the warning | look up or insert the hash of a key, from any thread | none | a key has one slot and no other key has it; the mutex is always released; the warning comes once |
| Address set, `address_set.rs` | size, list of slots, mapping address to slot | add, remove, clear, clear_list, rectify_mapping, is_member, all_members, get_any_member | storage | list and mapping are inverse; behaves as a set, before and after ArbOS 11 |
| Queue, `storage/queue.rs` | put and get offset, slots from 2 | put, get, peek, shift, for_each | storage | first in, first out; storage is given back |
| Sub-storage vector, `storage/vector.rs` | length, sub-storages by index | push, pop, at | storage | length counts the elements |
| Batch poster table, `l1pricing/batch_poster.rs` | total owed, balance and recipient of each poster, an address set of posters | add_poster, open_poster, set_funds_due, set_pay_to, get_funds_due_list | address set, storage | the total is the sum; who is owed is listed |
| L1 pricing, `l1pricing/l1pricing.rs` | fees, units, price per unit, rewards due, last surplus and time, parameters | fee and unit collection, `update_for_batch_poster_spending`, setters | batch poster table, pool account (journal) | nobody is overpaid, nothing earned is lost, books match the pool, time advances |
| L1 pricing before ArbOS 10, `l1pricing_old_versions.rs` | the same | the two older updates | the same | the same |
| L2 pricing, `l2pricing/` | speed limit, backlog, base fee and the other parameters, two vectors of gas constraints, fees by kind of resource | constraint add/clear/migrate, setters, commit of fees | vector, storage | a migrated constraint is computed right, and what a migration loses is known; clearing leaves nothing behind the length |
| Multi-dimensional gas, `arbitrum/src/multigas/resources.rs` | value type: gas per resource, total, refund | constructors, checked and saturating arithmetic | none | total and parts agree; a check fails exactly on overflow |
| Burner, `arb-arbos/src/burn.rs` | gas burnt, read-only flag | burn, burned | multigas | what was charged is what it holds |
| ArbSys, `arb-revm/.../arbsys.rs` | none | aliasing, block hash window, errors | evm context | alias is invertible, window is exact |
| EVM glue, `arb-revm/src/{evm,precompiles,spec}.rs` | spec and set of precompiles | choose precompiles, follow a change of spec | revm | a spec has its precompiles, and they are warm |
| ArbOS state, retryables, tracer utilities, `arb-reth` crate | (structs and comments) | none in Rust | | |

Components interact by calls only. One handler runs at a time, inside one EVM
transaction. The one thing that threads share is the hash cache, through which every
handler finds its slots. There are no messages, and the repository itself persists
nothing. What is hard is the order of calls over a long life of the state, what a
transaction's revert undoes, widths and saturation, the interleaving of threads in
the cache, and above all what a read sees of the writes before it. `PROJECT.json` lists these hazards line by line.

## One fact that everything turns on

`StorageSlot::get` (`storage.rs:477`, "Reads the raw slot value from the backing
database"), `get_by_key` and `read_slot` read the *committed* state of the
`Database`. `StorageSlot::set`, `set_by_key` and `write_slot` write the *journal*
(`sstore`). A handler therefore does not see what it, or an earlier call of the
same transaction, has written. Balances of accounts are different: they are read
from the journal.

Every module about storage is built on `TxJournal`, which keeps the two views apart: `db`, which
reads see, and `jrn`, which writes change. A handler is an operator of `r` (the
storage read) and `w` (the storage written). Within one handler the same
distinction decides what a read after a write returns: `Settle` in `L1Pricing`
reads the poster's balance in `r` after crediting it in `w`, because the code does.

A transaction ends in `Commit` (`db' = jrn`) or `Revert` (`jrn' = db`). The code
reports some errors by `panic!` or `assert!`; a call that panics drops the journal,
so it is a `Revert` and not an action of its own, and the guard of the action
excludes it (`RemovePanics`, `RectifyPanics`, `UpdatePanics`). `pop()` of an empty
vector panics too, but the loops that call it run as often as the vector is long.

`MaxCalls` bounds the state-changing calls of one transaction. The runs and the
theorems about handlers take `MaxCalls = 1`: they show what the handlers keep when
each is called on a clean journal. It is a real restriction and not a convenience:
with `MaxCalls = 2` TLC finds the total of `BatchPosters` drift from the sum of the
balances, and the finding shows the same for a single handler that reads what it
wrote. `storage_slots` takes two calls: a cell that is read as committed and written
as journaled is what it promises, whatever the calls.

## Modules

| Module | Models | Correspondence |
|---|---|---|
| `TxJournal` | the environment of a handler | `Call` is one handler call; `Commit` and `Revert` are revm's |
| `AddressSetStorage` | `address_set.rs` | record of `size`, `slot` (slots 1..`Cap`) and `at` (the `by_address` sub-storage); one operator per method |
| `AddressSet` | an address set from ArbOS 11 on | one action per mutating method; refines `MemberSet` |
| `MemberSet` | what an address set promises | a plain set under a journal that is read as written |
| `AddressSetUpgrade` | an address set across ArbOS 11 | `remove` of version 10, which does not remap; `clear_list` at the upgrade; `rectify_mapping` after it |
| `Queue` | `storage/queue.rs` | `put`, `get` as offsets, `slot`; `got` is the result of the last `get` |
| `Fifo` | what a queue promises | a sequence under a journal |
| `BatchPosterStorage` | `batch_poster.rs` | extends `AddressSetStorage` for the posters; `total`, `due`, `payTo`; I256 arithmetic saturates at `MaxI256` |
| `BatchPosters` | a batch poster table | one action per mutating method |
| `L1Pricing` | `l1pricing.rs` from ArbOS 10 on | extends `BatchPosterStorage`; the record has the slots, the balance `pool` of the funds pool account, and two audit fields |
| `L1PricingOld` | `l1pricing_old_versions.rs`, and the life of a chain across versions | extends `L1Pricing`; `FirstUpdate` before ArbOS 2, `PoolUpdate` before ArbOS 10, `Update` after; `version` selects (`UpdateOf`), `Upgrade` moves it, `genesis` remembers where the chain started |
| `ConstraintStorage` | `vector.rs`, `gas_constraint.rs`, `multi_gas_constraint.rs` | a vector is a `length` and the sub-storages `at` each index, in use or not |
| `L2Pricing` | `l2pricing.rs`, `multi_gas_fees.rs` | extends `ConstraintStorage`; one action per mutating method, of the state and of its constraints and fees |
| `StorageSlots` | `storage.rs`: one cell of any storage-backed type, as the word of its slot, or a string as its words | `Encode` and `Decode` are the conversions of each type; one action per family of writes; refines `TypedStore` |
| `TypedStore` | what a storage-backed type promises | a cell of plain values and a string, under a journal |
| `HashCache` | `Storage::cached_keccak` and `map_address`, by any number of threads | `pc` is where a thread is; a step is what it does between two points at which others can act |
| `MultiGas` | `multigas/resources.rs` | one operator per method, `...Fails` for the flag of a checked one |
| `Burner` | `burn.rs`, and a value computed with `MultiGas` | one action per method and per charge; `charged` is the sum without a width |
| `ArbSys` | `arbsys.rs` | `Run` from a call to its answer; `ApplyAlias`, `UndoAlias` byte by byte |
| `ArbEvm` | `evm.rs`, `precompiles.rs`, `spec.rs`, and who calls them | a provider of precompiles whose configuration changes between transactions; calls of ArbSys in them |
| `MC*` | instances for TLC | model values and symmetry sets only |
| `TableLemmas`, `*Proofs` | theorems | see [Theorems](#theorems) |

Notes on abstraction:

- The zero address and an empty slot read the same in the code, so `ZeroAddr` is
  one of the addresses and the value of an empty slot.
- `Signed` is the conversion of a U256 to an I256, which takes what does not fit for
  the largest I256.
- In `L1PricingOld` the upgrades are commented Go of `arbosstate.rs` and marked
  external: ArbOS 2 resets the last surplus, 3 starts the cost cap, 10 takes the
  balance of the pool for the stored fees. They run in a transaction of their own.
- `PopAll` and `FromSingles` are the loops of `clear_*_constraints` and of the migration
  to multi-gas constraints, step by step. Every `pop()` and every `push()` of them reads
  the same committed length: of several constraints the last one is cleared and the
  length goes down by one; of several migrated ones the last one arrives.
- The setters of a constraint take an index below the committed length. That is a
  precondition on the caller: `open_gas_constraint_at()` and `SubStorageVector::at()` do
  not check it (`vector.rs:73`). It bounds what the theorems about constraints say.
- The fees of `MultiGasFees` are modelled with their two writing methods, but no property
  is stated of them: `commit_next_to_current` is a copy, of the committed fees.
- The parameters of the L2 price are a function of their names; which names there
  are matters to the migration alone, which reads four of them.
- The call of `clear_list` by the upgrade exists only in the commented Go of
  `arbosstate.rs`; `Upgrade` is marked external.
- `L1Pricing` is the whole of `update_for_batch_poster_spending` in the order of the
  code, with its early return for invalid times after the poster was opened. The
  fields `owed` and `rewardsOwed` are an auditor's ledger: what was credited or
  earned less what was transferred. They are in the record so that a revert undoes
  them; the code has no such state, and no guard of the code's reads them (they
  appear in the guard that bounds the model, `MaxOwed`).
- U256 products that stay far below the width (`Credit`) are not cut; the product
  of units and time in `Allocated` is cut at the width of u64, as in the code.
- The modules of handlers leave out what `StorageSlots` models: the gas of accesses,
  the guard, and the words of values. A write that panics there is a `Revert` here.
- A slot of `StorageSlots` has few values (`Words`), with the widths of the types in
  their order (`U16` to `Words`), so that each has words it cannot read. Every
  `set`, `set_checked` and `set_saturating_with_warning` of a type is one action: the
  caller's conversion to the type is the input. The raw writes, which ask no burner,
  are an action of their own.
- In `HashCache` the hash of an input is a record of it, so that no two inputs have one
  hash. Steps inside the mutex are separate where they show outside of it (the
  flag, the panic of `eprintln!`); `get` and `push` of the LRU are one step each.
  `used`, `warned` and `lookups` are no state of the code: the record of all inputs,
  the number of warnings, and the bound.
- `clamped`, `charged`, `sound` and `burns` of `Burner` are the checker's too.
- `SystemBurner` counts what it is asked to burn, read-only or not: reads cost a
  read-only caller of `StorageSlots` too.
- The versions of revm's side are the three `ArbSpecId`s; that revm's handler calls
  `set_spec` before a transaction and warms what it is told is external. The journal
  that an EVM starts with may have been warmed by another (`Journals`), and
  precompiles may be put in place at any time between transactions
  (`with_precompiles`, or `into_context` and `new`). `replaced` is the checker's: that
  this was done over a warm journal, which has not been told of a change since.
- Whether the context finds the hash of a block is an input (`found`).

Definitions that only serve to show that a property can fail (a plausible bug in
the definition after them) are commented "a bug to catch" and are used nowhere in
the specifications.

## Runs

Passing runs:

| Run | Bounds | Distinct states | Shows |
|---|---|---|---|
| `address_set` | 4 addresses with the zero address, capacity 4 | 426 | `Consistent`, refinement of `MemberSet` |
| `address_set_upgrade` | 4 addresses, three of them symmetric, capacity 4, versions 10 and 11 | about 52 500 | what still holds when the mapping was damaged before ArbOS 11: `ListEndsAtSize`, `OnlyAddAdds` |
| `queue` | 3 values with zero, offsets 2 to 6 | 1 200 | `ConsumedIsZero`, refinement of `Fifo` |
| `batch_posters` | 3 posters, two of them symmetric, balances -1 to 2 in a width where the sum does not saturate | about 94 900 | `TotalIsSum`, `DueIsListed`, `NewPosterIsOwedNothing` |
| `l1_pricing` | 2 posters, times 0 to 2, fees to 3, units to 2, with and without cost cap | about 217 600 | `TotalIsSum`, `NeverOverpaid`, `RewardsKept`, `PoolIsBooked`, `TimeAdvances` |
| `l1_pricing_old` | 2 posters, versions 1, 3, 7 and 10, chains that start with 1 or 3, times 0 to 3, the last of them the largest u64 | about 2 777 000 | `OldTypeOK`, `TotalIsSumFrom2`, `PoolIsBookedFrom10`, `TimeAdvancesAlways` |
| `l2_pricing` | 2 kinds of resources, vectors of at most 2, u64 to 3, u32 to 2 | about 1 604 000 | `NothingIsLeft`, `MaxWeightIsLargest`, `LegacyBacklogIsExact`, and that a migration is whole for one constraint only, `MigratesAtMostOne` |
| `storage_slots` | every type, words of 16 values, strings of up to two words of two bytes, two calls in a transaction | about 45 900 | refinement of `TypedStore`, `LeavesNoRest` |
| `hash_cache` | 2 threads with 3 lookups each, 5 keys in 4 inputs, three of them cached, capacity 2 | about 119 800 | `SlotsAreDistinct`, `CacheIsMostRecent`, `WarnsOnceWhenFull`, and that `LookupsEnd` |
| `burner` | 2 kinds, gas to 2, 3 charges | about 124 500 | `TotalIsSum`, `ChecksAreExact`, `BurnedCountsAllKinds` |
| `arb_evm` | 3 specs, blocks to 4 with a window of 3, any journal at the start, hashes found or not, depth to 3, addresses of 3 bytes of 3 values | about 18 800 | `PrecompilesFollowSpec`, `HashesOfWindow`, `AliasIsUndone` |

Type invariants are in the runs of `l1_pricing_old` (`OldTypeOK`), `l2_pricing`,
`storage_slots`, `burner` and `arb_evm`. Those of the other modules are theorems without
a run, as are `SizeCountsMembers`, `RemoveRemoves`, and what `l1_pricing` checks of the
rewards and payments on the chains of `l1_pricing_old`.

Why the bounds are enough. Removing moves the last element of a list into a hole:
three members are needed to tell first, middle and last apart, and four addresses
leave one outside. The queue wraps to its start by `shift` after being filled to
the end of its slots. Two posters are enough for one's payment to affect the
other; three for lists. Times 0 to 2 include the first update (time 0 means "no
update yet"), an update at, before and after the last one, and one that allocates
half of the units. Fees of 3 in a pool of at most 3 cover rewards fully, in part
and not at all. In `l1_pricing` and `batch_posters` integers are wide enough that
no balance saturates. `l1_pricing_old` has a version of each of the three reports
and of each change between them (the cost cap from 3 on, signed surpluses from 7
on) and chains with and without the first report; one amount, one spending and one
reward keep it small, the interplay of several being that of `l1_pricing`. In
`l2_pricing` vectors of two show what a loop does beyond its first step, a backlog
of 3 meets tolerated ones of 2 and of 4, which is wider than the u64 of the
instance, and a window of 3 is wider than its u32. In `storage_slots` strings of 0
to 4 bytes have a last word that is full, in part or missing, and shrink by a word;
gas reaches its limit. Three cached inputs meet a cache of two, so that one thread
evicts what the other just put in or is about to look up; with three lookups each,
both threads can come to the warning. In `burner` gas of 2 overflows in one kind and
in the total alone, and charges go on after both. In `arb_evm` a window of 3 of 5
blocks has both of its ends, and three bytes carry and borrow past one that is
neither the first nor the last.

Deadlock is checked in every run but `hash_cache`: in the modules of storage a
transaction can always start, commit or revert, in `burner` a value can always be
computed, and in `arb_evm` a call can be left or, outside of all, an EVM be made. In `hash_cache` the threads may have done all their lookups
(`MaxLookups`), and that is where the instance really stops.

Fairness is assumed in `hash_cache` alone, for `LookupsEnd`: a thread that is inside
`cached_keccak` takes its next step when it can (weak fairness of `Step(t)`), which is
no more than that the operating system runs it. Nothing is assumed of callers, who
need not start a lookup or go on after one. The mutex of Rust's standard library
does not promise that a waiting thread gets it before another gets it twice; that
lookups end does not rest on such a promise, because each thread makes at most
`MaxLookups` of them. With callers that keep coming a thread might starve, and the
code does not exclude it. Nothing else in the repository schedules calls, commits
transactions or retries: when a handler runs is up to a caller that does not exist
yet, so no fairness assumption about handlers has a justification.

## Findings

The run below has one property, taken from a doc comment of the repository, that
the code as it is does not keep.

| Run | Property | What happens |
|---|---|---|
| `l1_pricing_credit` | `CreditKept` | the poster's balance is read after its credit was written and found without it; the payment overwrites the credit |

It comes from the fact above and needs one call in a transaction only. Other facts of
the same origin, which the definitions of the modules show and which have no run of
their own:

- `rectify_mapping` clears the entry, then its `add` still reads it as committed and
  adds nothing: the address is no member any more.
- The second transfer of an update reads the stored fees without the first
  (`l1pricing.rs:925`), so that the fees run ahead of the pool. `PoolIsBooked` holds all
  the same: it says that what is in the pool is booked, not the reverse.
- The first report, before ArbOS 2, sets several balances, each moving the total from
  its committed value (`l1pricing_old_versions.rs:156`); all moves but the last are
  lost. `TotalIsSumFrom2` therefore leaves out the chains that start before ArbOS 2.
- `set_multi_gas_constraints_from_single_gas_constraints` pushes every constraint behind
  the same committed length; of two one arrives. Where there were multi-gas
  constraints, all but the last of them stay. The Go code, kept in comments
  (`l2pricing.rs:518`), migrates all and keeps none; `MigratesAtMostOne` states exactly
  when the Rust code does.
- Two `add` of one transaction take the same slot, a `get` after a `put` finds the
  queue empty, two `set_funds_due` lose one of two moves of the total.
- Two strings written in one transaction may leave words of the longer one behind.
- The surplus by which the price moves leaves out the credits of the same update.
- `clear_gas_constraints` and `clear_multi_gas_constraints` clear the last constraint
  only, and a migration appends to what they leave: `set_gas_constraints_from_legacy`
  leaves old constraints in front of the new one, after a cleared one.

And of other sorts:

- `get_any_member` takes the zero address in slot 1 for an empty set.
- `clear` of an address set finds members by the list alone; after `clear_list` or a
  `remove` before ArbOS 11 some are not on it and stay members.
- `set_funds_due` saturates the sum before it subtracts the old balance: with the
  largest balance set twice the total falls to zero.
- After a saturating sum has lost gas, the total of a `MultiGas` is no longer the sum of
  its parts. `with` and the checked methods return their receiver unchanged on
  overflow, and the caller learns it from a flag only.
- `single_gas` is zero where the refund is more than the total (`resources.rs:272`,
  `saturating_sub`), which `with_refund` and a burner's charges can bring about; the
  repository's own specification of it, the Go code in `resources.rs:609`, is `return
  z.total - z.refund`, which wraps. `BurnedCountsAllKinds` is stated for refunds within the
  total, where the two agree.
- `arb_block_hash` answers a block of the window whose hash the context fails to find with
  success and the zero hash (`arbsys.rs:176`, `unwrap_or`), which `HashesOfWindow` states
  as a case of its own.
- After `with_precompiles`, or a new EVM over the context of another, `set_spec` finds its
  spec unchanged and returns `false` (`precompiles.rs:75`), so that addresses of the set
  before stay warm. Until a change of the configuration is told, only the precompiles
  themselves are right (`PrecompilesFollowSpec`, by `replaced`).
- The raw writes of `Storage` (`write_slot`, `set_by_key` and `clear_by_key`,
  `storage.rs:1445`) ask no burner: they are made for a read-only caller too, and cost
  nothing. A burner that counts past a caller's gas does not
  refuse an access either.
- A panic of `eprintln!` in the cache poisons its mutex for all threads.
- The precompiles of the three specs are Ethereum's: `ArbPrecompiles` never registers
  ArbSys, and the instruction table of an EVM does not follow `set_spec`.

## Theorems

All theorems are of the form `Spec => ...`, under the environment that the table
names, and hold for every set of addresses, kinds or values, every capacity, every
width and every set of inputs. Every safety property of a passing run is proved here.

| Module | Theorems | Environment |
|---|---|---|
| `TableProofs` | `TypeCorrect`, `ConsistencyHolds`, `SizeIsRight`, `Refinement` (of `MemberSet`), of `AddressSet` | one call in a transaction, versions from 11 on |
| | `ListAlwaysEndsAtSize`, `OnlyAddCallsAdd`, `RemoveCallsRemove`, of `AddressSetUpgrade` | one call in a transaction |
| | `PosterTypeCorrect`, `DueAreListed`, `NewPostersAreOwedNothing`, of `BatchPosters` | one call in a transaction |
| | `TotalIsTheSum`, of `BatchPosters` | the same, and `BalancesFit`: the balances of all addresses and one more fit an I256 |
| `QueueProofs` | `TypeCorrect`, `NothingIsLeft`, `Refinement` (of `Fifo`) | one call in a transaction |
| `L2PricingProofs` | `TypeCorrect`, `RestStaysClear`, `MaximaAreRight`, `LegacyBacklogsAreExact`, `MigrationsAreOfOne` | one call in a transaction |
| `L1PricingProofs` | `TypeCorrect`, `NeverPaidAhead`, `RewardsAreKept`, `AllIsBooked`, `TimeNeverGoesBack` | `OneCallInWidth`: one call in a transaction; what a recipient has to get fits an I256 |
| | `OldTypeCorrect`, `NeverPaidAheadAtAnyVersion`, `RewardsAreKeptAtAnyVersion`, `AllIsBookedFrom10`, `TimeNeverGoesBackAtAnyVersion`, of `L1PricingOld` | the same; chains that start with any version |
| | `TotalIsTheSum`; `TotalIsTheSumFrom2` of `L1PricingOld` | the same, and `TotalFits`: what all recipients have to get and one more fits an I256 |
| `StorageProofs` | `CellTypeCorrect`, `OneCallCleansUp`, `CellRefinement` (of `TypedStore`), of `StorageSlots` | none: transactions of any number of calls |
| | `LookupsTypeCorrect`, `SlotsDiffer`, `MostRecentAreCached`, `WarningIsOnce`, of `HashCache` | none |
| `BurnerProofs` | `BurnerTypeCorrect` | none |
| | `TotalIsSumOfParts`, `ChecksRefuseExactly`, `BurnedIsExact` | `GivenAreSums`: the values passed by others have not lost gas |
| `ArbEvmProofs` | `EvmTypeCorrect`, `PrecompilesAreThoseConfigured`, `HashesAreOfTheWindow`, `AliasesAreUndone` | none |

`TableLemmas` holds what both `TableProofs` and `L1PricingProofs` need of the handlers
of an address set and of the table. The environments are needed: with two calls the
second reads storage without the first, before version 11 `remove` leaves a mapping
behind, and a total that saturates is no sum. They are true of the constants of the
runs: `BalancesFit` of three posters with balances from -1 to 2 in a width of 12, `TotalFits` of two posters that have
to get up to 2 in a width of 60. Constants are otherwise only assumed to be what
their modules say (`...Assumption`), which TLC evaluates in every run.

The argument is the same in each module about handlers. The inductive invariant `IInv` says that
both views of the storage are in order and that they are equal when no call has
been made (`calls = 0 => jrn = db`). None of the stated properties is inductive
without the last part: a handler's own correctness (the lemmas: `AddKeeps`,
`RemoveKeeps`, `PutAppends`, `SettleKeeps`, ...) is about a storage that is both read
and written. `OneStorage`, `OneTable` and `OneBook` give that from `IInv`, `CallKeeps`
carries the result of a handler back, and `StepInvariant` has one step per action.

What "in order" means, and why it must be strengthened:

- Address set: `ConsistentStorage`, of which each part needs the others. Remapping
  the moved element keeps the mapping only if the list was mapped; a new element's
  slot is free only if the rest is empty. `SizeIsCardinality` makes the list a
  bijection between its slots and the members.
- Address set across ArbOS 11: `UsableStorage`, which is what the damaged mappings
  leave: the rest is empty at any version, and from 11 on each place of the list is
  mapped to itself, because the upgrade emptied the list. Without the latter a
  `remove` could map the element it moves, and so make it a member, though it was
  removed before. That a mapping leads into the list is no part of it.
- Queue: slots outside of the queue are zero. `ContentsIsSeq` turns offsets and
  slots into a sequence, and put and get into `Append`, `Head` and `Tail` of it.
- Batch posters: only posters are owed (`OnlyPostersAreOwed`), which makes
  `add_poster` of a new address harmless and every balance one of the list. The
  total (`TotalInv`) needs that balances stay within bounds: `set_funds_due` saturates a sum
  that holds one balance twice, hence the one more in `BalancesFit`. The change of
  a sum by one address (`SumOfChange`) is the lemma that all of this stands on.
- L1 pricing: balances between zero and what the auditor finds (`PostersCovered`),
  rewards equal to the auditor's, pool within the fees. They depend on each other:
  the audit field stays a natural number only because a payment is within the
  balance and the balance within the audit. `ShareIsPart` bounds the units allocated
  (multiply, cut, divide), `PriceChangeIsInt` shows that no divisor is zero.
- L1 pricing of old versions: `BooksAt`, the same books without the stored fees
  before ArbOS 10. `PoolUpdateKeeps` shows the report from 2 on, whose payments are
  bounded by the pool itself; `UpgradeInvariant`, that the upgrade to 10 books it.
  The report before 2 pays all posters on the list one after the other:
  `PayPosterKeeps` shows one payment, with what is still in the pool, and
  `PayPostersKeeps` all of them. Its totals are wrong (see Findings), and
  `TotalsFrom2` says that a chain that starts after it never uses it.
- L2 pricing: `StorageInOrder` has the blank rest of both vectors, because a push
  behind the committed length must not step over an element in use, and the
  weights of cleared constraints, because a push may leave one inside a vector.
  That a
  migration is whole for one constraint only is an induction over the loops: every pop
  leaves the length that the first one left (`PopsAreOne`), every push overwrites the
  one before (`PushesAreOne`), and a migrated constraint is never mistaken for a cleared
  one, because some kind has a weight (`MigratedIsNotBlank`). That the largest weight
  exists (`LargestWeightIsLargest`) is an induction in disguise: the least gap between
  a weight and the width exists because `<` on the natural numbers is well-founded.

The cells of `StorageSlots` need no such restriction, because what a call writes to a
slot does not depend on what the slot held. That every type reads back what it wrote
is `EncodeDecode`, one case for each type, and `StringIsReadBack` for the words of a
string. `CellInv` adds to the types that after one call the journal is what this one
call makes of the committed storage (`OneCallFromThere`), which is what `OneCallCleansUp`
needs: a string clears as many words as the committed one has. With more calls it
says nothing, and there the old words do stay behind.

`Burner` and `MultiGas` are about sums of parts. `SumOfChange` and `SumOfSums` say how a
sum moves, `PartIsWithinSum` that a part is at most the total, which is why the test of
a single part never refuses anything that the test of the total lets pass. `BInv`
keeps, beside the sums, that what the burner holds is the exact sum of all charges,
cut once (`HasCharges`): a sum that is cut at every charge is the sum that is cut at the
end (`CutOnce`).

`ArbEvm` has two invariants. `SetInv` says which precompiles an EVM has, and that what is
warm between transactions is nothing, this set, or what a replacement left; `AnswerInv` says that the last answer is what `Run` makes of the question in the block it was asked in.
What remains is arithmetic: `AliasIsSum` shows that the byte-wise addition with
carries is addition modulo the size of the address space, by the value of the last
bytes at each carry, and `AliasUndone` that each borrow on the way back is the carry
on the way there.

The hash cache has no transactions and its argument is one about threads. Its `IInv`
says that the holder of the mutex is the one thread inside of it
(`HolderIsInside`), so that what a thread found missing is missing still when it adds
it (`MissesLast`): two threads that miss the same input never enter it twice, and
the inputs on record are distinct (`UsedOnce`). The cache is the front of that record
(`CacheIsMostRecent`): a hit moves one element to the front of both, an insertion puts
one in front of both. `WarningIsDue` ties the flag and the threads about to warn to a
cache that was full. That both ways through the function give the slot of the key
(`ReturnedIsMapped`) makes slots distinct.

Sums, payments in turn, carries and borrows are recursive functions or folds, and what
these compute takes an induction. The induction theorems of the library have an
operator as parameter, which the provers cannot instantiate, so the modules have their
own in terms of sets: a set that has zero and the successor of each of its numbers
has all natural numbers (`NaturalInduction`), because the least number it lacks would
have a predecessor. That the recursive function exists at all is shown the same way (`SumsExist`,
`PayingExists`, `RecursionUp`, `RecursionDown`), by the set of numbers up to which a
function with its equation exists.

Only model-checked: `LookupsEnd`, which is liveness under fairness and out of the
prover's reach. The property of the violation run, `CreditKept`, is false.

## What is not modelled

- `arbosstate.rs`, `retryables/`, `util/util.rs` and the `arb-reth` crate: structs,
  type declarations and commented Go, no Rust behaviour.
- In `l1pricing.rs`: the poster data cost, which compresses and encodes a transaction
  and multiplies; its only state, the units cached in the transaction, belongs to the
  caller. The setters of addresses, the gas floor and the per-batch gas, each a
  single slot that no modelled handler reads except as a recipient:
  `set_pay_rewards_to`, `set_parent_gas_floor_per_token`, `set_per_batch_gas_cost`. The raw
  setters of what the reports keep (`set_last_update_time`, `set_funds_due_for_rewards`,
  `set_units_since_update`, `set_last_surplus`, `set_price_per_unit`,
  `set_l1_fees_available`) by anyone but a report: with them a caller can put any books
  in place, and nothing that the runs check would mean anything. What the handlers
  themselves write through them is part of the handlers.
- In `arb-revm`: the inspector and the instruction table, which are revm's, and the
  encoding of calldata and results of ArbSys.
- The growth of the L2 backlogs and the L2 price model are commented Go.
- `check_resource_kind` of `multigas/resources.rs`, which nothing calls.
- `SystemBurner::gas_left`, `burn_out` and `handle_error`, which always panic.

## Plan

Done: address set, queue, batch posters, L1 pricing of all versions, L2 pricing,
storage cells, hash cache, gas and burner, ArbSys and the precompiles of an EVM, and
the proofs above. Left, should the code grow:

1. The poster data cost, once a caller passes transactions to it.
2. The upgrades and the L2 price model, once they are Rust.
3. Proofs: what a transaction of several calls keeps, where the calls are of
   handlers that do not read what another wrote; with it the theorems would not
   need one call in a transaction.
