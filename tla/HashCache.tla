----------------------------- MODULE HashCache -----------------------------
(***************************************************************************)
(* STORAGE_HASH_CACHE of crates/arb-arbos/src/storage/storage.rs: the LRU  *)
(* cache of hashes that the threads of a process share behind a mutex, and *)
(* the lookups of Storage::cached_keccak by which Storage::map_address     *)
(* finds the slot of a key.  A storage that was opened without the cache   *)
(* hashes for itself.  The mutex is poisoned when its holder panics, which *)
(* eprintln! does when the standard error is closed; from then on every    *)
(* lookup in the cache panics too.                                         *)
(***************************************************************************)
EXTENDS Naturals, Sequences

CONSTANTS
  Thread,      \* the threads that map addresses
  Space,       \* storage spaces, by their storage_key
  Cached,      \* those opened with open_cached_sub_storage
  Page,        \* the upper 31 bytes of a key
  Last,        \* the last byte of a key
  Request,     \* the keys looked up, each in a space
  Capacity,    \* STORAGE_KEY_CACHE_SIZE; 1024 in the code
  MaxLookups,  \* bound on the lookups of a thread
  Nobody       \* no thread

ASSUME SpaceAssumption == Cached \subseteq Space
ASSUME RequestAssumption ==
  Request # {} /\ Request \subseteq [space: Space, page: Page, last: Last]
ASSUME CapacityAssumption == Capacity \in Nat \ {0}
ASSUME LookupsAssumption == MaxLookups \in Nat
ASSUME NobodyAssumption == Nobody \notin Thread

VARIABLES
  pc,        \* where each thread is in cached_keccak
  asked,     \* the space and the key of its lookup
  mapped,    \* the slot its last lookup found
  cache,     \* the entries of the cache, the last used first
  holder,    \* the thread that has the mutex
  poisoned,  \* a thread panicked with the mutex
  logged,    \* CACHE_FULL_LOGGED
  warned,    \* how often the warning was given
  used,      \* all inputs looked up in the cache, the last used first
  lookups    \* the lookups each thread began

lookupVars ==
  <<pc, asked, mapped, cache, holder, poisoned, logged, warned, used, lookups>>

cacheVars == <<cache, holder, poisoned, logged, warned, used>>

\* What is hashed for a key: the storage_key and all of the key but its last
\* byte, which stays as it is.  The spaces are mixed up: a bug to catch.
InputNoSpace(r) == [space |-> CHOOSE s \in Space : TRUE, page |-> r.page]

Input(r) == [space |-> r.space, page |-> r.page]

\* No two inputs have one hash.
Hash(input) == [hash |-> input]

MapAddress(hash, r) == [page |-> hash, last |-> r.last]

SlotOf(r) == MapAddress(Hash(Input(r)), r)

\* Each thread has mapped some key before, without the cache.
First == CHOOSE r \in Request : TRUE

LookupInit ==
  /\ pc = [t \in Thread |-> "idle"]
  /\ asked = [t \in Thread |-> First]
  /\ mapped = [t \in Thread |-> SlotOf(First)]
  /\ cache = <<>>
  /\ holder = Nobody
  /\ poisoned = FALSE
  /\ logged = FALSE
  /\ warned = 0
  /\ used = <<>>
  /\ lookups = [t \in Thread |-> 0]

-----------------------------------------------------------------------------
(* LruCache, with the entry used last in front.                            *)

\* The element at i in front, those before it one place back.
ToFront(seq, i) ==
  [n \in DOMAIN seq |->
     IF n = 1 THEN seq[i] ELSE IF n <= i THEN seq[n - 1] ELSE seq[n]]

\* An entry is used where it is: a bug to catch.
GetInPlace(i) == cache

\* get() moves the entry to the front.
Get(i) == ToFront(cache, i)

Full == Len(cache) = Capacity

\* push() of a new entry drops the last one of a full cache.
Push(entry) ==
  [n \in 1..(IF Full THEN Capacity ELSE Len(cache) + 1) |->
     IF n = 1 THEN entry ELSE cache[n - 1]]

Misses(input) == \A i \in DOMAIN cache : cache[i].input # input

\* The record of all inputs has no capacity.
Use(input) ==
  \/ \E i \in DOMAIN used : used[i] = input /\ used' = ToFront(used, i)
  \/ /\ \A i \in DOMAIN used : used[i] # input
     /\ used' = [n \in 1..(Len(used) + 1) |-> IF n = 1 THEN input ELSE used[n - 1]]

-----------------------------------------------------------------------------
(* The steps of a thread in cached_keccak.                                 *)

\* With a cache the lookup waits for the mutex.
Start(t, r) ==
  /\ pc[t] = "idle"
  /\ lookups[t] < MaxLookups
  /\ lookups' = [lookups EXCEPT ![t] = @ + 1]
  /\ asked' = [asked EXCEPT ![t] = r]
  /\ pc' = [pc EXCEPT ![t] = IF r.space \in Cached THEN "waiting" ELSE "uncached"]
  /\ UNCHANGED <<mapped, cacheVars>>

\* A thread leaves cached_keccak with a hash; the rest of map_address is local.
Finds(t, hash) ==
  /\ mapped' = [mapped EXCEPT ![t] = MapAddress(hash, asked[t])]
  /\ pc' = [pc EXCEPT ![t] = "returned"]

HashUncached(t) ==
  /\ pc[t] = "uncached"
  /\ Finds(t, Hash(Input(asked[t])))
  /\ UNCHANGED <<asked, lookups, cacheVars>>

\* Nobody looks whether the mutex is free: a bug to catch.
LockFreeAnyway == TRUE

LockFree == holder = Nobody

Lock(t) ==
  /\ pc[t] = "waiting"
  /\ LockFree
  /\ ~poisoned
  /\ holder' = t
  /\ pc' = [pc EXCEPT ![t] = "locked"]
  /\ UNCHANGED <<asked, mapped, cache, poisoned, logged, warned, used, lookups>>

\* lock() gives a poisoned mutex as an error, and unwrap() panics.
LockPoisoned(t) ==
  /\ pc[t] = "waiting"
  /\ LockFree
  /\ poisoned
  /\ pc' = [pc EXCEPT ![t] = "panicked"]
  /\ UNCHANGED <<asked, mapped, lookups, cacheVars>>

\* The mutex stays locked after a hit: a bug to catch.
AfterHitLocked == UNCHANGED holder

\* The guard is dropped on the early return.
AfterHit == holder' = Nobody

Hit(t) ==
  LET input == Input(asked[t])
  IN /\ pc[t] = "locked"
     /\ \E i \in DOMAIN cache :
          /\ cache[i].input = input
          /\ Finds(t, cache[i].hash)
          /\ cache' = Get(i)
     /\ Use(input)
     /\ AfterHit
     /\ UNCHANGED <<asked, poisoned, logged, warned, lookups>>

\* The hash is computed with the mutex held.
Miss(t) ==
  /\ pc[t] = "locked"
  /\ Misses(Input(asked[t]))
  /\ pc' = [pc EXCEPT ![t] = "missed"]
  /\ UNCHANGED <<asked, mapped, lookups, cacheVars>>

\* A new entry.  If it drops another one the warning is due, else the thread
\* is done.
Add(t) ==
  LET input == Input(asked[t])
  IN /\ pc[t] = "missed"
     /\ cache' = Push([input |-> input, hash |-> Hash(input)])
     /\ Use(input)
     /\ IF Full
        THEN /\ pc' = [pc EXCEPT ![t] = "evicted"]
             /\ UNCHANGED <<mapped, holder>>
        ELSE Finds(t, Hash(input)) /\ holder' = Nobody
     /\ UNCHANGED <<asked, poisoned, logged, warned, lookups>>

\* Each eviction warns: a bug to catch.
WarnDueAlways == TRUE

\* CACHE_FULL_LOGGED.swap(true) told that nobody warned before.
WarnDue == ~logged

\* The warning is given, or another thread gave it, and the mutex is released.
Warn(t) ==
  /\ pc[t] = "evicted"
  /\ logged' = TRUE
  /\ warned' = IF WarnDue THEN warned + 1 ELSE warned
  /\ Finds(t, Hash(Input(asked[t])))
  /\ holder' = Nobody
  /\ UNCHANGED <<asked, cache, poisoned, used, lookups>>

\* eprintln! panics: the guard is dropped on the way out and poisons the mutex.
WarnPanics(t) ==
  /\ pc[t] = "evicted"
  /\ WarnDue
  /\ logged' = TRUE
  /\ poisoned' = TRUE
  /\ holder' = Nobody
  /\ pc' = [pc EXCEPT ![t] = "panicked"]
  /\ UNCHANGED <<asked, mapped, cache, warned, used, lookups>>

\* The caller goes on, after a panic with other work.
Resume(t) ==
  /\ pc[t] \in {"returned", "panicked"}
  /\ pc' = [pc EXCEPT ![t] = "idle"]
  /\ UNCHANGED <<asked, mapped, lookups, cacheVars>>

Step(t) ==
  \/ HashUncached(t)
  \/ Lock(t)
  \/ LockPoisoned(t)
  \/ Hit(t)
  \/ Miss(t)
  \/ Add(t)
  \/ Warn(t)
  \/ WarnPanics(t)

LookupNext ==
  \E t \in Thread :
    \/ \E r \in Request : Start(t, r)
    \/ Step(t)
    \/ Resume(t)

\* A thread that is in cached_keccak is scheduled again and again.  A caller
\* need not look anything up, or go on.
Fairness == \A t \in Thread : WF_lookupVars(Step(t))

LookupSpec == LookupInit /\ [][LookupNext]_lookupVars /\ Fairness

-----------------------------------------------------------------------------
(* Properties. *)

Place == {"idle", "uncached", "waiting", "locked", "missed", "evicted",
          "returned", "panicked"}

LookupTypeOK ==
  /\ pc \in [Thread -> Place]
  /\ asked \in [Thread -> Request]
  /\ Len(cache) <= Capacity
  /\ holder \in Thread \cup {Nobody}
  /\ poisoned \in BOOLEAN /\ logged \in BOOLEAN
  /\ warned \in Nat
  /\ lookups \in [Thread -> 0..MaxLookups]

\* Whichever way two lookups went, through the cache or not, hit or missed, they
\* find one slot exactly when they were of one key of one space
\* (Storage::map_address: no two cells share a slot, no cell has two).
SlotsAreDistinct ==
  \A t, u \in Thread :
    pc[t] = "returned" /\ pc[u] = "returned" =>
      (mapped[t] = mapped[u] <=> asked[t] = asked[u])

\* The cache holds the inputs last looked up, each once and in their order, and
\* the hash of each, with as many threads as there may be (LruCache under the
\* mutex: get and push are one step to other threads).
CacheIsMostRecent ==
  /\ Len(cache) = IF Len(used) < Capacity THEN Len(used) ELSE Capacity
  /\ \A i \in DOMAIN cache :
       cache[i] = [input |-> used[i], hash |-> Hash(used[i])]

\* The warning is given at most once, whoever evicts, and never before something
\* had to leave the cache (CACHE_FULL_LOGGED).
WarnsOnceWhenFull == warned <= 1 /\ (warned = 1 => Len(used) > Capacity)

\* A thread that entered a lookup comes out of it, with the slot or in panic:
\* every way out of cached_keccak releases the mutex.
LookupsEnd ==
  \A t \in Thread :
    pc[t] \in {"waiting", "uncached"} ~> pc[t] \in {"returned", "panicked"}
=============================================================================
