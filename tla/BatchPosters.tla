---------------------------- MODULE BatchPosters ----------------------------
(***************************************************************************)
(* A BatchPostersTable (BatchPosterStorage) in transactions of calls by    *)
(* the L1 pricing and by the precompiles that manage posters.              *)
(***************************************************************************)
EXTENDS BatchPosterStorage, TxJournal, Functions

CONSTANT Balances   \* the balances that set_funds_due is called with

ASSUME BalancesAssumption == Balances \subseteq I256

\* open_poster(poster, true) of an address that may be new.
OpenPosterCall(a) ==
  /\ db.posters.size < Cap
  /\ Call(OpenPoster(db, jrn, a))

\* add_poster of a poster starts it over: a bug to catch.
AddPosterAgainCall(a, to) ==
  /\ db.posters.size < Cap
  /\ Call(AddPoster(db, jrn, a, to))

\* add_poster fails with AlreadyExists for a poster.
AddPosterCall(a, to) ==
  /\ ~ContainsPoster(db, a)
  /\ db.posters.size < Cap
  /\ Call(AddPoster(db, jrn, a, to))

\* set_funds_due and set_pay_to, on a poster opened by open_poster(_, false).
SetFundsDueCall(a, val) ==
  /\ ContainsPoster(db, a)
  /\ Call(SetFundsDue(db, jrn, a, val))

SetPayToCall(a, to) ==
  /\ ContainsPoster(db, a)
  /\ Call(SetPayTo(db, jrn, a, to))

PosterInit == JournalInit(NoPosters)

PosterNext ==
  \/ \E a \in Addr : OpenPosterCall(a)
  \/ \E a, to \in Addr : AddPosterCall(a, to) \/ SetPayToCall(a, to)
  \/ \E a \in Addr, val \in Balances : SetFundsDueCall(a, val)
  \/ Commit
  \/ Revert

PosterSpec == PosterInit /\ [][PosterNext]_txVars

-----------------------------------------------------------------------------

\* The variables have their types.
PosterTypeOK ==
  /\ db \in PosterStorage
  /\ jrn \in PosterStorage
  /\ calls \in 0..MaxCalls

\* The total owed is the sum of what every poster is owed, in every committed
\* state: set_funds_due keeps it by differences and nothing recomputes it.
TotalIsSum == db.total = SumFunction(db.due)

\* An address that is owed anything is found by get_funds_due_list, which
\* walks the list of posters: no credit is out of its sight.
DueIsListed == \A a \in Addr : db.due[a] > 0 => a \in FundsDueList(db)

\* add_poster never meets an address with a balance: setting it to zero while
\* the total stays would lose it from the one and keep it in the other.
NewPosterIsOwedNothing ==
  [][\A a, to \in Addr : AddPosterCall(a, to) => jrn.due[a] = 0]_txVars
=============================================================================
