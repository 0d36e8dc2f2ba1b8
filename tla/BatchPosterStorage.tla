------------------------- MODULE BatchPosterStorage -------------------------
(***************************************************************************)
(* The storage and the handlers of                                         *)
(* crates/arb-arbos/src/l1pricing/batch_poster.rs: the batch posters, what *)
(* each is owed and whom to pay, and the total owed to all of them.  The   *)
(* posters are an address set (AddressSetStorage).                         *)
(* Handlers are operators of the storage read, r, and written, w.          *)
(***************************************************************************)
EXTENDS AddressSetStorage, Integers, FiniteSets

CONSTANT MaxI256   \* the largest signed integer; 2^255 - 1 in the code

ASSUME MaxI256Assumption == MaxI256 \in Nat \ {0}
ASSUME FiniteAssumption == IsFiniteSet(Addr)   \* 20 bytes

-----------------------------------------------------------------------------
(* Signed arithmetic of the width of the code, saturating at both ends. *)

MinI256 == -MaxI256 - 1

I256 == MinI256..MaxI256

Saturate(x) ==
  IF x > MaxI256 THEN MaxI256 ELSE IF x < MinI256 THEN MinI256 ELSE x

SatAdd(x, y) == Saturate(x + y)

SatSub(x, y) == Saturate(x - y)

-----------------------------------------------------------------------------

\* The storage of a BatchPostersTable: the total owed, the two slots of each
\* poster's sub-storage, and the set of posters.
PosterStorage ==
  [total: I256,
   due: [Addr -> I256],
   payTo: [Addr -> Addr],
   posters: Storage]

\* BatchPostersTable::initialize on fresh storage.
NoPosters ==
  [total |-> 0,
   due |-> [a \in Addr |-> 0],
   payTo |-> [a \in Addr |-> ZeroAddr],
   posters |-> Empty]

ContainsPoster(s, a) == IsMember(s.posters, a)

\* get_funds_due_list: the listed posters with a positive balance.
FundsDueList(s) ==
  {a \in {s.posters.slot[i] : i \in 1..s.posters.size} : s.due[a] > 0}

\* add_poster, for an address that is not a poster yet.
AddPoster(r, w, a, to) ==
  [w EXCEPT !.due[a] = 0,
            !.payTo[a] = to,
            !.posters = Add(r.posters, w.posters, a)]

\* open_poster(poster, true): a new poster is paid to its own address.
OpenPoster(r, w, a) ==
  IF ContainsPoster(r, a) THEN w ELSE AddPoster(r, w, a, a)

\* The old balance stays in the total: a bug to catch.
SetFundsDueTwice(r, w, a, val) ==
  [w EXCEPT !.total = SatAdd(r.total, val), !.due[a] = val]

\* set_funds_due: moves the total by the change of the poster's balance.
SetFundsDue(r, w, a, val) ==
  [w EXCEPT !.total = SatSub(SatAdd(r.total, val), r.due[a]), !.due[a] = val]

SetPayTo(r, w, a, to) == [w EXCEPT !.payTo[a] = to]
=============================================================================
