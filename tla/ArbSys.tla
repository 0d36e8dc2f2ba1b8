------------------------------- MODULE ArbSys -------------------------------
(***************************************************************************)
(* crates/arb-revm/src/arb_precompiles/arbsys.rs: the functions of the     *)
(* ArbSys precompile, as operators from a call and the block and the call  *)
(* depth it is made at to an answer, and the alias of an L1 address, byte  *)
(* by byte.                                                                *)
(***************************************************************************)
EXTENDS Integers

CONSTANTS
  Base,      \* the values of a byte
  Width,     \* the bytes of an address; 20 in the code
  Offset,    \* ADDRESS_ALIAS_OFFSET, by its bytes, the highest first
  Window,    \* the block hashes that are given out; 256 in the code
  HashGas    \* the gas of arbBlockHash; 20 in the code

ASSUME WidthAssumption == Base \in Nat \ {0, 1} /\ Width \in Nat \ {0}
ASSUME OffsetAssumption == Offset \in [1..Width -> 0..(Base - 1)]
ASSUME WindowAssumption == Window \in Nat \ {0} /\ HashGas \in Nat

Bytes == [1..Width -> 0..(Base - 1)]

-----------------------------------------------------------------------------
(* The alias.  Both loops go from the last byte to the first.              *)

\* The carry into byte i of the sum is the carry out of byte i + 1.
Carry(addr) ==
  LET out[i \in 1..(Width + 1)] ==
        IF i > Width THEN 0 ELSE (addr[i] + Offset[i] + out[i + 1]) \div Base
  IN out

\* The carry is lost: a bug to catch.
AliasNoCarry(addr) == [i \in 1..Width |-> (addr[i] + Offset[i]) % Base]

\* The sum is not cut to a byte: a bug to catch.
AliasNoCut(addr) == [i \in 1..Width |-> addr[i] + Offset[i] + Carry(addr)[i + 1]]

ApplyAlias(addr) ==
  [i \in 1..Width |-> (addr[i] + Offset[i] + Carry(addr)[i + 1]) % Base]

Borrow(addr) ==
  LET out[i \in 1..(Width + 1)] ==
        IF i > Width THEN 0
        ELSE IF addr[i] - Offset[i] - out[i + 1] < 0 THEN 1 ELSE 0
  IN out

UndoAlias(addr) ==
  [i \in 1..Width |-> (addr[i] - Offset[i] - Borrow(addr)[i + 1]) % Base]

\* The number that bytes stand for.
Number(addr) ==
  LET upTo[i \in 0..Width] == IF i = 0 THEN 0 ELSE upTo[i - 1] * Base + addr[i]
  IN upTo[Width]

-----------------------------------------------------------------------------
(* Answers: whether the call succeeded, its gas, and its value.            *)

Error == [ok |-> FALSE, gas |-> 0, value |-> 0]

Output(gas, value) == [ok |-> TRUE, gas |-> gas, value |-> value]

\* The hash of block n, and the zero hash.
HashOf(n) == n + 1

ZeroHash == 0

\* What is made of the context's answer for block n: the lookup may fail, and a
\* failure becomes the zero hash (unwrap_or).
ContextHash(n, found) == IF found THEN HashOf(n) ELSE ZeroHash

\* One block too many is let through: a bug to catch.
OutsideByOne(current, requested) ==
  requested >= current \/ current - requested > Window + 1

Outside(current, requested) ==
  requested >= current \/ current - requested > Window

\* A number within the window that is no u64 is an error of its own, which a
\* block number never gives.
ArbBlockHash(current, requested, gasLimit, found) ==
  IF gasLimit < HashGas \/ Outside(current, requested) THEN Error
  ELSE Output(HashGas, ContextHash(requested, found))

IsTopLevelCall(depth) == Output(0, IF depth <= 2 THEN 1 ELSE 0)

\* Functions that need ArbOS state, which the context does not give, calldata
\* that is too short, and selectors that are no function's.
Unanswered ==
  {"wasMyCallersAddressAliased", "myCallersAddressWithoutAliasing",
   "sendTxToL1", "sendMerkleTreeState", "withdrawEth", "short", "unknown"}

Selector ==
  {"arbBlockNumber", "arbBlockHash", "arbChainID", "arbOSVersion",
   "getStorageGasAvailable", "isTopLevelCall",
   "mapL1SenderContractAddressToL2Alias"} \cup Unanswered

\* run: arg is the block asked for, or the address, as a number; found is whether
\* the context finds a hash it is asked for.
Run(sel, arg, gasLimit, found, current, depth, chain) ==
  CASE sel = "arbBlockNumber" -> Output(0, current)
    [] sel = "arbBlockHash" -> ArbBlockHash(current, arg, gasLimit, found)
    [] sel = "arbChainID" -> Output(0, chain)
    [] sel \in {"arbOSVersion", "getStorageGasAvailable"} -> Output(0, 0)
    [] sel = "isTopLevelCall" -> IsTopLevelCall(depth)
    [] sel = "mapL1SenderContractAddressToL2Alias" ->
         Output(0, Number(ApplyAlias(CHOOSE addr \in Bytes : Number(addr) = arg)))
    [] sel \in Unanswered -> Error
=============================================================================
