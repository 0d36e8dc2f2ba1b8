------------------------------- MODULE ArbEvm -------------------------------
(***************************************************************************)
(* crates/arb-revm: an ArbEvm, the Ethereum precompiles of its ArbSpecId   *)
(* (precompiles.rs, spec.rs, evm.rs), and the answers of ArbSys at the     *)
(* blocks it runs.  revm's handler is external: before each transaction it *)
(* calls set_spec with the spec of the configuration, and warms the        *)
(* addresses of the precompiles when that tells it that they changed, or   *)
(* when none are warm yet.  Nothing in the repository calls                *)
(* arbsys::run; its caller is external as well.                            *)
(***************************************************************************)
EXTENDS ArbSys

CONSTANTS
  ChainId,    \* the chain id of the configuration
  GasLimits,  \* the gas limits tried
  MaxBlock,   \* bound on the block number
  MaxDepth    \* bound on the depth of calls

ASSUME BlockAssumption == MaxBlock \in Nat /\ MaxDepth \in Nat \ {0}
ASSUME ConfigAssumption == ChainId \in Nat /\ GasLimits \subseteq Nat

VARIABLES
  cfg,      \* the spec of the context's configuration
  evm,      \* the provider: its spec and the set in use
  warm,     \* the set whose addresses are warm in the journal
  replaced, \* a note of the checker's: precompiles were put in place over a
            \* warm journal, which was not told of a change since
  block,    \* the number of the block under way
  depth,    \* the depth of the call under way; 0 between transactions
  asked,    \* the last call of ArbSys, with what the context finds for it
  answer    \* and its answer

vars == <<cfg, evm, warm, replaced, block, depth, asked, answer>>

Spec3 == {"Arbitrum", "Stylus", "Dia"}

-----------------------------------------------------------------------------
(* Precompiles.                                                            *)

\* ArbSpecId::into_eth_spec.
EthSpec(spec) ==
  CASE spec = "Arbitrum" -> "Berlin"
    [] spec = "Stylus" -> "Cancun"
    [] spec = "Dia" -> "Osaka"

\* arbitrum(), stylus() and dia(): what Ethereum has at that spec, with
\* P256VERIFY, which Osaka has itself, from Stylus on.
Precompiles(spec) ==
  [base |-> EthSpec(spec), p256 |-> spec \in {"Stylus", "Dia"}]

NewWithSpec(spec) == [spec |-> spec, set |-> Precompiles(spec)]

\* Only the spec is set: a bug to catch.
SetSpecOnly(e, spec) == [e EXCEPT !.spec = spec]

SetSpec(e, spec) == IF spec = e.spec THEN e ELSE NewWithSpec(spec)

\* It is not told that the precompiles were replaced: a bug to catch.
SetSpecSilent(e, spec) == FALSE

\* What set_spec returns.
SetSpecChanges(e, spec) == spec # e.spec

NothingWarm == [base |-> "none", p256 |-> FALSE]

-----------------------------------------------------------------------------
(* The life of an EVM.                                                     *)

NotAsked == [sel |-> "none", arg |-> 0, gas |-> 0, found |-> FALSE]

\* What is warm in the journal of a context that an EVM may be made of.
Journals == {NothingWarm} \cup {Precompiles(spec) : spec \in Spec3}

\* ArbEvm::new takes the spec of its context, whose journal another EVM may
\* have warmed.
Init ==
  /\ cfg \in Spec3
  /\ evm = NewWithSpec(cfg)
  /\ warm \in Journals
  /\ replaced = (warm # NothingWarm)
  /\ block = 0
  /\ depth = 0
  /\ asked = NotAsked
  /\ answer = Error

\* Between transactions the precompiles of a spec are put in place; the context
\* stays, and its journal is not told.
PutInPlace(spec) ==
  /\ depth = 0
  /\ evm' = NewWithSpec(spec)
  /\ replaced' = (warm # NothingWarm)
  /\ UNCHANGED <<cfg, warm, block, depth, asked, answer>>

WithPrecompiles(spec) == PutInPlace(spec)

\* A new EVM is made of the context of this one (into_context, then new).
NewEvm == PutInPlace(cfg)

SetCfg(spec) ==
  /\ depth = 0
  /\ cfg' = spec
  /\ UNCHANGED <<evm, warm, replaced, block, depth, asked, answer>>

NextBlock ==
  /\ depth = 0
  /\ block < MaxBlock
  /\ block' = block + 1
  /\ UNCHANGED <<cfg, evm, warm, replaced, depth, asked, answer>>

BeginTx ==
  /\ depth = 0
  /\ depth' = 1
  /\ evm' = SetSpec(evm, cfg)
  /\ LET warms == SetSpecChanges(evm, cfg) \/ warm = NothingWarm
     IN  /\ warm' = IF warms THEN evm'.set ELSE warm
         /\ replaced' = (~warms /\ replaced)
  /\ asked' = NotAsked
  /\ answer' = Error
  /\ UNCHANGED <<cfg, block>>

Frame(d) ==
  /\ depth' = d
  /\ asked' = NotAsked
  /\ answer' = Error
  /\ UNCHANGED <<cfg, evm, warm, replaced, block>>

EnterCall == depth \in 1..(MaxDepth - 1) /\ Frame(depth + 1)

\* Leaving the first call ends the transaction.
LeaveCall == depth > 0 /\ Frame(depth - 1)

CallArbSys(sel, arg, gasLimit, found) ==
  /\ depth > 0
  /\ asked' = [sel |-> sel, arg |-> arg, gas |-> gasLimit, found |-> found]
  /\ answer' = Run(sel, arg, gasLimit, found, block, depth, ChainId)
  /\ UNCHANGED <<cfg, evm, warm, replaced, block, depth>>

\* What is asked for: blocks up to one that is still to come, or addresses.
Args(sel) ==
  CASE sel = "arbBlockHash" -> 0..(MaxBlock + 1)
    [] sel = "mapL1SenderContractAddressToL2Alias" -> {Number(a) : a \in Bytes}
    [] OTHER -> {0}

\* Whether the context finds a hash; only one function asks for one.
Finds(sel) == IF sel = "arbBlockHash" THEN BOOLEAN ELSE {FALSE}

Next ==
  \/ \E spec \in Spec3 : WithPrecompiles(spec) \/ SetCfg(spec)
  \/ NewEvm
  \/ NextBlock
  \/ BeginTx
  \/ EnterCall
  \/ LeaveCall
  \/ \E sel \in Selector, gasLimit \in GasLimits :
       \E arg \in Args(sel), found \in Finds(sel) :
         CallArbSys(sel, arg, gasLimit, found)

Spec == Init /\ [][Next]_vars

-----------------------------------------------------------------------------
(* Properties. *)

\* The number of addresses: Base to the power of Width.
AddressCount ==
  LET power[i \in 0..Width] == IF i = 0 THEN 1 ELSE power[i - 1] * Base
  IN power[Width]

TypeOK ==
  /\ cfg \in Spec3
  /\ evm.spec \in Spec3
  /\ block \in 0..MaxBlock
  /\ depth \in 0..MaxDepth
  /\ asked.sel \in Selector \cup {"none"}
  /\ answer.ok \in BOOLEAN /\ answer.value \in Nat
  /\ asked.sel = "mapL1SenderContractAddressToL2Alias" =>
       answer.value < AddressCount

\* A transaction runs with the precompiles of the spec it is configured for,
\* whatever specs and precompiles the EVM had before.  Exactly their addresses
\* are warm, except where precompiles were put in place over a journal that was
\* warm already: no sequence of changes of the configuration leaves addresses of
\* another set warm (ArbPrecompiles::set_spec and what it returns).
PrecompilesFollowSpec ==
  depth > 0 => /\ evm = NewWithSpec(cfg)
               /\ warm = evm.set \/ replaced

\* A call that has the gas is answered for exactly the last Window blocks, with
\* the hash that the context finds; where it finds none, the call succeeds with
\* the zero hash (arb_block_hash, "if it falls within the last 256 blocks").
HashesOfWindow ==
  asked.sel = "arbBlockHash" =>
    /\ answer.ok <=> /\ asked.gas >= HashGas
                     /\ asked.arg \in (block - Window)..(block - 1)
    /\ answer.ok => /\ answer.gas <= asked.gas
                    /\ answer.value = IF asked.found THEN HashOf(asked.arg)
                                      ELSE ZeroHash

\* The alias that ArbSys answers is the sum with the offset modulo the size of
\* the address space, and undoing it byte by byte gives the address back
\* (apply_l1_to_l2_alias, undo_l1_to_l2_alias).
AliasIsUndone ==
  asked.sel = "mapL1SenderContractAddressToL2Alias" =>
    /\ answer.value = (asked.arg + Number(Offset)) % AddressCount
    /\ \E a \in Bytes :
         Number(a) = answer.value /\ Number(UndoAlias(a)) = asked.arg
=============================================================================
