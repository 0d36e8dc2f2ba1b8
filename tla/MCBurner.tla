------------------------------ MODULE MCBurner ------------------------------
(* Two kinds, the unknown one among them, and values as constructors make them. *)
EXTENDS Burner

MCGiven ==
  {[gas |-> g, total |-> PartsSum(g), refund |-> r] :
     g \in {h \in [Kind -> Amount] : PartsSum(h) <= MaxGas}, r \in 0..1}

MCPairs ==
  UNION {[1..n -> [kind: Kind, amount: {1, MaxGas}]] : n \in 0..2}
=============================================================================
