-------------------------- MODULE MCL1PricingOld --------------------------
(* L1PricingOld with the sequencer and one more batch poster. *)
EXTENDS L1PricingOld

CONSTANT a1

MCAddr == {Sequencer, a1}
=============================================================================
