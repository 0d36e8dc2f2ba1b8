---------------------------- MODULE MCL1Pricing ----------------------------
(* L1Pricing with the sequencer and one more batch poster. *)
EXTENDS L1Pricing

CONSTANT a1

MCAddr == {Sequencer, a1}
=============================================================================
