---------------------------- MODULE MCL2Pricing ----------------------------
(* L2Pricing with one kind of resource that single-gas constraints weigh and *)
(* one that they do not.                                                     *)
EXTENDS L2Pricing

CONSTANTS computation, l1Calldata

MCKinds == {computation, l1Calldata}

MCSingleKinds == {computation}

MCParams == LegacyParams

MCValues ==
  [p \in MCParams |-> CASE p = "speed_limit_per_second" -> {2}
                       [] p = "pricing_inertia" -> {3}
                       [] p = "gas_backlog" -> {0, 3}
                       [] p = "backlog_tolerance" -> {1, 2}]

MCInitialParams ==
  [p \in MCParams |-> CASE p = "speed_limit_per_second" -> 2
                       [] p = "pricing_inertia" -> 3
                       [] p = "gas_backlog" -> 0
                       [] p = "backlog_tolerance" -> 1]

MCWeights == {[k \in MCKinds |-> IF k = computation THEN 1 ELSE 2]}

MCFees == [k \in MCKinds |-> IF k = computation THEN {0, 1} ELSE {0}]

MCInitialFees == [k \in MCKinds |-> 0]
=============================================================================
