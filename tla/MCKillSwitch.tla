---------------------------- MODULE MCKillSwitch ----------------------------
(* TLC instance of KillSwitch: small limits, so that every counter can     *)
(* trip, alone or racing another.                                          *)
EXTENDS KillSwitch, TLC

MCLimit == [c \in Counters |-> IF c = "routes" THEN 1 ELSE 0]
Symmetry == Permutations(Proc)
=============================================================================
