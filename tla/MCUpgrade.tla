------------------------------ MODULE MCUpgrade ------------------------------
(* Two releases: the second migrates the schema of the first, which cannot read it, *)
(* and a third that keeps it.                                                       *)
EXTENDS Upgrade

ThreeVersions == {1, 2, 3}
LowestMC == [v \in Versions |-> IF v = 1 THEN 1 ELSE 2]
InputLowestMC == [v \in Versions |-> 1]
HighestMC == [v \in Versions |-> IF v = 1 THEN 1 ELSE 2]

=============================================================================
