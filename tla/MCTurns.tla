------------------------------- MODULE MCTurns -------------------------------
(* An input beside a steer and a turn of the desktop. *)
EXTENDS Turns

CONSTANT r1

OneInput == {r1}
Ordinals == [r \in Inputs |-> 1]

=============================================================================
