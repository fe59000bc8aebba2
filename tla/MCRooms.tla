------------------------------ MODULE MCRooms ------------------------------
(* One group with a first task, and two events that come from it. *)
EXTENDS Rooms

CONSTANTS g1, i1, i2

OneGroup == {g1}
TwoTasks == {i1, i2}

=============================================================================
