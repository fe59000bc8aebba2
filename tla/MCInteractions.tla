--------------------------- MODULE MCInteractions ---------------------------
(* One question of one session, over two turns, with two presses. *)
EXTENDS Interactions

CONSTANTS q1, e1, e2

OneQuestion == {q1}
TwoPresses == {e1, e2}

=============================================================================
