------------------------------ MODULE MCPanels ------------------------------
(* Two presses, a crash, and the newest two panels rendered. *)
EXTENDS Panels

=============================================================================
