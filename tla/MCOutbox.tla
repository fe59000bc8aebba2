------------------------------ MODULE MCOutbox ------------------------------
(* Constants of Outbox for TLC. *)
EXTENDS Outbox, TLC

CONSTANTS c1, c2

=============================================================================
