---------------------------- MODULE MCStatusline ----------------------------
(* Two processes for Statusline. *)
EXTENDS Statusline

CONSTANTS p1, p2, s1, s2

=============================================================================
