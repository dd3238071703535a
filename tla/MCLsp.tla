------------------------------- MODULE MCLsp --------------------------------
(* Two calls that touch the same file at the same time. *)
EXTENDS Lsp, TLC

CONSTANTS p1, p2, k1

MCCall == {p1, p2}
MCKey == {k1}
=============================================================================
