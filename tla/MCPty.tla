------------------------------- MODULE MCPty --------------------------------
(* Two clients, a ring of three units, replay frames of two, and channels of   *)
(* one frame: every client can be slow, every character cut by a read, a trim  *)
(* or a replay frame.                                                          *)
EXTENDS Pty, TLC

CONSTANTS c1, c2

MCClient == {c1, c2}
MCReads == {<<"x", "a1">>, <<"a2">>}
MCCursors == {-1, 0, 1}
=============================================================================
