----------------------------- MODULE MCRunState -----------------------------
(* Three calls over two sessions: a start, a coalesced call and a call that
   arrives while the first run is winding down, next to another session. *)
EXTENDS RunState

CONSTANTS s1, s2, c1, c2, c3

MCSession == {s1, s2}
MCCall == {c1, c2, c3}
=============================================================================
