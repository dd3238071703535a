---------------------------- MODULE MCAgentLoop -----------------------------
(* One session; one call for what a single run goes through, two for prompts
   and summarize requests that overlap a run. *)
EXTENDS AgentLoop

CONSTANTS s1, c1, c2

MCSession == {s1}
NoCall == {}
OneCall == {c1}
TwoCalls == {c1, c2}
=============================================================================
