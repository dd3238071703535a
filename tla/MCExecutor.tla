----------------------------- MODULE MCExecutor -----------------------------
(* Two concurrent tool calls of one turn, of every kind; two of the kinds that
   ask meet, but not two questions, which share nothing.  Rulesets, grants that
   cover each other and several sessions are varied by MCPermission. *)
EXTENDS Executor, Sequences, TLC

CONSTANTS c1, c2, s1, cmd

MCCall == {c1, c2}
MCSession == {s1}
MCPattern == {cmd}
MCMatches == {<<cmd, cmd>>}
MCKinds == (c1 :> {"builtin", "question", "mcp"}) @@
           (c2 :> {"builtin", "ungated", "structured", "unknown"})
NoRules == {<<>>}
=============================================================================
