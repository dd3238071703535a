---------------------------- MODULE MCPermission ----------------------------
(* Two asks over two sessions with patterns of which one is a wildcard that
   covers the other, and rulesets that are empty, allow, ask and deny. *)
EXTENDS Permission, Sequences, TLC

CONSTANTS a1, a2, s1, s2, cmd, any

MCAsk == {a1, a2}
MCSession == {s1, s2}
MCPattern == {cmd, any}
MCMatches == {<<cmd, cmd>>, <<any, cmd>>, <<any, any>>}
MCRulesets == {<<>>,
               <<[pattern |-> any, action |-> "allow"],
                 [pattern |-> cmd, action |-> "ask"]>>,
               <<[pattern |-> any, action |-> "ask"],
                 [pattern |-> cmd, action |-> "deny"]>>}
MCSymmetry == Permutations(MCAsk) \cup Permutations(MCSession)
=============================================================================
