------------------------------ MODULE History -------------------------------
(***************************************************************************)
(* The pure algorithms the agent loop applies to a session's messages:     *)
(* internal/engine/message/compaction.go (FilterCompacted, LatestOf) and   *)
(* internal/engine/compaction.go (selectTail, pendingCompaction).          *)
(*                                                                         *)
(* A message is a record with its id (a positive number, ascending ids are *)
(* creation order), role, and the fields these algorithms look at; 0 is    *)
(* the empty id.  comp says which CompactionPart a user message carries.   *)
(***************************************************************************)
EXTENDS Naturals, SequencesExt

DefaultTailTurns == 2

(* The empty finish reason: the message is not done, or its stream never said. *)
NoFinish == ""

IsUser(m) == m.role = "user"
IsAssistant(m) == m.role = "assistant"

(* A summary that FilterCompacted accepts as completed. *)
IsCompletedSummary(m) ==
  IsAssistant(m) /\ m.summary /\ m.finish # NoFinish /\ ~m.err

\* mutant: a compaction is taken as done whatever became of its summary
KeptCountAnySummary(msgs) ==
  LET n == Len(msgs)
      done == {k \in 1..n :
                 /\ IsUser(msgs[k]) /\ msgs[k].comp # "none"
                 /\ \E j \in 1..(k - 1) : /\ msgs[j].summary
                                          /\ msgs[j].parent = msgs[k].id}
  IN  IF done = {} THEN n ELSE Min(done)

(* First loop of FilterCompacted, over newest-first messages: how many are
   kept.  The first compaction whose completed summary was met before it ends
   the walk, at once or at the first retained tail message. *)
KeptCount(msgs) ==
  LET n == Len(msgs)
      done == {k \in 1..n :
                 /\ IsUser(msgs[k]) /\ msgs[k].comp # "none"
                 /\ \E j \in 1..(k - 1) : /\ IsCompletedSummary(msgs[j])
                                          /\ msgs[j].parent = msgs[k].id}
  IN  IF done = {} THEN n
      ELSE LET k == Min(done)
               ends == {e \in k..n : msgs[e].id = msgs[k].tail}
           IN  CASE msgs[k].tail = 0 -> k
                 [] msgs[k].tail # 0 /\ ends # {} -> Min(ends)
                 [] OTHER -> n

(* FilterCompacted: newest-first in, oldest-first out, with the last compaction
   that has a tail rewritten to compaction, summary, tail, later turns. *)
FilterCompacted(msgs) ==
  LET kept == Reverse(SubSeq(msgs, 1, KeptCount(msgs)))
      n == Len(kept)
      tailed == {i \in 1..n : IsUser(kept[i]) /\ kept[i].comp # "none"
                              /\ kept[i].tail # 0}
      ci == Max(tailed)
      sums == {i \in (ci + 1)..n : IsAssistant(kept[i]) /\ kept[i].summary
                                   /\ kept[i].parent = kept[ci].id}
      tails == {i \in 1..n : kept[i].id = kept[ci].tail}
  IN  IF tailed = {} \/ sums = {} \/ tails = {} THEN kept
      ELSE LET si == Min(sums)
               ti == Min(tails)
           IN  IF ti < ci
               THEN SubSeq(kept, ci, si) \o SubSeq(kept, ti, ci - 1)
                      \o SubSeq(kept, si + 1, n)
               ELSE kept

(* LatestOf: the newest user and the newest assistant by id, 0 for nil. *)
LatestUser(msgs) ==
  LET ids == {msgs[i].id : i \in {j \in DOMAIN msgs : IsUser(msgs[j])}}
  IN  IF ids = {} THEN 0 ELSE Max(ids)

LatestAssistant(msgs) ==
  LET ids == {msgs[i].id : i \in {j \in DOMAIN msgs : IsAssistant(msgs[j])}}
  IN  IF ids = {} THEN 0 ELSE Max(ids)

(* selectTail: the index of the first preserved turn, 0 when the history has
   too few turns to keep a tail. *)
SelectTail(history, turns) ==
  LET starts == {i \in DOMAIN history :
                   IsUser(history[i]) /\ history[i].comp = "none"}
      kept == {i \in starts :
                 Cardinality({j \in starts : j >= i}) = turns}
  IN  IF Cardinality(starts) <= turns \/ kept = {} THEN 0
      ELSE LET start == Min(kept) IN IF start = 1 THEN 0 ELSE start

(* pendingCompaction: the user message carries a task and no finished summary
   is anchored to it. *)
PendingCompaction(filtered, uid) ==
  /\ \E i \in DOMAIN filtered : filtered[i].id = uid /\ filtered[i].comp # "none"
  /\ ~ \E i \in DOMAIN filtered :
         /\ IsAssistant(filtered[i]) /\ filtered[i].summary
         /\ filtered[i].finish # NoFinish /\ filtered[i].parent = uid

(* Everything before the compaction's user message. *)
Before(filtered, uid) ==
  LET at == {i \in DOMAIN filtered : filtered[i].id = uid}
  IN  IF at = {} THEN filtered ELSE SubSeq(filtered, 1, Min(at) - 1)
=============================================================================
