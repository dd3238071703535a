----------------------------- MODULE LoopProofs -----------------------------
(***************************************************************************)
(* Safety of the run lock and of the agent loop, for any number of calls,  *)
(* any step limit, any history to start from and any abort.                *)
(*                                                                         *)
(* Of the lock, RSInv is the inductive invariant; mutual exclusion follows *)
(* from the exact slot, because a slot holds one run.  Of the loop,        *)
(* LoopIndInv is: rows refer to rows of the history, only the run that     *)
(* works is inside an iteration, and a task being summarised has no done   *)
(* summary.  FreshInv adds how far a fresh prompt has come, GivenInv what  *)
(* compactions that follow each other cut off, as long as none of them is  *)
(* disturbed.                                                              *)
(***************************************************************************)
EXTENDS AgentLoop, SequenceTheorems, WellFoundedInduction, TLAPS

USE RunStateAssumption


(* New returns an empty map: no run, no waiter. *)
LEMMA RSInitInv == RSInit => RSInv
BY DEF RSInit, RSInv, RSTypeOK, SlotIsExact, Owns, StageFollowsCall,
       ResultIsOwnSession, BusyHasRun, Stage

(* Every step of EnsureRunning and Cancel keeps the variables in their types. *)
LEMMA RSTypeStep == RSTypeOK /\ [RSNext]_rsVars => RSTypeOK'
<1> SUFFICES ASSUME RSTypeOK, [RSNext]_rsVars PROVE RSTypeOK'
  OBVIOUS
<1> USE DEF RSTypeOK, Stage
<1>1. ASSUME NEW c \in Call, Join(c) PROVE RSTypeOK'
  BY <1>1 DEF Join
<1>2. ASSUME NEW c \in Call, Claim(c) PROVE RSTypeOK'
  BY <1>2 DEF Claim
<1>3. ASSUME NEW c \in Call, OnBusy(c) PROVE RSTypeOK'
  BY <1>3 DEF OnBusy
<1>4. ASSUME NEW c \in Call, Return(c) PROVE RSTypeOK'
  BY <1>4 DEF Return
<1>5. ASSUME NEW r \in Call, RunSteps(r) PROVE RSTypeOK'
  BY <1>5 DEF RunSteps, WorkReturns, ClearSlot, OnIdle, CloseDone
<1>6. ASSUME NEW s \in Session, CancelLookup(s) PROVE RSTypeOK'
  BY <1>6 DEF CancelLookup
<1>7. ASSUME NEW r \in Call, CancelFire(r) PROVE RSTypeOK'
  BY <1>7 DEF CancelFire
<1>8. CASE UNCHANGED rsVars
  BY <1>8 DEF rsVars
<1> QED
  BY <1>1, <1>2, <1>3, <1>4, <1>5, <1>6, <1>7, <1>8 DEF RSNext

(* Every step of EnsureRunning and Cancel preserves the invariant. *)
LEMMA RSStepInv == RSInv /\ [RSNext]_rsVars => RSInv'
<1> SUFFICES ASSUME RSInv, [RSNext]_rsVars PROVE RSInv'
  OBVIOUS
<1>0. RSTypeOK /\ RSTypeOK'
  BY RSTypeStep DEF RSInv
<1> DEFINE Rest == SlotIsExact /\ StageFollowsCall /\ ResultIsOwnSession /\ BusyHasRun
<1>a. Rest
  BY DEF RSInv
<1> USE <1>0, <1>a DEF RSTypeOK, Stage, SlotIsExact, StageFollowsCall,
        ResultIsOwnSession, BusyHasRun, Owns
<1>1. ASSUME NEW c \in Call, Join(c) PROVE Rest'
  BY <1>1 DEF Join
<1>2. ASSUME NEW c \in Call, Claim(c) PROVE Rest'
  BY <1>2 DEF Claim
<1>3. ASSUME NEW c \in Call, OnBusy(c) PROVE Rest'
  BY <1>3 DEF OnBusy
<1>4. ASSUME NEW c \in Call, Return(c) PROVE Rest'
  BY <1>4 DEF Return
<1>5. ASSUME NEW r \in Call, WorkReturns(r) PROVE Rest'
  BY <1>5 DEF WorkReturns
<1>6. ASSUME NEW r \in Call, ClearSlot(r) PROVE Rest'
  BY <1>6 DEF ClearSlot
<1>7. ASSUME NEW r \in Call, OnIdle(r) PROVE Rest'
  BY <1>7 DEF OnIdle
<1>8. ASSUME NEW r \in Call, CloseDone(r) PROVE Rest'
  BY <1>8 DEF CloseDone
<1>9. ASSUME NEW s \in Session, CancelLookup(s) PROVE Rest'
  BY <1>9 DEF CancelLookup
<1>10. ASSUME NEW r \in Call, CancelFire(r) PROVE Rest'
  BY <1>10 DEF CancelFire
<1>11. ASSUME UNCHANGED rsVars PROVE Rest'
  BY <1>11 DEF rsVars
<1>12. Rest'
  BY <1>1, <1>2, <1>3, <1>4, <1>5, <1>6, <1>7, <1>8, <1>9, <1>10, <1>11
  DEF RSNext, RunSteps
<1> QED
  BY <1>0, <1>12 DEF RSInv

(* The lock's state is always well typed, the slot exact and every waiter on a
   run of its own session: the inductive invariant holds throughout. *)
THEOREM RunLockInvariant == RSSpec => []RSInv
<1>1. RSInit => RSInv
  BY RSInitInv
<1>2. RSInv /\ [RSNext]_rsVars => RSInv'
  BY RSStepInv
<1> QED
  BY <1>1, <1>2, PTL DEF RSSpec

(* "Each session has at most one active run" (runstate.go): for every number
   of sessions and concurrent prompts, no two runs own one session. *)
THEOREM MutualExclusion == RSSpec => []OneRunPerSession
<1>1. RSInv => OneRunPerSession
  BY DEF RSInv, RSTypeOK, SlotIsExact, OneRunPerSession
<1> QED
  BY <1>1, RunLockInvariant, PTL

(* The goroutine's "only clear if still ours" test never fails, and Busy is
   true exactly while some run owns the session. *)
THEOREM ExactSlot == RSSpec => []SlotIsExact
<1>1. RSInv => SlotIsExact
  BY DEF RSInv
<1> QED
  BY <1>1, RunLockInvariant, PTL

(* Coalesced callers return a finished run of their own session only. *)
THEOREM OwnSessionResult == RSSpec => []ResultIsOwnSession
<1>1. RSInv => ResultIsOwnSession
  BY DEF RSInv
<1> QED
  BY <1>1, RunLockInvariant, PTL

(* Cancel never interrupts a working run it did not look up itself. *)
THEOREM CancelIsTargeted == RSSpec => CancelHitsItsRun
<1>1. RSInv /\ [RSNext]_rsVars =>
        [\A r \in Call :
           (r \in cancelled' \ cancelled /\ Owns(r)) => r \in cancelling]_rsVars
  <2> SUFFICES ASSUME RSInv, RSNext, NEW r \in Call,
                      r \in cancelled' \ cancelled, Owns(r)
               PROVE  r \in cancelling
    OBVIOUS
  <2>1. CASE \E q \in Call : CloseDone(q)
    BY <2>1 DEF CloseDone, Owns, RSInv, StageFollowsCall, RSTypeOK
  <2>2. CASE \E q \in Call : CancelFire(q)
    BY <2>2 DEF CancelFire
  <2> QED
    BY <2>1, <2>2 DEF RSNext, RunSteps, Join, Claim, OnBusy, Return,
       WorkReturns, ClearSlot, OnIdle, CancelLookup
<1> QED
  BY <1>1, RunLockInvariant, PTL DEF RSSpec, CancelHitsItsRun

-----------------------------------------------------------------------------
(* The induction the lemmas about the history rest on. *)
LEMMA NatSetInduction ==
  ASSUME NEW T, 0 \in T, \A n \in Nat : n \in T => n + 1 \in T
  PROVE  \A n \in Nat : n \in T
<1> SUFFICES ASSUME Nat \ T # {} PROVE FALSE
  OBVIOUS
<1> DEFINE Less == OpToRel(<, Nat)
<1>1. IsWellFoundedOn(Less, Nat)
  BY NatLessThanWellFounded
<1>2. \A x, y \in Nat : y < x => <<y, x>> \in Less
  BY DEF OpToRel
<1> HIDE DEF Less
<1>3. Nat \ T \subseteq Nat
  OBVIOUS
<1>4. PICK x \in Nat \ T : \A y \in Nat \ T : ~ (<<y, x>> \in Less)
  BY <1>1, <1>3, WFMin
<1>5. x # 0 /\ x - 1 \in Nat /\ x - 1 < x
  BY <1>4
<1>6. x - 1 \in T
  BY <1>2, <1>4, <1>5
<1> QED
  BY <1>4, <1>5, <1>6

-----------------------------------------------------------------------------
(* A message row; Blank(i) is the row of an id that was only drawn. *)
Row == [id : Nat, role : {"none", "user", "assistant"}, parts : BOOLEAN,
        comp : {"none", "manual", "auto"}, tail : Nat, finish : Finish,
        err : BOOLEAN, summary : BOOLEAN, parent : Nat, view : SUBSET Nat]

LoopState == [at : {"top", "turn", "stream", "clear", "compact", "summarise", "return"},
              step : 0..MaxSteps, user : Nat, asst : Nat, view : SUBSET Nat,
              tail : Nat]

(* Row i of a history of n rows refers to rows of that history only, an answer
   to an older one. *)
RowOK(m, i, n) ==
  /\ m.id = i
  /\ m.tail \in 0..n /\ m.parent \in 0..n /\ m.view \subseteq 1..n
  /\ m.role = "none" => m = Blank(i)
  /\ m.role = "assistant" => m.parent < i

RowsOK == \A i \in 1..Len(msgs) : RowOK(msgs[i], i, Len(msgs))

(* A loop refers to rows of the history, and it has a step left while it is
   inside an iteration. *)
LoopStateOK(loop, n) ==
  /\ loop.user \in 0..n /\ loop.asst \in 0..n
  /\ loop.tail \in 0..n /\ loop.view \subseteq 1..n
  /\ loop.at \notin {"top", "return"} => loop.step < MaxSteps

TypeInv ==
  /\ msgs \in Seq(Row) /\ RowsOK
  /\ kind \in [Call -> Kinds]
  /\ prep \in [Call -> {"init", "drawn", "stored", "ready", "failed"}]
  /\ msgOf \in [Call -> 0..Len(msgs)]
  /\ lp \in [Call -> LoopState]
  /\ \A r \in Call : LoopStateOK(lp[r], Len(msgs))
  /\ fresh \subseteq Call /\ troubled \subseteq Call
  /\ cutShort \subseteq 1..Len(msgs)

(* A call's user message: an empty row once its id is drawn, a user's row from
   then on. *)
CallRow(c) ==
  /\ prep[c] = "drawn" => /\ msgOf[c] \in 1..Len(msgs)
                          /\ msgs[msgOf[c]].role = "none"
  /\ prep[c] \in {"stored", "ready"} => /\ msgOf[c] \in 1..Len(msgs)
                                        /\ IsUser(msgs[msgOf[c]])
  /\ (prep[c] = "ready" /\ kind[c] = "prompt") => msgs[msgOf[c]].parts

(* The row a loop streams: a fresh answer to the user message it works on. *)
Streams(r) ==
  /\ lp[r].asst \in 1..Len(msgs)
  /\ IsAssistant(msgs[lp[r].asst])
  /\ msgs[lp[r].asst].parent = lp[r].user
  /\ msgs[lp[r].asst].finish = NoFinish
  /\ msgs[lp[r].asst].summary = (lp[r].at = "summarise")

(* Only the run that works is inside an iteration. *)
LoopPlace(r) ==
  /\ lp[r].at \notin {"top", "return"} => stage[r] = "working"
  /\ lp[r].at \in {"turn", "stream", "clear", "compact", "summarise"} =>
       lp[r].user \in 1..Len(msgs) /\ IsUser(msgs[lp[r].user])
  /\ lp[r].at \in {"stream", "summarise"} => Streams(r)

(* No summary is done for a task that is being summarised. *)
TaskOpen(r) ==
  lp[r].at \in {"compact", "summarise"} =>
    \A j \in 1..Len(msgs) :
      IsCompletedSummary(msgs[j]) => msgs[j].parent # lp[r].user

(* Two calls never hold one id while its row is empty. *)
OwnIds ==
  \A c, d \in Call :
    prep[c] = "drawn" /\ prep[d] = "drawn" /\ msgOf[c] = msgOf[d] => c = d

LoopIndInv ==
  /\ RSInv /\ TypeInv
  /\ OwnIds /\ \A c \in Call : CallRow(c)
  /\ \A r \in Call : LoopPlace(r)
  /\ \A r \in Call : TaskOpen(r)
  /\ OneSummaryPerTask

(* The progress of a fresh prompt, while all calls are prompts.  Unseen: its run
   has not begun a turn; nothing newer was answered or is to be compacted, and
   a turn about to begin shows it.  Seen: a turn showed it, and it has been
   answered or its run is at work without an error so far. *)
AnswersAfter(ms, m) == {i \in 1..Len(ms) : i > m /\ IsAssistant(ms[i])}

Unseen(c) ==
  /\ pc[c] = "claimed" \/ stage[c] = "working"
  /\ lp[c].at \in {"top", "turn"}
  /\ AnswersAfter(msgs, msgOf[c]) = {}
  /\ \A i \in 1..Len(msgs) : i >= msgOf[c] => msgs[i].comp = "none"
  /\ lp[c].at = "turn" => msgOf[c] \in lp[c].view

Shows(ms, m) ==
  \E i \in 1..Len(ms) : IsAssistant(ms[i]) /\ ~ms[i].summary /\ m \in ms[i].view

Answered(ms, m) == \E i \in AnswersAfter(ms, m) : ms[i].finish = "stop"

Open(c) ==
  /\ stage[c] = "working" /\ lp[c].at # "return"
  /\ \A i \in AnswersAfter(msgs, msgOf[c]) : msgs[i].finish # "error"
  /\ lp[c].at \in {"stream", "summarise"} => lp[c].asst > msgOf[c]

Seen(c) == Shows(msgs, msgOf[c]) /\ (Open(c) \/ Answered(msgs, msgOf[c]))

OnlyPrompts == \A d \in Call : kind[d] = "prompt"

FreshCall(c) ==
  /\ prep[c] = "ready" /\ pc[c] # "new" /\ run[c] = c
  /\ OnlyPrompts /\ c \notin troubled => Unseen(c) \/ Seen(c)

(* A run that has not begun is at the top of its loop, and no prompt's row
   becomes a compaction task. *)
NotBegun == \A r \in Call : stage[r] = "none" => lp[r].at = "top"

PromptRows ==
  OnlyPrompts => \A c \in Call : prep[c] \in {"stored", "ready"} =>
                                  msgs[msgOf[c]].comp = "none"

FreshInv == NotBegun /\ PromptRows /\ \A c \in fresh : FreshCall(c)

-----------------------------------------------------------------------------
(* The least element of a set of numbers ... *)
LEMMA MinIsLeast ==
  ASSUME NEW S, S \subseteq Nat, S # {}
  PROVE  Min(S) \in S /\ \A y \in S : Min(S) <= y
<1> DEFINE Less == OpToRel(<, Nat)
<1>1. IsWellFoundedOn(Less, Nat)
  BY NatLessThanWellFounded
<1>2. \A x, y \in Nat : y < x => <<y, x>> \in Less
  BY DEF OpToRel
<1> HIDE DEF Less
<1>3. PICK x \in S : \A y \in S : ~ (<<y, x>> \in Less)
  BY <1>1, WFMin
<1>4. ASSUME NEW y \in S PROVE x =< y
  <2>1. x \in Nat /\ y \in Nat
    OBVIOUS
  <2>2. ~ (y < x)
    BY <1>2, <1>3, <2>1
  <2> QED
    BY <2>1, <2>2
<1> QED
  BY <1>3, <1>4 DEF Min

(* ... and the greatest of a bounded one. *)
LEMMA MaxIsGreatest ==
  ASSUME NEW n \in Nat, NEW S, S \subseteq 0..n, S # {}
  PROVE  Max(S) \in S /\ \A y \in S : y <= Max(S)
<1> DEFINE D == {n - x : x \in S}
<1>0. \A x \in S : x \in Nat /\ x <= n
  OBVIOUS
<1>1. D \subseteq Nat /\ D # {}
  <2>1. \A x \in S : n - x \in Nat
    BY <1>0
  <2> QED
    BY <2>1
<1> HIDE DEF D
<1>2. Min(D) \in D /\ \A y \in D : Min(D) <= y
  BY <1>1, MinIsLeast
<1>3. PICK x \in S : Min(D) = n - x
  BY <1>2 DEF D
<1>4. \A y \in S : n - y \in D
  BY DEF D
<1>5. \A y \in S : x >= y
  BY <1>0, <1>2, <1>3, <1>4
<1> QED
  BY <1>5 DEF Max

(* The rows of the first n ids, newest first, by the recursion of the store. *)
NewestOf(g, ms, n) ==
  g = [k \in 0..n |-> IF k = 0 THEN << >>
                      ELSE IF ms[k].role = "none" THEN g[k - 1]
                      ELSE <<ms[k]>> \o g[k - 1]]

LEMMA NewestExists ==
  ASSUME NEW ms
  PROVE  \A n \in Nat : \E g : NewestOf(g, ms, n)
<1> DEFINE T == {n \in Nat : \E g : NewestOf(g, ms, n)}
           E(g, k) == IF ms[k].role = "none" THEN g[k - 1] ELSE <<ms[k]>> \o g[k - 1]
<1>1. 0 \in T
  <2> DEFINE g == [k \in 0..0 |-> << >>]
  <2>1. NewestOf(g, ms, 0)
    BY DEF NewestOf
  <2> QED
    BY <2>1
<1>2. ASSUME NEW n \in Nat, n \in T PROVE n + 1 \in T
  <2>1. PICK g : NewestOf(g, ms, n)
    BY <1>2
  <2> DEFINE h == [k \in 0..(n + 1) |-> IF k \in 0..n THEN g[k] ELSE E(g, k)]
             j == [k \in 0..(n + 1) |-> IF k = 0 THEN << >>
                      ELSE IF ms[k].role = "none" THEN h[k - 1]
                      ELSE <<ms[k]>> \o h[k - 1]]
  <2>2. \A k \in 0..(n + 1) : h[k] = j[k]
    <3> TAKE k \in 0..(n + 1)
    <3>1. CASE k = 0
      BY <2>1, <3>1 DEF NewestOf
    <3>2. CASE k # 0
      <4>1. h[k - 1] = g[k - 1]
        BY <3>2
      <4>2. CASE k \in 0..n
        BY <2>1, <3>2, <4>1, <4>2 DEF NewestOf
      <4>3. CASE k \notin 0..n
        BY <3>2, <4>1, <4>3
      <4> QED
        BY <4>2, <4>3
    <3> QED
      BY <3>1, <3>2
  <2>3. h = [k \in 0..(n + 1) |-> h[k]] /\ j = [k \in 0..(n + 1) |-> j[k]]
    OBVIOUS
  <2> HIDE DEF h
  <2>5. h = j
    <3> HIDE DEF j
    <3> QED
      BY <2>2, <2>3
  <2>6. NewestOf(h, ms, n + 1)
    BY <2>5 DEF NewestOf
  <2> QED
    BY <2>6
<1> HIDE DEF T
<1>3. \A n \in Nat : n \in T
  BY <1>1, <1>2, NatSetInduction
<1> QED
  BY <1>3 DEF T

LEMMA StoredUnfolds ==
  ASSUME Len(msgs) \in Nat
  PROVE  \E g : NewestOf(g, msgs, Len(msgs)) /\ StoredNewestFirst = g[Len(msgs)]
<1> DEFINE newest == CHOOSE g : g = [k \in 0..Len(msgs) |->
                        IF k = 0 THEN << >>
                        ELSE IF msgs[k].role = "none" THEN g[k - 1]
                        ELSE <<msgs[k]>> \o g[k - 1]]
<1>1. newest = [k \in 0..Len(msgs) |->
                        IF k = 0 THEN << >>
                        ELSE IF msgs[k].role = "none" THEN newest[k - 1]
                        ELSE <<msgs[k]>> \o newest[k - 1]]
  <2>1. \E g : g = [k \in 0..Len(msgs) |->
                        IF k = 0 THEN << >>
                        ELSE IF msgs[k].role = "none" THEN g[k - 1]
                        ELSE <<msgs[k]>> \o g[k - 1]]
    BY NewestExists DEF NewestOf
  <2> QED
    BY <2>1
<1>2. StoredNewestFirst = newest[Len(msgs)]
  BY DEF StoredNewestFirst
<1> HIDE DEF newest
<1> QED
  BY <1>1, <1>2 DEF NewestOf

(* s lists, newest first, exactly the stored rows among the first n. *)
ListsNewestFirst(s, n) ==
  /\ s \in Seq(Row)
  /\ \A k \in 1..Len(s) : /\ s[k].id \in 1..n /\ s[k].role # "none"
                          /\ s[k] = msgs[s[k].id]
  /\ \A j, k \in 1..Len(s) : j < k => s[j].id > s[k].id
  /\ \A i \in 1..n : msgs[i].role # "none" => \E k \in 1..Len(s) : s[k] = msgs[i]

LEMMA StoredLists ==
  ASSUME msgs \in Seq(Row), \A i \in 1..Len(msgs) : msgs[i].id = i
  PROVE  ListsNewestFirst(StoredNewestFirst, Len(msgs))
<1>0. Len(msgs) \in Nat
  OBVIOUS
<1>1. PICK g : NewestOf(g, msgs, Len(msgs)) /\ StoredNewestFirst = g[Len(msgs)]
  BY <1>0, StoredUnfolds
<1> DEFINE T == {n \in Nat : n <= Len(msgs) => ListsNewestFirst(g[n], n)}
<1>2. 0 \in T
  <2>1. g[0] = << >>
    BY <1>0, <1>1 DEF NewestOf
  <2>2. ListsNewestFirst(<< >>, 0)
    BY DEF ListsNewestFirst
  <2> QED
    BY <2>1, <2>2
<1>3. ASSUME NEW n \in Nat, n \in T PROVE n + 1 \in T
  <2> SUFFICES ASSUME n + 1 <= Len(msgs) PROVE ListsNewestFirst(g[n + 1], n + 1)
    OBVIOUS
  <2>1. n + 1 \in 1..Len(msgs) /\ n + 1 # 0 /\ (n + 1) - 1 = n
    BY <1>0
  <2> DEFINE s == g[n]
             m == msgs[n + 1]
  <2>2. ListsNewestFirst(s, n)
    BY <1>0, <1>3
  <2>3. g[n + 1] = IF m.role = "none" THEN s ELSE <<m>> \o s
    <3>1. \A k \in 0..Len(msgs) :
            k # 0 => g[k] = IF msgs[k].role = "none" THEN g[k - 1]
                            ELSE <<msgs[k]>> \o g[k - 1]
      BY <1>1 DEF NewestOf
    <3>2. n + 1 \in 0..Len(msgs)
      BY <2>1
    <3> QED
      BY <2>1, <3>1, <3>2
  <2>4. m \in Row /\ m.id = n + 1
    BY <2>1
  <2> HIDE DEF s, m
  <2>5. CASE m.role = "none"
    <3>1. g[n + 1] = s
      BY <2>3, <2>5
    <3>2. \A k \in 1..Len(s) : s[k].id \in 1..n + 1
      BY <2>2 DEF ListsNewestFirst
    <3>3. \A i \in 1..n + 1 : msgs[i].role # "none" => i \in 1..n
      BY <2>5 DEF m
    <3>4. ListsNewestFirst(s, n + 1)
      BY <2>2, <3>2, <3>3 DEF ListsNewestFirst
    <3> QED
      BY <3>1, <3>4
  <2>6. CASE m.role # "none"
    <3> DEFINE t == <<m>> \o s
    <3>1. /\ t \in Seq(Row) /\ Len(t) = Len(s) + 1 /\ t[1] = m /\ Len(s) \in Nat
          /\ \A k \in 2..Len(t) : t[k] = s[k - 1]
      BY <2>2, <2>4 DEF ListsNewestFirst
    <3> HIDE DEF t
    <3>2. \A k \in 1..Len(t) : k = 1 \/ (k - 1 \in 1..Len(s) /\ t[k] = s[k - 1])
      BY <3>1
    <3>3. ASSUME NEW k \in 1..Len(t)
          PROVE  /\ t[k].id \in 1..n + 1 /\ t[k].role # "none"
                 /\ t[k] = msgs[t[k].id]
      <4>1. CASE k = 1
        BY <2>1, <2>4, <2>6, <3>1, <4>1 DEF m
      <4>2. CASE k # 1
        <5>1. k - 1 \in 1..Len(s) /\ t[k] = s[k - 1]
          BY <3>2, <4>2
        <5> QED
          BY <2>2, <5>1 DEF ListsNewestFirst
      <4> QED
        BY <4>1, <4>2
    <3>4. \A j, k \in 1..Len(t) : j < k => t[j].id > t[k].id
      <4> SUFFICES ASSUME NEW j \in 1..Len(t), NEW k \in 1..Len(t), j < k
                   PROVE  t[j].id > t[k].id
        OBVIOUS
      <4>1. k - 1 \in 1..Len(s) /\ t[k] = s[k - 1]
        BY <3>1, <3>2
      <4>2. CASE j = 1
        BY <2>2, <2>4, <3>1, <4>1, <4>2 DEF ListsNewestFirst
      <4>3. CASE j # 1
        BY <2>2, <3>2, <4>1, <4>3 DEF ListsNewestFirst
      <4> QED
        BY <4>2, <4>3
    <3>5. ASSUME NEW i \in 1..n + 1, msgs[i].role # "none"
          PROVE  \E k \in 1..Len(t) : t[k] = msgs[i]
      <4>1. CASE i = n + 1
        BY <3>1, <4>1 DEF m
      <4>2. CASE i # n + 1
        <5>1. PICK k \in 1..Len(s) : s[k] = msgs[i]
          BY <2>2, <3>5, <4>2 DEF ListsNewestFirst
        <5>2. k + 1 \in 2..Len(t) /\ (k + 1) - 1 = k
          BY <3>1
        <5> QED
          BY <3>1, <5>1, <5>2
      <4> QED
        BY <4>1, <4>2
    <3>6. g[n + 1] = t
      BY <2>3, <2>6 DEF t
    <3> QED
      BY <3>1, <3>3, <3>4, <3>5, <3>6 DEF ListsNewestFirst
  <2> QED
    BY <2>5, <2>6
<1> HIDE DEF T
<1>4. \A n \in Nat : n \in T
  BY <1>2, <1>3, NatSetInduction
<1> QED
  BY <1>0, <1>1, <1>4 DEF T
-----------------------------------------------------------------------------
(* What FilterCompacted lists. *)
LEMMA RangeOfSubSeq ==
  ASSUME NEW S, NEW s \in Seq(S), NEW a \in Nat \ {0}, NEW b \in Nat, b <= Len(s)
  PROVE  /\ SubSeq(s, a, b) \in Seq(S)
         /\ \A x : x \in Range(SubSeq(s, a, b)) <=> \E i \in a..b : x = s[i]
<1> DEFINE t == SubSeq(s, a, b)
<1>1. \A i \in a..b : s[i] \in S
  OBVIOUS
<1>2. /\ t \in Seq(S)
      /\ Len(t) = IF a <= b THEN b - a + 1 ELSE 0
      /\ \A i \in 1..b - a + 1 : t[i] = s[a + i - 1]
  BY <1>1, SubSeqProperties
<1> HIDE DEF t
<1>3. Range(t) = {t[i] : i \in 1..Len(t)}
  BY <1>2, RangeEquality
<1>4. ASSUME NEW x, x \in Range(t) PROVE \E i \in a..b : x = s[i]
  <2>1. PICK i \in 1..Len(t) : x = t[i]
    BY <1>3, <1>4
  <2>2. a + i - 1 \in a..b /\ i \in 1..b - a + 1
    BY <1>2, <2>1
  <2> QED
    BY <1>2, <2>1, <2>2
<1>5. ASSUME NEW i \in a..b PROVE s[i] \in Range(t)
  <2>1. i - a + 1 \in 1..Len(t) /\ i - a + 1 \in 1..b - a + 1 /\ a + (i - a + 1) - 1 = i
    BY <1>2
  <2>2. t[i - a + 1] = s[i]
    BY <1>2, <2>1
  <2> QED
    BY <1>3, <2>1, <2>2
<1>6. t \in Seq(S) /\ \A x : x \in Range(t) <=> \E i \in a..b : x = s[i]
  BY <1>2, <1>4, <1>5
<1> QED
  BY <1>6 DEF t

IsTask(m) == IsUser(m) /\ m.comp # "none"

(* The walk keeps every row that is newer than the compactions, or is the
   newest of them. *)
LEMMA KeptCountKeeps ==
  ASSUME NEW s \in Seq(Row)
  PROVE  /\ KeptCount(s) \in 0..Len(s)
         /\ \A p \in 1..Len(s) : (\A k \in 1..Len(s) : IsTask(s[k]) => k >= p)
                                   => p <= KeptCount(s)
<1> DEFINE n == Len(s)
           done == {k \in 1..n : /\ IsUser(s[k]) /\ s[k].comp # "none"
                                  /\ \E j \in 1..(k - 1) : /\ IsCompletedSummary(s[j])
                                                           /\ s[j].parent = s[k].id}
           k1 == Min(done)
           ends == {e \in k1..n : s[e].id = s[k1].tail}
<1>0. n \in Nat
  OBVIOUS
<1>1. KeptCount(s) = IF done = {} THEN n
                     ELSE CASE s[k1].tail = 0 -> k1
                            [] s[k1].tail # 0 /\ ends # {} -> Min(ends)
                            [] OTHER -> n
  BY DEF KeptCount
<1>2. done \subseteq 1..n /\ \A k \in done : IsTask(s[k])
  BY DEF IsTask
<1> HIDE DEF done
<1>3. CASE done = {}
  BY <1>0, <1>1, <1>3
<1>4. CASE done # {}
  <2>1. k1 \in 1..n /\ k1 \in done
    <3>1. done \subseteq Nat
      BY <1>2
    <3> QED
      BY <1>2, <1>4, <3>1, MinIsLeast
  <2>2. ends # {} => Min(ends) \in k1..n
    <3> HIDE DEF k1
    <3>1. ends \subseteq k1..n /\ ends \subseteq Nat
      BY <2>1
    <3> QED
      BY <3>1, MinIsLeast
  <2> HIDE DEF k1, ends
  <2>3. KeptCount(s) \in k1..n
    BY <1>0, <1>1, <1>4, <2>1, <2>2
  <2>4. IsTask(s[k1])
    BY <1>2, <2>1
  <2> QED
    BY <1>0, <2>1, <2>3, <2>4
<1> QED
  BY <1>3, <1>4

(* The second half of FilterCompacted: the rearrangement of the kept rows. *)
Arranged(kept) ==
  LET n == Len(kept)
      tailed == {i \in 1..n : IsUser(kept[i]) /\ kept[i].comp # "none"
                              /\ kept[i].tail # 0}
      ci == Max(tailed)
      sums == {i \in (ci + 1)..n : IsAssistant(kept[i]) /\ kept[i].summary
                                   /\ kept[i].parent = kept[ci].id}
      tails == {i \in 1..n : kept[i].id = kept[ci].tail}
  IN  IF tailed = {} \/ sums = {} \/ tails = {} THEN kept
      ELSE LET si == Min(sums)
               ti == Min(tails)
           IN  IF ti < ci
               THEN SubSeq(kept, ci, si) \o SubSeq(kept, ti, ci - 1)
                      \o SubSeq(kept, si + 1, n)
               ELSE kept

(* It puts a compaction and the rows up to its summary, c to s, before the tail
   that starts at t, and drops what is older than the tail. *)
Arrangement(kept, c, s, t) ==
  /\ c \in 1..Len(kept) /\ s \in (c + 1)..Len(kept) /\ t \in 1..(c - 1)
  /\ IsTask(kept[c]) /\ kept[c].tail # 0 /\ kept[t].id = kept[c].tail
  /\ \A i \in (c + 1)..Len(kept) :
       IsAssistant(kept[i]) /\ kept[i].summary /\ kept[i].parent = kept[c].id => s <= i
  /\ Arranged(kept) = SubSeq(kept, c, s) \o SubSeq(kept, t, c - 1)
                         \o SubSeq(kept, s + 1, Len(kept))

LEMMA ArrangedForm ==
  ASSUME NEW kept \in Seq(Row)
  PROVE  \/ Arranged(kept) = kept
         \/ \E c, s, t \in 1..Len(kept) : Arrangement(kept, c, s, t)
<1> DEFINE n == Len(kept)
           tailed == {i \in 1..n : IsUser(kept[i]) /\ kept[i].comp # "none"
                                   /\ kept[i].tail # 0}
           ci == Max(tailed)
           sums == {i \in (ci + 1)..n : IsAssistant(kept[i]) /\ kept[i].summary
                                        /\ kept[i].parent = kept[ci].id}
           tails == {i \in 1..n : kept[i].id = kept[ci].tail}
           si == Min(sums)
           ti == Min(tails)
<1>0. n \in Nat
  OBVIOUS
<1>1. \/ Arranged(kept) = kept
      \/ /\ tailed # {} /\ sums # {} /\ tails # {} /\ ti < ci
         /\ Arranged(kept) = SubSeq(kept, ci, si) \o SubSeq(kept, ti, ci - 1)
                                \o SubSeq(kept, si + 1, n)
  BY DEF Arranged
<1>a. SUFFICES ASSUME tailed # {}, sums # {}, tails # {}, ti < ci,
                      Arranged(kept) = SubSeq(kept, ci, si) \o SubSeq(kept, ti, ci - 1)
                                         \o SubSeq(kept, si + 1, n)
               PROVE  \E c, s, t \in 1..n : Arrangement(kept, c, s, t)
  BY <1>1
<1>2. ci \in 1..n /\ IsTask(kept[ci]) /\ kept[ci].tail # 0
  <2>1. \A k \in tailed : k \in 1..n /\ IsTask(kept[k]) /\ kept[k].tail # 0
    BY DEF IsTask
  <2> HIDE DEF tailed
  <2>2. tailed \subseteq 0..n
    BY <1>0, <2>1
  <2> QED
    BY <1>0, <1>a, <2>1, <2>2, MaxIsGreatest
<1> HIDE DEF tailed, ci
<1>3. /\ si \in (ci + 1)..n
      /\ \A i \in (ci + 1)..n :
           IsAssistant(kept[i]) /\ kept[i].summary /\ kept[i].parent = kept[ci].id => si <= i
  <2>1. \A i \in sums : i \in (ci + 1)..n /\ i \in Nat
    BY <1>2
  <2>2. \A i \in (ci + 1)..n :
          IsAssistant(kept[i]) /\ kept[i].summary /\ kept[i].parent = kept[ci].id => i \in sums
    OBVIOUS
  <2> HIDE DEF sums
  <2>3. sums \subseteq Nat
    BY <2>1
  <2>4. si \in sums /\ \A i \in sums : si <= i
    BY <1>a, <2>3, MinIsLeast
  <2> HIDE DEF si
  <2> QED
    BY <2>1, <2>2, <2>4
<1>4. ti \in 1..n /\ kept[ti].id = kept[ci].tail
  <2>1. \A i \in tails : i \in 1..n /\ kept[i].id = kept[ci].tail
    OBVIOUS
  <2> HIDE DEF tails
  <2>2. tails \subseteq Nat
    BY <2>1
  <2> QED
    BY <1>a, <2>1, <2>2, MinIsLeast
<1> HIDE DEF si, ti
<1>5. si \in 1..n /\ ti \in 1..(ci - 1)
  BY <1>0, <1>2, <1>3, <1>4, <1>a
<1>6. Arrangement(kept, ci, si, ti)
  BY <1>a, <1>2, <1>3, <1>4, <1>5 DEF Arrangement
<1> QED
  BY <1>2, <1>4, <1>5, <1>6

(* The rows from the tail on are all there, in three runs: up to place k those
   from c to s, up to place l the tail, then the others. *)
InThreeRuns(a, kept, c, s, t) ==
  LET k == (s - c) + 1
      l == (s - t) + 1
      m == (Len(kept) - t) + 1
  IN  /\ a \in Seq(Row) /\ Len(a) = m
      /\ \A p \in 1..k : a[p] = kept[(c + p) - 1]
      /\ \A p \in (k + 1)..l : a[p] = kept[(t + (p - k)) - 1]
      /\ \A p \in (l + 1)..m : a[p] = kept[(t + p) - 1]

LEMMA ArrangedRuns ==
  ASSUME NEW kept \in Seq(Row), NEW c, NEW s, NEW t, Arrangement(kept, c, s, t)
  PROVE  InThreeRuns(Arranged(kept), kept, c, s, t)
<1> DEFINE n == Len(kept)
           k == (s - c) + 1
           l == (s - t) + 1
           A == SubSeq(kept, c, s)
           B == SubSeq(kept, t, c - 1)
           C == SubSeq(kept, s + 1, n)
<1>0. n \in Nat /\ c \in 1..n /\ s \in (c + 1)..n /\ t \in 1..(c - 1)
  BY DEF Arrangement
<1>1. /\ A \in Seq(Row) /\ Len(A) = k
      /\ \A p \in 1..k : A[p] = kept[(c + p) - 1]
  <2>1. \A i \in c..s : kept[i] \in Row
    BY <1>0
  <2> QED
    BY <1>0, <2>1, SubSeqProperties
<1>2. /\ B \in Seq(Row) /\ Len(B) = c - t
      /\ \A p \in 1..(c - t) : B[p] = kept[(t + p) - 1]
  <2>1. \A i \in t..(c - 1) : kept[i] \in Row
    BY <1>0
  <2> QED
    BY <1>0, <2>1, SubSeqProperties
<1>3. /\ C \in Seq(Row) /\ Len(C) = n - s
      /\ \A p \in 1..(n - s) : C[p] = kept[(s + p)]
  <2>1. \A i \in (s + 1)..n : kept[i] \in Row
    BY <1>0
  <2> QED
    BY <1>0, <2>1, SubSeqProperties
<1>4. Arranged(kept) = (A \o B) \o C
  BY DEF Arrangement
<1> HIDE DEF A, B, C
<1> DEFINE AB == A \o B
<1>5. /\ AB \in Seq(Row) /\ Len(AB) = l
      /\ \A p \in 1..k : AB[p] = A[p]
      /\ \A p \in (k + 1)..l : AB[p] = B[p - k]
  <2>1. /\ AB \in Seq(Row) /\ Len(AB) = Len(A) + Len(B)
        /\ \A p \in 1..Len(A) + Len(B) : AB[p] = IF p <= Len(A) THEN A[p] ELSE B[p - Len(A)]
    BY <1>1, <1>2, ConcatProperties
  <2> HIDE DEF AB
  <2>2. Len(A) = k /\ Len(A) + Len(B) = l
    BY <1>0, <1>1, <1>2
  <2>3. \A p \in 1..k : p \in 1..l /\ p <= k
    BY <1>0
  <2>4. \A p \in (k + 1)..l : p \in 1..l /\ ~ (p <= k)
    BY <1>0
  <2> HIDE DEF k, l
  <2> QED
    BY <2>1, <2>2, <2>3, <2>4
<1> HIDE DEF AB
<1> DEFINE a == AB \o C
<1>6. /\ a \in Seq(Row) /\ Len(a) = (n - t) + 1
      /\ \A p \in 1..l : a[p] = AB[p]
      /\ \A p \in (l + 1)..((n - t) + 1) : a[p] = C[p - l]
  <2>1. /\ a \in Seq(Row) /\ Len(a) = Len(AB) + Len(C)
        /\ \A p \in 1..Len(AB) + Len(C) : a[p] = IF p <= Len(AB) THEN AB[p] ELSE C[p - Len(AB)]
    BY <1>3, <1>5, ConcatProperties
  <2> HIDE DEF a
  <2>2. Len(AB) = l /\ Len(AB) + Len(C) = (n - t) + 1
    BY <1>0, <1>3, <1>5
  <2>3. \A p \in 1..l : p \in 1..(n - t) + 1 /\ p <= l
    BY <1>0
  <2>4. \A p \in (l + 1)..((n - t) + 1) : p \in 1..(n - t) + 1 /\ ~ (p <= l)
    BY <1>0
  <2> HIDE DEF l
  <2> QED
    BY <2>1, <2>2, <2>3, <2>4
<1>7. Arranged(kept) = a
  BY <1>4 DEF AB
<1> HIDE DEF a
<1>8. \A p \in 1..k : a[p] = kept[(c + p) - 1]
  <2>1. \A p \in 1..k : p \in 1..l
    BY <1>0
  <2> QED
    BY <1>1, <1>5, <1>6, <2>1
<1>9. ASSUME NEW p \in (k + 1)..l PROVE a[p] = kept[(t + (p - k)) - 1]
  <2>1. p \in 1..l /\ p - k \in 1..(c - t)
    BY <1>0
  <2> QED
    BY <1>2, <1>5, <1>6, <2>1
<1>10. ASSUME NEW p \in (l + 1)..((n - t) + 1) PROVE a[p] = kept[(t + p) - 1]
  <2>1. p - l \in 1..(n - s) /\ s + (p - l) = (t + p) - 1
    BY <1>0
  <2> QED
    BY <1>3, <1>6, <2>1
<1> QED
  BY <1>6, <1>7, <1>8, <1>9, <1>10 DEF InThreeRuns

(* It lists kept rows only; one that it drops is older than the tail of a
   compaction, and none is dropped from the last compaction on. *)
LEMMA ArrangedRows ==
  ASSUME NEW kept \in Seq(Row)
  PROVE  /\ Arranged(kept) \in Seq(Row)
         /\ Range(Arranged(kept)) \subseteq Range(kept)
         /\ \A p \in 1..Len(kept) :
              \/ kept[p] \in Range(Arranged(kept))
              \/ \E c, t \in 1..Len(kept) :
                   /\ IsTask(kept[c]) /\ kept[c].tail # 0
                   /\ kept[t].id = kept[c].tail /\ p < t /\ t < c
<1> DEFINE n == Len(kept)
           a == Arranged(kept)
<1>0. n \in Nat /\ Range(kept) = {kept[i] : i \in 1..n}
  BY RangeEquality
<1>1. CASE a = kept
  BY <1>0, <1>1
<1>2. CASE \E c, s, t \in 1..n : Arrangement(kept, c, s, t)
  <2>1. PICK c \in 1..n, s \in 1..n, t \in 1..n : Arrangement(kept, c, s, t)
    BY <1>2
  <2> DEFINE k == (s - c) + 1
             l == (s - t) + 1
             m == (n - t) + 1
  <2>2. /\ s \in (c + 1)..n /\ t \in 1..(c - 1)
        /\ IsTask(kept[c]) /\ kept[c].tail # 0 /\ kept[t].id = kept[c].tail
    BY <2>1 DEF Arrangement
  <2>3. /\ a \in Seq(Row) /\ Len(a) = m
        /\ \A p \in 1..k : a[p] = kept[(c + p) - 1]
        /\ \A p \in (k + 1)..l : a[p] = kept[(t + (p - k)) - 1]
        /\ \A p \in (l + 1)..m : a[p] = kept[(t + p) - 1]
    <3>1. InThreeRuns(a, kept, c, s, t)
      BY <2>1, ArrangedRuns
    <3> HIDE DEF a
    <3> QED
      BY <3>1 DEF InThreeRuns
  <2> HIDE DEF a, m
  <2>4. Range(a) = {a[p] : p \in 1..m}
    <3>1. a \in Seq(Row) /\ Len(a) = m
      BY <2>3
    <3>2. Range(a) = {a[p] : p \in 1..Len(a)}
      BY <3>1, RangeEquality
    <3> QED
      BY <3>1, <3>2
  <2> USE DEF m
  <2>5. ASSUME NEW p \in 1..m PROVE a[p] \in Range(kept)
    <3>1. p \in 1..k => (c + p) - 1 \in 1..n
      BY <1>0, <2>2
    <3>2. p \in (k + 1)..l => (t + (p - k)) - 1 \in 1..n
      BY <1>0, <2>2
    <3>3. p \in (l + 1)..m => (t + p) - 1 \in 1..n
      BY <1>0, <2>2
    <3>4. p \in 1..k \/ p \in (k + 1)..l \/ p \in (l + 1)..m
      BY <1>0, <2>2
    <3> QED
      BY <1>0, <2>3, <3>1, <3>2, <3>3, <3>4
  <2>6. ASSUME NEW p \in t..n PROVE kept[p] \in Range(a)
    <3>1. CASE p \in c..s
      <4>1. (p - c) + 1 \in 1..k /\ (p - c) + 1 \in 1..m /\ (c + ((p - c) + 1)) - 1 = p
        BY <1>0, <2>2, <3>1
      <4> QED
        BY <2>3, <2>4, <4>1
    <3>2. CASE p \in t..(c - 1)
      <4> DEFINE q == (p - t) + 1 + k
      <4>1. q \in (k + 1)..l /\ q \in 1..m /\ (t + (q - k)) - 1 = p
        BY <1>0, <2>2, <3>2
      <4> HIDE DEF q
      <4> QED
        BY <2>3, <2>4, <4>1
    <3>3. CASE p \in (s + 1)..n
      <4> DEFINE q == (p - t) + 1
      <4>1. q \in (l + 1)..m /\ q \in 1..m /\ (t + q) - 1 = p
        BY <1>0, <2>2, <3>3
      <4> HIDE DEF q
      <4> QED
        BY <2>3, <2>4, <4>1
    <3> QED
      BY <1>0, <2>2, <3>1, <3>2, <3>3
  <2>7. \A p \in 1..n : p \in t..n \/ (p < t /\ t < c)
    BY <1>0, <2>2
  <2>8. Range(a) \subseteq Range(kept)
    <3> SUFFICES ASSUME NEW x \in Range(a) PROVE x \in Range(kept)
      OBVIOUS
    <3> QED
      BY <2>4, <2>5
  <2>9. ASSUME NEW p \in 1..n
        PROVE  \/ kept[p] \in Range(a)
               \/ /\ IsTask(kept[c]) /\ kept[c].tail # 0
                  /\ kept[t].id = kept[c].tail /\ p < t /\ t < c
    BY <2>2, <2>6, <2>7
  <2> HIDE DEF n
  <2>10. \A p \in 1..n :
          \/ kept[p] \in Range(a)
          \/ \E d, e \in 1..n : /\ IsTask(kept[d]) /\ kept[d].tail # 0
                               /\ kept[e].id = kept[d].tail /\ p < e /\ e < d
    BY <2>9
  <2> QED
    BY <2>3, <2>8, <2>10 DEF n, a
<1> QED
  BY <1>1, <1>2, ArrangedForm

(* What FilterCompacted keeps of the rows, oldest first. *)
Kept(s) == Reverse(SubSeq(s, 1, KeptCount(s)))

LEMMA KeptRows ==
  ASSUME NEW s \in Seq(Row)
  PROVE  LET K == KeptCount(s)
         IN  /\ K \in 0..Len(s) /\ FilterCompacted(s) = Arranged(Kept(s))
             /\ Kept(s) \in Seq(Row) /\ Len(Kept(s)) = K
             /\ \A i \in 1..K : Kept(s)[i] = s[(K - i) + 1]
<1> DEFINE K == KeptCount(s)
           h == SubSeq(s, 1, K)
           kept == Reverse(h)
<1>0. Len(s) \in Nat /\ K \in 0..Len(s)
  BY KeptCountKeeps
<1>1. FilterCompacted(s) = Arranged(kept) /\ kept = Kept(s)
  BY DEF FilterCompacted, Arranged, Kept
<1> HIDE DEF K
<1>2. /\ h \in Seq(Row) /\ Len(h) = K
      /\ \A i \in 1..K : h[i] = s[i]
  <2>1. \A i \in 1..K : s[i] \in Row
    BY <1>0
  <2>2. /\ h \in Seq(Row) /\ Len(h) = IF 1 <= K THEN K - 1 + 1 ELSE 0
        /\ \A i \in 1..K - 1 + 1 : h[i] = s[1 + i - 1]
    BY <1>0, <2>1, SubSeqProperties
  <2> HIDE DEF h
  <2> QED
    BY <1>0, <2>2
<1> HIDE DEF h
<1>3. /\ kept \in Seq(Row) /\ Len(kept) = K
      /\ \A i \in 1..K : kept[i] = s[(K - i) + 1]
  <2>1. \A i \in 1..K : (K - i) + 1 \in 1..K
    BY <1>0
  <2>2. kept = [i \in 1..K |-> h[(K - i) + 1]]
    BY <1>2 DEF Reverse
  <2> HIDE DEF kept
  <2>3. \A i \in 1..K : h[(K - i) + 1] \in Row
    BY <1>2, <2>1
  <2>4. kept \in [1..K -> Row]
    BY <2>2, <2>3
  <2> QED
    BY <1>0, <1>2, <2>1, <2>2, <2>4
<1> HIDE DEF kept
<1> QED
  BY <1>0, <1>1, <1>3 DEF K

(* So FilterCompacted lists stored rows only, and every row that no compaction
   task is newer than. *)
LEMMA FilterKeeps ==
  ASSUME NEW s \in Seq(Row)
  PROVE  /\ FilterCompacted(s) \in Seq(Row)
         /\ Range(FilterCompacted(s)) \subseteq Range(s)
         /\ \A p \in 1..Len(s) : (\A k \in 1..Len(s) : IsTask(s[k]) => k >= p)
                                   => s[p] \in Range(FilterCompacted(s))
<1> DEFINE K == KeptCount(s)
           kept == Kept(s)
<1>0. /\ Len(s) \in Nat /\ K \in 0..Len(s)
      /\ Range(s) = {s[i] : i \in 1..Len(s)}
      /\ \A p \in 1..Len(s) : (\A k \in 1..Len(s) : IsTask(s[k]) => k >= p) => p <= K
  BY KeptCountKeeps, RangeEquality
<1>1. FilterCompacted(s) = Arranged(kept)
  BY KeptRows
<1>3. /\ kept \in Seq(Row) /\ Len(kept) = K
      /\ \A i \in 1..K : kept[i] = s[(K - i) + 1]
  BY KeptRows
<1> HIDE DEF K, kept
<1>4. Range(kept) \subseteq Range(s)
  <2>1. Range(kept) = {kept[i] : i \in 1..K}
    BY <1>3, RangeEquality
  <2> SUFFICES ASSUME NEW i \in 1..K PROVE kept[i] \in Range(s)
    BY <2>1
  <2>2. (K - i) + 1 \in 1..Len(s)
    BY <1>0
  <2> QED
    BY <1>0, <1>3, <2>2
<1>5. ASSUME NEW p \in 1..Len(s), \A k \in 1..Len(s) : IsTask(s[k]) => k >= p
      PROVE  s[p] \in Range(Arranged(kept))
  <2> DEFINE q == (K - p) + 1
  <2>1. q \in 1..K /\ (K - q) + 1 = p
    BY <1>0, <1>5
  <2>2. kept[q] = s[p]
    BY <1>3, <2>1
  <2>3. ASSUME NEW k \in 1..K, IsTask(kept[k]) PROVE k <= q
    <3>1. (K - k) + 1 \in 1..Len(s)
      BY <1>0
    <3>2. (K - k) + 1 >= p
      BY <1>3, <1>5, <2>3, <3>1
    <3> QED
      BY <1>0, <3>2
  <2> HIDE DEF q
  <2>4. ASSUME NEW c \in 1..K, NEW e \in 1..K, IsTask(kept[c]), q < e, e < c PROVE FALSE
    BY <1>0, <2>1, <2>3, <2>4
  <2>5. \/ kept[q] \in Range(Arranged(kept))
        \/ \E c, e \in 1..K : /\ IsTask(kept[c]) /\ kept[c].tail # 0
                             /\ kept[e].id = kept[c].tail /\ q < e /\ e < c
    BY <1>3, <2>1, ArrangedRows
  <2> QED
    BY <2>2, <2>4, <2>5
<1> QED
  BY <1>1, <1>3, <1>4, <1>5, ArrangedRows
-----------------------------------------------------------------------------
(* The history an iteration works on lists rows of the store, and every stored
   row that no compaction task is newer than. *)
LEMMA FilteredRows ==
  ASSUME TypeInv
  PROVE  /\ Filtered \in Seq(Row)
         /\ \A k \in 1..Len(Filtered) :
              /\ Filtered[k].id \in 1..Len(msgs) /\ Filtered[k].role # "none"
              /\ Filtered[k] = msgs[Filtered[k].id]
         /\ \A i \in 1..Len(msgs) :
              /\ msgs[i].role # "none"
              /\ \A k \in 1..Len(msgs) : IsTask(msgs[k]) => k <= i
              => \E k \in 1..Len(Filtered) : Filtered[k] = msgs[i]
<1> DEFINE s == StoredNewestFirst
           f == Filtered
<1>0. msgs \in Seq(Row) /\ Len(msgs) \in Nat /\ \A i \in 1..Len(msgs) : msgs[i].id = i
  BY DEF TypeInv, RowsOK, RowOK
<1>1. ListsNewestFirst(s, Len(msgs))
  BY <1>0, StoredLists
<1>2. f = FilterCompacted(s)
  BY DEF Filtered
<1> HIDE DEF s, f
<1>3. s \in Seq(Row)
  BY <1>1 DEF ListsNewestFirst
<1>4. /\ f \in Seq(Row) /\ Range(f) \subseteq Range(s)
      /\ \A p \in 1..Len(s) : (\A k \in 1..Len(s) : IsTask(s[k]) => k >= p)
                                => s[p] \in Range(f)
  BY <1>2, <1>3, FilterKeeps
<1>5. /\ Range(f) = {f[k] : k \in 1..Len(f)}
      /\ Range(s) = {s[k] : k \in 1..Len(s)}
      /\ Len(s) \in Nat
  BY <1>3, <1>4, RangeEquality
<1>6. ASSUME NEW k \in 1..Len(f)
      PROVE  /\ f[k].id \in 1..Len(msgs) /\ f[k].role # "none"
             /\ f[k] = msgs[f[k].id]
  <2>1. PICK j \in 1..Len(s) : f[k] = s[j]
    BY <1>4, <1>5
  <2> QED
    BY <1>1, <2>1 DEF ListsNewestFirst
<1>7. ASSUME NEW i \in 1..Len(msgs), msgs[i].role # "none",
             \A k \in 1..Len(msgs) : IsTask(msgs[k]) => k <= i
      PROVE  \E k \in 1..Len(f) : f[k] = msgs[i]
  <2>1. PICK p \in 1..Len(s) : s[p] = msgs[i]
    BY <1>1, <1>7 DEF ListsNewestFirst
  <2>2. s[p].id = i
    BY <1>0, <2>1
  <2>3. ASSUME NEW k \in 1..Len(s), IsTask(s[k]) PROVE k >= p
    <3>1. s[k].id \in 1..Len(msgs) /\ s[k] = msgs[s[k].id]
      BY <1>1 DEF ListsNewestFirst
    <3>2. s[k].id <= i
      BY <1>7, <2>3, <3>1
    <3>3. k < p => s[k].id > i
      BY <1>1, <2>2 DEF ListsNewestFirst
    <3> QED
      BY <1>0, <1>5, <3>1, <3>2, <3>3
  <2>4. s[p] \in Range(f)
    BY <1>4, <2>3
  <2> QED
    BY <1>5, <2>1, <2>4
<1> QED
  BY <1>4, <1>6, <1>7 DEF f

(* LatestOf gives the newest of the listed user messages, and of the answers. *)
LEMMA LatestIsNewest ==
  ASSUME NEW f \in Seq(Row), NEW n \in Nat, \A k \in 1..Len(f) : f[k].id \in 1..n
  PROVE  /\ LatestUser(f) \in 0..n /\ LatestAssistant(f) \in 0..n
         /\ LatestUser(f) # 0 =>
              \E k \in 1..Len(f) : f[k].id = LatestUser(f) /\ IsUser(f[k])
         /\ LatestAssistant(f) # 0 =>
              \E k \in 1..Len(f) : f[k].id = LatestAssistant(f) /\ IsAssistant(f[k])
         /\ \A k \in 1..Len(f) : IsUser(f[k]) => f[k].id <= LatestUser(f)
<1> DEFINE us == {f[i].id : i \in {j \in DOMAIN f : IsUser(f[j])}}
           as == {f[i].id : i \in {j \in DOMAIN f : IsAssistant(f[j])}}
<1>1. LatestUser(f) = IF us = {} THEN 0 ELSE Max(us)
  BY DEF LatestUser
<1>2. LatestAssistant(f) = IF as = {} THEN 0 ELSE Max(as)
  BY DEF LatestAssistant
<1>3. \A x \in us : \E k \in 1..Len(f) : f[k].id = x /\ IsUser(f[k])
  OBVIOUS
<1>4. \A x \in as : \E k \in 1..Len(f) : f[k].id = x /\ IsAssistant(f[k])
  OBVIOUS
<1>5. \A k \in 1..Len(f) : IsUser(f[k]) => f[k].id \in us
  OBVIOUS
<1> HIDE DEF us, as
<1>6. us \subseteq 1..n /\ us \subseteq 0..n
  <2>1. ASSUME NEW x \in us PROVE x \in 1..n
    BY <1>3
  <2> QED
    BY <2>1
<1>7. as \subseteq 1..n /\ as \subseteq 0..n
  <2>1. ASSUME NEW x \in as PROVE x \in 1..n
    BY <1>4
  <2> QED
    BY <2>1
<1> DEFINE UserLatest ==
             /\ LatestUser(f) \in 0..n
             /\ LatestUser(f) # 0 =>
                  \E k \in 1..Len(f) : f[k].id = LatestUser(f) /\ IsUser(f[k])
             /\ \A k \in 1..Len(f) : IsUser(f[k]) => f[k].id <= LatestUser(f)
           AnswerLatest ==
             /\ LatestAssistant(f) \in 0..n
             /\ LatestAssistant(f) # 0 =>
                  \E k \in 1..Len(f) :
                    f[k].id = LatestAssistant(f) /\ IsAssistant(f[k])
<1>8. ASSUME us = {} PROVE UserLatest
  BY <1>1, <1>5, <1>8
<1>9. ASSUME us # {} PROVE UserLatest
  <2>1. Max(us) \in us /\ \A y \in us : y <= Max(us)
    BY <1>6, <1>9, MaxIsGreatest
  <2> QED
    BY <1>1, <1>3, <1>5, <1>6, <1>9, <2>1
<1>10. ASSUME as = {} PROVE AnswerLatest
  BY <1>2, <1>10
<1>11. ASSUME as # {} PROVE AnswerLatest
  <2>1. Max(as) \in as
    BY <1>7, <1>11, MaxIsGreatest
  <2> QED
    BY <1>2, <1>4, <1>7, <1>11, <2>1
<1> QED
  BY <1>8, <1>9, <1>10, <1>11

(* What processCompaction works on: the rows before the task, and a place to
   start the tail among them. *)
LEMMA BeforeRows ==
  ASSUME NEW f \in Seq(Row), NEW u
  PROVE  Before(f, u) \in Seq(Row) /\ Range(Before(f, u)) \subseteq Range(f)
<1> DEFINE at == {i \in DOMAIN f : f[i].id = u}
<1>1. Before(f, u) = IF at = {} THEN f ELSE SubSeq(f, 1, Min(at) - 1)
  BY DEF Before
<1>2. at \subseteq 1..Len(f) /\ at \subseteq Nat
  OBVIOUS
<1> HIDE DEF at
<1>3. CASE at = {}
  BY <1>1, <1>3
<1>4. CASE at # {}
  <2>1. Min(at) \in 1..Len(f)
    BY <1>2, <1>4, MinIsLeast
  <2> DEFINE b == Min(at) - 1
  <2>2. b \in Nat /\ b <= Len(f)
    BY <2>1
  <2>3. Before(f, u) = SubSeq(f, 1, b)
    BY <1>1, <1>4
  <2> HIDE DEF b
  <2>4. /\ SubSeq(f, 1, b) \in Seq(Row)
        /\ \A x : x \in Range(SubSeq(f, 1, b)) <=> \E i \in 1..b : x = f[i]
    BY <2>2, RangeOfSubSeq
  <2>5. \A i \in 1..b : f[i] \in Range(f)
    <3>1. Range(f) = {f[i] : i \in 1..Len(f)}
      BY RangeEquality
    <3> QED
      BY <2>2, <3>1
  <2> QED
    BY <2>3, <2>4, <2>5
<1> QED
  BY <1>3, <1>4

LEMMA TailRange ==
  ASSUME NEW h \in Seq(Row), NEW turns
  PROVE  SelectTail(h, turns) \in 0..Len(h)
<1> DEFINE starts == {i \in DOMAIN h : IsUser(h[i]) /\ h[i].comp = "none"}
           kept == {i \in starts : Cardinality({j \in starts : j >= i}) = turns}
           start == Min(kept)
<1>1. SelectTail(h, turns) =
        IF Cardinality(starts) <= turns \/ kept = {} THEN 0
        ELSE IF start = 1 THEN 0 ELSE start
  BY DEF SelectTail
<1>2. kept \subseteq 1..Len(h) /\ kept \subseteq Nat
  OBVIOUS
<1> HIDE DEF starts, kept
<1>3. kept # {} => start \in 1..Len(h)
  BY <1>2, MinIsLeast
<1> HIDE DEF start
<1> QED
  BY <1>1, <1>3
(* The newest user message the loop sees is the newest there is: no cut and no
   rearrangement hides it. *)
LEMMA NewestUser ==
  ASSUME TypeInv
  PROVE  LET u == LatestUser(Filtered)
         IN  /\ u \in 0..Len(msgs)
             /\ u # 0 => IsUser(msgs[u])
             /\ \A i \in 1..Len(msgs) : IsUser(msgs[i]) => i <= u
<1> DEFINE f == Filtered
           n == Len(msgs)
           u == LatestUser(f)
<1>1. /\ f \in Seq(Row)
      /\ \A k \in 1..Len(f) : f[k].id \in 1..n /\ f[k] = msgs[f[k].id]
      /\ \A i \in 1..n : /\ msgs[i].role # "none"
                         /\ \A k \in 1..n : IsTask(msgs[k]) => k <= i
                         => \E k \in 1..Len(f) : f[k] = msgs[i]
  BY FilteredRows
<1>2. n \in Nat /\ \A i \in 1..n : msgs[i].id = i
  BY DEF TypeInv, RowsOK, RowOK
<1> HIDE DEF f, n
<1>3. /\ u \in 0..n
      /\ u # 0 => \E k \in 1..Len(f) : f[k].id = u /\ IsUser(f[k])
      /\ \A k \in 1..Len(f) : IsUser(f[k]) => f[k].id <= u
  BY <1>1, <1>2, LatestIsNewest
<1> HIDE DEF u
<1>4. u # 0 => IsUser(msgs[u])
  BY <1>1, <1>3
<1>5. ASSUME NEW i \in 1..n, IsUser(msgs[i]) PROVE i <= u
  <2> DEFINE us == {k \in 1..n : IsUser(msgs[k])}
             top == Max(us)
  <2>1. us \subseteq 0..n /\ us # {}
    BY <1>2, <1>5
  <2>2. top \in us /\ \A y \in us : y <= top
    <3> HIDE DEF us
    <3> QED
      BY <1>2, <2>1, MaxIsGreatest
  <2>3. top \in 1..n /\ IsUser(msgs[top]) /\ \A k \in 1..n : IsUser(msgs[k]) => k <= top
    BY <2>2
  <2> HIDE DEF us, top
  <2>4. msgs[top].role # "none" /\ \A k \in 1..n : IsTask(msgs[k]) => k <= top
    BY <2>3 DEF IsUser, IsTask
  <2>5. PICK k \in 1..Len(f) : f[k] = msgs[top]
    BY <1>1, <2>3, <2>4
  <2>6. f[k].id = top /\ IsUser(f[k])
    BY <1>2, <2>3, <2>5
  <2>7. top <= u
    BY <1>3, <2>6
  <2> QED
    BY <1>3, <1>5, <2>3, <2>7
<1>6. u \in 0..n /\ (u # 0 => IsUser(msgs[u])) /\ \A i \in 1..n : IsUser(msgs[i]) => i <= u
  BY <1>3, <1>4, <1>5
<1> QED
  BY <1>6 DEF f, n, u

(* A task that is taken for open has no done summary anywhere in the history,
   also not in what FilterCompacted cuts off. *)
LEMMA PendingIsOpen ==
  ASSUME TypeInv, LatestUser(Filtered) # 0,
         PendingCompaction(Filtered, LatestUser(Filtered)),
         NEW j \in 1..Len(msgs), IsCompletedSummary(msgs[j])
  PROVE  msgs[j].parent # LatestUser(Filtered)
<1> DEFINE f == Filtered
           n == Len(msgs)
           u == LatestUser(f)
<1> SUFFICES ASSUME msgs[j].parent = u PROVE FALSE
  OBVIOUS
<1>1. \A i \in 1..n : /\ msgs[i].role # "none"
                      /\ \A k \in 1..n : IsTask(msgs[k]) => k <= i
                      => \E k \in 1..Len(f) : f[k] = msgs[i]
  BY FilteredRows
<1>2. \A k \in 1..n : IsTask(msgs[k]) => k <= u
  BY NewestUser DEF IsTask
<1>3. n \in Nat /\ u \in 0..n
  BY NewestUser DEF TypeInv
<1>4. msgs[j].parent < j /\ msgs[j].role = "assistant"
  BY DEF TypeInv, RowsOK, RowOK, IsCompletedSummary, IsAssistant
<1>5. DOMAIN f = 1..Len(f)
  BY FilteredRows
<1>6. ~ \E i \in DOMAIN f : /\ IsAssistant(f[i]) /\ f[i].summary
                            /\ f[i].finish # NoFinish /\ f[i].parent = u
  BY DEF PendingCompaction
<1> HIDE DEF f, n, u
<1>7. PICK k \in 1..Len(f) : f[k] = msgs[j]
  <2>1. \A k \in 1..n : IsTask(msgs[k]) => k <= j
    BY <1>2, <1>3, <1>4 DEF n
  <2> QED
    BY <1>1, <1>4, <2>1 DEF n
<1> QED
  BY <1>5, <1>6, <1>7 DEF IsCompletedSummary

(* What the top of the loop decides. *)
LEMMA DecideCases ==
  ASSUME TypeInv, NEW loop \in LoopState, LoopStateOK(loop, Len(msgs))
  PROVE  LET d == Decide(loop, Filtered)
             u == LatestUser(Filtered)
         IN  /\ d \in LoopState /\ d.step = loop.step
             /\ d.user \in 0..Len(msgs) /\ d.asst \in 0..Len(msgs)
             /\ d.tail \in 0..Len(msgs) /\ d.view \subseteq 1..Len(msgs)
             /\ \/ d.at = "return" /\ (u = 0 \/ ShouldExit(Filtered))
                \/ /\ d.at \in {"clear", "compact"} /\ d.user = u /\ u # 0
                   /\ PendingCompaction(Filtered, u)
                \/ /\ d.at = "turn" /\ d.user = u /\ u # 0
                   /\ d.view = Shown(Filtered)
<1> DEFINE f == Filtered
           n == Len(msgs)
           u == LatestUser(f)
           h == Before(f, u)
           t == SelectTail(h, DefaultTailTurns)
           head == Shown(IF t = 0 THEN h ELSE SubSeq(h, 1, t - 1))
           tail == IF t = 0 THEN 0 ELSE h[t].id
           d == Decide(loop, f)
<1>1. f \in Seq(Row) /\ \A k \in 1..Len(f) : f[k].id \in 1..n
  BY FilteredRows
<1>2. u \in 0..n /\ n \in Nat
  BY NewestUser DEF TypeInv
<1>3. \/ d = [loop EXCEPT !.at = "return"] /\ (u = 0 \/ ShouldExit(f))
      \/ /\ u # 0 /\ PendingCompaction(f, u)
         /\ \/ d = [loop EXCEPT !.at = "clear", !.user = u]
            \/ d = [loop EXCEPT !.at = "compact", !.user = u, !.view = head, !.tail = tail]
      \/ /\ u # 0
         /\ d = [loop EXCEPT !.at = "turn", !.user = u, !.view = Shown(f)]
  BY DEF Decide
<1> HIDE DEF f, n, u, d
<1>4. h \in Seq(Row) /\ Range(h) \subseteq Range(f)
  BY <1>1, BeforeRows
<1> HIDE DEF h
<1>5. t \in 0..Len(h)
  BY <1>4, TailRange
<1> HIDE DEF t
<1>6. \A i \in 1..Len(h) : h[i].id \in 1..n
  <2>1. Range(h) = {h[i] : i \in 1..Len(h)} /\ Range(f) = {f[i] : i \in 1..Len(f)}
    BY <1>1, <1>4, RangeEquality
  <2>2. ASSUME NEW i \in 1..Len(h) PROVE h[i].id \in 1..n
    <3>1. h[i] \in Range(f)
      BY <1>4, <2>1
    <3>2. PICK k \in 1..Len(f) : h[i] = f[k]
      BY <2>1, <3>1
    <3> QED
      BY <1>1, <3>2
  <2> QED
    BY <2>2
<1>7. head \subseteq 1..n /\ tail \in 0..n
  <2>1. head \subseteq 1..n
    <3> DEFINE list == IF t = 0 THEN h ELSE SubSeq(h, 1, t - 1)
    <3>1. \A i \in DOMAIN list : i \in 1..Len(h) /\ list[i] = h[i]
      BY <1>4, <1>5
    <3> QED
      BY <1>6, <3>1 DEF Shown
  <2>2. tail \in 0..n
    BY <1>2, <1>5, <1>6
  <2> QED
    BY <2>1, <2>2
<1> HIDE DEF head, tail
<1>8. Shown(f) \subseteq 1..n
  BY <1>1 DEF Shown
<1>9. /\ loop.user \in 0..n /\ loop.asst \in 0..n /\ loop.tail \in 0..n
      /\ loop.view \subseteq 1..n
  BY DEF LoopStateOK, n
<1>10. CASE d = [loop EXCEPT !.at = "return"] /\ (u = 0 \/ ShouldExit(f))
  <2>1. /\ d \in LoopState /\ d.at = "return" /\ d.step = loop.step
        /\ d.user = loop.user /\ d.asst = loop.asst /\ d.tail = loop.tail
        /\ d.view = loop.view
    BY <1>10 DEF LoopState
  <2> QED
    BY <1>9, <1>10, <2>1 DEF f, n, u, d
<1>13. CASE /\ u # 0 /\ PendingCompaction(f, u)
            /\ d = [loop EXCEPT !.at = "clear", !.user = u]
  <2>0. u \in Nat
    BY <1>2
  <2>1. /\ d \in LoopState /\ d.at = "clear" /\ d.step = loop.step
        /\ d.user = u /\ d.asst = loop.asst /\ d.tail = loop.tail
        /\ d.view = loop.view
    BY <1>13, <2>0 DEF LoopState
  <2> QED
    BY <1>2, <1>9, <1>13, <2>1 DEF f, n, u, d
<1>11. CASE /\ u # 0 /\ PendingCompaction(f, u)
            /\ d = [loop EXCEPT !.at = "compact", !.user = u, !.view = head, !.tail = tail]
  <2>0. u \in Nat /\ tail \in Nat /\ head \in SUBSET Nat
    BY <1>2, <1>7
  <2>1. /\ d \in LoopState /\ d.at = "compact" /\ d.step = loop.step
        /\ d.user = u /\ d.asst = loop.asst /\ d.tail = tail
        /\ d.view = head
    BY <1>11, <2>0 DEF LoopState
  <2> QED
    BY <1>2, <1>7, <1>9, <1>11, <2>1 DEF f, n, u, d
<1>12. CASE /\ u # 0
            /\ d = [loop EXCEPT !.at = "turn", !.user = u, !.view = Shown(f)]
  <2>0. u \in Nat /\ Shown(f) \in SUBSET Nat
    BY <1>2, <1>8
  <2>1. /\ d \in LoopState /\ d.at = "turn" /\ d.step = loop.step
        /\ d.user = u /\ d.asst = loop.asst /\ d.tail = loop.tail
        /\ d.view = Shown(f)
    BY <1>12, <2>0 DEF LoopState
  <2> QED
    BY <1>2, <1>8, <1>9, <1>12, <2>1 DEF f, n, u, d
<1> QED
  BY <1>3, <1>10, <1>11, <1>12, <1>13
-----------------------------------------------------------------------------
(* What a step may do to the history: it grows by at most one row, a stored row
   keeps what it is, and only the row that is streamed gets a finish. *)
SameRow(m, n) ==
  /\ n.role = m.role /\ n.parent = m.parent /\ n.view = m.view
  /\ n.summary = m.summary /\ (m.parts => n.parts)
  /\ OnlyPrompts /\ m.comp = "none" => n.comp = "none"

SameEnd(m, n) == n.finish = m.finish /\ n.err = m.err

Streaming(i) == \E r \in Call : lp[r].at \in {"stream", "summarise"} /\ lp[r].asst = i

Summarising(i) == \E r \in Call : lp[r].at = "summarise" /\ lp[r].user = i

(* Ids whose message a call is about to store. *)
Held(i) == \E c \in Call : prep[c] \in {"drawn", "stored"} /\ msgOf[c] = i

NewRow(m) == m.finish = NoFinish /\ ~m.err /\ m.tail = 0

OldRow(i, m) ==
  /\ IF msgs[i].role = "none" THEN m = msgs[i] ELSE SameRow(msgs[i], m)
  /\ SameEnd(msgs[i], m) \/ Streaming(i)
  /\ m.tail = msgs[i].tail \/ Summarising(i)
  /\ Says(m) => Says(msgs[i]) \/ Streaming(i) \/ Held(i)

LEMMA OldRowSays ==
  ASSUME NEW i, NEW m, OldRow(i, m), Says(m)
  PROVE  Says(msgs[i]) \/ Streaming(i) \/ Held(i)
BY DEF OldRow

Evolved(ms) ==
  /\ ms \in Seq(Row) /\ \A i \in 1..Len(ms) : RowOK(ms[i], i, Len(ms))
  /\ Len(ms) \in {Len(msgs), Len(msgs) + 1}
  /\ \A i \in 1..Len(msgs) : OldRow(i, ms[i])
  /\ Len(ms) > Len(msgs) => NewRow(ms[Len(ms)])

(* Rows rewritten in place, and a row added at the end. *)
LEMMA Rewritten ==
  ASSUME TypeInv, NEW ms, ms = [i \in 1..Len(msgs) |-> ms[i]],
         \A i \in 1..Len(msgs) :
           ms[i] \in Row /\ RowOK(ms[i], i, Len(msgs)) /\ OldRow(i, ms[i])
  PROVE  Evolved(ms) /\ Len(ms) = Len(msgs)
<1>1. Len(msgs) \in Nat
  BY DEF TypeInv
<1>2. ms \in [1..Len(msgs) -> Row]
  OBVIOUS
<1>3. ms \in Seq(Row) /\ Len(ms) = Len(msgs)
  BY <1>1, <1>2
<1> QED
  BY <1>1, <1>3 DEF Evolved

LEMMA Added ==
  ASSUME TypeInv, NEW ms, Evolved(ms), Len(ms) = Len(msgs),
         NEW m \in Row, NewRow(m), RowOK(m, Len(msgs) + 1, Len(msgs) + 1)
  PROVE  /\ Evolved(Append(ms, m)) /\ Len(Append(ms, m)) = Len(msgs) + 1
         /\ \A i \in 1..Len(msgs) : Append(ms, m)[i] = ms[i]
         /\ Append(ms, m)[Len(msgs) + 1] = m
<1> DEFINE n == Len(msgs)
           a == Append(ms, m)
<1>1. n \in Nat /\ ms \in Seq(Row) /\ \A i \in 1..n : RowOK(ms[i], i, n)
  <2>1. n \in Nat
    BY DEF TypeInv
  <2>2. ms \in Seq(Row) /\ \A i \in 1..Len(ms) : RowOK(ms[i], i, Len(ms))
    BY DEF Evolved
  <2> QED
    BY <2>1, <2>2
<1>2. /\ a \in Seq(Row) /\ Len(a) = n + 1 /\ a[n + 1] = m
      /\ \A i \in 1..n : a[i] = ms[i]
  BY <1>1, AppendProperties
<1> HIDE DEF a
<1>3. \A i \in 1..n : OldRow(i, a[i])
  <2>1. \A i \in 1..n : OldRow(i, ms[i])
    BY DEF Evolved
  <2> QED
    BY <1>2, <2>1
<1> HIDE DEF n
<1>4. \A i \in 1..n + 1 : RowOK(a[i], i, n + 1)
  <2>1. ASSUME NEW i \in 1..n PROVE RowOK(a[i], i, n + 1)
    <3>1. RowOK(a[i], i, n)
      BY <1>1, <1>2
    <3>2. 0..n \subseteq 0..(n + 1) /\ 1..n \subseteq 1..(n + 1)
      BY <1>1
    <3> QED
      BY <3>1, <3>2 DEF RowOK
  <2>2. RowOK(a[n + 1], n + 1, n + 1)
    BY <1>2 DEF n
  <2>3. \A i \in 1..n + 1 : i \in 1..n \/ i = n + 1
    BY <1>1
  <2> QED
    BY <2>1, <2>2, <2>3
<1>5. Len(a) \in {n, n + 1} /\ (Len(a) > n => NewRow(a[Len(a)]))
  BY <1>2
<1>6. Evolved(a)
  BY <1>2, <1>3, <1>4, <1>5 DEF Evolved, n
<1> QED
  BY <1>2, <1>6 DEF a, n

LEMMA Stays == TypeInv => Evolved(msgs)
<1> SUFFICES ASSUME TypeInv PROVE Evolved(msgs)
  OBVIOUS
<1>1. \A i \in 1..Len(msgs) : OldRow(i, msgs[i])
  BY DEF OldRow, SameRow, SameEnd
<1>2. msgs \in Seq(Row) /\ \A i \in 1..Len(msgs) : RowOK(msgs[i], i, Len(msgs))
  BY DEF TypeInv, RowsOK
<1>3. Len(msgs) \in Nat
  BY <1>2
<1> QED
  BY <1>1, <1>2, <1>3 DEF Evolved

(* Giving the streamed row its end; a finished row's other fields stay. *)
LEMMA RowEnds ==
  ASSUME TypeInv, NEW a \in 1..Len(msgs), Streaming(a), IsAssistant(msgs[a]),
         NEW fin \in Finish, NEW failed \in BOOLEAN,
         NEW m, m = [msgs[a] EXCEPT !.finish = fin, !.err = failed]
  PROVE  m \in Row /\ RowOK(m, a, Len(msgs)) /\ OldRow(a, m)
<1>1. msgs[a] \in Row /\ RowOK(msgs[a], a, Len(msgs))
  BY DEF TypeInv, RowsOK
<1>2. m \in Row
  BY <1>1 DEF Row
<1>3. /\ m.id = msgs[a].id /\ m.tail = msgs[a].tail /\ m.parent = msgs[a].parent
      /\ m.view = msgs[a].view /\ m.role = msgs[a].role
      /\ m.summary = msgs[a].summary /\ m.parts = msgs[a].parts /\ m.comp = msgs[a].comp
  BY <1>1 DEF Row
<1>4. RowOK(m, a, Len(msgs))
  BY <1>1, <1>3 DEF RowOK, IsAssistant
<1>5. OldRow(a, m)
  BY <1>3 DEF OldRow, SameRow, IsAssistant
<1> QED
  BY <1>2, <1>4, <1>5

(* Recording something on a user's row: its parts, its task, its tail. *)
LEMMA UserRowChanges ==
  ASSUME TypeInv, NEW u \in 1..Len(msgs), IsUser(msgs[u]),
         NEW p \in BOOLEAN, msgs[u].parts => p,
         NEW c \in {"none", "manual", "auto"},
         OnlyPrompts /\ msgs[u].comp = "none" => c = "none",
         p \/ c # "none" => msgs[u].parts \/ msgs[u].comp # "none" \/ Held(u),
         NEW t \in 0..Len(msgs), t = msgs[u].tail \/ Summarising(u),
         NEW m, m = [msgs[u] EXCEPT !.parts = p, !.comp = c, !.tail = t]
  PROVE  m \in Row /\ RowOK(m, u, Len(msgs)) /\ OldRow(u, m)
<1>1. msgs[u] \in Row /\ RowOK(msgs[u], u, Len(msgs))
  BY DEF TypeInv, RowsOK
<1>2. t \in Nat
  BY DEF TypeInv
<1>3. m \in Row
  BY <1>1, <1>2 DEF Row
<1>4. /\ m.id = msgs[u].id /\ m.tail = t /\ m.parent = msgs[u].parent
      /\ m.view = msgs[u].view /\ m.role = msgs[u].role /\ m.parts = p
      /\ m.summary = msgs[u].summary /\ m.finish = msgs[u].finish /\ m.err = msgs[u].err
      /\ m.comp = c
  BY <1>1 DEF Row
<1>5. RowOK(m, u, Len(msgs))
  BY <1>1, <1>4 DEF RowOK, IsUser
<1>6. OldRow(u, m)
  BY <1>4 DEF OldRow, SameRow, SameEnd, Says, IsUser
<1> QED
  BY <1>3, <1>5, <1>6

LEMMA UnchangedRow ==
  ASSUME TypeInv, NEW i \in 1..Len(msgs)
  PROVE  msgs[i] \in Row /\ RowOK(msgs[i], i, Len(msgs)) /\ OldRow(i, msgs[i])
BY DEF TypeInv, RowsOK, OldRow, SameRow, SameEnd
-----------------------------------------------------------------------------
(* The one session has one run at work. *)
LEMMA OnlyOneWorks ==
  ASSUME RSInv, NEW r \in Call, NEW q \in Call, Owns(r), Owns(q)
  PROVE  r = q
<1>1. sessionOf[r] = sessionOf[q]
  BY AgentLoopAssumption DEF RSInv, RSTypeOK
<1> QED
  BY <1>1 DEF RSInv, RSTypeOK, SlotIsExact

(* The working run counts its task among those cut short, or none. *)
CutsCounted(r) ==
  \/ cutShort' = cutShort
  \/ lp[r].user \in 1..Len(msgs) /\ cutShort' = cutShort \cup {lp[r].user}

(* What the step of a working run does: its own loop moves, the history evolves
   and nothing else changes. *)
RunMoves(r, loop) ==
  /\ stage[r] = "working"
  /\ lp' = [lp EXCEPT ![r] = loop]
  /\ loop \in LoopState /\ LoopStateOK(loop, Len(msgs'))
  /\ loop.at \in {"stream", "summarise"} => loop.asst = Len(msgs) + 1
  /\ Evolved(msgs')
  /\ troubled' \in {troubled, troubled \cup {r}}
  /\ CutsCounted(r)
  /\ UNCHANGED <<rsVars, kind, prep, msgOf, fresh>>

(* What is needed of the run that moves, the facts about it before a step. *)
LEMMA AtFacts ==
  ASSUME LoopIndInv, NEW r \in Call
  PROVE  /\ lp[r] \in LoopState /\ LoopStateOK(lp[r], Len(msgs)) /\ Len(msgs) \in Nat
         /\ msgs = [i \in 1..Len(msgs) |-> msgs[i]]
         /\ lp[r].at \in {"turn", "stream", "clear", "compact", "summarise"} =>
              /\ lp[r].user \in 1..Len(msgs) /\ IsUser(msgs[lp[r].user])
              /\ lp[r].step < MaxSteps
         /\ lp[r].at \in {"stream", "summarise"} =>
              /\ Streams(r) /\ Streaming(lp[r].asst)
              /\ lp[r].asst # lp[r].user
<1>1. msgs \in Seq(Row) /\ lp \in [Call -> LoopState] /\ LoopStateOK(lp[r], Len(msgs))
  BY DEF LoopIndInv, TypeInv
<1>2. lp[r].at \in {"turn", "stream", "clear", "compact", "summarise"} =>
              /\ lp[r].user \in 1..Len(msgs) /\ IsUser(msgs[lp[r].user])
              /\ lp[r].step < MaxSteps
  BY <1>1 DEF LoopIndInv, LoopPlace, LoopStateOK
<1>3. lp[r].at \in {"stream", "summarise"} => Streams(r) /\ Streaming(lp[r].asst)
  BY DEF LoopIndInv, LoopPlace, Streaming
<1> QED
  BY <1>1, <1>2, <1>3 DEF Streams, IsUser, IsAssistant

LEMMA StepLimit == MaxSteps \in Nat \ {0}
BY AgentLoopAssumption

(* The loop states a step can lead to. *)
LEMMA FreshState ==
  ASSUME NEW w \in {"top", "return"}, NEW k \in 0..MaxSteps, NEW n \in Nat
  PROVE  LET loop == [at |-> w, step |-> k, user |-> 0, asst |-> 0, view |-> {}, tail |-> 0]
         IN  loop \in LoopState /\ LoopStateOK(loop, n) /\ loop.at = w
<1> DEFINE loop == [at |-> w, step |-> k, user |-> 0, asst |-> 0, view |-> {}, tail |-> 0]
<1>1. /\ {} \in SUBSET Nat /\ 0 \in Nat
      /\ w \in {"top", "turn", "stream", "clear", "compact", "summarise", "return"}
  OBVIOUS
<1>2. loop \in LoopState
  BY <1>1 DEF LoopState
<1>3. LoopStateOK(loop, n) /\ loop.at = w
  BY DEF LoopStateOK
<1> QED
  BY <1>2, <1>3

LEMMA LeaveState ==
  ASSUME LoopIndInv, NEW r \in Call, NEW n \in Nat
  PROVE  \E loop \in LoopState : /\ LoopStateOK(loop, n) /\ loop.at = "return"
                                 /\ Leave(r) = [lp EXCEPT ![r] = loop]
<1> DEFINE k == lp[r].step
           loop == [at |-> "return", step |-> k, user |-> 0, asst |-> 0, view |-> {}, tail |-> 0]
<1>1. k \in 0..MaxSteps
  BY AtFacts DEF LoopState
<1>2. Leave(r) = [lp EXCEPT ![r] = [LoopStart EXCEPT !.at = "return", !.step = k]]
  BY DEF Leave
<1> HIDE DEF k
<1>3. [LoopStart EXCEPT !.at = "return", !.step = k] = loop
  <2> DEFINE left == [LoopStart EXCEPT !.at = "return"]
  <2>1. left = [at |-> "return", step |-> 0, user |-> 0, asst |-> 0, view |-> {}, tail |-> 0]
    BY DEF LoopStart
  <2> HIDE DEF left
  <2>2. [left EXCEPT !.step = k] = loop
    BY <2>1
  <2> QED
    BY <2>2 DEF left
<1>4. loop \in LoopState /\ LoopStateOK(loop, n) /\ loop.at = "return"
  BY <1>1, FreshState
<1> HIDE DEF loop
<1> QED
  BY <1>2, <1>3, <1>4

LEMMA NextState ==
  ASSUME LoopIndInv, NEW r \in Call, lp[r].step < MaxSteps, NEW n \in Nat
  PROVE  \E loop \in LoopState : /\ LoopStateOK(loop, n) /\ loop.at = "top"
                                 /\ NextStep(r) = [lp EXCEPT ![r] = loop]
<1> DEFINE k == lp[r].step + 1
           loop == [at |-> "top", step |-> k, user |-> 0, asst |-> 0, view |-> {}, tail |-> 0]
<1>1. k \in 0..MaxSteps
  <2>1. lp[r].step \in 0..MaxSteps /\ MaxSteps \in Nat
    BY AtFacts, StepLimit DEF LoopState
  <2> QED
    BY <2>1
<1>2. NextStep(r) = [lp EXCEPT ![r] = [LoopStart EXCEPT !.step = k]]
  BY DEF NextStep
<1> HIDE DEF k
<1>3. [LoopStart EXCEPT !.step = k] = loop
  BY DEF LoopStart
<1>4. loop \in LoopState /\ LoopStateOK(loop, n) /\ loop.at = "top"
  BY <1>1, FreshState
<1> HIDE DEF loop
<1> QED
  BY <1>2, <1>3, <1>4

(* A loop that has begun to stream the row a. *)
BegunState(r, loop, w, a) ==
  /\ LoopStateOK(loop, a)
  /\ loop.at = w /\ loop.asst = a /\ loop.user = lp[r].user
  /\ loop.view = lp[r].view /\ loop.tail = lp[r].tail
  /\ lp' = [lp EXCEPT ![r] = loop]

LEMMA BeginState ==
  ASSUME LoopIndInv, NEW r \in Call, NEW w, NEW a, a = Len(msgs) + 1,
         (BeginTurn(r) /\ w = "stream") \/ (BeginSummary(r) /\ w = "summarise")
  PROVE  \E loop \in LoopState : BegunState(r, loop, w, a)
<1> DEFINE loop == [lp[r] EXCEPT !.at = w, !.asst = a]
<1>1. /\ lp[r] \in LoopState /\ LoopStateOK(lp[r], Len(msgs)) /\ Len(msgs) \in Nat
      /\ lp \in [Call -> LoopState]
  BY AtFacts DEF LoopIndInv, TypeInv
<1>0. w \in {"stream", "summarise"} /\ lp' = [lp EXCEPT ![r].at = w, ![r].asst = a]
  BY DEF BeginTurn, BeginSummary
<1>2. loop \in LoopState
  <2>1. lp[r] \in LoopState /\ a \in Nat /\ w \in {"stream", "summarise"}
    BY <1>0, <1>1
  <2> QED
    BY <2>1 DEF LoopState
<1>3. /\ loop.at = w /\ loop.asst = a /\ loop.user = lp[r].user /\ loop.tail = lp[r].tail
      /\ loop.view = lp[r].view /\ loop.step = lp[r].step
  BY <1>1 DEF LoopState
<1>t. lp[r].step < MaxSteps
  <2>1. lp[r].at \in {"turn", "compact"}
    BY DEF BeginTurn, BeginSummary, At
  <2> QED
    BY <2>1, AtFacts
<1> HIDE DEF loop
<1>4. LoopStateOK(loop, a)
  <2>1. /\ lp[r].user \in 0..Len(msgs) /\ lp[r].tail \in 0..Len(msgs)
        /\ lp[r].view \subseteq 1..Len(msgs)
    BY <1>1 DEF LoopStateOK
  <2>2. 0..Len(msgs) \subseteq 0..a /\ 1..Len(msgs) \subseteq 1..a /\ a \in 0..a
    BY <1>1
  <2> QED
    BY <1>3, <1>t, <2>1, <2>2 DEF LoopStateOK
<1>5. lp' = [lp EXCEPT ![r] = loop]
  BY <1>0, <1>1 DEF loop
<1> QED
  BY <1>2, <1>3, <1>4, <1>5 DEF BegunState

(* The rows a step adds. *)
LEMMA UserRow ==
  ASSUME NEW i \in Nat, NEW n \in Nat, NEW c \in {"none", "auto"}, NEW p \in BOOLEAN,
         NEW m, m = [User(i, c) EXCEPT !.parts = p] \/ (m = User(i, c) /\ ~p)
  PROVE  /\ m \in Row /\ NewRow(m) /\ RowOK(m, i, n)
         /\ m.role = "user" /\ m.comp = c /\ m.parts = p
<1>1. m = [id |-> i, role |-> "user", parts |-> p, comp |-> c,
           tail |-> 0, finish |-> NoFinish, err |-> FALSE, summary |-> FALSE,
           parent |-> 0, view |-> {}]
  <2>1. CASE m = [User(i, c) EXCEPT !.parts = p]
    BY <2>1 DEF User, Blank
  <2>2. CASE m = User(i, c) /\ ~p
    <3> DEFINE b == Blank(i)
    <3>1. b = [id |-> i, role |-> "none", parts |-> FALSE, comp |-> "none",
               tail |-> 0, finish |-> NoFinish, err |-> FALSE, summary |-> FALSE,
               parent |-> 0, view |-> {}]
      BY DEF Blank
    <3>2. m = [b EXCEPT !.role = "user", !.comp = c]
      BY <2>2 DEF User
    <3> HIDE DEF b
    <3>3. m = [id |-> i, role |-> "user", parts |-> FALSE, comp |-> c,
               tail |-> 0, finish |-> NoFinish, err |-> FALSE, summary |-> FALSE,
               parent |-> 0, view |-> {}]
      BY <3>1, <3>2
    <3>4. p = FALSE
      BY <2>2
    <3> QED
      BY <3>3, <3>4
  <2> QED
    BY <2>1, <2>2
<1>2. m \in Row
  <2>1. {} \in SUBSET Nat /\ 0 \in Nat /\ NoFinish \in Finish /\ FALSE \in BOOLEAN
    BY DEF Finish
  <2>2. c \in {"none", "manual", "auto"} /\ "user" \in {"none", "user", "assistant"}
    OBVIOUS
  <2> QED
    BY <1>1, <2>1, <2>2 DEF Row
<1>3. NewRow(m) /\ m.role = "user" /\ m.comp = c /\ m.parts = p
  BY <1>1 DEF NewRow
<1>4. RowOK(m, i, n)
  BY <1>1 DEF RowOK
<1> QED
  BY <1>2, <1>3, <1>4

LEMMA AnswerRow ==
  ASSUME LoopIndInv, NEW r \in Call, lp[r].at \in {"turn", "compact"},
         NEW s \in BOOLEAN,
         NEW m, m = Assistant(Len(msgs) + 1, lp[r].user, lp[r].view, s)
  PROVE  /\ m \in Row /\ NewRow(m) /\ RowOK(m, Len(msgs) + 1, Len(msgs) + 1)
         /\ IsAssistant(m) /\ m.parent = lp[r].user /\ m.finish = NoFinish /\ m.summary = s
         /\ m.view = lp[r].view
<1>1. /\ Len(msgs) \in Nat /\ lp[r].user \in 1..Len(msgs)
      /\ lp[r].view \subseteq 1..Len(msgs)
  BY AtFacts DEF LoopStateOK
<1>2. m = [id |-> Len(msgs) + 1, role |-> "assistant", parts |-> FALSE, comp |-> "none",
           tail |-> 0, finish |-> NoFinish, err |-> FALSE, summary |-> s,
           parent |-> lp[r].user, view |-> lp[r].view]
  BY DEF Assistant, Blank
<1>3. lp[r].user \in Nat /\ lp[r].view \in SUBSET Nat /\ Len(msgs) + 1 \in Nat
  BY <1>1
<1>4. m \in Row
  <2> DEFINE i == Len(msgs) + 1
             u == lp[r].user
             v == lp[r].view
  <2>1. /\ 0 \in Nat /\ i \in Nat /\ NoFinish \in Finish /\ FALSE \in BOOLEAN
        /\ u \in Nat /\ v \in SUBSET Nat
    BY <1>3 DEF Finish
  <2>2. "none" \in {"none", "manual", "auto"} /\ "assistant" \in {"none", "user", "assistant"}
    OBVIOUS
  <2> HIDE DEF i, u, v
  <2>3. [id |-> i, role |-> "assistant", parts |-> FALSE, comp |-> "none",
         tail |-> 0, finish |-> NoFinish, err |-> FALSE, summary |-> s,
         parent |-> u, view |-> v] \in Row
    BY <2>1, <2>2 DEF Row
  <2> QED
    BY <1>2, <2>3 DEF i, u, v
<1>5. /\ NewRow(m) /\ IsAssistant(m) /\ m.parent = lp[r].user /\ m.finish = NoFinish
      /\ m.summary = s /\ m.view = lp[r].view
  BY <1>2 DEF NewRow, IsAssistant
<1>6. RowOK(m, Len(msgs) + 1, Len(msgs) + 1)
  <2>1. m.id = Len(msgs) + 1 /\ m.tail = 0 /\ m.role = "assistant"
    BY <1>2
  <2>2. lp[r].view \subseteq 1..Len(msgs) + 1
    BY <1>1
  <2> QED
    BY <1>1, <1>5, <2>1, <2>2 DEF RowOK
<1> QED
  BY <1>4, <1>5, <1>6
-----------------------------------------------------------------------------
(* Every step of a run but its return, one by one. *)
Moves(r) ==
  \E loop : /\ RunMoves(r, loop)
            /\ loop.at \in {"top", "return"} \/ (LoopPlace(r)' /\ TaskOpen(r)')

(* A step that ends the iteration: here or with the run. *)
LEMMA IterationEnds ==
  ASSUME LoopIndInv, NEW r \in Call, stage[r] = "working",
         lp' = Leave(r) \/ (lp' = NextStep(r) /\ lp[r].step < MaxSteps),
         Evolved(msgs'), troubled' \in {troubled, troubled \cup {r}}, CutsCounted(r),
         UNCHANGED <<rsVars, kind, prep, msgOf, fresh>>
  PROVE  Moves(r)
<1>1. Len(msgs') \in Nat
  BY DEF Evolved
<1>2. PICK loop \in LoopState : /\ LoopStateOK(loop, Len(msgs'))
                                /\ loop.at \in {"top", "return"}
                                /\ lp' = [lp EXCEPT ![r] = loop]
  <2>1. CASE lp' = Leave(r)
    BY <1>1, <2>1, LeaveState
  <2>2. CASE lp' = NextStep(r) /\ lp[r].step < MaxSteps
    BY <1>1, <2>2, NextState
  <2> QED
    BY <2>1, <2>2
<1>3. RunMoves(r, loop)
  BY <1>2 DEF RunMoves
<1> QED
  BY <1>2, <1>3 DEF Moves

LEMMA GivesUpMoves ==
  ASSUME LoopIndInv, NEW r \in Call, LoopGivesUp(r) \/ CannotBegin(r)
  PROVE  Moves(r)
<1>1. TypeInv
  BY DEF LoopIndInv
<1>2. Evolved(msgs)
  BY <1>1, Stays
<1>3. /\ stage[r] = "working" /\ lp' = Leave(r) /\ troubled' = troubled \cup {r}
      /\ msgs' = msgs /\ CutsCounted(r)
      /\ UNCHANGED <<rsVars, kind, prep, msgOf, fresh>>
  BY DEF LoopGivesUp, CannotBegin, At, CutsCounted
<1>4. Evolved(msgs')
  BY <1>2, <1>3
<1> QED
  BY <1>3, <1>4, IterationEnds

LEMMA ReadsMoves ==
  ASSUME LoopIndInv, NEW r \in Call, LoopReads(r)
  PROVE  Moves(r)
<1> DEFINE loop == Decide(lp[r], Filtered)
           u == LatestUser(Filtered)
<1>0. TypeInv /\ lp[r] \in LoopState /\ LoopStateOK(lp[r], Len(msgs)) /\ lp \in [Call -> LoopState]
  BY AtFacts DEF LoopIndInv, TypeInv
<1>1. /\ stage[r] = "working" /\ lp[r].step < MaxSteps
      /\ lp' = [lp EXCEPT ![r] = loop] /\ msgs' = msgs /\ troubled' = troubled
      /\ CutsCounted(r)
      /\ UNCHANGED <<rsVars, kind, prep, msgOf, fresh>>
  BY <1>0 DEF LoopReads, At, MayRead, CutsCounted
<1>2. /\ loop \in LoopState /\ loop.step = lp[r].step
      /\ loop.user \in 0..Len(msgs) /\ loop.asst \in 0..Len(msgs)
      /\ loop.tail \in 0..Len(msgs) /\ loop.view \subseteq 1..Len(msgs)
      /\ \/ loop.at = "return"
         \/ /\ loop.at \in {"clear", "compact"} /\ loop.user = u /\ u # 0
            /\ PendingCompaction(Filtered, u)
         \/ loop.at = "turn" /\ loop.user = u /\ u # 0
  BY <1>0, DecideCases
<1>3. u # 0 => u \in 1..Len(msgs) /\ IsUser(msgs[u])
  BY <1>0, NewestUser
<1>4. u # 0 /\ PendingCompaction(Filtered, u) =>
        \A j \in 1..Len(msgs) : IsCompletedSummary(msgs[j]) => msgs[j].parent # u
  BY <1>0, PendingIsOpen
<1> HIDE DEF loop, u
<1>5. Evolved(msgs')
  BY <1>0, <1>1, Stays
<1>6. RunMoves(r, loop)
  BY <1>1, <1>2, <1>5 DEF RunMoves, LoopStateOK
<1>7. lp'[r] = loop
  BY <1>0, <1>1
<1>8. CASE loop.at = "return"
  BY <1>6, <1>8 DEF Moves
<1>9. CASE loop.at # "return"
  <2>1. LoopPlace(r)'
    BY <1>1, <1>2, <1>3, <1>7, <1>9 DEF LoopPlace, rsVars
  <2>2. TaskOpen(r)'
    BY <1>1, <1>2, <1>4, <1>7, <1>9 DEF TaskOpen
  <2> QED
    BY <1>6, <2>1, <2>2 DEF Moves
<1> QED
  BY <1>8, <1>9

LEMMA BeginMoves ==
  ASSUME LoopIndInv, NEW r \in Call, BeginTurn(r) \/ BeginSummary(r)
  PROVE  Moves(r)
<1> DEFINE a == Len(msgs) + 1
           w == IF lp[r].at = "turn" THEN "stream" ELSE "summarise"
           s == w = "summarise"
           m == Assistant(a, lp[r].user, lp[r].view, s)
<1>0. TypeInv /\ Evolved(msgs) /\ lp \in [Call -> LoopState]
  BY Stays DEF LoopIndInv, TypeInv
<1>1. /\ stage[r] = "working" /\ lp[r].at \in {"turn", "compact"} /\ lp[r].step < MaxSteps
      /\ msgs' = Append(msgs, m)
      /\ lp' = [lp EXCEPT ![r].at = w, ![r].asst = a] /\ troubled' = troubled
      /\ CutsCounted(r)
      /\ UNCHANGED <<rsVars, kind, prep, msgOf, fresh>>
  <2>1. lp[r].at \in {"turn", "compact"} => lp[r].step < MaxSteps
    BY AtFacts
  <2>2. CASE BeginTurn(r)
    BY <2>1, <2>2 DEF BeginTurn, At, CutsCounted
  <2>3. CASE BeginSummary(r)
    BY <2>1, <2>3 DEF BeginSummary, At, CutsCounted
  <2> QED
    BY <2>2, <2>3
<1>2. w \in {"stream", "summarise"} /\ (w = "summarise" <=> lp[r].at = "compact")
  BY <1>1
<1>3. /\ Len(msgs) \in Nat /\ lp[r].user \in 1..Len(msgs) /\ IsUser(msgs[lp[r].user])
  BY <1>1, AtFacts
<1>a. a = Len(msgs) + 1 /\ s \in BOOLEAN /\ m = Assistant(a, lp[r].user, lp[r].view, s)
  OBVIOUS
<1>s. s = (w = "summarise")
  OBVIOUS
<1> HIDE DEF a, m, s, w
<1>4. /\ m \in Row /\ NewRow(m) /\ RowOK(m, a, a)
      /\ IsAssistant(m) /\ m.parent = lp[r].user /\ m.finish = NoFinish
      /\ m.summary = s
  <2>1. m = Assistant(Len(msgs) + 1, lp[r].user, lp[r].view, s) /\ s \in BOOLEAN
    BY <1>a
  <2>2. lp[r].at \in {"turn", "compact"}
    BY <1>1
  <2>3. /\ m \in Row /\ NewRow(m) /\ RowOK(m, Len(msgs) + 1, Len(msgs) + 1)
        /\ IsAssistant(m) /\ m.parent = lp[r].user /\ m.finish = NoFinish
        /\ m.summary = s
    BY <2>1, <2>2, AnswerRow
  <2> QED
    BY <1>a, <2>3
<1>5. /\ Evolved(msgs') /\ Len(msgs') = a
      /\ \A i \in 1..Len(msgs) : msgs'[i] = msgs[i]
      /\ msgs'[a] = m
  <2>1. /\ m \in Row /\ NewRow(m)
        /\ RowOK(m, Len(msgs) + 1, Len(msgs) + 1)
    BY <1>4, <1>a
  <2>2. msgs' = Append(msgs, m)
    BY <1>1
  <2>3. /\ Evolved(Append(msgs, m)) /\ Len(Append(msgs, m)) = Len(msgs) + 1
        /\ \A i \in 1..Len(msgs) : Append(msgs, m)[i] = msgs[i]
        /\ Append(msgs, m)[Len(msgs) + 1] = m
    <3>1. TypeInv /\ Evolved(msgs)
      BY <1>0
    <3> QED
      BY <2>1, <3>1, Added
  <2> QED
    BY <1>a, <2>2, <2>3
<1>6. PICK loop \in LoopState :
        /\ LoopStateOK(loop, a)
        /\ loop.at = w /\ loop.asst = a /\ loop.user = lp[r].user
        /\ lp' = [lp EXCEPT ![r] = loop]
  <2>1. (BeginTurn(r) /\ w = "stream") \/ (BeginSummary(r) /\ w = "summarise")
    <3>1. CASE BeginTurn(r)
      <4>1. lp[r].at = "turn"
        BY <3>1 DEF BeginTurn, At
      <4>2. w = "stream"
        BY <1>2, <4>1
      <4> QED
        BY <3>1, <4>2
    <3>2. CASE BeginSummary(r)
      <4>1. lp[r].at = "compact"
        BY <3>2 DEF BeginSummary, At
      <4>2. w = "summarise"
        BY <1>2, <4>1
      <4> QED
        BY <3>2, <4>2
    <3> QED
      BY <3>1, <3>2
  <2>2. \E loop \in LoopState : BegunState(r, loop, w, a)
    <3>1. a = Len(msgs) + 1
      BY <1>a
    <3> HIDE DEF a, w
    <3> QED
      BY <2>1, <3>1, BeginState
  <2> QED
    BY <2>2 DEF BegunState
<1>7. RunMoves(r, loop)
  BY <1>1, <1>5, <1>6, <1>a DEF RunMoves
<1>8. lp'[r] = loop
  BY <1>0, <1>6
<1>9. LoopPlace(r)'
  <2>1. stage'[r] = "working"
    BY <1>1 DEF rsVars
  <2>2. lp'[r].user \in 1..Len(msgs') /\ IsUser(msgs'[lp'[r].user])
    BY <1>3, <1>5, <1>6, <1>8, <1>a
  <2>3. a \in 1..Len(msgs')
    BY <1>3, <1>5, <1>a
  <2>4. Streams(r)'
    BY <1>4, <1>5, <1>6, <1>8, <1>s, <2>3 DEF Streams
  <2> QED
    BY <2>1, <2>2, <2>4 DEF LoopPlace
<1>10. TaskOpen(r)'
  <2> SUFFICES ASSUME lp'[r].at \in {"compact", "summarise"},
                      NEW j \in 1..Len(msgs'), IsCompletedSummary(msgs'[j])
               PROVE  msgs'[j].parent # lp'[r].user
    BY DEF TaskOpen
  <2>1. lp[r].at = "compact"
    BY <1>2, <1>6, <1>8
  <2>2. j # a
    BY <1>4, <1>5 DEF IsCompletedSummary
  <2>3. j \in 1..Len(msgs) /\ msgs'[j] = msgs[j]
    BY <1>3, <1>5, <1>a, <2>2
  <2> QED
    BY <1>6, <1>8, <2>1, <2>3 DEF LoopIndInv, TaskOpen
<1> QED
  BY <1>7, <1>9, <1>10 DEF Moves
-----------------------------------------------------------------------------
(* The streamed row gets its end, and nothing else in the history changes. *)
LEMMA StreamEnds ==
  ASSUME LoopIndInv, NEW r \in Call, lp[r].at \in {"stream", "summarise"},
         NEW fin \in Finish, NEW failed \in BOOLEAN,
         NEW ms, ms = [msgs EXCEPT ![lp[r].asst] = [@ EXCEPT !.finish = fin, !.err = failed]]
  PROVE  Evolved(ms) /\ Len(ms) = Len(msgs)
<1> DEFINE a == lp[r].asst
           m == [msgs[a] EXCEPT !.finish = fin, !.err = failed]
<1>1. /\ TypeInv /\ a \in 1..Len(msgs) /\ Streaming(a) /\ IsAssistant(msgs[a])
      /\ msgs = [i \in 1..Len(msgs) |-> msgs[i]]
  BY AtFacts DEF LoopIndInv, Streams
<1>2. m \in Row /\ RowOK(m, a, Len(msgs)) /\ OldRow(a, m)
  BY <1>1, RowEnds
<1>3. ms = [msgs EXCEPT ![a] = m]
  OBVIOUS
<1> HIDE DEF a, m
<1>4. ms = [i \in 1..Len(msgs) |-> ms[i]] /\ ms[a] = m
  BY <1>1, <1>3
<1>5. \A i \in 1..Len(msgs) : ms[i] \in Row /\ RowOK(ms[i], i, Len(msgs)) /\ OldRow(i, ms[i])
  <2> TAKE i \in 1..Len(msgs)
  <2>1. CASE i = a
    BY <1>2, <1>4, <2>1
  <2>2. CASE i # a
    <3>1. ms[i] = msgs[i]
      BY <1>1, <1>3, <2>2
    <3> QED
      BY <1>1, <3>1, UnchangedRow
  <2> QED
    BY <2>1, <2>2
<1> QED
  BY <1>1, <1>4, <1>5, Rewritten

LEMMA FinishesAreFinish ==
  /\ Finishes \subseteq Finish /\ NoFinish \in Finish /\ {"stop", "error"} \subseteq Finish
  /\ Stored(Finishes) \subseteq Finish /\ Stored(Finishes \ {"tool-calls"}) \subseteq Finish
BY AgentLoopAssumption DEF Finish, Stored

(* The turn ended without a row of its own. *)
LEMMA TurnEndMoves ==
  ASSUME LoopIndInv, NEW r \in Call,
         TurnContinues(r) \/ TurnStructured(r) \/ TurnFails(r)
  PROVE  Moves(r)
<1> DEFINE a == lp[r].asst
<1>0. /\ lp[r] \in LoopState /\ (lp[r].at = "stream" => lp[r].step < MaxSteps)
      /\ TypeInv
  BY AtFacts DEF LoopIndInv
<1>1. /\ stage[r] = "working" /\ lp[r].at = "stream"
      /\ lp' = Leave(r) \/ lp' = NextStep(r)
      /\ troubled' \in {troubled, troubled \cup {r}} /\ CutsCounted(r)
      /\ UNCHANGED <<rsVars, kind, prep, msgOf, fresh>>
  BY DEF TurnContinues, TurnStructured, TurnFails, At, CutsCounted
<1>2. \E fin \in Finish, failed \in BOOLEAN :
        msgs' = [msgs EXCEPT ![a] = [@ EXCEPT !.finish = fin, !.err = failed]]
  <2>0. msgs \in Seq(Row) /\ a \in 1..Len(msgs) /\ msgs[a] \in Row
    BY <1>0, <1>1, AtFacts DEF TypeInv, Streams
  <2>1. ASSUME NEW fin \in Finish, msgs' = [msgs EXCEPT ![a].finish = fin]
        PROVE  \E failed \in BOOLEAN :
                 msgs' = [msgs EXCEPT ![a] = [@ EXCEPT !.finish = fin, !.err = failed]]
    <3>1. msgs[a].err \in BOOLEAN
      BY <2>0 DEF Row
    <3>2. [msgs[a] EXCEPT !.finish = fin]
            = [msgs[a] EXCEPT !.finish = fin, !.err = msgs[a].err]
      BY <2>0 DEF Row
    <3> QED
      BY <2>1, <3>1, <3>2
  <2>2. CASE TurnContinues(r)
    BY <2>1, <2>2, FinishesAreFinish DEF TurnContinues
  <2>3. CASE TurnStructured(r)
    <3>1. CASE msgs' = [msgs EXCEPT ![a].finish = "stop"]
      BY <2>1, <3>1, FinishesAreFinish
    <3>2. CASE \E fin \in Stored(Finishes) : msgs' = [msgs EXCEPT ![a].finish = fin]
      BY <2>1, <3>2, FinishesAreFinish
    <3>3. \/ msgs' = [msgs EXCEPT ![lp[r].asst].finish = "stop"]
          \/ \E f \in Stored(Finishes) : msgs' = [msgs EXCEPT ![lp[r].asst].finish = f]
      BY <2>3, Zenon DEF TurnStructured
    <3> QED
      BY <3>1, <3>2, <3>3, Zenon
  <2>4. CASE TurnFails(r)
    <3>1. PICK fin \in Finishes \cup {NoFinish}, failed \in BOOLEAN :
            msgs' = [msgs EXCEPT ![lp[r].asst].finish = fin, ![lp[r].asst].err = failed]
      BY <2>4, Zenon DEF TurnFails
    <3>2. msgs' = [msgs EXCEPT ![a] = [@ EXCEPT !.finish = fin, !.err = failed]]
      BY <2>0, <3>1
    <3> QED
      BY <3>1, <3>2, FinishesAreFinish
  <2> QED
    BY <2>2, <2>3, <2>4
<1>3. Evolved(msgs')
  BY <1>1, <1>2, StreamEnds
<1> QED
  BY <1>0, <1>1, <1>3, IterationEnds

(* The turn ended and left a compaction task behind, or an empty message. *)
LEMMA OverflowMoves ==
  ASSUME LoopIndInv, NEW r \in Call, TurnOverflows(r) \/ TaskCutShort(r)
  PROVE  Moves(r)
<1> DEFINE a == lp[r].asst
           n == Len(msgs) + 1
<1>0. /\ lp[r] \in LoopState /\ (lp[r].at = "stream" => lp[r].step < MaxSteps)
      /\ TypeInv
  BY AtFacts DEF LoopIndInv
<1>1. /\ stage[r] = "working" /\ lp[r].at = "stream"
      /\ lp' = Leave(r) \/ lp' = NextStep(r)
      /\ troubled' \in {troubled, troubled \cup {r}} /\ CutsCounted(r)
      /\ UNCHANGED <<rsVars, kind, prep, msgOf, fresh>>
  BY DEF TurnOverflows, TaskCutShort, At, CutsCounted
<1>2. msgs \in Seq(Row) /\ a \in 1..Len(msgs) /\ msgs[a] \in Row
  BY <1>0, <1>1, AtFacts DEF TypeInv, Streams
<1>3. \E fin \in Finish, failed \in BOOLEAN, task \in {"none", "auto"} :
        msgs' = Append([msgs EXCEPT ![a] = [@ EXCEPT !.finish = fin, !.err = failed]],
                       User(n, task))
  <2>1. CASE TurnOverflows(r)
    BY <2>1, FinishesAreFinish DEF TurnOverflows
  <2>2. CASE TaskCutShort(r)
    <3>1. PICK fin \in Stored(Finishes) :
            msgs' = Append([msgs EXCEPT ![a].finish = fin], User(n, "none"))
      BY <2>2 DEF TaskCutShort
    <3>2. msgs[a].err \in BOOLEAN
      BY <1>2 DEF Row
    <3>3. [msgs[a] EXCEPT !.finish = fin]
            = [msgs[a] EXCEPT !.finish = fin, !.err = msgs[a].err]
      BY <1>2 DEF Row
    <3>4. [msgs EXCEPT ![a].finish = fin]
            = [msgs EXCEPT ![a] = [@ EXCEPT !.finish = fin, !.err = msgs[a].err]]
      BY <3>3
    <3>5. msgs' = Append([msgs EXCEPT ![a] = [@ EXCEPT !.finish = fin, !.err = msgs[a].err]],
                         User(n, "none"))
      BY <3>1, <3>4
    <3>6. fin \in Finish
      BY <3>1, FinishesAreFinish
    <3> QED
      BY <3>2, <3>5, <3>6
  <2> QED
    BY <2>1, <2>2
<1>4. PICK fin \in Finish, failed \in BOOLEAN, task \in {"none", "auto"} :
        msgs' = Append([msgs EXCEPT ![a] = [@ EXCEPT !.finish = fin, !.err = failed]],
                       User(n, task))
  BY <1>3
<1> DEFINE ms == [msgs EXCEPT ![a] = [@ EXCEPT !.finish = fin, !.err = failed]]
           m == User(n, task)
<1>5. Evolved(ms) /\ Len(ms) = Len(msgs)
  BY <1>1, StreamEnds
<1>6. m \in Row /\ NewRow(m) /\ RowOK(m, n, n)
  <2> DEFINE p == FALSE
  <2>1. m = User(Len(msgs) + 1, task) /\ ~p /\ p \in BOOLEAN
    OBVIOUS
  <2> HIDE DEF m, p
  <2>2. n \in Nat /\ n = Len(msgs) + 1
    BY <1>2
  <2> HIDE DEF n
  <2> QED
    BY <2>1, <2>2, UserRow
<1>7. msgs' = Append(ms, m)
  BY <1>4
<1> HIDE DEF ms, m, a
<1>8. Evolved(msgs')
  BY <1>0, <1>5, <1>6, <1>7, Added
<1> QED
  BY <1>0, <1>1, <1>8, IterationEnds

(* There was nothing to compact: the task is dropped. *)
LEMMA NothingMoves ==
  ASSUME LoopIndInv, NEW r \in Call, CompactNothing(r)
  PROVE  Moves(r)
<1> DEFINE u == lp[r].user
           m == [msgs[u] EXCEPT !.comp = "none"]
<1>1. /\ stage[r] = "working" /\ lp[r].at = "clear"
      /\ lp' = NextStep(r) /\ troubled' = troubled /\ CutsCounted(r)
      /\ UNCHANGED <<rsVars, kind, prep, msgOf, fresh>>
      /\ msgs' = msgs \/ msgs' = [msgs EXCEPT ![u].comp = "none"]
  BY DEF CompactNothing, At, CutsCounted
<1>2. /\ TypeInv /\ u \in 1..Len(msgs) /\ IsUser(msgs[u]) /\ lp[r].step < MaxSteps
      /\ msgs = [i \in 1..Len(msgs) |-> msgs[i]]
  BY <1>1, AtFacts DEF LoopIndInv
<1>3. /\ msgs[u] \in Row /\ RowOK(msgs[u], u, Len(msgs))
  BY <1>2, UnchangedRow
<1>4. m = [msgs[u] EXCEPT !.parts = msgs[u].parts, !.comp = "none", !.tail = msgs[u].tail]
  BY <1>3 DEF Row
<1>5. m \in Row /\ RowOK(m, u, Len(msgs)) /\ OldRow(u, m)
  <2>1. msgs[u].parts \in BOOLEAN /\ msgs[u].tail \in 0..Len(msgs)
    BY <1>3 DEF Row, RowOK
  <2> HIDE DEF m, u
  <2> QED
    BY <1>2, <1>4, <2>1, UserRowChanges
<1>6. CASE msgs' = msgs
  <2>1. Evolved(msgs')
    BY <1>2, <1>6, Stays
  <2> QED
    BY <1>1, <1>2, <2>1, IterationEnds
<1>7. CASE msgs' = [msgs EXCEPT ![u].comp = "none"]
  <2>1. msgs' = [msgs EXCEPT ![u] = m]
    BY <1>7
  <2> HIDE DEF m, u
  <2>2. msgs' = [i \in 1..Len(msgs) |-> msgs'[i]] /\ msgs'[u] = m
        /\ \A i \in 1..Len(msgs) : i # u => msgs'[i] = msgs[i]
    BY <1>2, <2>1
  <2>3. \A i \in 1..Len(msgs) :
          msgs'[i] \in Row /\ RowOK(msgs'[i], i, Len(msgs)) /\ OldRow(i, msgs'[i])
    BY <1>2, <1>5, <2>2, UnchangedRow
  <2>4. Evolved(msgs')
    BY <1>2, <2>2, <2>3, Rewritten
  <2> QED
    BY <1>1, <1>2, <2>4, IterationEnds
<1> QED
  BY <1>1, <1>6, <1>7

(* The summary's row gets its end and its task's row the tail. *)
SummaryEnd(r, fin, failed, t) ==
  [msgs EXCEPT ![lp[r].asst] = [@ EXCEPT !.finish = fin, !.err = failed],
               ![lp[r].user] = [@ EXCEPT !.tail = t]]

LEMMA SummaryRows ==
  ASSUME LoopIndInv, NEW r \in Call, lp[r].at = "summarise",
         NEW fin \in Finish, NEW failed \in BOOLEAN, NEW t \in 0..Len(msgs)
  PROVE  /\ Evolved(SummaryEnd(r, fin, failed, t))
         /\ Len(SummaryEnd(r, fin, failed, t)) = Len(msgs)
<1> DEFINE ms == SummaryEnd(r, fin, failed, t)
           a == lp[r].asst
           u == lp[r].user
           m == [msgs[a] EXCEPT !.finish = fin, !.err = failed]
           k == [msgs[u] EXCEPT !.tail = t]
<1>1. /\ TypeInv /\ a \in 1..Len(msgs) /\ Streaming(a) /\ IsAssistant(msgs[a])
      /\ u \in 1..Len(msgs) /\ IsUser(msgs[u]) /\ a # u
      /\ msgs = [i \in 1..Len(msgs) |-> msgs[i]]
  BY AtFacts DEF LoopIndInv, Streams
<1>s. Summarising(u)
  BY DEF Summarising
<1>2. m \in Row /\ RowOK(m, a, Len(msgs)) /\ OldRow(a, m)
  BY <1>1, RowEnds
<1>3. k \in Row /\ RowOK(k, u, Len(msgs)) /\ OldRow(u, k)
  <2>1. msgs[u] \in Row
    BY <1>1, UnchangedRow
  <2>2. k = [msgs[u] EXCEPT !.parts = msgs[u].parts, !.comp = msgs[u].comp, !.tail = t]
    BY <2>1 DEF Row
  <2>3. msgs[u].parts \in BOOLEAN /\ msgs[u].comp \in {"none", "manual", "auto"}
    BY <2>1 DEF Row
  <2> HIDE DEF k, u
  <2> QED
    BY <1>1, <2>2, <2>3, UserRowChanges, <1>s
<1>4. ms = [msgs EXCEPT ![a] = m, ![u] = k]
  BY <1>1 DEF SummaryEnd
<1> HIDE DEF a, u, m, k, ms
<1>5. /\ ms = [i \in 1..Len(msgs) |-> ms[i]] /\ ms[a] = m /\ ms[u] = k
      /\ \A i \in 1..Len(msgs) : i # a /\ i # u => ms[i] = msgs[i]
  BY <1>1, <1>4
<1>6. \A i \in 1..Len(msgs) : ms[i] \in Row /\ RowOK(ms[i], i, Len(msgs)) /\ OldRow(i, ms[i])
  BY <1>1, <1>2, <1>3, <1>5, UnchangedRow
<1>7. Evolved(ms) /\ Len(ms) = Len(msgs)
  BY <1>1, <1>5, <1>6, Rewritten
<1> QED
  BY <1>7 DEF ms

(* The rows of a summary that is done, in that form. *)
LEMMA SummarisedRows ==
  ASSUME LoopIndInv, NEW r \in Call, lp[r].at = "summarise",
         NEW fin \in Finish, NEW t \in {0, lp[r].tail}
  PROVE  LET k == IF t = 0 THEN msgs[lp[r].user].tail ELSE t
         IN  /\ k \in 0..Len(msgs) /\ msgs[lp[r].asst].err \in BOOLEAN
             /\ Summarised(r, fin, t) = SummaryEnd(r, fin, msgs[lp[r].asst].err, k)
<1> DEFINE a == lp[r].asst
           u == lp[r].user
           k == IF t = 0 THEN msgs[u].tail ELSE t
           failed == msgs[a].err
<1>1. /\ a \in 1..Len(msgs) /\ u \in 1..Len(msgs) /\ a # u
      /\ msgs = [i \in 1..Len(msgs) |-> msgs[i]] /\ lp[r].tail \in 0..Len(msgs) /\ TypeInv
  BY AtFacts DEF LoopIndInv, Streams, LoopStateOK
<1>2. msgs[a] \in Row /\ msgs[u] \in Row /\ msgs[u].tail \in 0..Len(msgs)
  BY <1>1, UnchangedRow DEF RowOK
<1>3. k \in 0..Len(msgs) /\ failed \in BOOLEAN
  BY <1>1, <1>2 DEF Row
<1>4. [msgs[a] EXCEPT !.finish = fin] = [msgs[a] EXCEPT !.finish = fin, !.err = failed]
  BY <1>2 DEF Row
<1>5. Summarised(r, fin, t) = [msgs EXCEPT ![a] = [msgs[a] EXCEPT !.finish = fin], ![u].tail = k]
  BY <1>1 DEF Summarised
<1>6. Summarised(r, fin, t) = SummaryEnd(r, fin, failed, k)
  BY <1>1, <1>4, <1>5 DEF SummaryEnd
<1> QED
  BY <1>3, <1>6

(* A summary's failed row, in that form. *)
LEMMA FailedRows ==
  ASSUME LoopIndInv, NEW r \in Call, lp[r].at = "summarise",
         NEW fin \in Finish, NEW failed \in BOOLEAN
  PROVE  /\ msgs[lp[r].user].tail \in 0..Len(msgs)
         /\ [msgs EXCEPT ![lp[r].asst].finish = fin, ![lp[r].asst].err = failed]
              = SummaryEnd(r, fin, failed, msgs[lp[r].user].tail)
<1> DEFINE a == lp[r].asst
           u == lp[r].user
           k == msgs[u].tail
<1>1. /\ a \in 1..Len(msgs) /\ u \in 1..Len(msgs) /\ a # u
      /\ msgs = [i \in 1..Len(msgs) |-> msgs[i]] /\ TypeInv
  BY AtFacts DEF LoopIndInv, Streams
<1>2. msgs[u] \in Row /\ k \in 0..Len(msgs)
  BY <1>1, UnchangedRow DEF RowOK
<1>3. [msgs[u] EXCEPT !.tail = k] = msgs[u]
  BY <1>2 DEF Row
<1>4. SummaryEnd(r, fin, failed, k)
        = [msgs EXCEPT ![a] = [msgs[a] EXCEPT !.finish = fin, !.err = failed],
                       ![u] = [msgs[u] EXCEPT !.tail = k]]
  BY <1>1 DEF SummaryEnd
<1>5. SummaryEnd(r, fin, failed, k)
        = [msgs EXCEPT ![a] = [msgs[a] EXCEPT !.finish = fin, !.err = failed]]
  BY <1>1, <1>3, <1>4
<1> QED
  BY <1>2, <1>5

(* A summary that ends, in whatever way, leaves that form and at most a prompt. *)
PromptRow(m) ==
  /\ m \in Row /\ NewRow(m) /\ RowOK(m, Len(msgs) + 1, Len(msgs) + 1)
  /\ m.role = "user" /\ m.comp = "none"

LEMMA PromptRowOK ==
  ASSUME LoopIndInv
  PROVE  /\ PromptRow(User(Len(msgs) + 1, "none"))
         /\ PromptRow([User(Len(msgs) + 1, "none") EXCEPT !.parts = TRUE])
<1> DEFINE i == Len(msgs) + 1
<1>1. i \in Nat
  BY DEF LoopIndInv, TypeInv
<1> HIDE DEF i
<1>2. ASSUME NEW p \in BOOLEAN,
             NEW m, m = [User(i, "none") EXCEPT !.parts = p] \/ (m = User(i, "none") /\ ~p)
      PROVE  /\ m \in Row /\ NewRow(m) /\ RowOK(m, i, i)
             /\ m.role = "user" /\ m.comp = "none"
  <2>1. "none" \in {"none", "auto"}
    OBVIOUS
  <2> QED
    BY <1>1, <1>2, <2>1, UserRow
<1>3. PromptRow(User(i, "none"))
  BY <1>2 DEF PromptRow, i
<1>4. PromptRow([User(i, "none") EXCEPT !.parts = TRUE])
  BY <1>2 DEF PromptRow, i
<1> QED
  BY <1>3, <1>4 DEF i

(* What such an end makes of the task: its summary is done and its tail recorded, or
   it counts as cut short, or it hides no more than before. *)
SummaryOutcome(r, fin, failed, t) ==
  LET k == msgs[lp[r].user].tail
  IN  \/ fin # NoFinish /\ ~failed /\ t = (IF lp[r].tail = 0 THEN k ELSE lp[r].tail)
      \/ lp[r].user \in cutShort' /\ (t = k \/ (lp[r].tail # 0 /\ t = lp[r].tail))
      \/ (fin = NoFinish \/ failed) /\ t = k

LEMMA SummaryForms ==
  ASSUME LoopIndInv, NEW r \in Call,
         SummaryFails(r) \/ CompactionCutShort(r) \/ SummaryEnds(r)
  PROVE  \E fin \in Finish, failed \in BOOLEAN, t \in 0..Len(msgs) :
           /\ \/ msgs' = SummaryEnd(r, fin, failed, t)
              \/ \E next : PromptRow(next) /\ msgs' = Append(SummaryEnd(r, fin, failed, t), next)
           /\ ~ msgs[lp[r].asst].err => SummaryOutcome(r, fin, failed, t)
<1>1. lp[r].at = "summarise"
  BY DEF SummaryFails, CompactionCutShort, SummaryEnds, At
<1>p. /\ PromptRow(User(Len(msgs) + 1, "none"))
      /\ PromptRow([User(Len(msgs) + 1, "none") EXCEPT !.parts = TRUE])
  BY PromptRowOK
<1>2. CASE SummaryFails(r)
  <2>1. PICK fin \in (Finishes \ {"tool-calls"}) \cup {NoFinish, "error"}, failed \in BOOLEAN :
          /\ msgs' = [msgs EXCEPT ![lp[r].asst].finish = fin, ![lp[r].asst].err = failed]
          /\ CountCutShort(r, fin # NoFinish /\ ~failed)
    BY <1>2 DEF SummaryFails
  <2>2. fin \in Finish
    BY <2>1, FinishesAreFinish
  <2> DEFINE k == msgs[lp[r].user].tail
  <2>3. k \in 0..Len(msgs) /\ msgs' = SummaryEnd(r, fin, failed, k)
    BY <1>1, <2>1, <2>2, FailedRows
  <2>4. SummaryOutcome(r, fin, failed, k)
    BY <2>1 DEF SummaryOutcome, CountCutShort
  <2> HIDE DEF k
  <2> QED
    BY <2>2, <2>3, <2>4
<1>3. ASSUME NEW fin \in Finish, NEW t \in {0, lp[r].tail},
             \/ msgs' = Summarised(r, fin, t)
             \/ \E next : PromptRow(next) /\ msgs' = Append(Summarised(r, fin, t), next),
             \/ fin # NoFinish /\ t = lp[r].tail
             \/ fin = NoFinish /\ t = 0
             \/ lp[r].user \in cutShort'
      PROVE  \E failed \in BOOLEAN, k \in 0..Len(msgs) :
               /\ \/ msgs' = SummaryEnd(r, fin, failed, k)
                  \/ \E next : /\ PromptRow(next)
                               /\ msgs' = Append(SummaryEnd(r, fin, failed, k), next)
               /\ ~ msgs[lp[r].asst].err => SummaryOutcome(r, fin, failed, k)
  <2> DEFINE k == IF t = 0 THEN msgs[lp[r].user].tail ELSE t
             failed == msgs[lp[r].asst].err
  <2>1. k \in 0..Len(msgs) /\ failed \in BOOLEAN
        /\ Summarised(r, fin, t) = SummaryEnd(r, fin, failed, k)
    BY <1>1, SummarisedRows
  <2>2. ~failed => SummaryOutcome(r, fin, failed, k)
    BY <1>3 DEF SummaryOutcome
  <2> HIDE DEF k
  <2> QED
    BY <1>3, <2>1, <2>2
<1>4. CASE CompactionCutShort(r)
  <2>1. PICK fin \in Stored(Finishes \ {"tool-calls"}) :
          \/ /\ msgs' = Summarised(r, fin, 0)
             /\ CountCutShort(r, fin # NoFinish)
          \/ /\ \/ msgs' = Summarised(r, fin, lp[r].tail)
                \/ msgs' = Append(Summarised(r, fin, lp[r].tail), User(Len(msgs) + 1, "none"))
             /\ CountCutShort(r, fin = NoFinish /\ lp[r].tail # 0)
    BY <1>4 DEF CompactionCutShort
  <2>2. fin \in Finish
    BY FinishesAreFinish
  <2>3. CASE msgs' = Summarised(r, fin, 0) /\ CountCutShort(r, fin # NoFinish)
    <3>1. (fin = NoFinish) \/ lp[r].user \in cutShort'
      BY <2>3 DEF CountCutShort
    <3> QED
      BY <1>3, <2>2, <2>3, <3>1
  <2>4. CASE /\ \/ msgs' = Summarised(r, fin, lp[r].tail)
                \/ msgs' = Append(Summarised(r, fin, lp[r].tail), User(Len(msgs) + 1, "none"))
             /\ CountCutShort(r, fin = NoFinish /\ lp[r].tail # 0)
    <3>1. \/ fin # NoFinish \/ (fin = NoFinish /\ lp[r].tail = 0)
          \/ lp[r].user \in cutShort'
      BY <2>4 DEF CountCutShort
    <3> QED
      BY <1>3, <1>p, <2>2, <2>4, <3>1
  <2> QED
    BY <2>1, <2>3, <2>4
<1>5. CASE SummaryEnds(r)
  <2>1. PICK fin \in Stored(Finishes \ {"tool-calls"}) :
          /\ \/ msgs' = Summarised(r, fin, lp[r].tail)
             \/ msgs' = Append(Summarised(r, fin, lp[r].tail),
                               [User(Len(msgs) + 1, "none") EXCEPT !.parts = TRUE])
          /\ CountCutShort(r, fin = NoFinish /\ lp[r].tail # 0)
    BY <1>5 DEF SummaryEnds
  <2>2. fin \in Finish
    BY FinishesAreFinish
  <2>3. \/ fin # NoFinish \/ (fin = NoFinish /\ lp[r].tail = 0)
        \/ lp[r].user \in cutShort'
    BY <2>1 DEF CountCutShort
  <2> QED
    BY <1>3, <1>p, <2>1, <2>2, <2>3
<1> QED
  BY <1>2, <1>4, <1>5

LEMMA SummaryMoves ==
  ASSUME LoopIndInv, NEW r \in Call,
         SummaryFails(r) \/ CompactionCutShort(r) \/ SummaryEnds(r)
  PROVE  Moves(r)
<1>1. /\ stage[r] = "working" /\ lp[r].at = "summarise"
      /\ lp' = Leave(r) \/ lp' = NextStep(r)
      /\ troubled' \in {troubled, troubled \cup {r}}
      /\ cutShort' \in {cutShort, cutShort \cup {lp[r].user}}
      /\ UNCHANGED <<rsVars, kind, prep, msgOf, fresh>>
  BY DEF SummaryFails, CompactionCutShort, SummaryEnds, CountCutShort, At
<1>2. /\ TypeInv /\ lp[r].user \in 1..Len(msgs) /\ lp[r].step < MaxSteps
  BY <1>1, AtFacts DEF LoopIndInv
<1>3. CutsCounted(r)
  BY <1>1, <1>2 DEF CutsCounted
<1>5. PICK fin \in Finish, failed \in BOOLEAN, t \in 0..Len(msgs) :
        \/ msgs' = SummaryEnd(r, fin, failed, t)
        \/ \E next : PromptRow(next) /\ msgs' = Append(SummaryEnd(r, fin, failed, t), next)
  BY SummaryForms
<1>6. Evolved(SummaryEnd(r, fin, failed, t)) /\ Len(SummaryEnd(r, fin, failed, t)) = Len(msgs)
  BY <1>1, SummaryRows
<1>7. ASSUME NEW next, PromptRow(next)
      PROVE  Evolved(Append(SummaryEnd(r, fin, failed, t), next))
  BY <1>2, <1>6, <1>7, Added DEF PromptRow
<1>9. Evolved(msgs')
  BY <1>5, <1>6, <1>7
<1> QED
  BY <1>1, <1>2, <1>3, <1>9, IterationEnds

(* So much for the run's own steps. *)
LEMMA StepMoves ==
  ASSUME LoopIndInv, NEW r \in Call, LoopStep(r), ~ LoopReturns(r)
  PROVE  Moves(r)
BY GivesUpMoves, ReadsMoves, BeginMoves, TurnEndMoves, OverflowMoves, NothingMoves,
   SummaryMoves DEF LoopStep
-----------------------------------------------------------------------------
(* What the invariant says of a history that evolved. *)
LEMMA EvolvedKeepsRows ==
  ASSUME LoopIndInv, Evolved(msgs')
  PROVE  /\ msgs' \in Seq(Row) /\ RowsOK'
         /\ Len(msgs) \in Nat /\ Len(msgs') \in Nat /\ Len(msgs) <= Len(msgs')
         /\ \A i \in 1..Len(msgs) : OldRow(i, msgs'[i])
         /\ \A i \in 1..Len(msgs') : i \in 1..Len(msgs) \/ NewRow(msgs'[i])
<1>1. msgs' \in Seq(Row) /\ RowsOK'
  BY DEF Evolved, RowsOK
<1>2. Len(msgs) \in Nat /\ Len(msgs') \in Nat /\ Len(msgs) <= Len(msgs')
  BY DEF Evolved, LoopIndInv, TypeInv
<1>3. \A i \in 1..Len(msgs) : OldRow(i, msgs'[i])
  BY DEF Evolved
<1>4. \A i \in 1..Len(msgs') : i \in 1..Len(msgs) \/ NewRow(msgs'[i])
  BY <1>2 DEF Evolved
<1> QED
  BY <1>1, <1>2, <1>3, <1>4

(* Only one row is streamed, for one task: a second done summary of a task
   cannot appear. *)
LEMMA OneSummaryKept ==
  ASSUME LoopIndInv, Evolved(msgs')
  PROVE  OneSummaryPerTask'
<1>0. /\ \A i \in 1..Len(msgs') : i \in 1..Len(msgs) \/ NewRow(msgs'[i])
      /\ \A i \in 1..Len(msgs) : OldRow(i, msgs'[i])
      /\ DOMAIN msgs' = 1..Len(msgs') /\ DOMAIN msgs = 1..Len(msgs)
  BY EvolvedKeepsRows DEF LoopIndInv, TypeInv
<1>1. ASSUME NEW i \in 1..Len(msgs'), IsCompletedSummary(msgs'[i])
      PROVE  /\ i \in 1..Len(msgs) /\ msgs[i].parent = msgs'[i].parent
             /\ IsCompletedSummary(msgs[i])
                \/ (\E q \in Call : /\ lp[q].at = "summarise" /\ lp[q].asst = i
                                    /\ lp[q].user = msgs[i].parent)
  <2>1. i \in 1..Len(msgs)
    BY <1>0, <1>1 DEF IsCompletedSummary, NewRow
  <2>2. OldRow(i, msgs'[i])
    BY <1>0, <2>1
  <2>3. SameRow(msgs[i], msgs'[i]) \/ (msgs'[i] = msgs[i])
    BY <2>2 DEF OldRow
  <2>4. /\ msgs[i].parent = msgs'[i].parent /\ msgs[i].summary = msgs'[i].summary
        /\ msgs[i].role = msgs'[i].role
    BY <2>3 DEF SameRow
  <2>5. CASE SameEnd(msgs[i], msgs'[i])
    BY <1>1, <2>1, <2>4, <2>5 DEF SameEnd, IsCompletedSummary, IsAssistant
  <2>6. CASE Streaming(i)
    <3>1. PICK q \in Call : lp[q].at \in {"stream", "summarise"} /\ lp[q].asst = i
      BY <2>6 DEF Streaming
    <3>2. Streams(q)
      BY <3>1 DEF LoopIndInv, LoopPlace
    <3>3. lp[q].at = "summarise"
      BY <1>1, <2>4, <3>1, <3>2 DEF Streams, IsCompletedSummary
    <3> QED
      BY <2>1, <2>4, <3>1, <3>2, <3>3 DEF Streams
  <2> QED
    BY <2>2, <2>5, <2>6 DEF OldRow
<1>2. SUFFICES ASSUME NEW i \in 1..Len(msgs'), NEW j \in 1..Len(msgs'),
                      IsCompletedSummary(msgs'[i]), IsCompletedSummary(msgs'[j]),
                      msgs'[i].parent = msgs'[j].parent
               PROVE  i = j
  BY <1>0 DEF OneSummaryPerTask
<1>3. /\ i \in 1..Len(msgs) /\ j \in 1..Len(msgs) /\ msgs[i].parent = msgs[j].parent
  BY <1>1, <1>2
<1>4. ASSUME NEW k \in 1..Len(msgs), IsCompletedSummary(msgs[k]),
             NEW q \in Call, lp[q].at = "summarise", lp[q].user = msgs[k].parent
      PROVE  FALSE
  BY <1>4 DEF LoopIndInv, TaskOpen
<1>5. CASE IsCompletedSummary(msgs[i]) /\ IsCompletedSummary(msgs[j])
  BY <1>0, <1>3, <1>5 DEF LoopIndInv, OneSummaryPerTask
<1>6. CASE ~ IsCompletedSummary(msgs[i])
  <2>1. PICK q \in Call : /\ lp[q].at = "summarise" /\ lp[q].asst = i
                          /\ lp[q].user = msgs[i].parent
    BY <1>1, <1>2, <1>6
  <2>2. ~ IsCompletedSummary(msgs[j])
    BY <1>3, <1>4, <2>1
  <2>3. PICK p \in Call : /\ lp[p].at = "summarise" /\ lp[p].asst = j
    BY <1>1, <1>2, <2>2
  <2>4. stage[q] = "working" /\ stage[p] = "working"
    BY <2>1, <2>3 DEF LoopIndInv, LoopPlace
  <2>5. p = q
    BY <2>4, OnlyOneWorks DEF LoopIndInv, Owns
  <2> QED
    BY <2>1, <2>3, <2>5
<1>7. CASE ~ IsCompletedSummary(msgs[j])
  <2>1. PICK q \in Call : /\ lp[q].at = "summarise" /\ lp[q].asst = j
                          /\ lp[q].user = msgs[j].parent
    BY <1>1, <1>2, <1>7
  <2>2. ~ IsCompletedSummary(msgs[i])
    BY <1>3, <1>4, <2>1
  <2> QED
    BY <1>6, <2>2
<1> QED
  BY <1>5, <1>6, <1>7

(* What the calls know of their rows stays true. *)
LEMMA CallRowsKept ==
  ASSUME LoopIndInv, Evolved(msgs'), UNCHANGED <<kind, prep, msgOf>>
  PROVE  OwnIds' /\ \A c \in Call : CallRow(c)'
<1>1. OwnIds'
  BY DEF LoopIndInv, OwnIds
<1>2. /\ Len(msgs) \in Nat /\ Len(msgs') \in Nat /\ Len(msgs) <= Len(msgs')
      /\ \A i \in 1..Len(msgs) : OldRow(i, msgs'[i])
  BY EvolvedKeepsRows
<1>3. ASSUME NEW c \in Call PROVE CallRow(c)'
  <2>1. CallRow(c) /\ (kind' = kind /\ prep' = prep /\ msgOf' = msgOf)
    BY DEF LoopIndInv
  <2>2. msgOf[c] \in 1..Len(msgs) => msgOf[c] \in 1..Len(msgs') /\ OldRow(msgOf[c], msgs'[msgOf[c]])
    BY <1>2
  <2> QED
    BY <2>1, <2>2 DEF CallRow, OldRow, SameRow, IsUser
<1> QED
  BY <1>1, <1>3

(* A step of the loop of the run that works. *)
LEMMA MovesKeep ==
  ASSUME LoopIndInv, NEW r \in Call, Moves(r)
  PROVE  LoopIndInv'
<1>1. PICK loop : /\ RunMoves(r, loop)
                  /\ loop.at \in {"top", "return"} \/ (LoopPlace(r)' /\ TaskOpen(r)')
  BY DEF Moves
<1>2. /\ stage[r] = "working" /\ lp' = [lp EXCEPT ![r] = loop]
      /\ loop \in LoopState /\ LoopStateOK(loop, Len(msgs')) /\ Evolved(msgs')
      /\ troubled' \in {troubled, troubled \cup {r}} /\ CutsCounted(r)
      /\ UNCHANGED <<rsVars, kind, prep, msgOf, fresh>>
  BY <1>1 DEF RunMoves
<1>3. RSInv'
  <2>1. RSInv /\ [RSNext]_rsVars
    BY <1>2 DEF LoopIndInv
  <2> QED
    BY <2>1, RSStepInv
<1>4. TypeInv'
  <2>1. TypeInv
    BY DEF LoopIndInv
  <2>2. /\ msgs' \in Seq(Row) /\ RowsOK'
        /\ Len(msgs) \in Nat /\ Len(msgs') \in Nat /\ Len(msgs) <= Len(msgs')
    BY <1>2, EvolvedKeepsRows
  <2>3. lp' \in [Call -> LoopState]
    BY <1>2, <2>1 DEF TypeInv
  <2>4. \A q \in Call : LoopStateOK(lp'[q], Len(msgs'))
    <3> TAKE q \in Call
    <3>1. CASE q = r
      BY <1>2, <2>1, <3>1 DEF TypeInv
    <3>2. CASE q # r
      <4>1. lp'[q] = lp[q] /\ LoopStateOK(lp[q], Len(msgs))
        BY <1>2, <2>1, <3>2 DEF TypeInv
      <4>2. 0..Len(msgs) \subseteq 0..Len(msgs') /\ 1..Len(msgs) \subseteq 1..Len(msgs')
        BY <2>2
      <4> QED
        BY <4>1, <4>2 DEF LoopStateOK
    <3> QED
      BY <3>1, <3>2
  <2>5. msgOf' \in [Call -> 0..Len(msgs')]
    <3>1. msgOf \in [Call -> 0..Len(msgs)] /\ msgOf' = msgOf
      BY <1>2, <2>1 DEF TypeInv
    <3>2. 0..Len(msgs) \subseteq 0..Len(msgs')
      BY <2>2
    <3> QED
      BY <3>1, <3>2
  <2>6. troubled' \subseteq Call /\ fresh' \subseteq Call
    BY <1>2, <2>1 DEF TypeInv
  <2>7. cutShort' \subseteq 1..Len(msgs')
    <3>1. cutShort \subseteq 1..Len(msgs) /\ 1..Len(msgs) \subseteq 1..Len(msgs')
      BY <2>1, <2>2 DEF TypeInv
    <3> QED
      BY <1>2, <3>1 DEF CutsCounted
  <2> QED
    BY <1>2, <2>1, <2>2, <2>3, <2>4, <2>5, <2>6, <2>7 DEF TypeInv
<1>5. OwnIds' /\ \A c \in Call : CallRow(c)'
  BY <1>2, CallRowsKept
<1>6. \A q \in Call : LoopPlace(q)' /\ TaskOpen(q)'
  <2> TAKE q \in Call
  <2>1. lp' = [lp EXCEPT ![r] = loop] /\ lp \in [Call -> LoopState]
    BY <1>2 DEF LoopIndInv, TypeInv
  <2>2. CASE q = r
    <3>1. lp'[r] = loop
      BY <2>1
    <3> QED
      BY <1>1, <2>2, <3>1 DEF LoopPlace, TaskOpen
  <2>3. CASE q # r
    <3>1. lp'[q] = lp[q]
      BY <2>1, <2>3
    <3>2. stage[q] # "working"
      BY <1>2, <2>3, OnlyOneWorks DEF LoopIndInv, Owns
    <3>3. lp[q].at \in {"top", "return"}
      BY <3>2 DEF LoopIndInv, LoopPlace
    <3> QED
      BY <3>1, <3>3 DEF LoopPlace, TaskOpen
  <2> QED
    BY <2>2, <2>3
<1>7. OneSummaryPerTask'
  BY <1>2, OneSummaryKept
<1> QED
  BY <1>3, <1>4, <1>5, <1>6, <1>7 DEF LoopIndInv
-----------------------------------------------------------------------------
(* A step that moves no loop, and changes no answer in the history, keeps what
   is known of the loops. *)
LEMMA LoopsKept ==
  ASSUME LoopIndInv, lp' = lp, Len(msgs') \in Nat, Len(msgs) <= Len(msgs'),
         \A i \in 1..Len(msgs) : IsAssistant(msgs[i]) => msgs'[i] = msgs[i],
         \A i \in 1..Len(msgs) : IsUser(msgs[i]) => IsUser(msgs'[i]),
         \A i \in 1..Len(msgs') : IsAssistant(msgs'[i])
                                    => i \in 1..Len(msgs) /\ msgs'[i] = msgs[i],
         DOMAIN msgs' = 1..Len(msgs'),
         \A r \in Call : lp[r].at \notin {"top", "return"} => stage'[r] = stage[r]
  PROVE  /\ \A r \in Call : LoopPlace(r)' /\ TaskOpen(r)'
         /\ OneSummaryPerTask'
<1>0. Len(msgs) \in Nat /\ DOMAIN msgs = 1..Len(msgs)
  BY DEF LoopIndInv, TypeInv
<1>1. 1..Len(msgs) \subseteq 1..Len(msgs')
  BY <1>0
<1>2. ASSUME NEW r \in Call PROVE LoopPlace(r)'
  <2>1. LoopPlace(r) /\ lp'[r] = lp[r]
    BY DEF LoopIndInv
  <2>2. lp[r].at \in {"stream", "summarise"} => Streams(r)'
    BY <1>1, <2>1 DEF LoopPlace, Streams
  <2> QED
    BY <1>1, <2>1, <2>2 DEF LoopPlace
<1>3. ASSUME NEW r \in Call PROVE TaskOpen(r)'
  <2>1. TaskOpen(r) /\ lp'[r] = lp[r]
    BY DEF LoopIndInv
  <2> QED
    BY <2>1 DEF TaskOpen, IsCompletedSummary
<1>4. OneSummaryPerTask'
  BY <1>0 DEF LoopIndInv, OneSummaryPerTask, IsCompletedSummary
<1> QED
  BY <1>2, <1>3, <1>4

(* The types, when rows and calls change and no loop does. *)
LEMMA TypesKept ==
  ASSUME LoopIndInv, UNCHANGED <<lp, kind, troubled, cutShort>>, fresh' \subseteq Call,
         msgs' \in Seq(Row), RowsOK', Len(msgs) <= Len(msgs'),
         msgOf' \in [Call -> 0..Len(msgs')],
         prep' \in [Call -> {"init", "drawn", "stored", "ready", "failed"}]
  PROVE  TypeInv'
<1>1. TypeInv /\ Len(msgs) \in Nat /\ Len(msgs') \in Nat
  BY DEF LoopIndInv, TypeInv
<1>2. 0..Len(msgs) \subseteq 0..Len(msgs') /\ 1..Len(msgs) \subseteq 1..Len(msgs')
  BY <1>1
<1>3. \A q \in Call : LoopStateOK(lp'[q], Len(msgs'))
  <2> TAKE q \in Call
  <2>1. lp'[q] = lp[q] /\ LoopStateOK(lp[q], Len(msgs))
    BY <1>1 DEF TypeInv
  <2> QED
    BY <1>2, <2>1 DEF LoopStateOK
<1> QED
  BY <1>1, <1>3 DEF TypeInv

(* DrawId: an empty row of its own. *)
LEMMA DrawIdKeeps ==
  ASSUME LoopIndInv, NEW c \in Call, DrawId(c)
  PROVE  LoopIndInv'
<1> DEFINE n == Len(msgs) + 1
           m == Blank(n)
<1>1. /\ prep[c] = "init" /\ prep' = [prep EXCEPT ![c] = "drawn"]
      /\ msgs' = Append(msgs, m) /\ msgOf' = [msgOf EXCEPT ![c] = n]
      /\ UNCHANGED <<rsVars, kind, lp, fresh, troubled, cutShort>>
  BY DEF DrawId
<1>2. TypeInv /\ Evolved(msgs) /\ Len(msgs) \in Nat /\ n \in Nat
  BY Stays DEF LoopIndInv, TypeInv
<1>3. /\ m = Blank(n) /\ m.role = "none"
      /\ m \in Row /\ NewRow(m) /\ RowOK(m, n, n)
  <2>1. m = [id |-> n, role |-> "none", parts |-> FALSE, comp |-> "none",
             tail |-> 0, finish |-> NoFinish, err |-> FALSE, summary |-> FALSE,
             parent |-> 0, view |-> {}]
    BY DEF Blank
  <2>2. {} \in SUBSET Nat /\ 0 \in Nat /\ n \in Nat /\ NoFinish \in Finish /\ FALSE \in BOOLEAN
    BY <1>2 DEF Finish
  <2> HIDE DEF n
  <2>3. m \in Row
    <3>1. "none" \in {"none", "manual", "auto"} /\ "none" \in {"none", "user", "assistant"}
      OBVIOUS
    <3> HIDE DEF m
    <3> QED
      BY <2>1, <2>2, <3>1 DEF Row
  <2>4. m = Blank(n)
    OBVIOUS
  <2> HIDE DEF m
  <2>5. m.role = "none" /\ NewRow(m)
    BY <2>1 DEF NewRow
  <2>6. RowOK(m, n, n)
    BY <2>1, <2>2, <2>4 DEF RowOK
  <2> QED
    BY <2>3, <2>4, <2>5, <2>6
<1>n. n = Len(msgs) + 1
  OBVIOUS
<1> HIDE DEF m, n
<1>4. /\ Evolved(msgs') /\ Len(msgs') = n /\ msgs'[n] = m
      /\ \A i \in 1..Len(msgs) : msgs'[i] = msgs[i]
  BY <1>1, <1>2, <1>3, <1>n, Added
<1>5. msgs' \in Seq(Row) /\ RowsOK'
  BY <1>4, EvolvedKeepsRows
<1>6. RSInv'
  <2>1. RSInv /\ [RSNext]_rsVars
    BY <1>1 DEF LoopIndInv
  <2> QED
    BY <2>1, RSStepInv
<1>7. \A i \in 1..Len(msgs') : i \in 1..Len(msgs) \/ i = n
  BY <1>2, <1>4, <1>n
<1>8. TypeInv'
  <2>1. msgOf' \in [Call -> 0..Len(msgs')]
    <3>1. msgOf \in [Call -> 0..Len(msgs)]
      BY <1>2 DEF TypeInv
    <3>2. 0..Len(msgs) \subseteq 0..n /\ n \in 0..n
      BY <1>2, <1>n
    <3> QED
      BY <1>1, <1>4, <3>1, <3>2
  <2>2. /\ prep' \in [Call -> {"init", "drawn", "stored", "ready", "failed"}]
        /\ fresh' \subseteq Call
    BY <1>1, <1>2 DEF TypeInv
  <2>3. Len(msgs) <= Len(msgs')
    BY <1>2, <1>4, <1>n
  <2> QED
    BY <1>1, <1>5, <2>1, <2>2, <2>3, TypesKept
<1>9. OwnIds'
  <2>1. /\ prep \in [Call -> {"init", "drawn", "stored", "ready", "failed"}]
        /\ msgOf \in [Call -> 0..Len(msgs)]
    BY <1>2 DEF TypeInv
  <2>2. \A d \in Call : d # c => prep'[d] = prep[d] /\ msgOf'[d] = msgOf[d]
    BY <1>1, <2>1
  <2>3. \A d \in Call : msgOf[d] # n
    BY <1>2, <1>n, <2>1
  <2>4. msgOf'[c] = n
    BY <1>1, <2>1
  <2> QED
    BY <2>2, <2>3, <2>4 DEF LoopIndInv, OwnIds
<1>10. ASSUME NEW d \in Call PROVE CallRow(d)'
  <2>1. /\ prep \in [Call -> {"init", "drawn", "stored", "ready", "failed"}]
        /\ msgOf \in [Call -> 0..Len(msgs)]
    BY <1>2 DEF TypeInv
  <2>2. 1..Len(msgs) \subseteq 1..Len(msgs') /\ n \in 1..Len(msgs')
    BY <1>2, <1>4, <1>n
  <2>3. CASE d = c
    <3>1. prep'[c] = "drawn" /\ msgOf'[c] = n
      BY <1>1, <2>1
    <3> QED
      BY <1>3, <1>4, <2>2, <2>3, <3>1 DEF CallRow
  <2>4. CASE d # c
    <3>1. prep'[d] = prep[d] /\ msgOf'[d] = msgOf[d] /\ kind'[d] = kind[d] /\ CallRow(d)
      BY <1>1, <2>1, <2>4 DEF LoopIndInv
    <3> QED
      BY <1>4, <2>2, <3>1 DEF CallRow
  <2> QED
    BY <2>3, <2>4
<1>11. (\A r \in Call : LoopPlace(r)' /\ TaskOpen(r)') /\ OneSummaryPerTask'
  <2>1. Len(msgs') \in Nat /\ Len(msgs) <= Len(msgs') /\ DOMAIN msgs' = 1..Len(msgs')
    BY <1>2, <1>4, <1>5, <1>n
  <2>2. \A i \in 1..Len(msgs') : IsAssistant(msgs'[i])
                                    => i \in 1..Len(msgs) /\ msgs'[i] = msgs[i]
    BY <1>3, <1>4, <1>7 DEF IsAssistant
  <2>3. stage' = stage
    BY <1>1 DEF rsVars
  <2> QED
    BY <1>1, <1>4, <2>1, <2>2, <2>3, LoopsKept
<1> QED
  BY <1>6, <1>8, <1>9, <1>10, <1>11 DEF LoopIndInv

(* StoreMessage: the empty row becomes the user's. *)
LEMMA StoreMessageKeeps ==
  ASSUME LoopIndInv, NEW c \in Call, StoreMessage(c)
  PROVE  LoopIndInv'
<1> DEFINE u == msgOf[c]
           m == User(u, "none")
<1>1. /\ prep[c] = "drawn" /\ prep' = [prep EXCEPT ![c] = "stored"]
      /\ msgs' = [msgs EXCEPT ![u] = m]
      /\ UNCHANGED <<rsVars, kind, msgOf, lp, fresh, troubled, cutShort>>
  BY DEF StoreMessage
<1>2. /\ TypeInv /\ Len(msgs) \in Nat /\ u \in 1..Len(msgs) /\ msgs[u].role = "none"
      /\ msgs \in Seq(Row) /\ prep \in [Call -> {"init", "drawn", "stored", "ready", "failed"}]
  BY <1>1 DEF LoopIndInv, TypeInv, CallRow
<1>3. m \in Row /\ RowOK(m, u, Len(msgs)) /\ m.role = "user"
  <2> DEFINE p == FALSE
             n == Len(msgs)
  <2>1. m = User(u, "none") /\ ~p /\ p \in BOOLEAN /\ u \in Nat /\ n \in Nat
    BY <1>2
  <2> HIDE DEF m, u, n, p
  <2>2. m \in Row /\ RowOK(m, u, n) /\ m.role = "user"
    BY <2>1, UserRow
  <2> QED
    BY <2>2 DEF n
<1> HIDE DEF m, u
<1>4. /\ msgs' \in Seq(Row) /\ Len(msgs') = Len(msgs) /\ DOMAIN msgs' = 1..Len(msgs')
      /\ msgs'[u] = m /\ \A i \in 1..Len(msgs) : i # u => msgs'[i] = msgs[i]
  BY <1>1, <1>2, <1>3
<1>5. RowsOK'
  BY <1>2, <1>3, <1>4 DEF TypeInv, RowsOK
<1>6. RSInv'
  <2>1. RSInv /\ [RSNext]_rsVars
    BY <1>1 DEF LoopIndInv
  <2> QED
    BY <2>1, RSStepInv
<1>7. TypeInv'
  <2>1. /\ prep' \in [Call -> {"init", "drawn", "stored", "ready", "failed"}]
        /\ fresh' \subseteq Call /\ msgOf' \in [Call -> 0..Len(msgs')]
        /\ Len(msgs) <= Len(msgs')
    BY <1>1, <1>2, <1>4 DEF TypeInv
  <2> QED
    BY <1>1, <1>4, <1>5, <2>1, TypesKept
<1>8. \A d \in Call : d # c => prep'[d] = prep[d]
  BY <1>1, <1>2
<1>9. prep'[c] = "stored" /\ kind' = kind /\ msgOf' = msgOf
  BY <1>1, <1>2
<1>10. OwnIds'
  BY <1>8, <1>9 DEF LoopIndInv, OwnIds
<1>11. ASSUME NEW d \in Call PROVE CallRow(d)'
  <2>1. CallRow(d) /\ (prep[d] = "drawn" => msgOf[d] # u \/ d = c)
    BY <1>1 DEF LoopIndInv, OwnIds, u
  <2>2. CASE d = c
    BY <1>2, <1>3, <1>4, <1>9, <2>2 DEF CallRow, IsUser, u
  <2>3. CASE d # c
    <3>1. prep'[d] = prep[d] /\ msgOf'[d] = msgOf[d] /\ kind'[d] = kind[d]
      BY <1>8, <1>9, <2>3
    <3>2. prep[d] \in {"stored", "ready"} => msgOf[d] # u
      BY <1>2, <2>1 DEF CallRow, IsUser
    <3>3. prep[d] \in {"drawn", "stored", "ready"} =>
            msgOf[d] \in 1..Len(msgs') /\ msgs'[msgOf[d]] = msgs[msgOf[d]]
      BY <1>4, <2>1, <2>3, <3>2 DEF CallRow
    <3> QED
      BY <2>1, <3>1, <3>3 DEF CallRow
  <2> QED
    BY <2>2, <2>3
<1>12. (\A r \in Call : LoopPlace(r)' /\ TaskOpen(r)') /\ OneSummaryPerTask'
  <2>1. Len(msgs') \in Nat /\ Len(msgs) <= Len(msgs')
    BY <1>2, <1>4
  <2>2. \A i \in 1..Len(msgs) : IsAssistant(msgs[i]) => msgs'[i] = msgs[i]
    BY <1>2, <1>4 DEF IsAssistant
  <2>3. \A i \in 1..Len(msgs) : IsUser(msgs[i]) => IsUser(msgs'[i])
    BY <1>2, <1>4 DEF IsUser
  <2>4. \A i \in 1..Len(msgs') : IsAssistant(msgs'[i])
                                    => i \in 1..Len(msgs) /\ msgs'[i] = msgs[i]
    BY <1>3, <1>4 DEF IsAssistant
  <2>5. stage' = stage
    BY <1>1 DEF rsVars
  <2> QED
    BY <1>1, <1>4, <2>1, <2>2, <2>3, <2>4, <2>5, LoopsKept
<1> QED
  BY <1>6, <1>7, <1>10, <1>11, <1>12 DEF LoopIndInv

(* StoreParts: the prompt's text, or the task, on the user's row. *)
LEMMA StorePartsKeeps ==
  ASSUME LoopIndInv, NEW c \in Call, StoreParts(c)
  PROVE  LoopIndInv' /\ Evolved(msgs') /\ Len(msgs') = Len(msgs)
<1> DEFINE u == msgOf[c]
<1>1. /\ prep[c] = "stored" /\ prep' = [prep EXCEPT ![c] = "ready"]
      /\ \/ kind[c] = "prompt" /\ msgs' = [msgs EXCEPT ![u].parts = TRUE]
         \/ /\ kind[c] = "summarize"
            /\ \E task \in {"manual", "auto"} : msgs' = [msgs EXCEPT ![u].comp = task]
      /\ UNCHANGED <<rsVars, kind, msgOf, lp, fresh, troubled, cutShort>>
  BY DEF StoreParts
<1>2. /\ TypeInv /\ Len(msgs) \in Nat /\ u \in 1..Len(msgs) /\ IsUser(msgs[u])
      /\ msgs \in Seq(Row) /\ prep \in [Call -> {"init", "drawn", "stored", "ready", "failed"}]
      /\ msgs = [i \in 1..Len(msgs) |-> msgs[i]]
  BY <1>1 DEF LoopIndInv, TypeInv, CallRow
<1> HIDE DEF u
<1>3. msgs[u] \in Row /\ msgs[u].tail \in 0..Len(msgs)
  BY <1>2, UnchangedRow DEF RowOK
<1>4. \E p \in BOOLEAN, k \in {"none", "manual", "auto"} :
        /\ msgs[u].parts => p
        /\ kind[c] = "prompt" => p /\ k = msgs[u].comp
        /\ msgs' = [msgs EXCEPT ![u] = [@ EXCEPT !.parts = p, !.comp = k, !.tail = msgs[u].tail]]
  <2>1. CASE kind[c] = "prompt" /\ msgs' = [msgs EXCEPT ![u].parts = TRUE]
    <3> DEFINE k == msgs[u].comp
               p == TRUE
    <3>1. /\ k \in {"none", "manual", "auto"} /\ p \in BOOLEAN /\ p = TRUE
          /\ k = msgs[u].comp
      BY <1>3 DEF Row
    <3>2. [msgs[u] EXCEPT !.parts = TRUE]
            = [msgs[u] EXCEPT !.parts = p, !.comp = k, !.tail = msgs[u].tail]
      BY <1>3 DEF Row
    <3>3. msgs' = [msgs EXCEPT ![u] = [@ EXCEPT !.parts = p, !.comp = k, !.tail = msgs[u].tail]]
      BY <1>2, <2>1, <3>2
    <3> HIDE DEF k, p
    <3> QED
      BY <3>1, <3>3
  <2>2. CASE /\ kind[c] = "summarize"
             /\ \E task \in {"manual", "auto"} : msgs' = [msgs EXCEPT ![u].comp = task]
    <3> DEFINE p == msgs[u].parts
    <3>0. PICK task \in {"manual", "auto"} : msgs' = [msgs EXCEPT ![u].comp = task]
      BY <2>2
    <3>1. p \in BOOLEAN /\ (msgs[u].parts => p) /\ kind[c] # "prompt"
      BY <1>3, <2>2 DEF Row
    <3>2. [msgs[u] EXCEPT !.comp = task]
            = [msgs[u] EXCEPT !.parts = p, !.comp = task, !.tail = msgs[u].tail]
      BY <1>3 DEF Row
    <3>3. msgs' = [msgs EXCEPT ![u] = [@ EXCEPT !.parts = p, !.comp = task, !.tail = msgs[u].tail]]
      BY <1>2, <3>0, <3>2
    <3> HIDE DEF p
    <3> QED
      BY <3>1, <3>3
  <2> QED
    BY <1>1, <2>1, <2>2
<1>5. PICK p \in BOOLEAN, k \in {"none", "manual", "auto"} :
        /\ msgs[u].parts => p
        /\ kind[c] = "prompt" => p /\ k = msgs[u].comp
        /\ msgs' = [msgs EXCEPT ![u] = [@ EXCEPT !.parts = p, !.comp = k, !.tail = msgs[u].tail]]
  BY <1>4
<1> DEFINE m == [msgs[u] EXCEPT !.parts = p, !.comp = k, !.tail = msgs[u].tail]
<1>6. m \in Row /\ RowOK(m, u, Len(msgs)) /\ OldRow(u, m)
  <2>1. OnlyPrompts => k = msgs[u].comp
    BY <1>5 DEF OnlyPrompts
  <2>2. Held(u)
    BY <1>1 DEF Held, u
  <2> QED
    BY <1>2, <1>3, <1>5, <2>1, <2>2, UserRowChanges
<1>7. m.parts = p /\ m.role = "user"
  BY <1>2, <1>3 DEF Row, IsUser
<1>8. msgs' = [msgs EXCEPT ![u] = m]
  BY <1>5
<1> HIDE DEF m
<1>9. /\ msgs' = [i \in 1..Len(msgs) |-> msgs'[i]] /\ msgs'[u] = m
      /\ \A i \in 1..Len(msgs) : i # u => msgs'[i] = msgs[i]
  BY <1>2, <1>8
<1>10. \A i \in 1..Len(msgs) :
         msgs'[i] \in Row /\ RowOK(msgs'[i], i, Len(msgs)) /\ OldRow(i, msgs'[i])
  BY <1>2, <1>6, <1>9, UnchangedRow
<1>11. Evolved(msgs') /\ Len(msgs') = Len(msgs)
  BY <1>2, <1>9, <1>10, Rewritten
<1>12. msgs' \in Seq(Row) /\ RowsOK' /\ DOMAIN msgs' = 1..Len(msgs')
  BY <1>11, EvolvedKeepsRows
<1>13. RSInv'
  <2>1. RSInv /\ [RSNext]_rsVars
    BY <1>1 DEF LoopIndInv
  <2> QED
    BY <2>1, RSStepInv
<1>14. TypeInv'
  <2>1. /\ prep' \in [Call -> {"init", "drawn", "stored", "ready", "failed"}]
        /\ fresh' \subseteq Call /\ msgOf' \in [Call -> 0..Len(msgs')]
        /\ Len(msgs) <= Len(msgs')
    BY <1>1, <1>2, <1>11 DEF TypeInv
  <2> QED
    BY <1>1, <1>12, <2>1, TypesKept
<1>15. /\ prep'[c] = "ready" /\ kind' = kind /\ msgOf' = msgOf
       /\ \A d \in Call : d # c => prep'[d] = prep[d]
  BY <1>1, <1>2
<1>16. OwnIds'
  BY <1>15 DEF LoopIndInv, OwnIds
<1>17. ASSUME NEW d \in Call PROVE CallRow(d)'
  <2>1. CallRow(d)
    BY DEF LoopIndInv
  <2>2. CASE d = c
    BY <1>2, <1>5, <1>7, <1>9, <1>11, <1>15, <2>2 DEF CallRow, IsUser, u
  <2>3. CASE d # c
    <3>1. prep'[d] = prep[d] /\ msgOf'[d] = msgOf[d] /\ kind'[d] = kind[d]
      BY <1>15, <2>3
    <3>2. msgOf[d] \in 1..Len(msgs) =>
            /\ msgOf[d] \in 1..Len(msgs')
            /\ msgs[msgOf[d]].role = "none" => msgs'[msgOf[d]] = msgs[msgOf[d]]
            /\ IsUser(msgs[msgOf[d]]) => IsUser(msgs'[msgOf[d]])
            /\ IsUser(msgs[msgOf[d]]) /\ msgs[msgOf[d]].parts => msgs'[msgOf[d]].parts
      BY <1>10, <1>11 DEF OldRow, SameRow, IsUser
    <3> QED
      BY <2>1, <3>1, <3>2 DEF CallRow
  <2> QED
    BY <2>2, <2>3
<1>18. (\A r \in Call : LoopPlace(r)' /\ TaskOpen(r)') /\ OneSummaryPerTask'
  <2>1. Len(msgs') \in Nat /\ Len(msgs) <= Len(msgs')
    BY <1>2, <1>11
  <2>2. \A i \in 1..Len(msgs) : IsAssistant(msgs[i]) => msgs'[i] = msgs[i]
    BY <1>2, <1>9 DEF IsAssistant, IsUser
  <2>3. \A i \in 1..Len(msgs) : IsUser(msgs[i]) => IsUser(msgs'[i])
    BY <1>7, <1>9 DEF IsUser
  <2>4. \A i \in 1..Len(msgs') : IsAssistant(msgs'[i])
                                    => i \in 1..Len(msgs) /\ msgs'[i] = msgs[i]
    BY <1>7, <1>9, <1>11 DEF IsAssistant
  <2>5. stage' = stage
    BY <1>1 DEF rsVars
  <2> QED
    BY <1>1, <1>12, <2>1, <2>2, <2>3, <2>4, <2>5, LoopsKept
<1> QED
  BY <1>11, <1>13, <1>14, <1>16, <1>17, <1>18 DEF LoopIndInv

(* The steps that change neither a row nor a loop: a failed write, entering the
   loop, the lock's own steps and a run's return. *)
LEMMA QuietKeeps ==
  ASSUME LoopIndInv, UNCHANGED <<msgs, lp, kind, msgOf, troubled, cutShort>>, fresh' \subseteq Call,
         RSInv',
         \A r \in Call : lp[r].at \notin {"top", "return"} => stage'[r] = stage[r],
         \/ prep' = prep
         \/ \E c \in Call : prep' = [prep EXCEPT ![c] = "failed"]
  PROVE  LoopIndInv'
<1>1. /\ TypeInv /\ Len(msgs) \in Nat /\ msgs \in Seq(Row) /\ RowsOK
      /\ prep \in [Call -> {"init", "drawn", "stored", "ready", "failed"}]
      /\ msgOf \in [Call -> 0..Len(msgs)]
  BY DEF LoopIndInv, TypeInv
<1>2. /\ prep' \in [Call -> {"init", "drawn", "stored", "ready", "failed"}]
      /\ \A d \in Call : prep'[d] = prep[d] \/ prep'[d] = "failed"
  BY <1>1
<1>3. TypeInv'
  <2>1. msgs' \in Seq(Row) /\ RowsOK' /\ Len(msgs) <= Len(msgs')
        /\ msgOf' \in [Call -> 0..Len(msgs')]
    BY <1>1 DEF RowsOK
  <2> QED
    BY <1>2, <2>1, TypesKept
<1>4. OwnIds' /\ \A c \in Call : CallRow(c)'
  <2>1. OwnIds'
    BY <1>2 DEF LoopIndInv, OwnIds
  <2>2. ASSUME NEW c \in Call PROVE CallRow(c)'
    BY <1>2 DEF LoopIndInv, CallRow
  <2> QED
    BY <2>1, <2>2
<1>5. (\A r \in Call : LoopPlace(r)' /\ TaskOpen(r)') /\ OneSummaryPerTask'
  <2>1. /\ msgs' = msgs /\ Len(msgs') \in Nat /\ Len(msgs) <= Len(msgs')
        /\ DOMAIN msgs' = 1..Len(msgs')
    BY <1>1
  <2> QED
    BY <2>1, LoopsKept
<1> QED
  BY <1>3, <1>4, <1>5 DEF LoopIndInv

(* Whatever happens to the run lock is a step of it. *)
LEMMA LockRefines ==
  ASSUME LoopIndInv, [Next]_vars
  PROVE  [RSNext]_rsVars /\ RSInv'
<1>1. [RSNext]_rsVars
  <2>1. CASE \E c \in Call : \/ DrawId(c) \/ StoreMessage(c) \/ StoreParts(c)
                             \/ StoreFails(c)
    BY <2>1 DEF DrawId, StoreMessage, StoreParts, StoreFails
  <2>2. CASE \E c \in Call : EnterLoop(c)
    BY <2>2 DEF EnterLoop, RSNext
  <2>3. ASSUME NEW r \in Call, LoopStep(r), ~ LoopReturns(r) PROVE UNCHANGED rsVars
    <3>1. Moves(r)
      BY <2>3, StepMoves
    <3> QED
      BY <3>1 DEF Moves, RunMoves
  <2>4. CASE \E r \in Call : LoopReturns(r)
    BY <2>4 DEF LoopReturns, RSNext, RunSteps
  <2>5. CASE LockStep
    BY <2>5 DEF LockStep, RSNext, RunSteps
  <2>6. CASE AllOver \/ UNCHANGED vars
    BY <2>6 DEF AllOver, vars
  <2> QED
    BY <2>1, <2>2, <2>3, <2>4, <2>5, <2>6 DEF Next
<1> QED
  BY <1>1, RSStepInv DEF LoopIndInv

(* The steps of the lock that start or end no work leave working runs at it. *)
LEMMA WorkGoesOn ==
  ASSUME LoopIndInv, LockStep, NEW r \in Call, stage[r] = "working"
  PROVE  stage'[r] = "working"
<1>1. RSTypeOK /\ StageFollowsCall
  BY DEF LoopIndInv, RSInv
<1>2. ASSUME NEW c \in Call, OnBusy(c) \/ Return(c) PROVE stage'[r] = "working"
  BY <1>1, <1>2 DEF OnBusy, Return, RSTypeOK
<1>3. ASSUME NEW q \in Call, ClearSlot(q) \/ OnIdle(q) \/ CloseDone(q) \/ CancelFire(q)
      PROVE stage'[r] = "working"
  BY <1>1, <1>3 DEF ClearSlot, OnIdle, CloseDone, CancelFire, RSTypeOK
<1>4. ASSUME NEW s \in Session, CancelLookup(s) PROVE stage'[r] = "working"
  BY <1>4 DEF CancelLookup
<1> QED
  BY <1>2, <1>3, <1>4 DEF LockStep

(* Every step keeps the invariant ... *)
LEMMA LoopStepInv == LoopIndInv /\ [Next]_vars => LoopIndInv'
<1> SUFFICES ASSUME LoopIndInv, [Next]_vars PROVE LoopIndInv'
  OBVIOUS
<1>0. RSInv'
  BY LockRefines
<1>f. fresh \subseteq Call
  BY DEF LoopIndInv, TypeInv
<1>1. ASSUME NEW c \in Call, DrawId(c) PROVE LoopIndInv'
  BY <1>1, DrawIdKeeps
<1>2. ASSUME NEW c \in Call, StoreMessage(c) PROVE LoopIndInv'
  BY <1>2, StoreMessageKeeps
<1>3. ASSUME NEW c \in Call, StoreParts(c) PROVE LoopIndInv'
  BY <1>3, StorePartsKeeps
<1>4. ASSUME NEW c \in Call, StoreFails(c) PROVE LoopIndInv'
  <2>1. /\ prep' = [prep EXCEPT ![c] = "failed"]
        /\ UNCHANGED <<rsVars, msgs, kind, msgOf, lp, fresh, troubled, cutShort>>
    BY <1>4 DEF StoreFails
  <2>2. stage' = stage
    BY <2>1 DEF rsVars
  <2> QED
    BY <1>0, <1>f, <2>1, <2>2, QuietKeeps
<1>5. ASSUME NEW c \in Call, EnterLoop(c) PROVE LoopIndInv'
  <2>1. /\ UNCHANGED <<msgs, kind, prep, msgOf, lp, troubled, cutShort>>
        /\ fresh' \subseteq fresh \cup {c} /\ stage' = stage
    BY <1>5 DEF EnterLoop, Join, Claim
  <2> QED
    BY <1>0, <1>f, <2>1, QuietKeeps
<1>6. ASSUME NEW r \in Call, LoopStep(r), ~ LoopReturns(r) PROVE LoopIndInv'
  BY <1>6, StepMoves, MovesKeep
<1>7. ASSUME NEW r \in Call, LoopReturns(r) PROVE LoopIndInv'
  <2>1. /\ lp[r].at = "return" /\ WorkReturns(r) /\ UNCHANGED loopVars
    BY <1>7 DEF LoopReturns, At
  <2>2. stage' = [stage EXCEPT ![r] = "finished"]
    BY <2>1 DEF WorkReturns
  <2>3. \A q \in Call : lp[q].at \notin {"top", "return"} => stage'[q] = stage[q]
    BY <2>1, <2>2 DEF LoopIndInv, RSInv, RSTypeOK
  <2> QED
    BY <1>0, <1>f, <2>1, <2>3, QuietKeeps DEF loopVars
<1>8. ASSUME LockStep PROVE LoopIndInv'
  <2>1. UNCHANGED loopVars
    BY <1>8 DEF LockStep
  <2>2. \A q \in Call : lp[q].at \notin {"top", "return"} => stage'[q] = stage[q]
    <3>1. \A q \in Call : lp[q].at \notin {"top", "return"} => stage[q] = "working"
      BY DEF LoopIndInv, LoopPlace
    <3> QED
      BY <1>8, <3>1, WorkGoesOn
  <2> QED
    BY <1>0, <1>f, <2>1, <2>2, QuietKeeps DEF loopVars
<1>9. ASSUME AllOver \/ UNCHANGED vars PROVE LoopIndInv'
  <2>1. /\ UNCHANGED <<msgs, lp, kind, msgOf, troubled, prep, fresh, cutShort>>
        /\ stage' = stage
    BY <1>9 DEF AllOver, vars, loopVars, rsVars
  <2> QED
    BY <1>0, <1>f, <2>1, QuietKeeps
<1> QED
  BY <1>1, <1>2, <1>3, <1>4, <1>5, <1>6, <1>7, <1>8, <1>9 DEF Next

(* ... and an unused session, or one with answered prompts, satisfies it. *)
LEMMA PriorRow ==
  ASSUME NEW i \in 1..(2 * Prior)
  PROVE  /\ PriorHistory[i] \in Row /\ RowOK(PriorHistory[i], i, 2 * Prior)
         /\ ~ PriorHistory[i].summary /\ PriorHistory[i].tail = 0
<1> DEFINE m == PriorHistory[i]
           seen == 1..(i - 1)
<1>0. Prior \in Nat /\ i \in Nat \ {0} /\ i - 1 \in Nat /\ i - 1 \in 0..(2 * Prior)
  BY AgentLoopAssumption
<1>1. seen \subseteq 1..(2 * Prior) /\ seen \in SUBSET Nat
  BY <1>0
<1> HIDE DEF seen
<1>2. /\ {} \in SUBSET Nat /\ 0 \in Nat /\ i \in Nat /\ NoFinish \in Finish
      /\ "stop" \in Finish /\ FALSE \in BOOLEAN /\ TRUE \in BOOLEAN
      /\ "none" \in {"none", "manual", "auto"}
      /\ "user" \in {"none", "user", "assistant"} /\ "assistant" \in {"none", "user", "assistant"}
  BY <1>0 DEF Finish
<1>3. CASE i % 2 = 1
  <2>1. m = [Blank(i) EXCEPT !.role = "user", !.parts = TRUE]
    BY <1>3 DEF PriorHistory
  <2> HIDE DEF m
  <2>2. m = [id |-> i, role |-> "user", parts |-> TRUE, comp |-> "none",
             tail |-> 0, finish |-> NoFinish, err |-> FALSE, summary |-> FALSE,
             parent |-> 0, view |-> {}]
    BY <2>1 DEF Blank
  <2>3. m \in Row
    BY <1>2, <2>2 DEF Row
  <2>4. RowOK(m, i, 2 * Prior) /\ ~ m.summary /\ m.tail = 0
    BY <1>0, <2>2 DEF RowOK
  <2> QED
    BY <2>3, <2>4 DEF m
<1>4. CASE i % 2 # 1
  <2> DEFINE p == i - 1
  <2>1. m = [Blank(i) EXCEPT !.role = "assistant", !.finish = "stop", !.parent = p,
                             !.view = seen]
    BY <1>4 DEF PriorHistory, seen
  <2>2. p \in Nat /\ p < i /\ p \in 0..(2 * Prior)
    BY <1>0
  <2> HIDE DEF m, p
  <2>3. m = [id |-> i, role |-> "assistant", parts |-> FALSE, comp |-> "none",
             tail |-> 0, finish |-> "stop", err |-> FALSE, summary |-> FALSE,
             parent |-> p, view |-> seen]
    BY <2>1 DEF Blank
  <2>4. m \in Row
    <3>1. p \in Nat /\ seen \in SUBSET Nat
      BY <1>1, <2>2
    <3> QED
      BY <1>2, <2>3, <3>1 DEF Row
  <2>5. RowOK(m, i, 2 * Prior) /\ ~ m.summary /\ m.tail = 0
    BY <1>0, <1>1, <2>2, <2>3 DEF RowOK
  <2> QED
    BY <2>4, <2>5 DEF m
<1> QED
  BY <1>3, <1>4

LEMMA LoopInitInv == Init => LoopIndInv
<1> SUFFICES ASSUME Init PROVE LoopIndInv
  OBVIOUS
<1>1. RSInv
  BY RSInitInv DEF Init
<1>2. /\ msgs = PriorHistory /\ kind \in [Call -> Kinds]
      /\ prep = [c \in Call |-> "init"] /\ msgOf = [c \in Call |-> 0]
      /\ lp = [r \in Call |-> LoopStart] /\ fresh = {} /\ troubled = {}
      /\ cutShort = {}
  BY DEF Init
<1>3. /\ msgs \in Seq(Row) /\ Len(msgs) = 2 * Prior /\ 2 * Prior \in Nat
      /\ DOMAIN msgs = 1..(2 * Prior)
  <2>1. 2 * Prior \in Nat
    BY AgentLoopAssumption
  <2>2. PriorHistory = [i \in 1..(2 * Prior) |-> PriorHistory[i]]
    BY DEF PriorHistory
  <2>3. \A i \in 1..(2 * Prior) : PriorHistory[i] \in Row
    BY PriorRow
  <2> DEFINE n == 2 * Prior
             h == PriorHistory
  <2>4. n \in Nat /\ h \in [1..n -> Row]
    BY <2>1, <2>2, <2>3
  <2> HIDE DEF n, h
  <2>5. h \in Seq(Row) /\ Len(h) = n /\ DOMAIN h = 1..n
    BY <2>4
  <2> QED
    BY <1>2, <2>1, <2>5 DEF n, h
<1>4. RowsOK
  BY <1>2, <1>3, PriorRow DEF RowsOK
<1>5. LoopStart \in LoopState /\ LoopStateOK(LoopStart, Len(msgs)) /\ LoopStart.at = "top"
  <2>1. LoopStart = [at |-> "top", step |-> 0, user |-> 0, asst |-> 0, view |-> {}, tail |-> 0]
    BY DEF LoopStart
  <2>2. 0 \in 0..MaxSteps /\ Len(msgs) \in Nat /\ "top" \in {"top", "return"}
    BY <1>3, StepLimit
  <2> QED
    BY <2>1, <2>2, FreshState
<1>6. TypeInv
  <2>1. msgOf \in [Call -> 0..Len(msgs)] /\ lp \in [Call -> LoopState]
        /\ prep \in [Call -> {"init", "drawn", "stored", "ready", "failed"}]
    BY <1>2, <1>3, <1>5
  <2>2. \A r \in Call : LoopStateOK(lp[r], Len(msgs))
    BY <1>2, <1>5
  <2> QED
    BY <1>2, <1>3, <1>4, <2>1, <2>2 DEF TypeInv
<1>7. OwnIds /\ \A c \in Call : CallRow(c)
  BY <1>2 DEF OwnIds, CallRow
<1>8. \A r \in Call : LoopPlace(r) /\ TaskOpen(r)
  BY <1>2, <1>5 DEF LoopPlace, TaskOpen
<1>9. OneSummaryPerTask
  BY <1>2, <1>3, PriorRow DEF OneSummaryPerTask, IsCompletedSummary
<1> QED
  BY <1>1, <1>6, <1>7, <1>8, <1>9 DEF LoopIndInv

(* The loop's state is in order at any time, whatever the calls, the model, the
   compactions and the aborts do. *)
THEOREM LoopInvariant == Spec => []LoopIndInv
<1>1. Init => LoopIndInv
  BY LoopInitInv
<1>2. LoopIndInv /\ [Next]_vars => LoopIndInv'
  BY LoopStepInv
<1> QED
  BY <1>1, <1>2, PTL DEF Spec

(* engine.go enters every loop through EnsureRunning and ends it through Cancel
   alone, so the loop is one way to use the run lock: what the lock promises to
   any work, MutualExclusion and CancelIsTargeted among it, holds of agent loops. *)
THEOREM LoopUsesTheLock == Spec => RSSpec
<1>1. Init => RSInit
  BY DEF Init
<1>2. LoopIndInv /\ [Next]_vars => [RSNext]_rsVars
  BY LockRefines
<1> QED
  BY <1>1, <1>2, LoopInvariant, PTL DEF Spec, RSSpec

(* The types the runs check, and one streamed message at a time: two loops that
   stream are two working runs of the one session, which the lock forbids. *)
THEOREM LoopInOrder == Spec => []LoopInv
<1>1. LoopIndInv => LoopInv
  <2> SUFFICES ASSUME LoopIndInv PROVE LoopInv
    OBVIOUS
  <2>1. LoopTypeOK
    <3>1. TypeInv /\ DOMAIN msgs = 1..Len(msgs)
      BY DEF LoopIndInv, TypeInv
    <3>2. ASSUME NEW i \in DOMAIN msgs
          PROVE  /\ msgs[i].id = i
                 /\ msgs[i].role \in {"none", "user", "assistant"}
                 /\ msgs[i].comp \in {"none", "manual", "auto"}
                 /\ msgs[i].finish \in Finish
                 /\ msgs[i].tail \in 0..Len(msgs) /\ msgs[i].parent \in 0..Len(msgs)
                 /\ msgs[i].view \subseteq 1..Len(msgs)
      <4>1. msgs[i] \in Row /\ RowOK(msgs[i], i, Len(msgs))
        BY <3>1, UnchangedRow
      <4> QED
        BY <4>1 DEF Row, RowOK
    <3>3. \A r \in Call :
            /\ lp[r].at \in {"top", "turn", "stream", "clear", "compact", "summarise", "return"}
            /\ lp[r].step \in 0..MaxSteps
      BY <3>1 DEF TypeInv, LoopState
    <3> QED
      BY <3>1, <3>2, <3>3 DEF LoopTypeOK, TypeInv
  <2>2. OneStreamAtATime
    <3> SUFFICES ASSUME NEW q \in Call, NEW r \in Call,
                        lp[q].at \in {"stream", "summarise"},
                        lp[r].at \in {"stream", "summarise"}
                 PROVE  q = r
      BY DEF OneStreamAtATime
    <3>1. Owns(q) /\ Owns(r)
      BY DEF LoopIndInv, LoopPlace, Owns
    <3> QED
      BY <3>1, OnlyOneWorks DEF LoopIndInv
  <2> QED
    BY <2>1, <2>2 DEF LoopInv
<1> QED
  BY <1>1, LoopInvariant, PTL

(* processCompaction never compacts a task twice, also when several prompts and
   overflows compete: the task it works on has no done summary, and nobody else
   is writing one. *)
THEOREM SummarisedOnce == Spec => []OneSummaryPerTask
<1>1. LoopIndInv => OneSummaryPerTask
  BY DEF LoopIndInv
<1> QED
  BY <1>1, LoopInvariant, PTL

(* A history rewritten in place has the length it had. *)
LEMMA RewrittenLength ==
  ASSUME Len(msgs) \in Nat, NEW ms, ms = [i \in 1..Len(msgs) |-> ms[i]]
  PROVE  Len(ms) = Len(msgs)
<1> DEFINE S == {ms[i] : i \in 1..Len(msgs)}
<1>1. ms \in [1..Len(msgs) -> S]
  OBVIOUS
<1> HIDE DEF S
<1>2. ms \in Seq(S) /\ Len(ms) = Len(msgs)
  BY <1>1
<1> QED
  BY <1>2

(* Once a run's context is cancelled its own steps add nothing to the history. *)
LEMMA CancelledAddsNothing ==
  ASSUME LoopIndInv, NEW r \in Call, r \in cancelled, LoopStep(r)
  PROVE  Len(msgs') = Len(msgs)
<1>0. Len(msgs) \in Nat /\ msgs = [i \in 1..Len(msgs) |-> msgs[i]]
  BY AtFacts
<1>1. CASE msgs' = msgs
  BY <1>1
<1>2. CASE TurnFails(r) \/ SummaryFails(r) \/ CompactionCutShort(r)
  <2>1. msgs' = [i \in 1..Len(msgs) |-> msgs'[i]]
    BY <1>0, <1>2 DEF TurnFails, SummaryFails, CompactionCutShort, Summarised
  <2> QED
    BY <1>0, <2>1, RewrittenLength
<1>3. msgs' = msgs \/ TurnFails(r) \/ SummaryFails(r) \/ CompactionCutShort(r)
  BY DEF LoopStep, LoopGivesUp, LoopReads, MayRead, CannotBegin, BeginTurn, TurnContinues,
     TurnOverflows, TaskCutShort, TurnStructured, CompactNothing, BeginSummary,
     SummaryEnds, LoopReturns, loopVars
<1> QED
  BY <1>1, <1>2, <1>3

(* An abort is final for the history: the loop that was interrupted may end its
   turn, give up or return, and appends no message. *)
THEOREM AbortAddsNothing == Spec => NoNewMessageAfterAbort
<1>1. LoopIndInv /\ [Next]_vars =>
        [\A r \in cancelled : lp[r] # lp'[r] => Len(msgs') = Len(msgs)]_vars
  <2> SUFFICES ASSUME LoopIndInv, Next, NEW r \in cancelled, lp[r] # lp'[r]
               PROVE  Len(msgs') = Len(msgs)
    OBVIOUS
  <2>1. r \in Call
    BY DEF LoopIndInv, RSInv, RSTypeOK
  <2>2. PICK q \in Call : LoopStep(q) /\ ~ LoopReturns(q)
    BY DEF Next, DrawId, StoreMessage, StoreParts, StoreFails, EnterLoop, LockStep, AllOver,
       LoopReturns, loopVars, vars
  <2>3. PICK loop : RunMoves(q, loop)
    BY <2>2, StepMoves DEF Moves
  <2>4. r = q
    BY <2>1, <2>3 DEF RunMoves, LoopIndInv, TypeInv
  <2> QED
    BY <2>1, <2>2, <2>4, CancelledAddsNothing
<1> QED
  BY <1>1, LoopInvariant, PTL DEF Spec, NoNewMessageAfterAbort
-----------------------------------------------------------------------------
(* A fresh prompt is answered.  First what the steps do to the answers. *)
LEMMA FinishNames ==
  "stop" # NoFinish /\ "error" # NoFinish /\ "tool-calls" # NoFinish
BY Zenon DEF NoFinish

LEMMA NoErrorFinish == "error" \notin Finishes
BY AgentLoopAssumption, FinishNames

(* The working run is the only one that streams. *)
LEMMA WorksAlone ==
  ASSUME LoopIndInv, NEW r \in Call, stage[r] = "working"
  PROVE  /\ \A q \in Call : Owns(q) => q = r
         /\ \A i : Streaming(i) => /\ lp[r].at \in {"stream", "summarise"}
                                   /\ i = lp[r].asst
<1>1. \A q \in Call : Owns(q) => q = r
  BY OnlyOneWorks DEF LoopIndInv, Owns
<1>2. \A q \in Call : lp[q].at \in {"stream", "summarise"} => Owns(q)
  BY DEF LoopIndInv, LoopPlace, Owns
<1> QED
  BY <1>1, <1>2 DEF Streaming

LEMMA AnswersEvolve ==
  ASSUME LoopIndInv, Evolved(msgs'), NEW m
  PROVE  /\ Shows(msgs, m) => Shows(msgs', m)
         /\ Answered(msgs, m) => Answered(msgs', m)
         /\ \A i \in AnswersAfter(msgs', m) :
              \/ /\ i \in AnswersAfter(msgs, m)
                 /\ msgs'[i].finish = msgs[i].finish \/ Streaming(i)
              \/ msgs'[i].finish = NoFinish
<1>1. /\ Len(msgs) \in Nat /\ Len(msgs') \in Nat /\ Len(msgs) <= Len(msgs')
      /\ \A i \in 1..Len(msgs) : OldRow(i, msgs'[i])
      /\ \A i \in 1..Len(msgs') : i \in 1..Len(msgs) \/ NewRow(msgs'[i])
  BY EvolvedKeepsRows
<1>2. 1..Len(msgs) \subseteq 1..Len(msgs')
  BY <1>1
<1>3. \A i \in 1..Len(msgs) :
        /\ IsAssistant(msgs'[i]) <=> IsAssistant(msgs[i])
        /\ IsAssistant(msgs[i]) => /\ msgs'[i].summary = msgs[i].summary
                                   /\ msgs'[i].view = msgs[i].view
        /\ msgs'[i].finish = msgs[i].finish \/ Streaming(i)
  BY <1>1 DEF OldRow, SameRow, SameEnd, IsAssistant
<1>4. Shows(msgs, m) => Shows(msgs', m)
  BY <1>2, <1>3 DEF Shows
<1>5. ASSUME Answered(msgs, m) PROVE Answered(msgs', m)
  <2>1. PICK i \in AnswersAfter(msgs, m) : msgs[i].finish = "stop"
    BY <1>5 DEF Answered
  <2>2. ~ Streaming(i)
    <3> SUFFICES ASSUME NEW q \in Call, lp[q].at \in {"stream", "summarise"}, lp[q].asst = i
                 PROVE  FALSE
      BY DEF Streaming
    <3>1. Streams(q)
      BY DEF LoopIndInv, LoopPlace
    <3> QED
      BY <2>1, <3>1, FinishNames DEF Streams
  <2>3. i \in AnswersAfter(msgs', m) /\ msgs'[i].finish = "stop"
    BY <1>2, <1>3, <2>1, <2>2 DEF AnswersAfter
  <2> QED
    BY <2>3 DEF Answered
<1>6. ASSUME NEW i \in AnswersAfter(msgs', m)
      PROVE  \/ /\ i \in AnswersAfter(msgs, m)
                /\ msgs'[i].finish = msgs[i].finish \/ Streaming(i)
             \/ msgs'[i].finish = NoFinish
  <2>1. i \in 1..Len(msgs') /\ i > m /\ IsAssistant(msgs'[i])
    BY DEF AnswersAfter
  <2>2. CASE i \in 1..Len(msgs)
    BY <1>3, <2>1, <2>2 DEF AnswersAfter
  <2>3. CASE i \notin 1..Len(msgs)
    BY <1>1, <2>1, <2>3 DEF NewRow
  <2> QED
    BY <2>2, <2>3
<1> QED
  BY <1>4, <1>5, <1>6

(* The iteration that follows a fresh prompt shows it: the newest user message
   is no task, no answer is newer, and no cut can hide the prompt. *)
LEMMA UnseenIsRead ==
  ASSUME LoopIndInv, NEW c \in Call, prep[c] = "ready", kind[c] = "prompt",
         AnswersAfter(msgs, msgOf[c]) = {},
         \A i \in 1..Len(msgs) : i >= msgOf[c] => msgs[i].comp = "none"
  PROVE  LET d == Decide(lp[c], Filtered)
         IN  d.at = "turn" /\ msgOf[c] \in d.view
<1> DEFINE f == Filtered
           n == Len(msgs)
           m == msgOf[c]
           u == LatestUser(f)
           d == Decide(lp[c], f)
<1>1. /\ TypeInv /\ lp[c] \in LoopState /\ LoopStateOK(lp[c], n) /\ n \in Nat
      /\ m \in 1..n /\ IsUser(msgs[m]) /\ msgs[m].parts /\ msgs[m].id = m
  BY AtFacts DEF LoopIndInv, CallRow, TypeInv, RowsOK, RowOK
<1>2. /\ f \in Seq(Row) /\ DOMAIN f = 1..Len(f)
      /\ \A k \in 1..Len(f) : f[k].id \in 1..n /\ f[k] = msgs[f[k].id]
  BY <1>1, FilteredRows
<1>3. PICK k \in 1..Len(f) : f[k] = msgs[m]
  <2>1. \A i \in 1..n : IsTask(msgs[i]) => i <= m
    BY <1>1 DEF IsTask
  <2>2. msgs[m].role # "none"
    BY <1>1 DEF IsUser
  <2> QED
    BY <1>1, <2>1, <2>2, FilteredRows
<1>4. m \in Shown(f)
  BY <1>1, <1>2, <1>3 DEF Shown, Says
<1>5. u \in 1..n /\ m <= u
  BY <1>1, NewestUser
<1>6. ~ PendingCompaction(f, u)
  <2>1. \A i \in DOMAIN f : f[i].id = u => f[i].comp = "none"
    BY <1>1, <1>2, <1>5
  <2> HIDE DEF f, u
  <2> QED
    BY <2>1 DEF PendingCompaction
<1>7. ~ ShouldExit(f)
  <2> DEFINE a == LatestAssistant(f)
  <2> SUFFICES ASSUME a # 0, u < a PROVE FALSE
    BY DEF ShouldExit
  <2>1. PICK j \in 1..Len(f) : f[j].id = a /\ IsAssistant(f[j])
    BY <1>1, <1>2, LatestIsNewest
  <2>2. a \in 1..n /\ IsAssistant(msgs[a])
    BY <1>2, <2>1
  <2> HIDE DEF a, f, u
  <2>3. a \in AnswersAfter(msgs, m)
    BY <1>1, <1>5, <2>2 DEF AnswersAfter
  <2> QED
    BY <2>3
<1>8. \/ d.at = "return" /\ (u = 0 \/ ShouldExit(f))
      \/ /\ d.at \in {"clear", "compact"} /\ d.user = u /\ u # 0 /\ PendingCompaction(f, u)
      \/ /\ d.at = "turn" /\ d.user = u /\ u # 0 /\ d.view = Shown(f)
  BY <1>1, DecideCases
<1> HIDE DEF f, u, d
<1>9. d.at = "turn" /\ m \in d.view
  BY <1>4, <1>5, <1>6, <1>7, <1>8
<1> QED
  BY <1>9 DEF d, f

LEMMA FinishedRow ==
  ASSUME NEW row \in Row, NEW fin, NEW e
  PROVE  /\ [row EXCEPT !.finish = fin].finish = fin
         /\ [row EXCEPT !.finish = fin, !.err = e].finish = fin
BY DEF Row

LEMMA RowSet ==
  ASSUME NEW ms \in Seq(Row), NEW a \in 1..Len(ms), NEW u, u # a, NEW m, NEW k
  PROVE  [ms EXCEPT ![a] = m][a] = m /\ [ms EXCEPT ![a] = m, ![u] = k][a] = m
OBVIOUS

(* How the turns that trouble nothing end the row they stream. *)
LEMMA StreamedFinish ==
  ASSUME LoopIndInv, NEW r \in Call, r \notin troubled',
         \/ TurnContinues(r) \/ TurnOverflows(r) \/ TurnStructured(r)
         \/ SummaryEnds(r)
  PROVE  \/ msgs'[lp[r].asst].finish \in Finishes \cup {NoFinish}
         \/ TurnStructured(r) /\ msgs'[lp[r].asst].finish = "stop"
<1> DEFINE a == lp[r].asst
           u == lp[r].user
           n == Len(msgs) + 1
<1>1. lp[r].at \in {"stream", "summarise"}
  BY DEF TurnContinues, TurnOverflows, TurnStructured, SummaryEnds, At
<1>2. /\ TypeInv /\ Len(msgs) \in Nat /\ a \in 1..Len(msgs) /\ a # u
      /\ msgs \in Seq(Row) /\ msgs[a] \in Row
      /\ u \in 1..Len(msgs) /\ msgs[u] \in Row
  BY <1>1, AtFacts DEF LoopIndInv, Streams, TypeInv
<1>s. Stored(Finishes) \subseteq Finishes \cup {NoFinish}
  BY DEF Stored
<1>3. ASSUME NEW fin, msgs' = [msgs EXCEPT ![a].finish = fin]
      PROVE  msgs'[a].finish = fin
  <2> DEFINE m == [msgs[a] EXCEPT !.finish = fin]
  <2>1. m.finish = fin
    BY <1>2, FinishedRow
  <2>2. msgs' = [msgs EXCEPT ![a] = m]
    BY <1>3
  <2> HIDE DEF m
  <2> QED
    BY <1>2, <2>1, <2>2, RowSet
<1>l. ASSUME NEW ms \in Seq(Row), Len(ms) = Len(msgs), NEW new, msgs' = Append(ms, new)
      PROVE  msgs'[a] = ms[a]
  BY <1>2, <1>l
<1>4. CASE TurnContinues(r)
  <2>1. PICK fin \in Stored(Finishes) : msgs' = [msgs EXCEPT ![a].finish = fin]
    BY <1>4 DEF TurnContinues
  <2> HIDE DEF a
  <2>2. msgs'[a].finish = fin
    BY <1>3, <2>1
  <2> QED
    BY <1>s, <2>1, <2>2 DEF a
<1>5. CASE TurnStructured(r)
  <2>1. msgs' = [msgs EXCEPT ![a].finish = "stop"]
    BY <1>5 DEF TurnStructured
  <2> HIDE DEF a
  <2>2. msgs'[a].finish = "stop"
    BY <1>3, <2>1
  <2> QED
    BY <1>5, <2>2 DEF a
<1>6. CASE TurnOverflows(r)
  <2>1. PICK fin \in Stored(Finishes), failed \in BOOLEAN :
          msgs' = Append([msgs EXCEPT ![a] = [@ EXCEPT !.finish = fin, !.err = failed]],
                         User(n, "auto"))
    BY <1>6 DEF TurnOverflows
  <2> DEFINE ms == [msgs EXCEPT ![a] = [@ EXCEPT !.finish = fin, !.err = failed]]
             new == User(n, "auto")
  <2>2. Evolved(ms) /\ Len(ms) = Len(msgs)
    BY <1>1, <2>1, FinishesAreFinish, StreamEnds
  <2>3. ms[a].finish = fin
    <3> DEFINE m == [msgs[a] EXCEPT !.finish = fin, !.err = failed]
    <3>1. m.finish = fin
      BY <1>2, FinishedRow
    <3>2. ms = [msgs EXCEPT ![a] = m]
      OBVIOUS
    <3> HIDE DEF m, ms
    <3> QED
      BY <1>2, <3>1, <3>2, RowSet
  <2>4. ms \in Seq(Row) /\ msgs' = Append(ms, new)
    BY <2>1, <2>2 DEF Evolved
  <2> HIDE DEF ms, a, new
  <2>6. msgs'[a].finish = fin
    BY <1>l, <2>2, <2>3, <2>4
  <2> QED
    BY <1>s, <2>1, <2>6 DEF a
<1>7. CASE SummaryEnds(r)
  <2>1. PICK fin \in Stored(Finishes \ {"tool-calls"}) :
          \/ msgs' = Summarised(r, fin, lp[r].tail)
          \/ \E new : msgs' = Append(Summarised(r, fin, lp[r].tail), new)
    BY <1>7 DEF SummaryEnds
  <2> DEFINE ms == Summarised(r, fin, lp[r].tail)
  <2>2. fin \in Finish /\ fin \in Finishes \cup {NoFinish}
    BY <2>1, FinishesAreFinish DEF Stored
  <2>3. ms \in Seq(Row) /\ Len(ms) = Len(msgs)
    <3>1. lp[r].at = "summarise"
      BY <1>7 DEF SummaryEnds, At
    <3> QED
      BY <2>2, <3>1, SummarisedRows, SummaryRows DEF Evolved
  <2>4. ms[a].finish = fin
    <3> DEFINE m == [msgs[a] EXCEPT !.finish = fin]
               k == [msgs[u] EXCEPT !.tail = IF lp[r].tail = 0 THEN @ ELSE lp[r].tail]
    <3>1. m.finish = fin
      BY <1>2, FinishedRow
    <3>2. ms = [msgs EXCEPT ![a] = m, ![u] = k]
      BY <1>2 DEF Summarised
    <3> HIDE DEF m, k, ms
    <3> QED
      BY <1>2, <3>1, <3>2, RowSet
  <2>5. msgs' = ms \/ \E new : msgs' = Append(ms, new)
    BY <2>1
  <2> HIDE DEF ms, a
  <2>6. msgs'[a].finish = fin
    BY <1>l, <2>3, <2>4, <2>5
  <2> QED
    BY <2>2, <2>6 DEF a
<1> QED
  BY <1>4, <1>5, <1>6, <1>7

(* The steps of a fresh prompt's own run, one progress to the next: a turn that
   begins shows the prompt ... *)
LEMMA UnseenSteps ==
  ASSUME LoopIndInv, NEW c \in Call, FreshCall(c), OnlyPrompts, Unseen(c),
         LoopStep(c), ~ LoopReturns(c), c \notin troubled'
  PROVE  Unseen(c)' \/ Seen(c)'
<1> DEFINE m == msgOf[c]
           n == Len(msgs) + 1
<1>0. /\ prep[c] = "ready" /\ kind[c] = "prompt" /\ lp[c].at \in {"top", "turn"}
      /\ AnswersAfter(msgs, m) = {} /\ m \in 1..Len(msgs) /\ Len(msgs) \in Nat
      /\ lp \in [Call -> LoopState] /\ troubled' # troubled \cup {c}
      /\ \A i \in 1..Len(msgs) : i >= m => msgs[i].comp = "none"
  BY DEF FreshCall, OnlyPrompts, Unseen, LoopIndInv, CallRow, TypeInv
<1>1. LoopReads(c) \/ BeginTurn(c)
  BY <1>0 DEF LoopStep, LoopGivesUp, CannotBegin, TurnContinues, TurnOverflows, TaskCutShort,
     TurnStructured, TurnFails, CompactNothing, BeginSummary, SummaryFails, CompactionCutShort,
     SummaryEnds, At
<1>2. CASE LoopReads(c)
  <2>1. /\ stage'[c] = "working" /\ msgs' = msgs /\ msgOf' = msgOf
        /\ lp'[c] = Decide(lp[c], Filtered)
    BY <1>0, <1>2 DEF LoopReads, At, rsVars
  <2>2. lp'[c].at = "turn" /\ m \in lp'[c].view
    BY <1>0, <2>1, UnseenIsRead
  <2>3. Unseen(c)'
    BY <1>0, <2>1, <2>2 DEF Unseen
  <2> QED
    BY <2>3
<1>3. CASE BeginTurn(c)
  <2> DEFINE s == FALSE
             w == "stream"
             new == Assistant(n, lp[c].user, lp[c].view, s)
  <2>1. /\ stage'[c] = "working" /\ msgOf' = msgOf /\ lp[c].at = "turn"
        /\ msgs' = Append(msgs, new)
    BY <1>3 DEF BeginTurn, At, rsVars
  <2>2. m \in lp[c].view
    BY <2>1 DEF Unseen
  <2>3. /\ new \in Row /\ NewRow(new) /\ RowOK(new, n, n)
        /\ IsAssistant(new) /\ new.finish = NoFinish /\ ~ new.summary /\ new.view = lp[c].view
    <3>1. lp[c].at \in {"turn", "compact"} /\ s \in BOOLEAN /\ ~ s
      BY <2>1
    <3> HIDE DEF new, s
    <3>2. new = Assistant(Len(msgs) + 1, lp[c].user, lp[c].view, s)
      BY DEF new
    <3> QED
      BY <3>1, <3>2, AnswerRow
  <2>4. PICK loop \in LoopState : loop.at = w /\ loop.asst = n /\ lp' = [lp EXCEPT ![c] = loop]
    <3>1. n = Len(msgs) + 1 /\ w = "stream"
      OBVIOUS
    <3> HIDE DEF n, w
    <3>2. \E loop \in LoopState : BegunState(c, loop, w, n)
      BY <1>3, <3>1, BeginState
    <3> QED
      BY <3>2 DEF BegunState
  <2> HIDE DEF new, s
  <2>5. /\ Len(msgs') = n /\ msgs'[n] = new
        /\ \A i \in 1..Len(msgs) : msgs'[i] = msgs[i]
    <3>1. msgs \in Seq(Row)
      BY DEF LoopIndInv, TypeInv
    <3> QED
      BY <2>1, <2>3, <3>1, AppendProperties
  <2>6. lp'[c].at = "stream" /\ lp'[c].asst = n
    BY <1>0, <2>4
  <2>7. n \in 1..Len(msgs') /\ n > m
    BY <1>0, <2>5
  <2>8. Shows(msgs', m)
    BY <2>2, <2>3, <2>5, <2>7 DEF Shows
  <2>9. \A i \in AnswersAfter(msgs', m) : i = n
    <3>1. \A i \in 1..Len(msgs') : i = n \/ i \in 1..Len(msgs)
      BY <1>0, <2>5
    <3>2. \A i \in 1..Len(msgs) : ~ (i > m /\ IsAssistant(msgs[i]))
      BY <1>0 DEF AnswersAfter
    <3> QED
      BY <2>5, <3>1, <3>2 DEF AnswersAfter
  <2>10. Open(c)'
    BY <2>1, <2>3, <2>5, <2>6, <2>7, <2>9, FinishNames DEF Open
  <2> QED
    BY <2>1, <2>8, <2>10 DEF Seen
<1> QED
  BY <1>1, <1>2, <1>3

(* ... an iteration that follows goes on, unless the prompt is answered ... *)
LEMMA OpenReads ==
  ASSUME LoopIndInv, NEW c \in Call, Open(c), prep[c] = "ready", LoopReads(c)
  PROVE  Open(c)' \/ Answered(msgs', msgOf'[c])
<1> DEFINE f == Filtered
           n == Len(msgs)
           m == msgOf[c]
           u == LatestUser(f)
           a == LatestAssistant(f)
           d == Decide(lp[c], f)
<1>1. /\ TypeInv /\ lp[c] \in LoopState /\ LoopStateOK(lp[c], n) /\ n \in Nat
      /\ m \in 1..n /\ IsUser(msgs[m]) /\ lp \in [Call -> LoopState]
  BY AtFacts DEF LoopIndInv, CallRow, TypeInv
<1>2. /\ stage'[c] = "working" /\ msgs' = msgs /\ msgOf' = msgOf /\ lp'[c] = d
  BY <1>1 DEF LoopReads, At, rsVars
<1>3. /\ f \in Seq(Row)
      /\ \A k \in 1..Len(f) : f[k].id \in 1..n /\ f[k] = msgs[f[k].id]
  BY <1>1, FilteredRows
<1>4. u \in 1..n /\ m <= u
  BY <1>1, NewestUser
<1>5. d.at \in {"clear", "compact", "turn"} \/ (d.at = "return" /\ (u = 0 \/ ShouldExit(f)))
  BY <1>1, DecideCases
<1>6. CASE d.at \in {"clear", "compact", "turn"}
  <2>1. lp'[c].at \notin {"return", "stream", "summarise"}
    BY <1>2, <1>6
  <2> QED
    BY <1>2, <2>1 DEF Open
<1>7. CASE d.at = "return"
  <2>1. /\ a # 0 /\ u < a /\ msgs[a].finish \notin {NoFinish, "tool-calls"}
    BY <1>4, <1>5, <1>7 DEF ShouldExit
  <2>2. PICK k \in 1..Len(f) : f[k].id = a /\ IsAssistant(f[k])
    BY <1>1, <1>3, <2>1, LatestIsNewest
  <2>3. a \in 1..n /\ IsAssistant(msgs[a])
    BY <1>3, <2>2
  <2> HIDE DEF a, f, u, d
  <2>4. a \in AnswersAfter(msgs, m)
    BY <1>1, <1>4, <2>1, <2>3 DEF AnswersAfter
  <2>5. msgs[a].finish # "error" /\ msgs[a].finish \in Finish
    <3>1. msgs[a] \in Row
      BY <1>1, <2>3, UnchangedRow
    <3> QED
      BY <2>4, <3>1 DEF Open, Row
  <2>6. msgs[a].finish = "stop"
    BY <2>1, <2>5 DEF Finish
  <2> QED
    BY <1>2, <2>4, <2>6 DEF Answered
<1> QED
  BY <1>5, <1>6, <1>7

(* ... and a turn or a summary begins and ends without an error. *)
LEMMA OpenSteps ==
  ASSUME LoopIndInv, NEW c \in Call, FreshCall(c), Shows(msgs, msgOf[c]), Open(c),
         LoopStep(c), ~ LoopReturns(c), c \notin troubled'
  PROVE  Seen(c)'
<1> DEFINE m == msgOf[c]
           a == lp[c].asst
<1>0. /\ prep[c] = "ready" /\ m \in 1..Len(msgs) /\ Len(msgs) \in Nat
      /\ lp \in [Call -> LoopState] /\ troubled' # troubled \cup {c}
      /\ stage[c] = "working"
  BY DEF FreshCall, Open, LoopIndInv, CallRow, TypeInv
<1>1. PICK loop : RunMoves(c, loop)
  BY StepMoves DEF Moves
<1>2. /\ Evolved(msgs') /\ msgOf' = msgOf /\ stage'[c] = "working"
      /\ Len(msgs') \in Nat /\ Len(msgs) <= Len(msgs')
  BY <1>0, <1>1, EvolvedKeepsRows DEF RunMoves, rsVars
<1>3. Shows(msgs', m)
  BY <1>2, AnswersEvolve
<1>4. \A i \in AnswersAfter(msgs', m) :
        \/ i \in AnswersAfter(msgs, m) /\ msgs'[i].finish = msgs[i].finish
        \/ /\ i \in AnswersAfter(msgs, m) /\ i = a
           /\ lp[c].at \in {"stream", "summarise"}
        \/ msgs'[i].finish = NoFinish
  BY <1>0, <1>2, AnswersEvolve, WorksAlone
<1>5. \A i \in AnswersAfter(msgs, m) : msgs[i].finish # "error"
  BY DEF Open
<1>6. ASSUME lp[c].at \in {"stream", "summarise"} => msgs'[a].finish # "error",
             lp'[c].at # "return",
             lp'[c].at \in {"stream", "summarise"} => lp'[c].asst > m
      PROVE  Seen(c)'
  <2>1. \A i \in AnswersAfter(msgs', m) : msgs'[i].finish # "error"
    BY <1>4, <1>5, <1>6, FinishNames
  <2>2. Open(c)'
    BY <1>2, <1>6, <2>1 DEF Open
  <2> QED
    BY <1>2, <1>3, <2>2 DEF Seen
<1>7. \/ LoopReads(c) \/ BeginTurn(c) \/ BeginSummary(c)
      \/ TurnContinues(c) \/ TurnOverflows(c) \/ TurnStructured(c) \/ SummaryEnds(c)
      \/ CompactNothing(c)
  BY <1>0 DEF LoopStep, LoopGivesUp, CannotBegin, TaskCutShort, TurnFails, SummaryFails,
     CompactionCutShort
<1>8. CASE LoopReads(c)
  <2>1. Open(c)' \/ Answered(msgs', msgOf'[c])
    BY <1>0, <1>8, OpenReads
  <2> QED
    BY <1>2, <1>3, <2>1 DEF Seen
<1>9. CASE BeginTurn(c) \/ BeginSummary(c)
  <2>1. lp[c].at \in {"turn", "compact"}
    BY <1>9 DEF BeginTurn, BeginSummary, At
  <2> DEFINE w == IF BeginTurn(c) THEN "stream" ELSE "summarise"
             n == Len(msgs) + 1
  <2>2. n = Len(msgs) + 1 /\ n > m
    BY <1>0
  <2>3. (BeginTurn(c) /\ w = "stream") \/ (BeginSummary(c) /\ w = "summarise")
    BY <1>9
  <2> HIDE DEF w, n
  <2>4. PICK next \in LoopState : next.at = w /\ next.asst = n /\ lp' = [lp EXCEPT ![c] = next]
    <3>1. n = Len(msgs) + 1
      BY <2>2
    <3>2. \E next \in LoopState : BegunState(c, next, w, n)
      BY <2>3, <3>1, BeginState
    <3> QED
      BY <3>2 DEF BegunState
  <2>5. lp'[c].at = w /\ lp'[c].asst = n /\ w # "return"
    BY <1>0, <2>3, <2>4
  <2> QED
    BY <1>6, <2>1, <2>2, <2>5
<1>10. CASE TurnContinues(c) \/ TurnOverflows(c) \/ SummaryEnds(c) \/ CompactNothing(c)
  <2>1. lp' = NextStep(c)
    BY <1>10 DEF TurnContinues, TurnOverflows, SummaryEnds, CompactNothing
  <2>2. lp'[c].at = "top"
    BY <1>0, <2>1 DEF NextStep, LoopStart
  <2>3. lp[c].at \in {"stream", "summarise"} => msgs'[a].finish # "error"
    <3>1. CASE TurnContinues(c) \/ TurnOverflows(c) \/ SummaryEnds(c)
      <4>1. msgs'[a].finish \in Finishes \cup {NoFinish, "stop"}
        BY <3>1, StreamedFinish
      <4> QED
        BY <4>1, NoErrorFinish, FinishNames
    <3>2. CASE CompactNothing(c)
      BY <3>2 DEF CompactNothing, At
    <3> QED
      BY <1>10, <3>1, <3>2
  <2> QED
    BY <1>6, <2>2, <2>3
<1>11. CASE TurnStructured(c)
  <2>1. lp[c].at = "stream"
    BY <1>11 DEF TurnStructured, At
  <2>2. a > m /\ a \in 1..Len(msgs) /\ IsAssistant(msgs[a])
    BY <2>1, AtFacts DEF Open, Streams
  <2>3. a \in 1..Len(msgs') /\ IsAssistant(msgs'[a])
    <3>1. OldRow(a, msgs'[a])
      BY <1>2, <2>2, EvolvedKeepsRows
    <3> QED
      BY <1>0, <1>2, <2>2, <3>1 DEF OldRow, SameRow, IsAssistant
  <2>4. msgs'[a].finish = "stop"
    <3> HIDE DEF a
    <3>1. msgs' = [msgs EXCEPT ![a].finish = "stop"] /\ msgs \in Seq(Row)
      BY <1>0, <1>11 DEF TurnStructured, LoopIndInv, TypeInv, a
    <3> DEFINE k == [msgs[a] EXCEPT !.finish = "stop"]
    <3>2. k.finish = "stop"
      BY <2>2, <3>1, FinishedRow
    <3>3. msgs' = [msgs EXCEPT ![a] = k]
      BY <3>1
    <3> HIDE DEF k
    <3> QED
      BY <2>2, <3>1, <3>2, <3>3
  <2>5. Answered(msgs', m)
    BY <2>2, <2>3, <2>4 DEF Answered, AnswersAfter
  <2> QED
    BY <1>2, <1>3, <2>5 DEF Seen
<1> QED
  BY <1>7, <1>8, <1>9, <1>10, <1>11

(* What keeps a fresh prompt's progress when other calls and the lock step. *)
LEMMA FreshCallKept ==
  ASSUME LoopIndInv, NEW c \in Call, FreshCall(c),
         UNCHANGED <<kind, lp, troubled>>, msgOf'[c] = msgOf[c], prep'[c] = prep[c],
         pc'[c] # "new", run'[c] = run[c],
         pc[c] = "claimed" \/ (stage[c] = "working" /\ lp[c].at # "return")
           => pc'[c] = "claimed" \/ stage'[c] = "working",
         stage[c] = "working" /\ lp[c].at # "return" => stage'[c] = "working",
         Len(msgs) \in Nat, Len(msgs') \in Nat, Len(msgs) <= Len(msgs'),
         \A i \in 1..Len(msgs) : IsAssistant(msgs[i]) => msgs'[i] = msgs[i],
         \A i \in 1..Len(msgs') : IsAssistant(msgs'[i])
                                    => i \in 1..Len(msgs) /\ msgs'[i] = msgs[i],
         \A i \in 1..Len(msgs') :
           OnlyPrompts => \/ msgs'[i].comp = "none"
                          \/ i \in 1..Len(msgs) /\ msgs'[i].comp = msgs[i].comp
  PROVE  FreshCall(c)'
<1> DEFINE m == msgOf[c]
<1>1. 1..Len(msgs) \subseteq 1..Len(msgs')
  OBVIOUS
<1>2. AnswersAfter(msgs', m) = AnswersAfter(msgs, m)
  BY <1>1 DEF AnswersAfter
<1>3. \A i \in AnswersAfter(msgs, m) : i \in 1..Len(msgs) /\ msgs'[i] = msgs[i]
  BY DEF AnswersAfter
<1>4. Shows(msgs, m) => Shows(msgs', m)
  BY <1>1 DEF Shows
<1>5. Answered(msgs, m) => Answered(msgs', m)
  BY <1>2, <1>3 DEF Answered
<1>6. Open(c) => Open(c)'
  BY <1>2, <1>3 DEF Open
<1>7. OnlyPrompts' <=> OnlyPrompts
  BY DEF OnlyPrompts
<1>8. ASSUME OnlyPrompts, Unseen(c) PROVE Unseen(c)'
  <2>1. pc'[c] = "claimed" \/ stage'[c] = "working"
    BY <1>8 DEF Unseen
  <2>2. AnswersAfter(msgs', m) = {}
    BY <1>2, <1>8 DEF Unseen
  <2>3. \A i \in 1..Len(msgs') : i >= m => msgs'[i].comp = "none"
    BY <1>8 DEF Unseen
  <2> QED
    BY <1>8, <2>1, <2>2, <2>3 DEF Unseen
<1>9. Seen(c) => Seen(c)'
  BY <1>4, <1>5, <1>6 DEF Seen
<1> QED
  BY <1>7, <1>8, <1>9 DEF FreshCall

(* The steps of a run, a fresh prompt's own or another's. *)
LEMMA FreshRuns ==
  ASSUME LoopIndInv, FreshInv, NEW r \in Call, LoopStep(r), ~ LoopReturns(r)
  PROVE  FreshInv'
<1>1. PICK loop : RunMoves(r, loop)
  BY StepMoves DEF Moves
<1>2. /\ stage[r] = "working" /\ lp' = [lp EXCEPT ![r] = loop] /\ Evolved(msgs')
      /\ troubled' \in {troubled, troubled \cup {r}}
      /\ UNCHANGED <<rsVars, kind, prep, msgOf, fresh>>
      /\ lp \in [Call -> LoopState] /\ fresh \subseteq Call
  BY <1>1 DEF RunMoves, LoopIndInv, TypeInv
<1>3. NotBegun'
  <2> SUFFICES ASSUME NEW q \in Call, stage'[q] = "none" PROVE lp'[q].at = "top"
    BY DEF NotBegun
  <2>1. stage[q] = "none" /\ q # r
    BY <1>2 DEF rsVars
  <2> QED
    BY <1>2, <2>1 DEF FreshInv, NotBegun
<1>4. PromptRows'
  <2> SUFFICES ASSUME OnlyPrompts', NEW c \in Call, prep'[c] \in {"stored", "ready"}
               PROVE  msgs'[msgOf'[c]].comp = "none"
    BY DEF PromptRows
  <2>1. OnlyPrompts /\ prep[c] \in {"stored", "ready"} /\ msgOf' = msgOf
    BY <1>2 DEF OnlyPrompts
  <2>2. msgOf[c] \in 1..Len(msgs) /\ IsUser(msgs[msgOf[c]]) /\ msgs[msgOf[c]].comp = "none"
    BY <2>1 DEF LoopIndInv, CallRow, FreshInv, PromptRows
  <2>3. OldRow(msgOf[c], msgs'[msgOf[c]])
    BY <1>2, <2>2, EvolvedKeepsRows
  <2> QED
    BY <2>1, <2>2, <2>3 DEF OldRow, SameRow, IsUser
<1>5. ASSUME NEW c \in fresh' PROVE FreshCall(c)'
  <2>1. c \in Call /\ FreshCall(c)
    BY <1>2, <1>5 DEF FreshInv
  <2>2. /\ prep'[c] = "ready" /\ pc'[c] # "new" /\ run'[c] = c
        /\ (OnlyPrompts' <=> OnlyPrompts)
    BY <1>2, <2>1 DEF FreshCall, OnlyPrompts, rsVars
  <2>3. ASSUME OnlyPrompts, c \notin troubled' PROVE Unseen(c)' \/ Seen(c)'
    <3>1. Unseen(c) \/ Seen(c)
      BY <1>2, <2>1, <2>3 DEF FreshCall
    <3>2. CASE Shows(msgs, msgOf[c]) /\ Answered(msgs, msgOf[c])
      <4>1. Shows(msgs', msgOf[c]) /\ Answered(msgs', msgOf[c])
        BY <1>2, <3>2, AnswersEvolve
      <4> QED
        BY <1>2, <4>1 DEF Seen
    <3>3. CASE c = r /\ Unseen(c)
      BY <2>1, <2>3, <3>3, UnseenSteps
    <3>4. CASE c = r /\ Shows(msgs, msgOf[c]) /\ Open(c)
      BY <2>1, <2>3, <3>4, OpenSteps
    <3>5. Unseen(c) \/ Open(c) => c = r
      BY <1>2, <2>1, WorksAlone DEF Unseen, Open, Owns
    <3> QED
      BY <3>1, <3>2, <3>3, <3>4, <3>5 DEF Seen
  <2> QED
    BY <2>2, <2>3 DEF FreshCall
<1> QED
  BY <1>3, <1>4, <1>5 DEF FreshInv

(* The steps that are not a run's: they leave the answers as they are, and make
   no compaction task while all calls are prompts. *)
AnswersStay ==
  /\ Len(msgs) \in Nat /\ Len(msgs') \in Nat /\ Len(msgs) <= Len(msgs')
  /\ \A i \in 1..Len(msgs) : IsAssistant(msgs[i]) => msgs'[i] = msgs[i]
  /\ \A i \in 1..Len(msgs') : IsAssistant(msgs'[i])
                                => i \in 1..Len(msgs) /\ msgs'[i] = msgs[i]
  /\ \A i \in 1..Len(msgs') :
       OnlyPrompts => \/ msgs'[i].comp = "none"
                      \/ i \in 1..Len(msgs) /\ msgs'[i].comp = msgs[i].comp

(* A call stores a piece of its message. *)
Stores(c) == DrawId(c) \/ StoreMessage(c) \/ StoreParts(c) \/ StoreFails(c)

LEMMA StoresStay ==
  ASSUME LoopIndInv, NEW c \in Call, Stores(c)
  PROVE  /\ AnswersStay
         /\ StoreMessage(c) => msgs'[msgOf[c]].comp = "none"
<1>1. /\ TypeInv /\ Len(msgs) \in Nat /\ msgs \in Seq(Row)
      /\ prep[c] = "drawn" => /\ msgOf[c] \in 1..Len(msgs) /\ msgs[msgOf[c]].role = "none"
      /\ prep[c] = "stored" => /\ msgOf[c] \in 1..Len(msgs) /\ IsUser(msgs[msgOf[c]])
  BY DEF LoopIndInv, TypeInv, CallRow
<1>2. CASE DrawId(c)
  <2> DEFINE n == Len(msgs) + 1
             m == Blank(n)
  <2>1. msgs' = Append(msgs, m) /\ prep[c] = "init"
    BY <1>2 DEF DrawId
  <2>2. m.role = "none" /\ m.comp = "none"
    BY DEF Blank
  <2>3. m \in Row
    <3>1. n \in Nat /\ {} \in SUBSET Nat /\ NoFinish \in Finish
      BY <1>1 DEF Finish
    <3> HIDE DEF n
    <3> QED
      BY <3>1 DEF Blank, Row
  <2> HIDE DEF m
  <2>4. /\ Len(msgs') = n /\ msgs'[n] = m
        /\ \A i \in 1..Len(msgs) : msgs'[i] = msgs[i]
    BY <1>1, <2>1, <2>3, AppendProperties
  <2>5. \A i \in 1..Len(msgs') : i = n \/ i \in 1..Len(msgs)
    BY <1>1, <2>4
  <2>6. n \in Nat /\ Len(msgs) <= n
    BY <1>1
  <2>7. AnswersStay
    BY <1>1, <2>2, <2>4, <2>5, <2>6 DEF AnswersStay, IsAssistant
  <2> QED
    BY <2>1, <2>7 DEF StoreMessage
<1>3. CASE StoreMessage(c)
  <2> DEFINE u == msgOf[c]
             m == User(u, "none")
  <2>1. msgs' = [msgs EXCEPT ![u] = m] /\ prep[c] = "drawn"
    BY <1>3 DEF StoreMessage
  <2>2. m \in Row /\ m.role = "user" /\ m.comp = "none"
    <3> DEFINE p == FALSE
               n == Len(msgs)
    <3>1. m = User(u, "none") /\ ~p /\ p \in BOOLEAN /\ u \in Nat /\ n \in Nat
      BY <1>1, <2>1
    <3> HIDE DEF m, u, n, p
    <3> QED
      BY <3>1, UserRow
  <2> HIDE DEF m
  <2>3. /\ Len(msgs') = Len(msgs) /\ msgs'[u] = m
        /\ \A i \in 1..Len(msgs) : i # u => msgs'[i] = msgs[i]
    BY <1>1, <2>1, <2>2
  <2>4. AnswersStay
    BY <1>1, <2>1, <2>2, <2>3 DEF AnswersStay, IsAssistant
  <2> QED
    BY <2>2, <2>3, <2>4
<1>4. CASE StoreParts(c)
  <2>1. Evolved(msgs') /\ Len(msgs') = Len(msgs) /\ prep[c] = "stored"
    BY <1>4, StorePartsKeeps DEF StoreParts
  <2>2. \A i \in 1..Len(msgs) : OldRow(i, msgs'[i])
    BY <2>1, EvolvedKeepsRows
  <2>3. \A i \in 1..Len(msgs) : i # msgOf[c] => msgs'[i] = msgs[i]
    BY <1>1, <1>4 DEF StoreParts
  <2>4. OnlyPrompts => msgs'[msgOf[c]].comp = msgs[msgOf[c]].comp
    <3> SUFFICES ASSUME OnlyPrompts PROVE msgs'[msgOf[c]].comp = msgs[msgOf[c]].comp
      OBVIOUS
    <3>1. msgs' = [msgs EXCEPT ![msgOf[c]].parts = TRUE]
      BY <1>4 DEF StoreParts, OnlyPrompts
    <3>2. msgs[msgOf[c]] \in Row
      BY <1>1, <2>1
    <3> DEFINE m == [msgs[msgOf[c]] EXCEPT !.parts = TRUE]
    <3>3. m.comp = msgs[msgOf[c]].comp
      BY <3>2 DEF Row
    <3>4. msgs' = [msgs EXCEPT ![msgOf[c]] = m]
      BY <3>1
    <3> HIDE DEF m
    <3>5. msgs'[msgOf[c]] = m
      BY <1>1, <2>1, <3>4
    <3> QED
      BY <3>3, <3>5
  <2>5. \A i \in 1..Len(msgs) : IsAssistant(msgs[i]) <=> IsAssistant(msgs'[i])
    BY <2>2 DEF OldRow, SameRow, IsAssistant
  <2>6. \A i \in 1..Len(msgs) : IsAssistant(msgs[i]) => i # msgOf[c]
    BY <1>1, <2>1 DEF IsAssistant, IsUser
  <2>7. AnswersStay
    BY <1>1, <2>1, <2>3, <2>4, <2>5, <2>6 DEF AnswersStay
  <2> QED
    BY <2>1, <2>7 DEF StoreMessage
<1>5. CASE StoreFails(c)
  <2>1. msgs' = msgs /\ prep' = [prep EXCEPT ![c] = "failed"]
    BY <1>5 DEF StoreFails
  <2>2. AnswersStay
    BY <1>1, <2>1 DEF AnswersStay
  <2>3. ~ StoreMessage(c)
    BY <1>1, <2>1 DEF StoreMessage, TypeInv
  <2> QED
    BY <2>2, <2>3
<1> QED
  BY <1>2, <1>3, <1>4, <1>5 DEF Stores

(* A call that stores its message is not fresh yet. *)
LEMMA StoresKeepFresh ==
  ASSUME LoopIndInv, FreshInv, NEW d \in Call, Stores(d)
  PROVE  FreshInv'
<1>1. /\ AnswersStay
      /\ StoreMessage(d) => msgs'[msgOf[d]].comp = "none"
  BY StoresStay
<1>2. /\ UNCHANGED <<rsVars, kind, lp, troubled, fresh>>
      /\ prep[d] \in {"init", "drawn", "stored"}
      /\ \/ prep' = [prep EXCEPT ![d] = "drawn"]
         \/ prep' = [prep EXCEPT ![d] = "stored"] /\ StoreMessage(d)
         \/ prep' = [prep EXCEPT ![d] = "ready"] /\ prep[d] = "stored"
         \/ prep' = [prep EXCEPT ![d] = "failed"]
      /\ \A c \in Call : (c # d \/ prep[d] # "init") => msgOf'[c] = msgOf[c]
      /\ prep[d] = "init" => prep' = [prep EXCEPT ![d] = "drawn"]
      /\ prep \in [Call -> {"init", "drawn", "stored", "ready", "failed"}]
      /\ fresh \subseteq Call
  BY DEF Stores, DrawId, StoreMessage, StoreParts, StoreFails, LoopIndInv, TypeInv
<1>3. NotBegun'
  BY <1>2 DEF FreshInv, NotBegun, rsVars
<1>4. PromptRows'
  <2> SUFFICES ASSUME OnlyPrompts', NEW c \in Call, prep'[c] \in {"stored", "ready"}
               PROVE  msgs'[msgOf'[c]].comp = "none"
    BY DEF PromptRows
  <2>1. OnlyPrompts
    BY <1>2 DEF OnlyPrompts
  <2>2. msgOf'[c] = msgOf[c]
    BY <1>2
  <2>3. CASE prep[c] \in {"stored", "ready"}
    <3>1. msgOf[c] \in 1..Len(msgs) /\ msgs[msgOf[c]].comp = "none"
      BY <2>1, <2>3 DEF LoopIndInv, CallRow, FreshInv, PromptRows
    <3>2. msgOf[c] \in 1..Len(msgs')
      BY <1>1, <3>1 DEF AnswersStay
    <3> QED
      BY <1>1, <2>1, <2>2, <3>1, <3>2 DEF AnswersStay
  <2>4. CASE prep[c] \notin {"stored", "ready"}
    <3>1. c = d /\ StoreMessage(d)
      BY <1>2, <2>4
    <3> QED
      BY <1>1, <2>2, <3>1
  <2> QED
    BY <2>3, <2>4
<1>5. ASSUME NEW c \in fresh' PROVE FreshCall(c)'
  <2>1. c \in Call /\ FreshCall(c) /\ c # d
    BY <1>2, <1>5 DEF FreshInv, FreshCall
  <2>2. prep'[c] = prep[c] /\ msgOf'[c] = msgOf[c]
    BY <1>2, <2>1
  <2>3. UNCHANGED <<kind, lp, troubled>> /\ pc' = pc /\ run' = run /\ stage' = stage
    BY <1>2 DEF rsVars
  <2>4. pc'[c] # "new"
    BY <2>1, <2>3 DEF FreshCall
  <2> QED
    BY <1>1, <2>1, <2>2, <2>3, <2>4, FreshCallKept DEF AnswersStay
<1> QED
  BY <1>3, <1>4, <1>5 DEF FreshInv

(* A call becomes fresh as the newest of the history: there is no answer to a
   newer message, and its own message is no task. *)
LEMMA EntersFresh ==
  ASSUME LoopIndInv, FreshInv, NEW c \in Call, prep[c] = "ready", Claim(c),
         UNCHANGED <<msgs, kind, prep, msgOf, lp, troubled>>,
         \A i \in DOMAIN msgs : msgs[i].role # "none" => i <= msgOf[c]
  PROVE  FreshCall(c)'
<1> DEFINE m == msgOf[c]
<1>1. /\ TypeInv /\ RSTypeOK /\ StageFollowsCall /\ Len(msgs) \in Nat
      /\ DOMAIN msgs = 1..Len(msgs) /\ m \in 1..Len(msgs)
  BY DEF LoopIndInv, RSInv, TypeInv, CallRow
<1>2. pc[c] = "new" /\ pc'[c] = "claimed" /\ run'[c] = c
  BY <1>1 DEF Claim, RSTypeOK
<1>3. lp[c].at = "top"
  BY <1>1, <1>2 DEF StageFollowsCall, FreshInv, NotBegun
<1>4. AnswersAfter(msgs, m) = {}
  <2> SUFFICES ASSUME NEW i \in 1..Len(msgs), i > m, IsAssistant(msgs[i]) PROVE FALSE
    BY DEF AnswersAfter
  <2>1. msgs[i].role # "none"
    BY DEF IsAssistant
  <2>2. i <= m
    BY <1>1, <2>1
  <2> QED
    BY <1>1, <2>2
<1>5. ASSUME OnlyPrompts, NEW i \in 1..Len(msgs), i >= m PROVE msgs[i].comp = "none"
  <2>1. CASE i = m
    BY <1>5, <2>1 DEF FreshInv, PromptRows
  <2>2. CASE i # m
    <3>1. ~ (i <= m)
      BY <1>1, <1>5, <2>2
    <3>2. msgs[i].role = "none"
      BY <1>1, <3>1
    <3>3. msgs[i] = Blank(i)
      BY <1>1, <3>2 DEF TypeInv, RowsOK, RowOK
    <3> QED
      BY <3>3 DEF Blank
  <2> QED
    BY <2>1, <2>2
<1>6. OnlyPrompts' => Unseen(c)'
  BY <1>2, <1>3, <1>4, <1>5 DEF OnlyPrompts, Unseen
<1> QED
  BY <1>2, <1>6 DEF FreshCall

LEMMA EntersKeepFresh ==
  ASSUME LoopIndInv, FreshInv, NEW d \in Call, EnterLoop(d)
  PROVE  FreshInv'
<1>1. /\ UNCHANGED <<msgs, kind, prep, msgOf, lp, troubled>> /\ stage' = stage
      /\ prep[d] = "ready" /\ pc[d] = "new"
      /\ \A c \in Call : c # d => pc'[c] = pc[c] /\ run'[c] = run[c]
      /\ fresh \subseteq Call /\ Len(msgs) \in Nat
  BY DEF EnterLoop, Join, Claim, LoopIndInv, RSInv, RSTypeOK, TypeInv
<1>2. NotBegun' /\ PromptRows'
  BY <1>1 DEF FreshInv, NotBegun, PromptRows, OnlyPrompts
<1>3. ASSUME NEW c \in fresh' PROVE FreshCall(c)'
  <2>1. CASE c \in fresh
    <3>1. c \in Call /\ FreshCall(c) /\ c # d
      BY <1>1, <2>1 DEF FreshInv, FreshCall
    <3>2. pc'[c] = pc[c] /\ run'[c] = run[c] /\ pc'[c] # "new"
      BY <1>1, <3>1 DEF FreshCall
    <3> QED
      BY <1>1, <3>1, <3>2, FreshCallKept
  <2>2. CASE c \notin fresh
    <3>1. /\ c = d /\ Claim(c)
          /\ \A i \in DOMAIN msgs : msgs[i].role # "none" => i <= msgOf[c]
      BY <1>3, <2>2 DEF EnterLoop
    <3> QED
      BY <1>1, <3>1, EntersFresh
  <2> QED
    BY <2>1, <2>2
<1> QED
  BY <1>2, <1>3 DEF FreshInv

(* The lock's own steps and a run's return: a run at work stays at work until
   its loop has returned. *)
LEMMA LockKeepsFresh ==
  ASSUME LoopIndInv, FreshInv, UNCHANGED loopVars,
         LockStep \/ (\E r \in Call : LoopReturns(r)) \/ UNCHANGED rsVars
  PROVE  FreshInv'
<1>1. /\ RSTypeOK /\ StageFollowsCall /\ UNCHANGED <<msgs, kind, prep, msgOf, lp, fresh, troubled>>
      /\ fresh \subseteq Call /\ Len(msgs) \in Nat
  BY DEF LoopIndInv, RSInv, TypeInv, loopVars
<1>2. ASSUME NEW c \in Call
      PROVE  /\ pc[c] # "new" => pc'[c] # "new"
             /\ run'[c] = run[c]
             /\ stage'[c] = "none" => stage[c] = "none"
             /\ stage[c] = "working" /\ lp[c].at # "return" => stage'[c] = "working"
             /\ pc[c] = "claimed" => pc'[c] = "claimed" \/ stage'[c] = "working"
  <2>1. CASE \E q \in Call : OnBusy(q) \/ Return(q)
    BY <1>1, <2>1 DEF OnBusy, Return, RSTypeOK, StageFollowsCall
  <2>2. CASE \E q \in Call : ClearSlot(q) \/ OnIdle(q) \/ CloseDone(q) \/ CancelFire(q)
    BY <1>1, <2>2 DEF ClearSlot, OnIdle, CloseDone, CancelFire, RSTypeOK, StageFollowsCall
  <2>3. CASE \E s \in Session : CancelLookup(s)
    BY <1>1, <2>3 DEF CancelLookup
  <2>4. CASE \E r \in Call : LoopReturns(r)
    BY <1>1, <2>4 DEF LoopReturns, At, WorkReturns, RSTypeOK
  <2>5. CASE UNCHANGED rsVars
    BY <2>5 DEF rsVars
  <2> QED
    BY <2>1, <2>2, <2>3, <2>4, <2>5 DEF LockStep
<1>3. NotBegun' /\ PromptRows'
  BY <1>1, <1>2 DEF FreshInv, NotBegun, PromptRows, OnlyPrompts
<1>4. ASSUME NEW c \in fresh' PROVE FreshCall(c)'
  <2>1. c \in Call /\ FreshCall(c) /\ pc[c] # "new"
    BY <1>1, <1>4 DEF FreshInv, FreshCall
  <2>2. pc'[c] # "new" /\ msgOf'[c] = msgOf[c] /\ prep'[c] = prep[c] /\ run'[c] = run[c]
    BY <1>1, <1>2, <2>1
  <2> QED
    BY <1>1, <1>2, <2>1, <2>2, FreshCallKept
<1> QED
  BY <1>1, <1>3, <1>4 DEF FreshInv

(* How far a fresh prompt has come is kept by every step ... *)
LEMMA FreshStepInv == LoopIndInv /\ FreshInv /\ [Next]_vars => FreshInv'
<1> SUFFICES ASSUME LoopIndInv, FreshInv, [Next]_vars PROVE FreshInv'
  OBVIOUS
<1>1. ASSUME NEW c \in Call, Stores(c) PROVE FreshInv'
  BY <1>1, StoresKeepFresh
<1>2. ASSUME NEW c \in Call, EnterLoop(c) PROVE FreshInv'
  BY <1>2, EntersKeepFresh
<1>3. ASSUME NEW r \in Call, LoopStep(r), ~ LoopReturns(r) PROVE FreshInv'
  BY <1>3, FreshRuns
<1>4. CASE LockStep \/ (\E r \in Call : LoopReturns(r)) \/ AllOver \/ UNCHANGED vars
  <2>1. UNCHANGED loopVars
    BY <1>4 DEF LockStep, LoopReturns, AllOver, vars
  <2>2. LockStep \/ (\E r \in Call : LoopReturns(r)) \/ UNCHANGED rsVars
    BY <1>4 DEF AllOver, vars
  <2> QED
    BY <2>1, <2>2, LockKeepsFresh
<1> QED
  BY <1>1, <1>2, <1>3, <1>4 DEF Next, Stores

(* ... and none is fresh at first. *)
LEMMA FreshInitInv == Init => FreshInv
<1> SUFFICES ASSUME Init PROVE FreshInv
  OBVIOUS
<1>1. NotBegun
  BY DEF Init, NotBegun, LoopStart
<1>2. PromptRows
  BY DEF Init, PromptRows
<1>3. fresh = {}
  BY DEF Init
<1> QED
  BY <1>1, <1>2, <1>3 DEF FreshInv

(* A call that returned from its own run left no open iteration behind. *)
LEMMA FreshEnds == LoopIndInv /\ FreshInv => FreshPromptAnswered
<1> SUFFICES ASSUME LoopIndInv, FreshInv, NEW c \in fresh, Ended(c), c \notin troubled,
                    \A d \in Call : kind[d] = "prompt"
             PROVE  /\ \E i \in DOMAIN msgs : ~msgs[i].summary /\ msgOf[c] \in msgs[i].view
                    /\ \E i \in DOMAIN msgs : /\ i > msgOf[c] /\ IsAssistant(msgs[i])
                                              /\ msgs[i].finish = "stop"
  BY DEF FreshPromptAnswered
<1>1. /\ c \in Call /\ FreshCall(c) /\ DOMAIN msgs = 1..Len(msgs)
      /\ ResultIsOwnSession /\ OnlyPrompts
  BY DEF LoopIndInv, RSInv, TypeInv, FreshInv, OnlyPrompts
<1>2. pc[c] = "returned" /\ stage[c] = "closed"
  BY <1>1 DEF Ended, ResultIsOwnSession, FreshCall
<1>3. Shows(msgs, msgOf[c]) /\ Answered(msgs, msgOf[c])
  BY <1>1, <1>2 DEF FreshCall, Unseen, Seen, Open
<1> QED
  BY <1>1, <1>3 DEF Shows, Answered, AnswersAfter

(* loop.go: the run a prompt starts as the newest message of the history reads
   it, shows it to the model and goes on until an answer newer than it stopped,
   unless an error, an abort or the step limit ends the run before. *)
THEOREM FreshIsAnswered == Spec => []FreshPromptAnswered
<1>1. Init => LoopIndInv /\ FreshInv
  BY LoopInitInv, FreshInitInv
<1>2. LoopIndInv /\ FreshInv /\ [Next]_vars => (LoopIndInv /\ FreshInv)'
  BY LoopStepInv, FreshStepInv
<1>3. LoopIndInv /\ FreshInv => FreshPromptAnswered
  BY FreshEnds
<1> QED
  BY <1>1, <1>2, <1>3, PTL DEF Spec
-----------------------------------------------------------------------------
(* What a compaction hides has been summarised.  A compaction cuts the history
   at the tail it keeps, or at its task. *)
CutOf(t) == IF msgs[t].tail = 0 THEN t ELSE msgs[t].tail

HasSummary(t) ==
  \E j \in 1..Len(msgs) : IsCompletedSummary(msgs[j]) /\ msgs[j].parent = t

Cuts(t) == msgs[t].tail # 0 \/ HasSummary(t)

(* The walk of FilterCompacted ends at the cut of a summarised task. *)
LEMMA KeptCountCuts ==
  ASSUME NEW s \in Seq(Row), NEW p \in 1..Len(s), KeptCount(s) < p
  PROVE  \E k, j \in 1..Len(s) :
           /\ IsCompletedSummary(s[j]) /\ s[j].parent = s[k].id
           /\ \/ s[k].tail = 0 /\ k < p
              \/ s[k].tail # 0 /\ \E e \in 1..Len(s) : s[e].id = s[k].tail /\ e < p
<1> DEFINE n == Len(s)
           done == {k \in 1..n : /\ IsUser(s[k]) /\ s[k].comp # "none"
                                  /\ \E j \in 1..(k - 1) : /\ IsCompletedSummary(s[j])
                                                           /\ s[j].parent = s[k].id}
           k1 == Min(done)
           ends == {e \in k1..n : s[e].id = s[k1].tail}
<1>0. n \in Nat
  OBVIOUS
<1>1. KeptCount(s) = IF done = {} THEN n
                     ELSE CASE s[k1].tail = 0 -> k1
                            [] s[k1].tail # 0 /\ ends # {} -> Min(ends)
                            [] OTHER -> n
  BY DEF KeptCount
<1>2. \A k \in done : /\ k \in 1..n
                      /\ \E j \in 1..n : IsCompletedSummary(s[j]) /\ s[j].parent = s[k].id
  <2> SUFFICES ASSUME NEW k \in done
               PROVE  \E j \in 1..n : IsCompletedSummary(s[j]) /\ s[j].parent = s[k].id
    OBVIOUS
  <2>1. PICK j \in 1..(k - 1) : IsCompletedSummary(s[j]) /\ s[j].parent = s[k].id
    OBVIOUS
  <2>2. j \in 1..n
    BY <1>0
  <2> QED
    BY <2>1, <2>2
<1> HIDE DEF done
<1>3. done # {}
  BY <1>0, <1>1
<1>4. k1 \in done /\ k1 \in 1..n
  <2>1. done \subseteq Nat
    BY <1>2
  <2> QED
    BY <1>2, <1>3, <2>1, MinIsLeast
<1> HIDE DEF k1
<1>5. PICK j \in 1..n : IsCompletedSummary(s[j]) /\ s[j].parent = s[k1].id
  BY <1>2, <1>4
<1>6. CASE s[k1].tail = 0
  <2>1. KeptCount(s) = k1
    BY <1>1, <1>3, <1>6
  <2> QED
    BY <1>4, <1>5, <1>6, <2>1
<1>7. CASE s[k1].tail # 0
  <2>1. ends # {} /\ KeptCount(s) = Min(ends)
    BY <1>0, <1>1, <1>3, <1>7
  <2>2. \A e \in ends : e \in 1..n /\ s[e].id = s[k1].tail
    BY <1>4
  <2> HIDE DEF ends
  <2>3. ends \subseteq Nat
    BY <2>2
  <2>4. Min(ends) \in ends
    BY <2>1, <2>3, MinIsLeast
  <2>5. \E e \in 1..n : s[e].id = s[k1].tail /\ e < p
    BY <2>1, <2>2, <2>4
  <2> QED
    BY <1>4, <1>5, <1>7, <2>5
<1> QED
  BY <1>6, <1>7

(* The rows it keeps: stored rows in the order of their ids, and with a row every
   newer one. *)
KeptInOrder(kept) ==
  /\ kept \in Seq(Row)
  /\ \A x \in 1..Len(kept) : /\ kept[x].id \in 1..Len(msgs) /\ kept[x].role # "none"
                             /\ kept[x] = msgs[kept[x].id]
  /\ \A x, y \in 1..Len(kept) : x < y => kept[x].id < kept[y].id
  /\ \A x \in 1..Len(kept), i \in 1..Len(msgs) :
       msgs[i].role # "none" /\ kept[x].id < i =>
         \E y \in 1..Len(kept) : x < y /\ kept[y] = msgs[i]

LEMMA KeptIsInOrder ==
  ASSUME TypeInv
  PROVE  KeptInOrder(Kept(StoredNewestFirst)) /\ Filtered = Arranged(Kept(StoredNewestFirst))
<1> DEFINE s == StoredNewestFirst
           kept == Kept(s)
           K == KeptCount(s)
           n == Len(msgs)
<1>0. msgs \in Seq(Row) /\ n \in Nat /\ \A i \in 1..n : msgs[i].id = i
  BY DEF TypeInv, RowsOK, RowOK
<1>1. /\ s \in Seq(Row) /\ Len(s) \in Nat
      /\ \A k \in 1..Len(s) : /\ s[k].id \in 1..n /\ s[k].role # "none"
                              /\ s[k] = msgs[s[k].id]
      /\ \A j, k \in 1..Len(s) : j < k => s[j].id > s[k].id
      /\ \A i \in 1..n : msgs[i].role # "none" => \E k \in 1..Len(s) : s[k] = msgs[i]
  BY <1>0, StoredLists DEF ListsNewestFirst
<1>2. Filtered = FilterCompacted(s)
  BY DEF Filtered
<1> HIDE DEF s
<1>3. /\ K \in 0..Len(s) /\ FilterCompacted(s) = Arranged(kept)
      /\ kept \in Seq(Row) /\ Len(kept) = K
      /\ \A x \in 1..K : kept[x] = s[(K - x) + 1]
  BY <1>1, KeptRows
<1> HIDE DEF kept, K, n
<1>4. \A x \in 1..K : (K - x) + 1 \in 1..Len(s)
  BY <1>1, <1>3
<1>5. ASSUME NEW x \in 1..Len(kept)
      PROVE  kept[x].id \in 1..n /\ kept[x].role # "none" /\ kept[x] = msgs[kept[x].id]
  <2> DEFINE j == (K - x) + 1
  <2>1. x \in 1..K
    BY <1>3
  <2>2. j \in 1..Len(s) /\ kept[x] = s[j]
    BY <1>3, <1>4, <2>1
  <2> HIDE DEF j
  <2> QED
    BY <1>1, <2>2
<1>6. ASSUME NEW x \in 1..Len(kept), NEW y \in 1..Len(kept), x < y
      PROVE  kept[x].id < kept[y].id
  <2>0. x \in 1..K /\ y \in 1..K
    BY <1>3
  <2>1. (K - y) + 1 < (K - x) + 1
    BY <1>3, <1>6, <2>0
  <2>2. s[(K - y) + 1].id > s[(K - x) + 1].id
    BY <1>1, <1>4, <2>0, <2>1
  <2>3. kept[x].id \in Nat /\ kept[y].id \in Nat
    BY <1>0, <1>5
  <2> QED
    BY <1>3, <2>0, <2>2, <2>3
<1>7. ASSUME NEW x \in 1..Len(kept), NEW i \in 1..n, msgs[i].role # "none",
             kept[x].id < i
      PROVE  \E y \in 1..Len(kept) : x < y /\ kept[y] = msgs[i]
  <2>1. PICK k \in 1..Len(s) : s[k] = msgs[i]
    BY <1>1, <1>7
  <2>0. x \in 1..K
    BY <1>3
  <2>2. s[k].id = i /\ s[(K - x) + 1].id < i
    BY <1>0, <1>3, <1>7, <2>0, <2>1
  <2>3. k < (K - x) + 1
    <3> DEFINE j == (K - x) + 1
    <3>1. j \in 1..Len(s) /\ s[j].id < s[k].id
      BY <1>4, <2>0, <2>2
    <3>2. s[j].id \in Nat /\ s[k].id \in Nat /\ j # k /\ ~ (j < k)
      <4>1. s[j].id \in Nat /\ s[k].id \in Nat
        BY <1>0, <1>1, <3>1
      <4>2. j < k => s[j].id > s[k].id
        BY <1>1, <3>1
      <4> HIDE DEF j
      <4> QED
        BY <3>1, <4>1, <4>2
    <3> HIDE DEF j
    <3>3. k < j
      BY <3>1, <3>2
    <3> QED
      BY <3>3 DEF j
  <2> DEFINE y == (K - k) + 1
  <2>4. y \in 1..K /\ y \in 1..Len(kept) /\ x < y /\ (K - y) + 1 = k
    BY <1>3, <2>0, <2>3
  <2> HIDE DEF y
  <2>5. kept[y] = msgs[i]
    BY <1>3, <2>1, <2>4
  <2> QED
    BY <2>4, <2>5
<1>8. KeptInOrder(kept)
  <2>1. kept \in Seq(Row)
    BY <1>3
  <2> USE DEF n
  <2> QED
    BY ONLY <1>5, <1>6, <1>7, <2>1 DEF KeptInOrder
<1> QED
  BY <1>2, <1>3, <1>8 DEF kept, s

(* A stored row the loop does not see is older than the cut of a compaction. *)
LEMMA HiddenIsCut ==
  ASSUME TypeInv, NEW i \in 1..Len(msgs), msgs[i].role # "none",
         \A k \in 1..Len(Filtered) : Filtered[k] # msgs[i]
  PROVE  \E t \in 1..Len(msgs) : Cuts(t) /\ i < CutOf(t)
<1> DEFINE s == StoredNewestFirst
           kept == Kept(s)
           K == KeptCount(s)
           f == Filtered
<1>0. msgs \in Seq(Row) /\ Len(msgs) \in Nat /\ \A k \in 1..Len(msgs) : msgs[k].id = k
  BY DEF TypeInv, RowsOK, RowOK
<1>1. /\ s \in Seq(Row) /\ Len(s) \in Nat
      /\ \A k \in 1..Len(s) : /\ s[k].id \in 1..Len(msgs) /\ s[k] = msgs[s[k].id]
      /\ \A j, k \in 1..Len(s) : j < k => s[j].id > s[k].id
      /\ \E p \in 1..Len(s) : s[p] = msgs[i]
  BY <1>0, StoredLists DEF ListsNewestFirst
<1>2. f = Arranged(kept) /\ KeptInOrder(kept)
  BY KeptIsInOrder
<1> HIDE DEF s, f
<1>3. /\ K \in 0..Len(s) /\ kept \in Seq(Row) /\ Len(kept) = K
      /\ \A x \in 1..K : kept[x] = s[(K - x) + 1]
  BY <1>1, KeptRows
<1> HIDE DEF kept, K
<1>4. PICK p \in 1..Len(s) : s[p] = msgs[i] /\ s[p].id = i
  BY <1>0, <1>1
<1>5. CASE K < p
  <2>1. PICK k \in 1..Len(s), j \in 1..Len(s) :
          /\ IsCompletedSummary(s[j]) /\ s[j].parent = s[k].id
          /\ \/ s[k].tail = 0 /\ k < p
             \/ s[k].tail # 0 /\ \E e \in 1..Len(s) : s[e].id = s[k].tail /\ e < p
    BY <1>1, <1>5, KeptCountCuts DEF K
  <2> DEFINE t == s[k].id
  <2>2. t \in 1..Len(msgs) /\ msgs[t] = s[k] /\ Cuts(t)
    <3>1. s[j].id \in 1..Len(msgs) /\ msgs[s[j].id] = s[j]
      BY <1>1
    <3>2. HasSummary(t)
      BY <2>1, <3>1 DEF HasSummary
    <3> QED
      BY <1>1, <3>2 DEF Cuts
  <2>3. i < CutOf(t)
    <3>1. CASE s[k].tail = 0 /\ k < p
      <4>1. s[k].id > i /\ s[k].id \in Nat
        <5>1. s[k].id \in 1..Len(msgs) /\ s[k].id > s[p].id
          BY <1>1, <3>1
        <5> QED
          BY <1>0, <1>4, <5>1
      <4> QED
        BY <2>2, <3>1, <4>1 DEF CutOf
    <3>2. CASE s[k].tail # 0 /\ \E e \in 1..Len(s) : s[e].id = s[k].tail /\ e < p
      <4>1. PICK e \in 1..Len(s) : s[e].id = s[k].tail /\ e < p
        BY <3>2
      <4>2. s[e].id > s[p].id
        BY <1>1, <4>1
      <4>3. s[e].id > i
        BY <1>4, <4>2
      <4> QED
        BY <2>2, <3>2, <4>1, <4>3 DEF CutOf
    <3> QED
      BY <2>1, <3>1, <3>2
  <2> QED
    BY <2>2, <2>3
<1>6. CASE p <= K
  <2> DEFINE q == (K - p) + 1
  <2>1. q \in 1..K /\ (K - q) + 1 = p
    BY <1>3, <1>6
  <2>2. kept[q] = msgs[i] /\ kept[q].id = i
    BY <1>3, <1>4, <2>1
  <2> HIDE DEF q
  <2>3. kept[q] \notin Range(f)
    <3>1. f \in Seq(Row)
      BY <1>2, <1>3, ArrangedRows
    <3>2. Range(f) = {f[k] : k \in 1..Len(f)}
      BY <3>1, RangeEquality
    <3> QED
      BY <2>2, <3>2 DEF f
  <2>4. PICK c \in 1..K, e \in 1..K : /\ IsTask(kept[c]) /\ kept[c].tail # 0
                                      /\ kept[e].id = kept[c].tail /\ q < e /\ e < c
    <3>1. \/ kept[q] \in Range(Arranged(kept))
          \/ \E c, e \in 1..Len(kept) :
                   /\ IsTask(kept[c]) /\ kept[c].tail # 0
                   /\ kept[e].id = kept[c].tail /\ q < e /\ e < c
      BY <1>3, <2>1, ArrangedRows
    <3> QED
      BY <1>2, <1>3, <2>3, <3>1
  <2> DEFINE t == kept[c].id
  <2>5. t \in 1..Len(msgs) /\ msgs[t] = kept[c] /\ kept[q].id < kept[e].id
    BY <1>2, <1>3, <2>1, <2>4 DEF KeptInOrder
  <2>6. Cuts(t) /\ i < CutOf(t)
    BY <2>2, <2>4, <2>5 DEF Cuts, CutOf
  <2> QED
    BY <2>5, <2>6
<1>7. K \in Nat /\ p \in Nat
  BY <1>3
<1> QED
  BY <1>5, <1>6, <1>7

(* Ids that a call holds without a row. *)
Drawn(i) == \E c \in Call : prep[c] = "drawn" /\ msgOf[c] = i

(* A compaction that keeps a tail is followed by a summary of it, and no user's
   row is or comes in between. *)
Follows(s, t) ==
  /\ t < s /\ IsAssistant(msgs[s]) /\ msgs[s].summary /\ msgs[s].parent = t
  /\ \A i \in (t + 1)..s : ~ IsUser(msgs[i]) /\ ~ Drawn(i)

TailsFollow ==
  \A t \in 1..Len(msgs) : msgs[t].tail # 0 => \E s \in 1..Len(msgs) : Follows(s, t)

(* So the rearrangement leaves the user's rows in the order of their ids: only the
   compaction it puts first is listed before older rows. *)
ListedInOrder(f) ==
  \A p, q \in 1..Len(f) : IsUser(f[q]) /\ q # 1 /\ f[p].id < f[q].id => p < q

LEMMA FilteredOrder ==
  ASSUME TypeInv, TailsFollow
  PROVE  ListedInOrder(Filtered)
<1> DEFINE kept == Kept(StoredNewestFirst)
           n == Len(kept)
           a == Filtered
<1>1. KeptInOrder(kept) /\ a = Arranged(kept)
  BY KeptIsInOrder
<1> HIDE DEF kept, a
<1>2. /\ kept \in Seq(Row) /\ n \in Nat
      /\ \A x \in 1..n : /\ kept[x].id \in 1..Len(msgs) /\ kept[x].role # "none"
                         /\ kept[x] = msgs[kept[x].id]
  BY <1>1 DEF KeptInOrder
<1>3. ASSUME NEW x \in 1..n, NEW y \in 1..n, x <= y PROVE ~ (kept[y].id < kept[x].id)
  <2>1. kept[x].id \in Nat /\ kept[y].id \in Nat
    BY <1>2
  <2>2. x < y => kept[x].id < kept[y].id
    BY <1>1 DEF KeptInOrder
  <2>3. x = y \/ x < y
    BY <1>2, <1>3
  <2> QED
    BY <2>1, <2>2, <2>3
<1>4. CASE a = kept
  <2> SUFFICES ASSUME NEW p \in 1..n, NEW q \in 1..n, kept[p].id < kept[q].id PROVE p < q
    BY <1>4 DEF ListedInOrder, a
  <2>1. ~ (q <= p)
    BY <1>3
  <2> QED
    BY <1>2, <2>1
<1>5. CASE \E c, s, t \in 1..n : Arrangement(kept, c, s, t)
  <2>1. PICK c \in 1..n, s \in 1..n, t \in 1..n : Arrangement(kept, c, s, t)
    BY <1>5
  <2> DEFINE k == (s - c) + 1
             l == (s - t) + 1
             m == (n - t) + 1
  <2>2. /\ s \in (c + 1)..n /\ t \in 1..(c - 1) /\ kept[c].tail # 0
        /\ \A i \in (c + 1)..n :
             IsAssistant(kept[i]) /\ kept[i].summary /\ kept[i].parent = kept[c].id => s <= i
    BY <2>1 DEF Arrangement
  <2>3. /\ a \in Seq(Row) /\ Len(a) = m
        /\ \A p \in 1..k : a[p] = kept[(c + p) - 1]
        /\ \A p \in (k + 1)..l : a[p] = kept[(t + (p - k)) - 1]
        /\ \A p \in (l + 1)..m : a[p] = kept[(t + p) - 1]
    <3>1. InThreeRuns(a, kept, c, s, t)
      BY <1>1, <1>2, <2>1, ArrangedRuns
    <3> QED
      BY <3>1 DEF InThreeRuns
  <2>4. ASSUME NEW z \in (c + 1)..s PROVE ~ IsUser(kept[z])
    <3> DEFINE task == kept[c].id
    <3>1. task \in 1..Len(msgs) /\ msgs[task].tail # 0
      BY <1>2, <2>2
    <3>2. PICK j \in 1..Len(msgs) : Follows(j, task)
      BY <3>1 DEF TailsFollow
    <3>3. /\ task < j /\ IsAssistant(msgs[j]) /\ msgs[j].summary /\ msgs[j].parent = task
          /\ \A i \in (task + 1)..j : ~ IsUser(msgs[i])
      BY <3>2 DEF Follows
    <3>4. PICK y \in 1..n : c < y /\ kept[y] = msgs[j]
      BY <1>1, <3>3 DEF KeptInOrder, IsAssistant
    <3>5. s <= y /\ z \in 1..n /\ z <= y /\ c < z
      <4>1. y \in (c + 1)..n
        BY <1>2, <3>4
      <4>2. s <= y
        BY <2>2, <3>3, <3>4, <4>1
      <4> QED
        BY <1>2, <2>2, <3>4, <4>2
    <3>6. msgs[j].id = j
      BY DEF TypeInv, RowsOK, RowOK
    <3>7. kept[c].id < kept[z].id /\ ~ (kept[y].id < kept[z].id)
      BY <1>1, <1>3, <3>5 DEF KeptInOrder
    <3>8. kept[z].id \in (task + 1)..j
      <4>1. kept[z].id \in Nat /\ task \in Nat /\ j \in Nat /\ kept[y].id = j
        BY <1>2, <3>4, <3>5, <3>6
      <4>2. task < kept[z].id /\ ~ (j < kept[z].id)
        BY <1>2, <3>7, <4>1
      <4> QED
        BY <4>1, <4>2
    <3>9. kept[z] = msgs[kept[z].id]
      BY <1>2, <3>5
    <3> QED
      BY <3>3, <3>8, <3>9
  <2> SUFFICES ASSUME NEW p \in 1..m, NEW q \in 1..m, IsUser(a[q]), q # 1,
                      a[p].id < a[q].id, q <= p
               PROVE  FALSE
    <3>1. Len(a) = m /\ m \in Nat
      BY <1>2, <2>2, <2>3
    <3> HIDE DEF m
    <3>2. \A p, q \in 1..m : p < q \/ q <= p
      BY <3>1
    <3> QED
      BY <3>1, <3>2 DEF ListedInOrder, a
  <2>5. q \notin 1..k
    <3> SUFFICES ASSUME q \in 1..k PROVE FALSE
      OBVIOUS
    <3> DEFINE z == (c + q) - 1
    <3>1. z \in (c + 1)..s
      <4>1. c \in Nat /\ s \in Nat /\ q \in Nat /\ 2 <= q /\ q <= (s - c) + 1
        BY <1>2
      <4> QED
        BY ONLY <4>1
    <3>2. a[q] = kept[z]
      BY <2>3
    <3> HIDE DEF z
    <3> QED
      BY <2>4, <3>1, <3>2
  <2>6. \E x, y \in 1..n : x <= y /\ a[q] = kept[x] /\ a[p] = kept[y]
    <3> DEFINE Early(i) == (t + (i - k)) - 1
               Late(i) == (t + i) - 1
    <3>1. CASE q \in (k + 1)..l /\ p \in (k + 1)..l
      <4>1. /\ Early(q) \in 1..n /\ Early(p) \in 1..n /\ Early(q) <= Early(p)
        BY <1>2, <2>2, <3>1
      <4>2. a[q] = kept[Early(q)] /\ a[p] = kept[Early(p)]
        BY <2>3, <3>1
      <4> HIDE DEF Early
      <4> QED
        BY <4>1, <4>2
    <3>2. CASE q \in (k + 1)..l /\ p \in (l + 1)..m
      <4>1. /\ Early(q) \in 1..n /\ Late(p) \in 1..n /\ Early(q) <= Late(p)
        BY <1>2, <2>2, <3>2
      <4>2. a[q] = kept[Early(q)] /\ a[p] = kept[Late(p)]
        BY <2>3, <3>2
      <4> HIDE DEF Early, Late
      <4> QED
        BY <4>1, <4>2
    <3>3. CASE q \in (l + 1)..m /\ p \in (l + 1)..m
      <4>1. /\ Late(q) \in 1..n /\ Late(p) \in 1..n /\ Late(q) <= Late(p)
        BY <1>2, <2>2, <3>3
      <4>2. a[q] = kept[Late(q)] /\ a[p] = kept[Late(p)]
        BY <2>3, <3>3
      <4> HIDE DEF Late
      <4> QED
        BY <4>1, <4>2
    <3>4. /\ q \in (k + 1)..l \/ q \in (l + 1)..m
          /\ q \in (k + 1)..l => p \in (k + 1)..l \/ p \in (l + 1)..m
          /\ q \in (l + 1)..m => p \in (l + 1)..m
      BY <1>2, <2>2, <2>5
    <3> QED
      BY <3>1, <3>2, <3>3, <3>4
  <2> QED
    BY <1>3, <2>6
<1> QED
  BY <1>1, <1>2, <1>4, <1>5, ArrangedForm

(* What processCompaction shows to the summary, and the tail it keeps. *)
HeadOf(f, u) ==
  LET h == Before(f, u)
      t == SelectTail(h, DefaultTailTurns)
  IN  Shown(IF t = 0 THEN h ELSE SubSeq(h, 1, t - 1))

TailOf(f, u) ==
  LET h == Before(f, u)
      t == SelectTail(h, DefaultTailTurns)
  IN  IF t = 0 THEN 0 ELSE h[t].id

LEMMA DecideCompacts ==
  ASSUME NEW loop \in LoopState, loop.at = "top", NEW f, LatestUser(f) \in Nat,
         Decide(loop, f).at = "compact"
  PROVE  LET u == LatestUser(f)
             d == Decide(loop, f)
         IN  /\ u # 0 /\ PendingCompaction(f, u) /\ Before(f, u) # << >>
             /\ d.user = u /\ d.view = HeadOf(f, u) /\ d.tail = TailOf(f, u)
<1> DEFINE u == LatestUser(f)
           d == Decide(loop, f)
           head == HeadOf(f, u)
           tail == TailOf(f, u)
<1>1. \/ d = [loop EXCEPT !.at = "return"]
      \/ d = [loop EXCEPT !.at = "clear", !.user = u]
      \/ /\ u # 0 /\ PendingCompaction(f, u) /\ Before(f, u) # << >>
         /\ d = [loop EXCEPT !.at = "compact", !.user = u, !.view = head, !.tail = tail]
      \/ d = [loop EXCEPT !.at = "turn", !.user = u, !.view = Shown(f)]
  BY DEF Decide, HeadOf, TailOf
<1> HIDE DEF head, tail
<1>2. \/ d.at \in {"return", "clear"}
      \/ /\ u # 0 /\ PendingCompaction(f, u) /\ Before(f, u) # << >>
         /\ d = [loop EXCEPT !.at = "compact", !.user = u, !.view = head, !.tail = tail]
      \/ d.at = "turn"
  <2> HIDE DEF d, u
  <2> QED
    BY <1>1 DEF LoopState
<1>3. /\ u # 0 /\ PendingCompaction(f, u) /\ Before(f, u) # << >>
      /\ d = [loop EXCEPT !.at = "compact", !.user = u, !.view = head, !.tail = tail]
  BY <1>2
<1>4. d.user = u /\ d.view = head /\ d.tail = tail
  <2> HIDE DEF d, u
  <2> QED
    BY <1>3 DEF LoopState
<1> QED
  BY <1>3, <1>4 DEF head, tail

(* The tail starts with a user's row, and not with the first of the history. *)
LEMMA TailStart ==
  ASSUME NEW h \in Seq(Row), NEW turns, SelectTail(h, turns) # 0
  PROVE  SelectTail(h, turns) \in 2..Len(h) /\ IsUser(h[SelectTail(h, turns)])
<1> DEFINE starts == {i \in DOMAIN h : IsUser(h[i]) /\ h[i].comp = "none"}
           kept == {i \in starts : Cardinality({j \in starts : j >= i}) = turns}
           start == Min(kept)
<1>1. SelectTail(h, turns) =
        IF Cardinality(starts) <= turns \/ kept = {} THEN 0
        ELSE IF start = 1 THEN 0 ELSE start
  BY DEF SelectTail
<1>2. \A i \in kept : i \in 1..Len(h) /\ IsUser(h[i])
  OBVIOUS
<1> HIDE DEF starts, kept
<1>3. kept # {} /\ start # 1 /\ SelectTail(h, turns) = start
  BY <1>1
<1>4. start \in 1..Len(h) /\ IsUser(h[start])
  <2>1. kept \subseteq Nat
    BY <1>2
  <2> QED
    BY <1>2, <1>3, <2>1, MinIsLeast
<1> HIDE DEF start
<1>5. start \in 2..Len(h)
  BY <1>3, <1>4
<1> QED
  BY <1>3, <1>4, <1>5

LEMMA ShownHas ==
  ASSUME NEW list \in Seq(Row), NEW k \in 1..Len(list), Says(list[k])
  PROVE  list[k].id \in Shown(list)
BY DEF Shown

(* What is listed, older than the cut to come and says anything is shown. *)
LEMMA HeadIsRead ==
  ASSUME NEW f \in Seq(Row), ListedInOrder(f), NEW u \in Nat,
         \A k \in 1..Len(f) : f[k].id \in Nat \ {0} /\ (f[k].id = u => IsUser(f[k])),
         \E k \in 1..Len(f) : f[k].id = u,
         Before(f, u) # << >>, NEW p \in 1..Len(f), Says(f[p]),
         f[p].id < IF TailOf(f, u) = 0 THEN u ELSE TailOf(f, u)
  PROVE  f[p].id \in HeadOf(f, u)
<1> DEFINE at == {i \in DOMAIN f : f[i].id = u}
           q == Min(at)
           h == Before(f, u)
           t == SelectTail(h, DefaultTailTurns)
<1>1. at # {} /\ \A i \in at : i \in 1..Len(f) /\ f[i].id = u
  OBVIOUS
<1>2. h = SubSeq(f, 1, q - 1)
  BY <1>1 DEF Before
<1> HIDE DEF at
<1>3. q \in 1..Len(f) /\ f[q].id = u
  <2>1. at \subseteq Nat
    BY <1>1
  <2> QED
    BY <1>1, <2>1, MinIsLeast
<1> HIDE DEF q
<1>e. h # << >>
  OBVIOUS
<1>4. h \in Seq(Row) /\ Len(h) = q - 1 /\ \A i \in 1..(q - 1) : h[i] = f[i]
  <2>1. \A i \in 1..(q - 1) : f[i] \in Row
    BY <1>3
  <2> HIDE DEF h
  <2> QED
    BY <1>2, <1>3, <2>1, SubSeqProperties
<1>5. /\ HeadOf(f, u) = Shown(IF t = 0 THEN h ELSE SubSeq(h, 1, t - 1))
      /\ TailOf(f, u) = IF t = 0 THEN 0 ELSE h[t].id
  BY DEF HeadOf, TailOf
<1> HIDE DEF h
<1>6. CASE t = 0
  <2>1. HeadOf(f, u) = Shown(h) /\ f[p].id < f[q].id
    BY <1>3, <1>5, <1>6
  <2>2. q # 1
    <3>1. Len(h) # 0
      BY <1>4, <1>e, EmptySeq
    <3> QED
      BY <1>4, <3>1
  <2>3. p < q
    BY <1>3, <2>1, <2>2 DEF ListedInOrder
  <2>4. p \in 1..(q - 1) /\ h[p] = f[p]
    BY <1>3, <1>4, <2>3
  <2>5. h[p].id \in Shown(h)
    BY <1>4, <2>4, ShownHas
  <2> QED
    BY <2>1, <2>4, <2>5
<1>7. CASE t # 0
  <2>1. t \in 2..Len(h) /\ IsUser(h[t])
    BY <1>4, <1>7, TailStart
  <2> HIDE DEF t
  <2>2. t \in 1..Len(f) /\ t \in 1..(q - 1) /\ h[t] = f[t] /\ t # 1
    BY <1>3, <1>4, <2>1
  <2>3. TailOf(f, u) = f[t].id /\ f[t].id # 0
    BY <1>5, <1>7, <2>2
  <2>4. p < t
    BY <2>1, <2>2, <2>3 DEF ListedInOrder
  <2>5. p \in 1..(t - 1) /\ h[p] = f[p]
    BY <1>3, <1>4, <2>2, <2>4
  <2> DEFINE head == SubSeq(h, 1, t - 1)
  <2>6. HeadOf(f, u) = Shown(head)
    BY <1>5, <1>7
  <2>7. head \in Seq(Row) /\ Len(head) = t - 1 /\ \A i \in 1..(t - 1) : head[i] = h[i]
    <3>1. \A i \in 1..(t - 1) : h[i] \in Row
      BY <1>4, <2>1
    <3> QED
      BY <2>1, <3>1, SubSeqProperties
  <2> HIDE DEF head
  <2>8. head[p].id \in Shown(head)
    BY <2>5, <2>7, ShownHas
  <2> QED
    BY <2>5, <2>6, <2>7, <2>8
<1> QED
  BY <1>6, <1>7

(* Compactions that follow each other.  A row says nothing and never will ... *)
Silent(i) == ~ Says(msgs[i]) /\ ~ Held(i) /\ ~ Streaming(i)

(* ... or is older than a task that was cut short ... *)
Excused(i) == \E t \in cutShort : i < t

(* ... or was given to a summary that is done ... *)
Given(i) ==
  \E j \in 1..Len(msgs) : i < j /\ IsCompletedSummary(msgs[j]) /\ i \in msgs[j].view

Covered(i) == Silent(i) \/ Excused(i) \/ Given(i)

Live(i) == msgs[i].role # "none" \/ Drawn(i)

(* ... if it is older than what a compaction cut off, and so is the row of every
   id that was drawn before. *)
CutsAreGiven ==
  \A t \in 1..Len(msgs) : Cuts(t) =>
    \A i \in 1..Len(msgs) : Live(i) /\ i < CutOf(t) => Covered(i)

Compacting(r) == lp[r].at \in {"compact", "summarise"}

NewCut(r) == IF lp[r].tail = 0 THEN lp[r].user ELSE lp[r].tail

(* A compaction under way: what it is going to cut off and says anything is in the
   head its summary reads, or was given to an earlier one. *)
HeadGiven(r) ==
  Compacting(r) =>
    /\ \A i \in 1..Len(msgs) : IsUser(msgs[i]) => i <= lp[r].user
    /\ NewCut(r) <= lp[r].user
    /\ \A i \in 1..Len(msgs) : msgs[i].role # "none" /\ i < NewCut(r) =>
                                i \in lp[r].view \/ Covered(i)
    /\ lp[r].at = "summarise" => /\ lp[r].user < lp[r].asst
                                 /\ msgs[lp[r].asst].view = lp[r].view
                                 /\ ~msgs[lp[r].asst].err

GivenInv == CutsAreGiven /\ TailsFollow /\ \A r \in Call : HeadGiven(r)

(* What a step does that neither ends a summary nor adds a row out of order. *)
CutsKept ==
  /\ Len(msgs') \in Nat /\ Len(msgs) <= Len(msgs') /\ cutShort \subseteq cutShort'
  /\ \A i \in 1..Len(msgs) :
       /\ msgs'[i].tail = msgs[i].tail /\ msgs'[i].summary = msgs[i].summary
       /\ msgs'[i].parent = msgs[i].parent /\ msgs'[i].view = msgs[i].view
       /\ IsAssistant(msgs'[i]) <=> IsAssistant(msgs[i])
       /\ \/ SameEnd(msgs[i], msgs'[i])
          \/ Streaming(i) /\ ~ IsCompletedSummary(msgs'[i])
       /\ msgs'[i].role # "none" => Live(i)
       /\ IsUser(msgs'[i]) => IsUser(msgs[i]) \/ Drawn(i)
       /\ Says(msgs'[i]) => Says(msgs[i]) \/ Streaming(i) \/ Held(i)
       /\ Drawn(i)' => Drawn(i)
       /\ Held(i)' => Held(i)
       /\ Streaming(i)' => Streaming(i)
  /\ \A i \in 1..Len(msgs') :
       i \in 1..Len(msgs) \/ (msgs'[i].tail = 0 /\ ~ IsCompletedSummary(msgs'[i]))

(* A row that is streamed has no finish yet. *)
LEMMA StreamedIsOpen ==
  ASSUME LoopIndInv, NEW i, Streaming(i)
  PROVE  ~ IsCompletedSummary(msgs[i])
BY AtFacts DEF Streaming, Streams, IsCompletedSummary

LEMMA CutsStay ==
  ASSUME LoopIndInv, CutsAreGiven, TailsFollow, CutsKept
  PROVE  /\ CutsAreGiven' /\ TailsFollow'
         /\ \A i \in 1..Len(msgs) : Covered(i) => Covered(i)'
<1>0. /\ Len(msgs) \in Nat /\ Len(msgs') \in Nat /\ Len(msgs) <= Len(msgs')
      /\ \A i \in 1..Len(msgs) : RowOK(msgs[i], i, Len(msgs))
  BY DEF LoopIndInv, TypeInv, RowsOK, CutsKept
<1>1. ASSUME NEW i \in 1..Len(msgs), Covered(i) PROVE Covered(i)'
  <2>1. CASE Silent(i)
    <3>1. ~ Says(msgs'[i]) /\ ~ Held(i)' /\ ~ Streaming(i)'
      BY <2>1 DEF Silent, CutsKept
    <3> QED
      BY <3>1 DEF Covered, Silent
  <2>2. CASE Excused(i)
    BY <2>2 DEF Covered, Excused, CutsKept
  <2>3. CASE Given(i)
    <3>1. PICK j \in 1..Len(msgs) : i < j /\ IsCompletedSummary(msgs[j]) /\ i \in msgs[j].view
      BY <2>3 DEF Given
    <3>2. j \in 1..Len(msgs') /\ ~ Streaming(j)
      BY <1>0, <3>1, StreamedIsOpen
    <3>3. IsCompletedSummary(msgs'[j]) /\ i \in msgs'[j].view
      BY <3>1, <3>2 DEF CutsKept, SameEnd, IsCompletedSummary
    <3> QED
      BY <3>1, <3>2, <3>3 DEF Covered, Given
  <2> QED
    BY <1>1, <2>1, <2>2, <2>3 DEF Covered
<1>2. ASSUME NEW j \in 1..Len(msgs'), IsCompletedSummary(msgs'[j])
      PROVE  /\ j \in 1..Len(msgs) /\ IsCompletedSummary(msgs[j])
             /\ msgs'[j].parent = msgs[j].parent /\ msgs[j].parent \in 0..Len(msgs)
  <2>1. j \in 1..Len(msgs) /\ msgs'[j].parent = msgs[j].parent
    BY <1>2 DEF CutsKept
  <2>2. IsCompletedSummary(msgs[j])
    BY <1>2, <2>1 DEF CutsKept, SameEnd, IsCompletedSummary
  <2>3. msgs[j].parent \in 0..Len(msgs)
    BY <1>0, <2>1 DEF RowOK
  <2> QED
    BY <1>0, <2>1, <2>2, <2>3
<1>3. ASSUME NEW t \in 1..Len(msgs'), Cuts(t)'
      PROVE  t \in 1..Len(msgs) /\ Cuts(t) /\ CutOf(t)' = CutOf(t)
  <2>1. t \in 1..Len(msgs)
    <3>1. CASE msgs'[t].tail # 0
      BY <3>1 DEF CutsKept
    <3>2. CASE HasSummary(t)'
      BY <1>0, <1>2, <3>2 DEF HasSummary
    <3> QED
      BY <1>3, <3>1, <3>2 DEF Cuts
  <2>2. msgs'[t].tail = msgs[t].tail
    BY <2>1 DEF CutsKept
  <2>3. HasSummary(t)' => HasSummary(t)
    BY <1>0, <1>2 DEF HasSummary
  <2> QED
    BY <1>3, <2>1, <2>2, <2>3 DEF Cuts, CutOf
<1>4. CutsAreGiven'
  <2> SUFFICES ASSUME NEW t \in 1..Len(msgs'), Cuts(t)', NEW i \in 1..Len(msgs'),
                      Live(i)', i < CutOf(t)'
               PROVE  Covered(i)'
    BY DEF CutsAreGiven
  <2>1. t \in 1..Len(msgs) /\ Cuts(t) /\ i < CutOf(t)
    BY <1>3
  <2>2. CutOf(t) \in 0..Len(msgs)
    BY <1>0, <2>1 DEF CutOf, RowOK
  <2>3. i \in 1..Len(msgs)
    BY <1>0, <2>1, <2>2
  <2>4. Live(i)
    BY <2>3 DEF CutsKept, Live
  <2> QED
    BY <1>1, <2>1, <2>3, <2>4 DEF CutsAreGiven
<1>5. TailsFollow'
  <2> SUFFICES ASSUME NEW t \in 1..Len(msgs'), msgs'[t].tail # 0
               PROVE  \E s \in 1..Len(msgs') : Follows(s, t)'
    BY DEF TailsFollow
  <2>1. t \in 1..Len(msgs) /\ msgs[t].tail # 0
    BY DEF CutsKept
  <2>2. PICK s \in 1..Len(msgs) : Follows(s, t)
    BY <2>1 DEF TailsFollow
  <2>3. \A i \in (t + 1)..s : i \in 1..Len(msgs) /\ ~ IsUser(msgs'[i]) /\ ~ Drawn(i)'
    <3> TAKE i \in (t + 1)..s
    <3>1. i \in 1..Len(msgs)
      BY <1>0, <2>1
    <3> QED
      BY <2>2, <3>1 DEF Follows, CutsKept
  <2>4. Follows(s, t)'
    BY <2>1, <2>2, <2>3 DEF Follows, CutsKept
  <2>5. s \in 1..Len(msgs')
    BY <1>0
  <2> QED
    BY <2>4, <2>5
<1> QED
  BY <1>1, <1>4, <1>5

(* The cut to come is the task's own or one of its history's user rows. *)
LEMMA TailIsListed ==
  ASSUME NEW f \in Seq(Row), NEW u, TailOf(f, u) # 0
  PROVE  \E k \in 1..Len(f) : f[k].id = TailOf(f, u) /\ IsUser(f[k])
<1> DEFINE h == Before(f, u)
           t == SelectTail(h, DefaultTailTurns)
<1>1. h \in Seq(Row) /\ Range(h) \subseteq Range(f)
  BY BeforeRows
<1>2. TailOf(f, u) = IF t = 0 THEN 0 ELSE h[t].id
  BY DEF TailOf
<1> HIDE DEF h
<1>3. t \in 2..Len(h) /\ IsUser(h[t])
  BY <1>1, <1>2, TailStart
<1> HIDE DEF t
<1>4. Range(h) = {h[i] : i \in 1..Len(h)} /\ Range(f) = {f[i] : i \in 1..Len(f)}
  BY <1>1, RangeEquality
<1>5. h[t] \in Range(f)
  BY <1>1, <1>3, <1>4
<1>6. PICK k \in 1..Len(f) : f[k] = h[t]
  BY <1>4, <1>5
<1> QED
  BY <1>2, <1>3, <1>6

(* Rows are not touched: what is not given now is not given by looking at it. *)
LEMMA RowsRest ==
  ASSUME LoopIndInv, msgs' = msgs, cutShort' = cutShort, prep' = prep, msgOf' = msgOf, lp' = lp
  PROVE  CutsKept
<1>1. Len(msgs) \in Nat
  BY DEF LoopIndInv, TypeInv
<1>2. \A i \in 1..Len(msgs) : SameEnd(msgs[i], msgs'[i])
  BY DEF SameEnd
<1>3. \A i : /\ Drawn(i)' = Drawn(i) /\ Held(i)' = Held(i)
              /\ Streaming(i)' = Streaming(i)
  BY DEF Drawn, Held, Streaming
<1> QED
  BY <1>1, <1>2, <1>3 DEF CutsKept, Live

(* Reading the history decides for a compaction whose head and cut agree. *)
LEMMA ReadsHead ==
  ASSUME LoopIndInv, CutsAreGiven, TailsFollow, NEW r \in Call, LoopReads(r),
         \A c \in Call : prep'[c] \notin {"drawn", "stored"},
         \A i \in 1..Len(msgs) : Covered(i) => Covered(i)'
  PROVE  HeadGiven(r)'
<1> DEFINE f == Filtered
           n == Len(msgs)
           u == LatestUser(f)
           d == Decide(lp[r], f)
<1>0. TypeInv /\ lp[r] \in LoopState /\ LoopStateOK(lp[r], n) /\ lp \in [Call -> LoopState]
      /\ n \in Nat
  BY AtFacts DEF LoopIndInv, TypeInv
<1>1. lp[r].at = "top" /\ lp' = [lp EXCEPT ![r] = d] /\ msgs' = msgs
  BY DEF LoopReads, At
<1>2. lp'[r] = d
  BY <1>0, <1>1
<1>3. /\ f \in Seq(Row)
      /\ \A k \in 1..Len(f) : f[k].id \in 1..n /\ f[k] = msgs[f[k].id]
      /\ \A i \in 1..n : /\ msgs[i].role # "none"
                         /\ \A k \in 1..n : IsTask(msgs[k]) => k <= i
                         => \E k \in 1..Len(f) : f[k] = msgs[i]
  BY <1>0, FilteredRows
<1>4. /\ u \in 0..n /\ (u # 0 => IsUser(msgs[u]))
      /\ \A i \in 1..n : IsUser(msgs[i]) => i <= u
  BY <1>0, NewestUser
<1>5. d.at \in {"return", "clear", "compact", "turn"}
  BY <1>0, DecideCases
<1>6. CASE d.at # "compact"
  BY <1>2, <1>5, <1>6 DEF HeadGiven, Compacting
<1>7. CASE d.at = "compact"
  <2>1. /\ u # 0 /\ d.user = u /\ d.view = HeadOf(f, u) /\ d.tail = TailOf(f, u)
        /\ Before(f, u) # << >>
    BY <1>0, <1>1, <1>4, <1>7, DecideCompacts
  <2>2. ListedInOrder(f)
    BY <1>0, FilteredOrder
  <2>3. \A i \in 1..n : msgs[i].role # "none" /\ (\A k \in 1..Len(f) : f[k] # msgs[i])
          => \E t \in 1..n : Cuts(t) /\ i < CutOf(t)
    BY <1>0, HiddenIsCut
  <2> DEFINE cut == IF TailOf(f, u) = 0 THEN u ELSE TailOf(f, u)
  <2>4. NewCut(r)' = cut
    BY <1>2, <2>1 DEF NewCut
  <2> HIDE DEF f, u, d
  <2>5. \A i \in 1..n : msgs[i].id = i
    BY <1>0 DEF TypeInv, RowsOK, RowOK
  <2>6. cut <= u
    <3>1. ASSUME TailOf(f, u) # 0 PROVE TailOf(f, u) <= u
      <4>1. PICK k \in 1..Len(f) : f[k].id = TailOf(f, u) /\ IsUser(f[k])
        BY <1>3, <3>1, TailIsListed
      <4> QED
        BY <1>3, <1>4, <4>1
    <3> QED
      BY <1>4, <3>1
  <2>s. \A i : ~ Held(i)' /\ ~ Streaming(i)'
    <3>1. \A i : ~ Held(i)'
      BY DEF Held
    <3>2. stage[r] = "working" /\ lp[r].at = "top"
      BY DEF LoopReads, At
    <3>3. \A i : ~ Streaming(i)
      BY <3>2, WorksAlone
    <3>4. \A q \in Call : lp'[q].at \in {"stream", "summarise"} => q # r /\ lp'[q] = lp[q]
      BY <1>0, <1>1, <1>2, <1>7
    <3>5. \A i : ~ Streaming(i)'
      BY <3>3, <3>4 DEF Streaming
    <3> QED
      BY <3>1, <3>5
  <2>7. ASSUME NEW i \in 1..n, msgs[i].role # "none", i < cut
        PROVE  i \in d.view \/ Covered(i)'
    <3>1. CASE \A k \in 1..Len(f) : f[k] # msgs[i]
      <4>1. PICK t \in 1..n : Cuts(t) /\ i < CutOf(t)
        BY <2>3, <2>7, <3>1
      <4>2. Covered(i)
        BY <2>7, <4>1 DEF CutsAreGiven, Live
      <4> QED
        BY <4>2
    <3>0. CASE ~ Says(msgs[i])
      BY <1>1, <2>s, <3>0 DEF Covered, Silent
    <3>2. ASSUME NEW p \in 1..Len(f), f[p] = msgs[i], Says(msgs[i]) PROVE i \in d.view
      <4>1. f[p].id = i
        BY <2>5, <3>2
      <4>2. /\ u \in Nat /\ Says(f[p])
            /\ \A k \in 1..Len(f) : f[k].id \in Nat \ {0} /\ (f[k].id = u => IsUser(f[k]))
        BY <1>3, <1>4, <2>1, <2>7, <3>2
      <4>3. \E k \in 1..Len(f) : f[k].id = u
        <5>1. PendingCompaction(f, u) /\ DOMAIN f = 1..Len(f)
          <6>1. PendingCompaction(f, u)
            BY <1>0, <1>1, <1>4, <1>7, DecideCompacts DEF f, u, d
          <6> QED
            BY <1>3, <6>1
        <5> QED
          BY <5>1 DEF PendingCompaction
      <4>4. f[p].id \in HeadOf(f, u)
        BY <1>3, <2>1, <2>2, <2>7, <4>1, <4>2, <4>3, HeadIsRead
      <4> QED
        BY <2>1, <4>1, <4>4
    <3> QED
      BY <3>0, <3>1, <3>2
  <2> HIDE DEF cut
  <2> QED
    BY <1>1, <1>2, <1>4, <1>7, <2>1, <2>4, <2>6, <2>7 DEF HeadGiven, Compacting
<1> QED
  BY <1>6, <1>7

(* The summary that begins has the head before it. *)
LEMMA BeginsHead ==
  ASSUME LoopIndInv, NEW r \in Call, HeadGiven(r), BeginSummary(r),
         \A i \in 1..Len(msgs) : Covered(i) => Covered(i)'
  PROVE  HeadGiven(r)'
<1> DEFINE a == Len(msgs) + 1
           m == Assistant(a, lp[r].user, lp[r].view, TRUE)
<1>0. TypeInv /\ Evolved(msgs) /\ lp \in [Call -> LoopState] /\ Len(msgs) \in Nat
  BY Stays DEF LoopIndInv, TypeInv
<1>1. /\ lp[r].at = "compact" /\ msgs' = Append(msgs, m)
  BY DEF BeginSummary, At
<1>2. lp[r].user \in 1..Len(msgs)
  BY <1>1, AtFacts
<1>3. /\ m \in Row /\ NewRow(m) /\ RowOK(m, Len(msgs) + 1, Len(msgs) + 1)
      /\ IsAssistant(m) /\ m.view = lp[r].view
  <2> DEFINE s == TRUE
  <2>1. s \in BOOLEAN /\ m = Assistant(Len(msgs) + 1, lp[r].user, lp[r].view, s)
        /\ lp[r].at \in {"turn", "compact"}
    BY <1>1
  <2> HIDE DEF m, s
  <2> QED
    BY <2>1, AnswerRow
<1>a. a = Len(msgs) + 1
  OBVIOUS
<1> HIDE DEF m, a
<1>4. /\ Len(msgs') = a /\ \A i \in 1..Len(msgs) : msgs'[i] = msgs[i]
      /\ msgs'[a] = m
  BY <1>0, <1>1, <1>3, <1>a, Added
<1>5. PICK loop \in LoopState :
        /\ loop.at = "summarise" /\ loop.asst = a /\ loop.user = lp[r].user
        /\ loop.view = lp[r].view /\ loop.tail = lp[r].tail
        /\ lp' = [lp EXCEPT ![r] = loop]
  <2> DEFINE w == "summarise"
  <2>1. BeginSummary(r) /\ w = "summarise"
    OBVIOUS
  <2> HIDE DEF w
  <2>2. \E loop \in LoopState : BegunState(r, loop, w, a)
    BY <1>a, <2>1, BeginState
  <2> QED
    BY <2>1, <2>2 DEF BegunState
<1>6. /\ lp'[r].at = "summarise" /\ lp'[r].asst = a /\ lp'[r].user = lp[r].user
      /\ lp'[r].view = lp[r].view /\ NewCut(r)' = NewCut(r)
  BY <1>0, <1>5 DEF NewCut
<1>7. /\ \A i \in 1..Len(msgs) : IsUser(msgs[i]) => i <= lp[r].user
      /\ NewCut(r) <= lp[r].user /\ NewCut(r) \in Nat
      /\ \A i \in 1..Len(msgs) : msgs[i].role # "none" /\ i < NewCut(r) =>
                                   i \in lp[r].view \/ Covered(i)
  <2>1. NewCut(r) \in Nat
    BY <1>0 DEF NewCut, LoopState
  <2> QED
    BY <1>1, <2>1 DEF HeadGiven, Compacting
<1>8. \A i \in 1..Len(msgs') : i \in 1..Len(msgs) \/ i = a
  BY <1>0, <1>4, <1>a
<1>9. \A i \in 1..Len(msgs') : IsUser(msgs'[i]) => i <= lp[r].user
  BY <1>3, <1>4, <1>7, <1>8 DEF IsUser, IsAssistant
<1>10. \A i \in 1..Len(msgs') : msgs'[i].role # "none" /\ i < NewCut(r) =>
                                  i \in lp[r].view \/ Covered(i)'
  <2> TAKE i \in 1..Len(msgs')
  <2>1. i < NewCut(r) => i \in 1..Len(msgs)
    BY <1>0, <1>2, <1>7
  <2> QED
    BY <1>4, <1>7, <2>1
<1>11. lp[r].user < a
  BY <1>0, <1>2, <1>a
<1>12. msgs'[a].view = lp[r].view /\ ~msgs'[a].err
  BY <1>3, <1>4 DEF NewRow
<1> QED
  BY <1>1, <1>6, <1>7, <1>9, <1>10, <1>11, <1>12 DEF HeadGiven

(* The rows a summary that ends leaves behind. *)
LEMMA SummaryLeaves ==
  ASSUME LoopIndInv, NEW r \in Call, lp[r].at = "summarise",
         NEW fin \in Finish, NEW failed \in BOOLEAN, NEW t \in 0..Len(msgs),
         \/ msgs' = SummaryEnd(r, fin, failed, t)
         \/ \E next : PromptRow(next) /\ msgs' = Append(SummaryEnd(r, fin, failed, t), next)
  PROVE  LET a == lp[r].asst
             u == lp[r].user
         IN  /\ Len(msgs') \in Nat /\ Len(msgs) <= Len(msgs')
             /\ \A i \in 1..Len(msgs) :
                  /\ msgs'[i].role = msgs[i].role /\ msgs'[i].summary = msgs[i].summary
                  /\ msgs'[i].parent = msgs[i].parent /\ msgs'[i].view = msgs[i].view
                  /\ i # a => SameEnd(msgs[i], msgs'[i])
                  /\ i # u => msgs'[i].tail = msgs[i].tail
             /\ msgs'[a].finish = fin /\ msgs'[a].err = failed /\ msgs'[u].tail = t
             /\ \A i \in 1..Len(msgs') :
                  i \in 1..Len(msgs) \/ (msgs'[i].tail = 0 /\ ~ IsAssistant(msgs'[i]))
<1> DEFINE a == lp[r].asst
           u == lp[r].user
           n == Len(msgs)
           done == SummaryEnd(r, fin, failed, t)
           ma == [msgs[a] EXCEPT !.finish = fin, !.err = failed]
           mu == [msgs[u] EXCEPT !.tail = t]
<1>2. /\ msgs \in Seq(Row) /\ n \in Nat /\ a \in 1..n /\ u \in 1..n /\ a # u
      /\ msgs[a] \in Row /\ msgs[u] \in Row
  BY AtFacts DEF LoopIndInv, TypeInv, Streams
<1>6. done = [msgs EXCEPT ![a] = ma, ![u] = mu]
  BY <1>2 DEF SummaryEnd
<1>7. /\ ma.role = msgs[a].role /\ ma.summary = msgs[a].summary
      /\ ma.parent = msgs[a].parent /\ ma.view = msgs[a].view
      /\ ma.err = failed /\ ma.finish = fin /\ ma.tail = msgs[a].tail
  BY <1>2 DEF Row
<1>8. /\ mu.role = msgs[u].role /\ mu.summary = msgs[u].summary
      /\ mu.parent = msgs[u].parent /\ mu.view = msgs[u].view
      /\ mu.err = msgs[u].err /\ mu.finish = msgs[u].finish /\ mu.tail = t
  BY <1>2 DEF Row
<1>4. msgs' = done \/ \E next : PromptRow(next) /\ msgs' = Append(done, next)
  OBVIOUS
<1> HIDE DEF ma, mu, done, a, u, n
<1>9. /\ done = [i \in 1..n |-> done[i]]
      /\ done[a] = ma /\ done[u] = mu
      /\ \A i \in 1..n : i # a /\ i # u => done[i] = msgs[i]
  <2>1. msgs = [i \in 1..n |-> msgs[i]]
    BY <1>2 DEF n
  <2> QED
    BY <1>2, <1>6, <2>1
<1>d. Len(done) = n
  BY <1>2, <1>9
<1>10. /\ Len(msgs') \in {n, n + 1} /\ \A i \in 1..n : msgs'[i] = done[i]
       /\ Len(msgs') = n + 1 => msgs'[n + 1].tail = 0 /\ ~ IsAssistant(msgs'[n + 1])
  <2>1. CASE msgs' = done
    BY <1>2, <1>d, <2>1
  <2>2. ASSUME NEW next, PromptRow(next), msgs' = Append(done, next)
        PROVE  /\ Len(msgs') \in {n, n + 1} /\ \A i \in 1..n : msgs'[i] = done[i]
               /\ Len(msgs') = n + 1 => msgs'[n + 1].tail = 0 /\ ~ IsAssistant(msgs'[n + 1])
    <3> DEFINE big == Append(done, next)
    <3>2. /\ Len(big) = n + 1 /\ big[n + 1] = next /\ \A i \in 1..n : big[i] = done[i]
      BY <1>2, <1>9, <1>d
    <3>3. next.tail = 0 /\ ~ IsAssistant(next)
      BY <2>2 DEF PromptRow, NewRow, IsAssistant
    <3> HIDE DEF big
    <3> QED
      BY <1>2, <2>2, <3>2, <3>3 DEF big
  <2> QED
    BY <1>4, <2>1, <2>2
<1>11. Len(msgs') \in Nat /\ Len(msgs) <= Len(msgs')
  BY <1>2, <1>10 DEF n
<1>12. \A i \in 1..Len(msgs') :
         i \in 1..Len(msgs) \/ (msgs'[i].tail = 0 /\ ~ IsAssistant(msgs'[i]))
  BY <1>2, <1>10 DEF n
<1>13. \A i \in 1..n :
         /\ msgs'[i].role = msgs[i].role /\ msgs'[i].summary = msgs[i].summary
         /\ msgs'[i].parent = msgs[i].parent /\ msgs'[i].view = msgs[i].view
         /\ i # a => SameEnd(msgs[i], msgs'[i])
         /\ i # u => msgs'[i].tail = msgs[i].tail
  <2> TAKE i \in 1..n
  <2>1. msgs'[i] = done[i]
    BY <1>10
  <2>2. CASE i = a
    BY <1>2, <1>7, <1>9, <2>1, <2>2
  <2>3. CASE i = u
    BY <1>2, <1>8, <1>9, <2>1, <2>3 DEF SameEnd
  <2>4. CASE i # a /\ i # u
    BY <1>9, <2>1, <2>4 DEF SameEnd
  <2> QED
    BY <2>2, <2>3, <2>4
<1>14. msgs'[a].finish = fin /\ msgs'[a].err = failed /\ msgs'[u].tail = t
  BY <1>2, <1>7, <1>8, <1>9, <1>10
<1> QED
  BY <1>11, <1>12, <1>13, <1>14 DEF a, u, n

(* A summary that is done was given what its task now cuts off, and the tasks that
   hide more without one are counted. *)
LEMMA SummaryGives ==
  ASSUME LoopIndInv, CutsAreGiven, TailsFollow, NEW r \in Call, HeadGiven(r),
         SummaryFails(r) \/ CompactionCutShort(r) \/ SummaryEnds(r),
         \A c \in Call : prep[c] \notin {"drawn", "stored"}
  PROVE  CutsAreGiven' /\ TailsFollow'
<1> DEFINE a == lp[r].asst
           u == lp[r].user
           n == Len(msgs)
<1>1. /\ stage[r] = "working" /\ lp[r].at = "summarise"
      /\ lp' = NextStep(r) \/ lp' = Leave(r)
      /\ UNCHANGED <<prep, msgOf>>
  BY DEF SummaryEnds, SummaryFails, CompactionCutShort, At
<1>c. cutShort \subseteq cutShort'
  BY DEF SummaryEnds, SummaryFails, CompactionCutShort, CountCutShort
<1>2. /\ a \in 1..n /\ u \in 1..n /\ IsAssistant(msgs[a]) /\ IsUser(msgs[u])
      /\ msgs[a].summary /\ msgs[a].parent = u /\ n \in Nat
      /\ \A i \in 1..n : RowOK(msgs[i], i, n)
      /\ lp[r].tail \in 0..n /\ lp \in [Call -> LoopState]
      /\ msgs[a].finish = NoFinish
  BY <1>1, AtFacts DEF Streams, LoopStateOK, LoopIndInv, TypeInv, RowsOK
<1>3. /\ \A i \in 1..n : IsUser(msgs[i]) => i <= u
      /\ NewCut(r) <= u /\ NewCut(r) \in 0..n
      /\ \A i \in 1..n : msgs[i].role # "none" /\ i < NewCut(r) =>
                           i \in lp[r].view \/ Covered(i)
      /\ u < a /\ msgs[a].view = lp[r].view /\ ~msgs[a].err
  BY <1>1, <1>2 DEF HeadGiven, Compacting, NewCut
<1>f. PICK fin \in Finish, failed \in BOOLEAN, k \in 0..n :
        /\ \/ msgs' = SummaryEnd(r, fin, failed, k)
           \/ \E next : PromptRow(next) /\ msgs' = Append(SummaryEnd(r, fin, failed, k), next)
        /\ SummaryOutcome(r, fin, failed, k)
  <2>1. ~ msgs[lp[r].asst].err
    BY <1>3
  <2> QED
    BY <2>1, SummaryForms
<1>4. /\ Len(msgs') \in Nat /\ n <= Len(msgs')
      /\ \A i \in 1..n :
           /\ msgs'[i].role = msgs[i].role /\ msgs'[i].summary = msgs[i].summary
           /\ msgs'[i].parent = msgs[i].parent /\ msgs'[i].view = msgs[i].view
           /\ i # a => SameEnd(msgs[i], msgs'[i])
           /\ i # u => msgs'[i].tail = msgs[i].tail
      /\ msgs'[a].finish = fin /\ msgs'[a].err = failed /\ msgs'[u].tail = k
      /\ \A i \in 1..Len(msgs') :
           i \in 1..n \/ (msgs'[i].tail = 0 /\ ~ IsAssistant(msgs'[i]))
  BY <1>1, <1>f, SummaryLeaves
<1>5. \A i : ~ Drawn(i) /\ ~ Drawn(i)' /\ ~ Held(i) /\ ~ Held(i)'
  BY <1>1 DEF Drawn, Held
<1>o. \A i \in 1..n : Says(msgs'[i]) => Says(msgs[i]) \/ Streaming(i)
  <2>1. Evolved(msgs')
    BY SummaryMoves DEF Moves, RunMoves
  <2>2. \A i \in 1..n : OldRow(i, msgs'[i])
    BY <2>1, EvolvedKeepsRows
  <2> SUFFICES ASSUME NEW i \in 1..n, Says(msgs'[i]), ~ Says(msgs[i]) PROVE Streaming(i)
    OBVIOUS
  <2>3. OldRow(i, msgs'[i]) /\ ~ Held(i)
    BY <1>5, <2>2
  <2> QED
    BY <2>3, OldRowSays
<1>6. \A i : ~ Streaming(i)'
  <2>1. lp'[r].at \in {"top", "return"}
    <3>1. lp' = NextStep(r) => lp'[r].at = "top"
      BY <1>2 DEF NextStep, LoopStart
    <3>2. lp' = Leave(r) => lp'[r].at = "return"
      BY <1>2 DEF Leave, LoopStart
    <3> QED
      BY <1>1, <3>1, <3>2
  <2>2. ASSUME NEW q \in Call PROVE lp'[q].at \notin {"stream", "summarise"}
    <3>1. CASE q = r
      BY <2>1, <3>1
    <3>2. CASE q # r
      <4>1. lp'[q] = lp[q]
        BY <1>1, <1>2, <3>2 DEF NextStep, Leave
      <4>2. lp[q].at \in {"stream", "summarise"} => Owns(q)
        BY DEF LoopIndInv, LoopPlace, Owns
      <4>3. ~ Owns(q)
        BY <1>1, <3>2, WorksAlone
      <4> QED
        BY <4>1, <4>2, <4>3
    <3> QED
      BY <3>1, <3>2
  <2> QED
    BY <2>2 DEF Streaming
<1>7. \A i \in 1..n : Streaming(i) => i = a
  BY <1>1, WorksAlone
<1> HIDE DEF a, u, n
<1>n. n = Len(msgs)
  BY DEF n
<1>8. ASSUME NEW i \in 1..n, Covered(i) PROVE Covered(i)'
  <2>1. CASE Silent(i)
    BY <1>5, <1>6, <1>o, <2>1 DEF Covered, Silent
  <2>2. CASE Excused(i)
    BY <1>c, <2>2 DEF Covered, Excused
  <2>3. CASE Given(i)
    <3>1. PICK j \in 1..n : i < j /\ IsCompletedSummary(msgs[j]) /\ i \in msgs[j].view
      BY <2>3 DEF Given, n
    <3>2. j # a /\ j \in 1..Len(msgs')
      BY <1>2, <1>4, <3>1 DEF IsCompletedSummary
    <3>3. IsCompletedSummary(msgs'[j]) /\ i \in msgs'[j].view
      BY <1>4, <3>1, <3>2 DEF SameEnd, IsCompletedSummary, IsAssistant
    <3> QED
      BY <3>1, <3>2, <3>3 DEF Covered, Given
  <2> QED
    BY <1>8, <2>1, <2>2, <2>3 DEF Covered
<1>9. ASSUME fin # NoFinish, ~failed,
             NEW i \in 1..n, msgs[i].role # "none", i < NewCut(r)
      PROVE  Covered(i)'
  <2>1. CASE Covered(i)
    BY <1>8, <2>1
  <2>2. CASE i \in lp[r].view
    <3>1. i < a /\ a \in 1..Len(msgs')
      BY <1>2, <1>3, <1>4, <1>9
    <3>2. IsCompletedSummary(msgs'[a]) /\ i \in msgs'[a].view
      BY <1>2, <1>3, <1>4, <1>9, <2>2 DEF IsCompletedSummary, IsAssistant
    <3> QED
      BY <3>1, <3>2 DEF Covered, Given
  <2> QED
    BY <1>3, <1>9, <2>1, <2>2
<1>10. ASSUME NEW j \in 1..Len(msgs'), IsCompletedSummary(msgs'[j])
       PROVE  /\ j \in 1..n /\ msgs'[j].parent \in 0..n
              /\ \/ msgs'[j].parent = u /\ fin # NoFinish /\ ~failed
                 \/ IsCompletedSummary(msgs[j]) /\ msgs[j].parent = msgs'[j].parent
  <2>1. j \in 1..n
    BY <1>4, <1>10 DEF IsCompletedSummary
  <2>2. msgs'[j].parent \in 0..n
    BY <1>2, <1>4, <2>1 DEF RowOK
  <2>3. CASE j = a
    BY <1>2, <1>4, <1>10, <2>1, <2>2, <2>3 DEF IsCompletedSummary
  <2>4. CASE j # a
    BY <1>4, <1>10, <2>1, <2>2, <2>4 DEF SameEnd, IsCompletedSummary, IsAssistant
  <2> QED
    BY <2>3, <2>4
<1>11. ASSUME NEW t \in 1..Len(msgs'), Cuts(t)'
       PROVE  /\ t \in 1..n
              /\ \/ t = u /\ ((fin # NoFinish /\ ~failed) \/ msgs'[u].tail # msgs[u].tail)
                 \/ Cuts(t) /\ CutOf(t)' = CutOf(t)
  <2>1. CASE msgs'[t].tail # 0
    <3>1. t \in 1..n
      BY <1>4, <2>1
    <3>2. t # u => msgs'[t].tail = msgs[t].tail
      BY <1>4, <3>1
    <3> QED
      BY <2>1, <3>1, <3>2 DEF Cuts, CutOf
  <2>2. CASE HasSummary(t)'
    <3>1. PICK j \in 1..Len(msgs') : IsCompletedSummary(msgs'[j]) /\ msgs'[j].parent = t
      BY <2>2 DEF HasSummary
    <3>2. t \in 1..n
      BY <1>2, <1>10, <3>1
    <3>3. \/ t = u /\ fin # NoFinish /\ ~failed
          \/ HasSummary(t)
      BY <1>10, <3>1 DEF HasSummary, n
    <3>4. t # u => msgs'[t].tail = msgs[t].tail
      BY <1>4, <3>2
    <3> QED
      BY <3>2, <3>3, <3>4 DEF Cuts, CutOf
  <2> QED
    BY <1>11, <2>1, <2>2 DEF Cuts
<1>12. CutsAreGiven'
  <2> SUFFICES ASSUME NEW t \in 1..Len(msgs'), Cuts(t)', NEW i \in 1..Len(msgs'),
                      Live(i)', i < CutOf(t)'
               PROVE  Covered(i)'
    BY DEF CutsAreGiven
  <2>0. /\ t \in 1..n
        /\ \/ t = u /\ ((fin # NoFinish /\ ~failed) \/ msgs'[u].tail # msgs[u].tail)
           \/ Cuts(t) /\ CutOf(t)' = CutOf(t)
    BY <1>11
  <2>1. \A j \in 1..n : msgs[j].tail \in 0..n
    BY <1>2 DEF RowOK
  <2>2. CutOf(t)' \in 0..n
    <3>1. CASE t = u
      BY <1>2, <1>4, <1>f, <2>1, <3>1 DEF CutOf
    <3>2. CASE t # u
      BY <1>2, <1>4, <2>0, <2>1, <3>2 DEF CutOf
    <3> QED
      BY <3>1, <3>2
  <2>3. i \in 1..n
    BY <1>2, <2>2
  <2>4. msgs[i].role # "none"
    BY <1>4, <1>5, <2>3 DEF Live
  <2>5. CASE Cuts(t) /\ CutOf(t)' = CutOf(t)
    <3>1. Covered(i)
      BY <2>0, <2>3, <2>4, <2>5 DEF CutsAreGiven, Live, n
    <3> QED
      BY <1>8, <2>3, <3>1
  <2>6. CASE /\ t = u /\ ~ (Cuts(t) /\ CutOf(t)' = CutOf(t))
             /\ (fin # NoFinish /\ ~failed) \/ msgs'[u].tail # msgs[u].tail
    <3>k. /\ CutOf(t)' = (IF k = 0 THEN u ELSE k)
          /\ CutOf(t) = (IF msgs[u].tail = 0 THEN u ELSE msgs[u].tail)
      BY <1>4, <2>6 DEF CutOf
    <3>0. msgs[u].tail = 0 \/ k # msgs[u].tail
      <4> SUFFICES ASSUME msgs[u].tail # 0, k = msgs[u].tail PROVE FALSE
        OBVIOUS
      <4>1. Cuts(t) /\ CutOf(t)' = CutOf(t)
        BY <2>6, <3>k DEF Cuts
      <4> QED
        BY <2>6, <4>1
    <3>1. CASE /\ fin # NoFinish /\ ~failed
               /\ k = (IF lp[r].tail = 0 THEN msgs[u].tail ELSE lp[r].tail)
      <4>1. CutOf(t)' = NewCut(r)
        BY <3>0, <3>1, <3>k DEF NewCut, u
      <4> QED
        BY <1>9, <2>3, <2>4, <2>6, <3>1, <4>1
    <3>2. CASE /\ u \in cutShort'
               /\ k = msgs[u].tail \/ (lp[r].tail # 0 /\ k = lp[r].tail)
      <4>1. CutOf(t)' <= u
        BY <1>2, <1>3, <3>0, <3>2, <3>k DEF NewCut, u
      <4>2. i < u
        BY <1>2, <2>2, <2>3, <2>6, <4>1
      <4> QED
        BY <3>2, <4>2 DEF Covered, Excused
    <3>3. CASE (fin = NoFinish \/ failed) /\ k = msgs[u].tail
      BY <1>4, <2>6, <3>3
    <3> QED
      BY <1>f, <3>1, <3>2, <3>3 DEF SummaryOutcome, u
  <2> QED
    BY <2>0, <2>5, <2>6
<1>13. TailsFollow'
  <2> SUFFICES ASSUME NEW t \in 1..Len(msgs'), msgs'[t].tail # 0
               PROVE  \E s \in 1..Len(msgs') : Follows(s, t)'
    BY DEF TailsFollow
  <2>1. t \in 1..n
    BY <1>4
  <2>2. PICK s \in 1..n : /\ t < s /\ IsAssistant(msgs[s]) /\ msgs[s].summary
                          /\ msgs[s].parent = t
                          /\ \A i \in (t + 1)..s : ~ IsUser(msgs[i])
    <3>1. CASE t = u
      <4>1. /\ a \in 1..n /\ u < a /\ IsAssistant(msgs[a]) /\ msgs[a].summary
            /\ msgs[a].parent = u
        BY <1>2, <1>3 DEF IsAssistant
      <4>2. \A i \in (u + 1)..a : ~ IsUser(msgs[i])
        BY <1>2, <1>3, <4>1
      <4> QED
        BY <3>1, <4>1, <4>2
    <3>2. CASE t # u
      <4>1. msgs[t].tail # 0
        BY <1>4, <2>1, <3>2
      <4> QED
        BY <2>1, <4>1 DEF TailsFollow, Follows, n
    <3> QED
      BY <3>1, <3>2
  <2>3. s \in 1..Len(msgs') /\ \A i \in (t + 1)..s : i \in 1..n
    BY <1>2, <1>4, <2>1
  <2>4. \A i \in (t + 1)..s : ~ IsUser(msgs'[i])
    BY <1>4, <2>2, <2>3 DEF IsUser
  <2>5. IsAssistant(msgs'[s]) /\ msgs'[s].summary /\ msgs'[s].parent = t
    BY <1>4, <2>2 DEF IsAssistant
  <2> QED
    BY <1>5, <2>2, <2>3, <2>4, <2>5 DEF Follows
<1> QED
  BY <1>12, <1>13

(* A run's other steps leave the cuts as they are. *)
LEMMA StepsKeepCuts ==
  ASSUME LoopIndInv, NEW r \in Call, LoopStep(r), ~ LoopReturns(r),
         lp[r].at # "summarise"
  PROVE  CutsKept
<1>1. PICK loop : RunMoves(r, loop)
  BY StepMoves DEF Moves
<1>2. /\ stage[r] = "working" /\ lp' = [lp EXCEPT ![r] = loop] /\ lp \in [Call -> LoopState]
      /\ loop.at \in {"stream", "summarise"} => loop.asst = Len(msgs) + 1
      /\ Evolved(msgs') /\ UNCHANGED <<prep, msgOf>> /\ cutShort \subseteq cutShort'
  BY <1>1 DEF RunMoves, CutsCounted, LoopIndInv, TypeInv
<1>3. /\ Len(msgs) \in Nat /\ Len(msgs') \in Nat /\ Len(msgs) <= Len(msgs')
      /\ \A i \in 1..Len(msgs) : OldRow(i, msgs'[i])
      /\ \A i \in 1..Len(msgs') : i \in 1..Len(msgs) \/ NewRow(msgs'[i])
  BY <1>2, EvolvedKeepsRows
<1>5. \A i : Summarising(i) => lp[r].at = "summarise"
  <2>1. \A q \in Call : lp[q].at = "summarise" => Owns(q)
    BY DEF LoopIndInv, LoopPlace, Owns
  <2> QED
    BY <1>2, <2>1, WorksAlone DEF Summarising
<1>6. \A i \in 1..Len(msgs) : msgs'[i].tail = msgs[i].tail
  BY <1>3, <1>5 DEF OldRow
<1>7. \A i \in 1..Len(msgs) :
        /\ msgs'[i].summary = msgs[i].summary /\ msgs'[i].role = msgs[i].role
        /\ msgs'[i].parent = msgs[i].parent /\ msgs'[i].view = msgs[i].view
        /\ SameEnd(msgs[i], msgs'[i]) \/ Streaming(i)
        /\ Says(msgs'[i]) => Says(msgs[i]) \/ Streaming(i) \/ Held(i)
  BY <1>3 DEF OldRow, SameRow
<1>8. ASSUME NEW i \in 1..Len(msgs), Streaming(i) PROVE ~ IsCompletedSummary(msgs'[i])
  <2>1. i = lp[r].asst /\ lp[r].at = "stream"
    BY <1>2, <1>8, WorksAlone
  <2>2. ~ msgs[i].summary
    BY <2>1, AtFacts DEF Streams
  <2> QED
    BY <1>7, <2>2 DEF IsCompletedSummary
<1>9. ASSUME NEW i \in 1..Len(msgs), Streaming(i)' PROVE Streaming(i)
  <2>1. PICK q \in Call : lp'[q].at \in {"stream", "summarise"} /\ lp'[q].asst = i
    BY <1>9 DEF Streaming
  <2>2. q # r
    BY <1>2, <1>3, <2>1
  <2>3. lp'[q] = lp[q]
    BY <1>2, <2>2
  <2> QED
    BY <2>1, <2>3 DEF Streaming
<1>10. \A i \in 1..Len(msgs') :
         i \in 1..Len(msgs) \/ (msgs'[i].tail = 0 /\ ~ IsCompletedSummary(msgs'[i]))
  BY <1>3 DEF NewRow, IsCompletedSummary
<1>11. \A i : (Drawn(i)' => Drawn(i)) /\ (Held(i)' => Held(i))
  BY <1>2 DEF Drawn, Held
<1> QED
  <2>1. \A i \in 1..Len(msgs) :
          /\ IsAssistant(msgs'[i]) <=> IsAssistant(msgs[i])
          /\ msgs'[i].role # "none" => Live(i)
          /\ IsUser(msgs'[i]) => IsUser(msgs[i]) \/ Drawn(i)
    BY <1>7 DEF IsAssistant, IsUser, Live
  <2>2. \A i \in 1..Len(msgs) :
          /\ msgs'[i].summary = msgs[i].summary
          /\ msgs'[i].parent = msgs[i].parent /\ msgs'[i].view = msgs[i].view
          /\ \/ SameEnd(msgs[i], msgs'[i])
             \/ Streaming(i) /\ ~ IsCompletedSummary(msgs'[i])
    BY <1>7, <1>8
  <2> QED
    BY <1>2, <1>3, <1>6, <1>7, <1>9, <1>10, <1>11, <2>1, <2>2 DEF CutsKept

(* A run that neither reads nor begins a summary compacts no more after its step. *)
LEMMA IterationOver ==
  ASSUME LoopIndInv, NEW r \in Call, LoopStep(r), ~ LoopReturns(r), ~ LoopReads(r),
         ~ BeginSummary(r)
  PROVE  ~ Compacting(r)'
<1>0. lp \in [Call -> LoopState]
  BY DEF LoopIndInv, TypeInv
<1>1. \/ lp' = Leave(r) \/ lp' = NextStep(r)
      \/ lp' = [lp EXCEPT ![r].at = "stream", ![r].asst = Len(msgs) + 1]
  BY DEF LoopStep, LoopGivesUp, CannotBegin, BeginTurn, TurnContinues,
         TurnOverflows, TaskCutShort, TurnStructured, TurnFails, CompactNothing, SummaryFails,
         CompactionCutShort, SummaryEnds
<1>2. CASE lp' = Leave(r)
  <2>1. lp'[r].at = "return"
    BY <1>0, <1>2 DEF Leave, LoopStart
  <2> QED
    BY <2>1 DEF Compacting
<1>3. CASE lp' = NextStep(r)
  <2>1. lp'[r].at = "top"
    BY <1>0, <1>3 DEF NextStep, LoopStart
  <2> QED
    BY <2>1 DEF Compacting
<1>4. CASE lp' = [lp EXCEPT ![r].at = "stream", ![r].asst = Len(msgs) + 1]
  <2>1. lp'[r].at = "stream"
    BY <1>0, <1>4 DEF LoopState
  <2> QED
    BY <2>1 DEF Compacting
<1> QED
  BY <1>1, <1>2, <1>3, <1>4

(* Where no run's compaction moves, its head stays given. *)
LEMMA HeadsRest ==
  ASSUME LoopIndInv, NEW r \in Call, HeadGiven(r), lp' = lp, Len(msgs') = Len(msgs),
         \A i \in 1..Len(msgs) :
           /\ msgs'[i].role = msgs[i].role /\ msgs'[i].view = msgs[i].view
           /\ msgs'[i].err = msgs[i].err /\ (Covered(i) => Covered(i)')
  PROVE  HeadGiven(r)'
<1>1. Compacting(r)' = Compacting(r) /\ NewCut(r)' = NewCut(r)
  BY DEF Compacting, NewCut
<1>2. lp[r].at = "summarise" => lp[r].asst \in 1..Len(msgs)
  BY AtFacts DEF Streams
<1> QED
  BY <1>1, <1>2 DEF HeadGiven, IsUser

(* While a history is compacted no call is between drawing its message's id and
   storing its parts. *)
CompactionUndisturbed ==
  \A r \in Call : Compacting(r) => \A c \in Call : prep[c] \notin {"drawn", "stored"}

(* Storing a message.  Its id is older than no cut when it is drawn, and its row
   comes while nothing is compacted. *)
LEMMA StoresKeepGiven ==
  ASSUME LoopIndInv, GivenInv, CompactionUndisturbed, CompactionUndisturbed',
         NEW c \in Call, Stores(c)
  PROVE  GivenInv'
<1> DEFINE n == Len(msgs)
<1>0. /\ msgs \in Seq(Row) /\ n \in Nat /\ lp' = lp /\ CallRow(c)
      /\ prep \in [Call -> {"init", "drawn", "stored", "ready", "failed"}]
      /\ msgOf \in [Call -> 0..n]
      /\ \A i \in 1..n : RowOK(msgs[i], i, n)
  BY DEF LoopIndInv, TypeInv, RowsOK, Stores, DrawId, StoreMessage, StoreParts, StoreFails
<1>1. CutsAreGiven /\ TailsFollow /\ \A r \in Call : HeadGiven(r)
  BY DEF GivenInv
<1>s. \A i : Streaming(i)' = Streaming(i)
  BY <1>0 DEF Streaming
<1>c. cutShort' = cutShort
  BY DEF Stores, DrawId, StoreMessage, StoreParts, StoreFails
<1>2. ASSUME CutsKept PROVE GivenInv'
  <2>1. prep[c] \in {"drawn", "stored"} \/ prep'[c] = "drawn"
    BY <1>0 DEF Stores, DrawId, StoreMessage, StoreParts, StoreFails
  <2>2. \A r \in Call : ~ Compacting(r)'
    BY <1>0, <2>1 DEF CompactionUndisturbed, Compacting
  <2>3. \A r \in Call : HeadGiven(r)'
    BY <2>2 DEF HeadGiven
  <2> QED
    BY <1>1, <1>2, <2>3, CutsStay DEF GivenInv
<1>h. ASSUME NEW i \in 1..n, Held(i)',
             prep' \in {[prep EXCEPT ![c] = "stored"], [prep EXCEPT ![c] = "ready"],
                       [prep EXCEPT ![c] = "failed"]},
             prep[c] \in {"drawn", "stored"}, msgOf' = msgOf
      PROVE  Held(i)
  <2>1. PICK d \in Call : prep'[d] \in {"drawn", "stored"} /\ msgOf'[d] = i
    BY <1>h DEF Held
  <2>2. prep[d] \in {"drawn", "stored"}
    BY <1>0, <1>h, <2>1
  <2> QED
    BY <1>h, <2>1, <2>2 DEF Held
<1>3. CASE DrawId(c)
  <2>1. /\ msgs' = Append(msgs, Blank(n + 1))
        /\ prep' = [prep EXCEPT ![c] = "drawn"] /\ msgOf' = [msgOf EXCEPT ![c] = n + 1]
    BY <1>3 DEF DrawId
  <2>3. /\ Len(msgs') = n + 1 /\ \A i \in 1..n : msgs'[i] = msgs[i]
        /\ msgs'[n + 1] = Blank(n + 1)
    <3> DEFINE b == Blank(n + 1)
               big == Append(msgs, b)
    <3> HIDE DEF b
    <3>1. Len(big) = n + 1 /\ (\A i \in 1..n : big[i] = msgs[i]) /\ big[n + 1] = b
      BY <1>0
    <3> HIDE DEF big
    <3> QED
      BY <2>1, <3>1 DEF big, b
  <2>4. Blank(n + 1).tail = 0 /\ ~ IsCompletedSummary(Blank(n + 1))
    BY DEF Blank, IsCompletedSummary
  <2>5. \A i \in 1..n : (Drawn(i)' => Drawn(i)) /\ (Held(i)' => Held(i))
    <3>1. ASSUME NEW i \in 1..n, NEW d \in Call, msgOf'[d] = i
          PROVE  prep'[d] = prep[d] /\ msgOf[d] = i
      <4>1. d # c
        BY <1>0, <2>1, <3>1
      <4> QED
        BY <1>0, <2>1, <3>1, <4>1
    <3> QED
      BY <3>1 DEF Drawn, Held
  <2>6. CutsKept
    <3>1. Len(msgs') \in Nat /\ n <= Len(msgs')
      BY <1>0, <2>3
    <3>2. \A i \in 1..Len(msgs') : i \in 1..n \/ i = n + 1
      BY <1>0, <2>3
    <3> QED
      BY <1>c, <1>s, <2>3, <2>4, <2>5, <3>1, <3>2 DEF CutsKept, SameEnd, Live
  <2> QED
    BY <1>2, <2>6
<1>4. CASE StoreMessage(c)
  <2> DEFINE u == msgOf[c]
             m == User(u, "none")
  <2>1. /\ prep[c] = "drawn" /\ prep' = [prep EXCEPT ![c] = "stored"] /\ msgOf' = msgOf
        /\ msgs' = [msgs EXCEPT ![u] = m]
    BY <1>4 DEF StoreMessage
  <2>2. u \in 1..n /\ msgs[u] = Blank(u) /\ Drawn(u)
    BY <1>0, <2>1 DEF CallRow, RowOK, Drawn
  <2>4. /\ m.tail = msgs[u].tail /\ m.summary = msgs[u].summary
        /\ m.parent = msgs[u].parent /\ m.view = msgs[u].view
        /\ SameEnd(msgs[u], m) /\ ~ IsAssistant(msgs[u]) /\ ~ IsAssistant(m) /\ ~ Says(m)
    BY <2>2 DEF User, Blank, SameEnd, IsAssistant, IsUser, Says
  <2> HIDE DEF m, u
  <2>5. /\ Len(msgs') = n /\ msgs'[u] = m /\ \A i \in 1..n : i # u => msgs'[i] = msgs[i]
    BY <1>0, <2>1, <2>2
  <2>6. \A i \in 1..n : (Drawn(i)' => Drawn(i)) /\ (Held(i)' => Held(i))
    BY <1>0, <1>h, <2>1 DEF Drawn
  <2>7. ASSUME NEW i \in 1..n
        PROVE  /\ msgs'[i].tail = msgs[i].tail /\ msgs'[i].summary = msgs[i].summary
               /\ msgs'[i].parent = msgs[i].parent /\ msgs'[i].view = msgs[i].view
               /\ IsAssistant(msgs'[i]) <=> IsAssistant(msgs[i])
               /\ SameEnd(msgs[i], msgs'[i])
               /\ msgs'[i].role # "none" => Live(i)
               /\ IsUser(msgs'[i]) => IsUser(msgs[i]) \/ Drawn(i)
               /\ Says(msgs'[i]) => Says(msgs[i])
    <3>1. CASE i = u
      BY <2>2, <2>4, <2>5, <3>1 DEF Live
    <3>2. CASE i # u
      BY <2>5, <3>2 DEF SameEnd, Live
    <3> QED
      BY <3>1, <3>2
  <2>8. CutsKept
    BY <1>0, <1>c, <1>s, <2>5, <2>6, <2>7 DEF CutsKept
  <2> QED
    BY <1>2, <2>8
<1>5. CASE StoreParts(c)
  <2> DEFINE u == msgOf[c]
  <2>1. /\ prep[c] = "stored" /\ prep' = [prep EXCEPT ![c] = "ready"] /\ msgOf' = msgOf
        /\ \/ msgs' = [msgs EXCEPT ![u].parts = TRUE]
           \/ \E task \in {"manual", "auto"} : msgs' = [msgs EXCEPT ![u].comp = task]
    BY <1>5 DEF StoreParts
  <2>2. u \in 1..n /\ msgs[u] \in Row
    BY <1>0, <2>1 DEF CallRow
  <2>3. \A i \in 1..n : (Drawn(i)' => Drawn(i)) /\ (Held(i)' => Held(i))
    BY <1>0, <1>h, <2>1 DEF Drawn
  <2>h. Held(u)
    BY <2>1 DEF Held
  <2> HIDE DEF u
  <2>4. \E m : /\ msgs' = [msgs EXCEPT ![u] = m] /\ m.role = msgs[u].role
               /\ m.tail = msgs[u].tail /\ m.summary = msgs[u].summary
               /\ m.parent = msgs[u].parent /\ m.view = msgs[u].view
               /\ m.finish = msgs[u].finish /\ m.err = msgs[u].err
    <3>1. CASE msgs' = [msgs EXCEPT ![u].parts = TRUE]
      <4> DEFINE m == [msgs[u] EXCEPT !.parts = TRUE]
      <4>1. msgs' = [msgs EXCEPT ![u] = m]
        BY <3>1
      <4>2. /\ m.role = msgs[u].role
            /\ m.tail = msgs[u].tail /\ m.summary = msgs[u].summary
            /\ m.parent = msgs[u].parent /\ m.view = msgs[u].view
            /\ m.finish = msgs[u].finish /\ m.err = msgs[u].err
        BY <2>2 DEF Row
      <4> HIDE DEF m
      <4> QED
        BY <4>1, <4>2
    <3>2. ASSUME NEW task \in {"manual", "auto"}, msgs' = [msgs EXCEPT ![u].comp = task]
          PROVE  \E m : /\ msgs' = [msgs EXCEPT ![u] = m] /\ m.role = msgs[u].role
                        /\ m.tail = msgs[u].tail /\ m.summary = msgs[u].summary
                        /\ m.parent = msgs[u].parent /\ m.view = msgs[u].view
                        /\ m.finish = msgs[u].finish /\ m.err = msgs[u].err
      <4> DEFINE m == [msgs[u] EXCEPT !.comp = task]
      <4>1. msgs' = [msgs EXCEPT ![u] = m]
        BY <3>2
      <4>2. /\ m.role = msgs[u].role
            /\ m.tail = msgs[u].tail /\ m.summary = msgs[u].summary
            /\ m.parent = msgs[u].parent /\ m.view = msgs[u].view
            /\ m.finish = msgs[u].finish /\ m.err = msgs[u].err
        BY <2>2 DEF Row
      <4> HIDE DEF m
      <4> QED
        BY <4>1, <4>2
    <3> QED
      BY <2>1, <3>1, <3>2
  <2>5. PICK m : /\ msgs' = [msgs EXCEPT ![u] = m] /\ m.role = msgs[u].role
                 /\ m.tail = msgs[u].tail /\ m.summary = msgs[u].summary
                 /\ m.parent = msgs[u].parent /\ m.view = msgs[u].view
                 /\ m.finish = msgs[u].finish /\ m.err = msgs[u].err
    BY <2>4
  <2>6. /\ Len(msgs') = n /\ msgs'[u] = m /\ \A i \in 1..n : i # u => msgs'[i] = msgs[i]
    BY <1>0, <2>2, <2>5
  <2>7. \A i \in 1..n :
          /\ msgs'[i].role = msgs[i].role
          /\ msgs'[i].tail = msgs[i].tail /\ msgs'[i].summary = msgs[i].summary
          /\ msgs'[i].parent = msgs[i].parent /\ msgs'[i].view = msgs[i].view
          /\ msgs'[i].finish = msgs[i].finish /\ msgs'[i].err = msgs[i].err
    BY <2>5, <2>6
  <2>8. CutsKept
    <3>1. \A i \in 1..n :
            /\ IsAssistant(msgs'[i]) <=> IsAssistant(msgs[i])
            /\ SameEnd(msgs[i], msgs'[i])
            /\ msgs'[i].role # "none" => Live(i)
            /\ IsUser(msgs'[i]) => IsUser(msgs[i]) \/ Drawn(i)
      BY <2>7 DEF IsAssistant, IsUser, SameEnd, Live
    <3>2. \A i \in 1..n : Says(msgs'[i]) => Says(msgs[i]) \/ Held(i)
      BY <2>6, <2>h
    <3> QED
      BY <1>0, <1>c, <1>s, <2>3, <2>6, <2>7, <3>1, <3>2 DEF CutsKept
  <2> QED
    BY <1>2, <2>8
<1>6. CASE StoreFails(c)
  <2>1. /\ msgs' = msgs /\ msgOf' = msgOf /\ prep' = [prep EXCEPT ![c] = "failed"]
        /\ prep[c] \in {"drawn", "stored"}
    BY <1>6 DEF StoreFails
  <2>2. \A i \in 1..n : (Drawn(i)' => Drawn(i)) /\ (Held(i)' => Held(i))
    BY <1>0, <1>h, <2>1 DEF Drawn
  <2>3. CutsKept
    BY <1>0, <1>c, <1>s, <2>1, <2>2 DEF CutsKept, SameEnd, Live
  <2> QED
    BY <1>2, <2>3
<1> QED
  BY <1>3, <1>4, <1>5, <1>6 DEF Stores

(* A run at work on the history. *)
LEMMA RunsKeepGiven ==
  ASSUME LoopIndInv, GivenInv, CompactionUndisturbed, CompactionUndisturbed',
         NEW r \in Call, LoopStep(r), ~ LoopReturns(r)
  PROVE  GivenInv'
<1>1. CutsAreGiven /\ TailsFollow /\ HeadGiven(r)
  BY DEF GivenInv
<1>2. \E loop : RunMoves(r, loop)
  BY StepMoves DEF Moves
<1>3. /\ stage[r] = "working" /\ lp \in [Call -> LoopState]
      /\ \A q \in Call : q # r => lp'[q] = lp[q]
  BY <1>2 DEF RunMoves, LoopIndInv, TypeInv
<1>4. ASSUME NEW q \in Call, q # r PROVE HeadGiven(q)'
  <2>1. Compacting(q) => Owns(q)
    BY DEF LoopIndInv, LoopPlace, Compacting, Owns
  <2>2. ~ Compacting(q)
    BY <1>3, <1>4, <2>1, WorksAlone
  <2> QED
    BY <1>3, <1>4, <2>2 DEF HeadGiven, Compacting
<1>5. CASE lp[r].at = "summarise"
  <2>1. SummaryFails(r) \/ CompactionCutShort(r) \/ SummaryEnds(r)
    BY <1>5 DEF LoopStep, At, LoopGivesUp, LoopReads, CannotBegin, BeginTurn, TurnContinues,
           TurnOverflows, TaskCutShort, TurnStructured, TurnFails, CompactNothing, BeginSummary
  <2>2. \A c \in Call : prep[c] \notin {"drawn", "stored"}
    BY <1>5 DEF CompactionUndisturbed, Compacting
  <2>3. CutsAreGiven' /\ TailsFollow'
    BY <1>1, <2>1, <2>2, SummaryGives
  <2>4. ~ LoopReads(r) /\ ~ BeginSummary(r)
    BY <1>5 DEF LoopReads, BeginSummary, At
  <2>5. HeadGiven(r)'
    BY <2>4, IterationOver DEF HeadGiven
  <2> QED
    BY <1>4, <2>3, <2>5 DEF GivenInv
<1>6. CASE lp[r].at # "summarise"
  <2>2. CutsKept
    BY <1>6, StepsKeepCuts
  <2>3. /\ CutsAreGiven' /\ TailsFollow'
        /\ \A i \in 1..Len(msgs) : Covered(i) => Covered(i)'
    BY <1>1, <2>2, CutsStay
  <2>4. CASE LoopReads(r) /\ Compacting(r)'
    <3>1. \A c \in Call : prep'[c] \notin {"drawn", "stored"}
      BY <2>4 DEF CompactionUndisturbed
    <3> QED
      BY <1>1, <1>4, <2>3, <2>4, <3>1, ReadsHead DEF GivenInv
  <2>5. CASE BeginSummary(r)
    BY <1>1, <1>4, <2>3, <2>5, BeginsHead DEF GivenInv
  <2>6. CASE ~ (LoopReads(r) /\ Compacting(r)') /\ ~ BeginSummary(r)
    <3>1. HeadGiven(r)'
      BY <2>6, IterationOver DEF HeadGiven
    <3> QED
      BY <1>4, <2>3, <3>1 DEF GivenInv
  <2> QED
    BY <2>4, <2>5, <2>6
<1> QED
  BY <1>5, <1>6

LEMMA GivenStepInv ==
  LoopIndInv /\ GivenInv /\ CompactionUndisturbed /\ CompactionUndisturbed' /\ [Next]_vars
    => GivenInv'
<1> SUFFICES ASSUME LoopIndInv, GivenInv, CompactionUndisturbed, CompactionUndisturbed',
                    [Next]_vars
             PROVE  GivenInv'
  OBVIOUS
<1>1. ASSUME NEW c \in Call, Stores(c) PROVE GivenInv'
  BY <1>1, StoresKeepGiven
<1>2. ASSUME NEW r \in Call, LoopStep(r), ~ LoopReturns(r) PROVE GivenInv'
  BY <1>2, RunsKeepGiven
<1>3. CASE \/ \E c \in Call : EnterLoop(c)
           \/ \E r \in Call : LoopReturns(r)
           \/ LockStep \/ AllOver \/ UNCHANGED vars
  <2>1. UNCHANGED <<msgs, lp, prep, msgOf, cutShort>>
    BY <1>3 DEF EnterLoop, LockStep, LoopReturns, AllOver, vars, loopVars
  <2>3. CutsKept
    BY <2>1, RowsRest
  <2>4. /\ CutsAreGiven' /\ TailsFollow'
        /\ \A i \in 1..Len(msgs) : Covered(i) => Covered(i)'
    BY <2>3, CutsStay DEF GivenInv
  <2>5. \A r \in Call : HeadGiven(r)'
    BY <2>1, <2>4, HeadsRest DEF GivenInv
  <2> QED
    BY <2>4, <2>5 DEF GivenInv
<1> QED
  BY <1>1, <1>2, <1>3 DEF Next, Stores

(* The history a session starts with was never compacted. *)
LEMMA GivenInitInv == Init => GivenInv
<1> SUFFICES ASSUME Init PROVE GivenInv
  OBVIOUS
<1>1. msgs = PriorHistory /\ lp = [r \in Call |-> LoopStart]
  BY DEF Init
<1>2. Len(msgs) = 2 * Prior
  <2> DEFINE k == 2 * Prior
  <2>1. k \in Nat
    BY AgentLoopAssumption
  <2>2. DOMAIN msgs = 1..k
    BY <1>1 DEF PriorHistory
  <2>3. msgs \in Seq(Row)
    BY LoopInitInv DEF LoopIndInv, TypeInv
  <2> HIDE DEF k
  <2>4. Len(msgs) = k
    BY <2>1, <2>2, <2>3
  <2> QED
    BY <2>4 DEF k
<1>3. \A i \in 1..Len(msgs) : ~msgs[i].summary /\ msgs[i].tail = 0
  BY <1>1, <1>2, PriorRow
<1>4. \A t \in 1..Len(msgs) : ~ Cuts(t)
  BY <1>3 DEF Cuts, HasSummary, IsCompletedSummary
<1>5. \A r \in Call : ~ Compacting(r)
  BY <1>1 DEF LoopStart, Compacting
<1> QED
  BY <1>3, <1>4, <1>5 DEF GivenInv, CutsAreGiven, TailsFollow, HeadGiven

(* A stored row the loop is not shown is older than a cut, so it was given. *)
LEMMA HiddenIsGiven == LoopIndInv /\ GivenInv => HiddenWasSummarised
<1> SUFFICES ASSUME LoopIndInv, GivenInv PROVE HiddenWasSummarised
  OBVIOUS
<1> DEFINE f == Filtered
<1>1. /\ TypeInv /\ DOMAIN msgs = 1..Len(msgs) /\ Len(msgs) \in Nat
      /\ \A i \in 1..Len(msgs) : msgs[i].id = i
  <2>1. TypeInv
    BY DEF LoopIndInv
  <2>2. msgs \in Seq(Row) /\ \A i \in 1..Len(msgs) : msgs[i].id = i
    BY <2>1 DEF TypeInv, RowsOK, RowOK
  <2> QED
    BY <2>1, <2>2
<1>2. f \in Seq(Row) /\ DOMAIN f = 1..Len(f)
  BY <1>1, FilteredRows
<1>3. \A i \in 1..Len(msgs) :
        msgs[i].role # "none" /\ (\A k \in 1..Len(f) : f[k] # msgs[i])
          => \E t \in 1..Len(msgs) : Cuts(t) /\ i < CutOf(t)
  BY <1>1, HiddenIsCut
<1> DEFINE visible == {f[k].id : k \in DOMAIN f}
<1> SUFFICES ASSUME NEW i \in DOMAIN msgs, msgs[i].role # "none", Says(msgs[i]),
                    i \notin visible
             PROVE  \/ \E t \in cutShort : i < t
                    \/ \E j \in DOMAIN msgs :
                         j > i /\ IsCompletedSummary(msgs[j]) /\ i \in msgs[j].view
  BY DEF HiddenWasSummarised
<1> HIDE DEF f
<1>4. \A k \in 1..Len(f) : f[k] # msgs[i]
  BY <1>1, <1>2
<1>5. Covered(i)
  BY <1>1, <1>3, <1>4 DEF GivenInv, CutsAreGiven, Live
<1>6. Excused(i) \/ Given(i)
  BY <1>5 DEF Covered, Silent
<1> QED
  BY <1>1, <1>6 DEF Excused, Given

(* compaction.go and message/compaction.go: as long as no call stores a message
   while a history is compacted, everything that FilterCompacted hides and that
   says anything was given to a summary that is done and without an error, also
   when compactions follow each other and whatever aborts there are.  Excepted is
   what comes before a task whose compaction lost a write. *)
THEOREM HiddenOnlyIfSummarised ==
  Spec /\ []CompactionUndisturbed => []HiddenWasSummarised
<1>1. Init => GivenInv
  BY GivenInitInv
<1>2. LoopIndInv /\ GivenInv /\ CompactionUndisturbed /\ CompactionUndisturbed' /\ [Next]_vars
        => GivenInv'
  BY GivenStepInv
<1>3. LoopIndInv /\ GivenInv => HiddenWasSummarised
  BY HiddenIsGiven
<1> QED
  BY <1>1, <1>2, <1>3, LoopInvariant, PTL DEF Spec

(* A call enters the lock once its message is stored. *)
EnteredReady == \A c \in Call : pc[c] # "new" => prep[c] = "ready"

LEMMA EnteredReadyStep == LoopIndInv /\ EnteredReady /\ [Next]_vars => EnteredReady'
<1> SUFFICES ASSUME LoopIndInv, EnteredReady, [Next]_vars PROVE EnteredReady'
  OBVIOUS
<1>0. /\ RSTypeOK /\ StageFollowsCall
      /\ prep \in [Call -> {"init", "drawn", "stored", "ready", "failed"}]
  BY DEF LoopIndInv, RSInv, TypeInv
<1>1. ASSUME NEW c \in Call, Stores(c) PROVE EnteredReady'
  <2>1. prep[c] # "ready" /\ UNCHANGED rsVars
    BY <1>1 DEF Stores, DrawId, StoreMessage, StoreParts, StoreFails
  <2>2. \A d \in Call : d # c => prep'[d] = prep[d]
    BY <1>0, <1>1 DEF Stores, DrawId, StoreMessage, StoreParts, StoreFails
  <2> QED
    BY <2>1, <2>2 DEF EnteredReady, rsVars
<1>2. ASSUME NEW c \in Call, EnterLoop(c) PROVE EnteredReady'
  <2>1. /\ prep[c] = "ready" /\ UNCHANGED prep
        /\ \A d \in Call : d # c => pc'[d] = pc[d]
    BY <1>0, <1>2 DEF EnterLoop, Join, Claim, RSTypeOK
  <2> QED
    BY <2>1 DEF EnteredReady
<1>3. ASSUME NEW r \in Call, LoopStep(r) PROVE EnteredReady'
  <2>1. CASE LoopReturns(r)
    BY <2>1 DEF LoopReturns, WorkReturns, loopVars, EnteredReady
  <2>2. CASE ~ LoopReturns(r)
    <3>1. UNCHANGED <<rsVars, prep>>
      BY <1>3, <2>2, StepMoves DEF Moves, RunMoves
    <3> QED
      BY <3>1 DEF EnteredReady, rsVars
  <2> QED
    BY <2>1, <2>2
<1>4. CASE LockStep
  <2>1. UNCHANGED prep
    BY <1>4 DEF LockStep, loopVars
  <2>2. \A c \in Call : pc'[c] # "new" => pc[c] # "new"
    <3>1. ASSUME NEW c \in Call, OnBusy(c) \/ Return(c)
          PROVE  pc[c] # "new" /\ \A d \in Call : d # c => pc'[d] = pc[d]
      BY <1>0, <3>1 DEF OnBusy, Return, RSTypeOK
    <3>2. ASSUME NEW r \in Call, ClearSlot(r) \/ OnIdle(r) \/ CloseDone(r) \/ CancelFire(r)
          PROVE  UNCHANGED pc
      BY <3>2 DEF ClearSlot, OnIdle, CloseDone, CancelFire
    <3>3. ASSUME NEW s \in Session, CancelLookup(s) PROVE UNCHANGED pc
      BY <3>3 DEF CancelLookup
    <3> QED
      BY <1>4, <3>1, <3>2, <3>3 DEF LockStep
  <2> QED
    BY <2>1, <2>2 DEF EnteredReady
<1>5. CASE AllOver \/ UNCHANGED vars
  BY <1>5 DEF AllOver, vars, rsVars, loopVars, EnteredReady
<1> QED
  BY <1>1, <1>2, <1>3, <1>4, <1>5 DEF Next, Stores

(* compaction.go: a session that one call works on alone only ever hides what was
   given to a summary, but for what comes before a task whose compaction lost a
   write, however long its history is, however its turns and its summaries end,
   whenever it is aborted and however often it is compacted. *)
THEOREM LoneRunHidesNothing ==
  ASSUME \A c, d \in Call : c = d
  PROVE  Spec => []HiddenWasSummarised
<1>1. Init => EnteredReady
  BY DEF Init, RSInit, EnteredReady
<1>2. LoopIndInv /\ EnteredReady /\ [Next]_vars => EnteredReady'
  BY EnteredReadyStep
<1>3. LoopIndInv /\ EnteredReady => CompactionUndisturbed
  <2> SUFFICES ASSUME LoopIndInv, EnteredReady, NEW r \in Call, Compacting(r)
               PROVE  \A c \in Call : prep[c] \notin {"drawn", "stored"}
    BY DEF CompactionUndisturbed
  <2>1. stage[r] = "working"
    BY DEF Compacting, LoopIndInv, LoopPlace
  <2>2. pc[r] # "new"
    BY <2>1 DEF LoopIndInv, RSInv, StageFollowsCall
  <2> QED
    BY <2>2 DEF EnteredReady
<1> QED
  BY <1>1, <1>2, <1>3, HiddenOnlyIfSummarised, LoopInvariant, PTL DEF Spec
=============================================================================
