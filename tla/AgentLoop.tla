----------------------------- MODULE AgentLoop ------------------------------
(***************************************************************************)
(* internal/engine: Prompt, Summarize and the agent loop, on top of the    *)
(* run lock.  One session.                                                 *)
(*                                                                         *)
(* A Call stores its user message (id, then the message row, then its      *)
(* parts) and only then enters EnsureRunning.  The run it starts or joins  *)
(* repeats: read the history, decide, stream one assistant turn.           *)
(*                                                                         *)
(* msgs[i] is the message with the i-th id of id.Ascending; role "none"    *)
(* marks an id that was drawn and whose row is not stored yet.  What the   *)
(* model does in a turn is a nondeterministic outcome, processor.Run is    *)
(* its own component.                                                      *)
(***************************************************************************)
EXTENDS RunState, History

CONSTANTS
  MaxSteps,   \* Config.MaxSteps: iterations of one run
  Kinds,      \* what the calls may ask for: subset of {"prompt", "summarize"}
  Outcomes,   \* how turns may end: subset of {"overflow", "structured", "fail"}
              \* next to finishing, which they always may
  Finishes,   \* finish reasons turns end with: subset of
              \* {NoFinish, "tool-calls", "stop"}
  Prior,      \* answered prompts already in the session's history
  Interrupts  \* the runs an abort may hit

ASSUME AgentLoopAssumption ==
  /\ \E s \in Session : Session = {s}
  /\ MaxSteps \in Nat \ {0} /\ Prior \in Nat
  /\ Kinds \subseteq {"prompt", "summarize"}
  /\ Outcomes \subseteq {"overflow", "structured", "fail"}
  /\ Finishes \subseteq {NoFinish, "tool-calls", "stop"}
  /\ Interrupts \subseteq Call

VARIABLES
  msgs,      \* the session's message rows in id order
  kind,      \* kind[c]: prompt | summarize
  prep,      \* prep[c]: init | drawn | stored | ready, or failed on the way
  msgOf,     \* msgOf[c]: the id of the call's user message, 0 before
  lp,        \* lp[r]: the loop of run r
  fresh,     \* calls that started a run with the newest message of the history
  troubled,  \* runs that met an error, an interrupt or the step limit
  cutShort   \* tasks that hide history although a write of their summary was lost

loopVars == <<msgs, kind, prep, msgOf, lp, fresh, troubled, cutShort>>
vars == <<rsVars, loopVars>>

Finish == {NoFinish, "tool-calls", "stop", "error"}

(* The loop's local state: where it is, its step, the user message it answers,
   the assistant message it streams, the ids the model is shown and the tail a
   compaction would keep. *)
LoopStart == [at |-> "top", step |-> 0, user |-> 0, asst |-> 0,
              view |-> {}, tail |-> 0]

Blank(i) == [id |-> i, role |-> "none", parts |-> FALSE, comp |-> "none",
             tail |-> 0, finish |-> NoFinish, err |-> FALSE, summary |-> FALSE,
             parent |-> 0, view |-> {}]

LoopTypeOK ==
  /\ \A i \in DOMAIN msgs :
       /\ msgs[i].id = i
       /\ msgs[i].role \in {"none", "user", "assistant"}
       /\ msgs[i].comp \in {"none", "manual", "auto"}
       /\ msgs[i].finish \in Finish
       /\ msgs[i].tail \in 0..Len(msgs) /\ msgs[i].parent \in 0..Len(msgs)
       /\ msgs[i].view \subseteq 1..Len(msgs)
  /\ kind \in [Call -> Kinds]
  /\ prep \in [Call -> {"init", "drawn", "stored", "ready", "failed"}]
  /\ msgOf \in [Call -> 0..Len(msgs)]
  /\ \A r \in Call :
       /\ lp[r].at \in {"top", "turn", "stream", "clear", "compact", "summarise", "return"}
       /\ lp[r].step \in 0..MaxSteps
  /\ fresh \subseteq Call
  /\ troubled \subseteq Call
  /\ cutShort \subseteq 1..Len(msgs)

(* A session that was used before: Prior prompts, each with its answer. *)
PriorHistory ==
  [i \in 1..(2 * Prior) |->
     IF i % 2 = 1
     THEN [Blank(i) EXCEPT !.role = "user", !.parts = TRUE]
     ELSE [Blank(i) EXCEPT !.role = "assistant", !.finish = "stop",
                           !.parent = i - 1, !.view = 1..(i - 1)]]

Init ==
  /\ RSInit
  /\ msgs = PriorHistory
  /\ kind \in [Call -> Kinds]
  /\ prep = [c \in Call |-> "init"]
  /\ msgOf = [c \in Call |-> 0]
  /\ lp = [r \in Call |-> LoopStart]
  /\ fresh = {}
  /\ troubled = {}
  /\ cutShort = {}

-----------------------------------------------------------------------------
(* The store.  Rows are read newest first in (time_created, id) order; ids
   stand for both. *)
StoredNewestFirst ==
  LET newest[n \in 0..Len(msgs)] ==
        IF n = 0 THEN << >>
        ELSE IF msgs[n].role = "none" THEN newest[n - 1]
        ELSE <<msgs[n]>> \o newest[n - 1]
  IN  newest[Len(msgs)]

User(i, c) == [Blank(i) EXCEPT !.role = "user", !.comp = c]

Assistant(i, parent, view, isSummary) ==
  [Blank(i) EXCEPT !.role = "assistant", !.parent = parent, !.view = view,
                   !.summary = isSummary]

(* ToModelMessages: what a message says to the model.  A user's says its parts, an
   assistant's what it streamed unless it carries an error (that of an abort never
   reaches the store). *)
Says(m) == IF IsUser(m) THEN m.parts \/ m.comp # "none" ELSE ~m.err

(* The ids the model is shown by a list of messages. *)
Shown(list) == {list[i].id : i \in {j \in DOMAIN list : Says(list[j])}}

(* What may reach the store of a finish reason: the processor drops the errors of
   its writes. *)
Stored(finishes) == IF "fail" \in Outcomes THEN finishes \cup {NoFinish} ELSE finishes

-----------------------------------------------------------------------------
(* Prompt / createCompaction for Summarize: draw the id ... *)
DrawId(c) ==
  /\ prep[c] = "init"
  /\ prep' = [prep EXCEPT ![c] = "drawn"]
  /\ msgs' = Append(msgs, Blank(Len(msgs) + 1))
  /\ msgOf' = [msgOf EXCEPT ![c] = Len(msgs) + 1]
  /\ UNCHANGED <<rsVars, kind, lp, fresh, troubled, cutShort>>

(* ... store the message row (PutMessage), still without parts ... *)
StoreMessage(c) ==
  /\ prep[c] = "drawn"
  /\ prep' = [prep EXCEPT ![c] = "stored"]
  /\ msgs' = [msgs EXCEPT ![msgOf[c]] = User(msgOf[c], "none")]
  /\ UNCHANGED <<rsVars, kind, msgOf, lp, fresh, troubled, cutShort>>

(* ... store its parts (PutPart): the prompt's text, or the compaction task with
   the auto flag of the request. *)
StoreParts(c) ==
  /\ prep[c] = "stored"
  /\ prep' = [prep EXCEPT ![c] = "ready"]
  /\ \/ /\ kind[c] = "prompt"
        /\ msgs' = [msgs EXCEPT ![msgOf[c]].parts = TRUE]
     \/ /\ kind[c] = "summarize"
        /\ \E task \in {"manual", "auto"} :
             msgs' = [msgs EXCEPT ![msgOf[c]].comp = task]
  /\ UNCHANGED <<rsVars, kind, msgOf, lp, fresh, troubled, cutShort>>

(* PutMessage or PutPart fails (the client's context ended): the call returns
   the error, what it stored so far stays and no run is entered. *)
StoreFails(c) ==
  /\ "fail" \in Outcomes
  /\ prep[c] \in {"drawn", "stored"}
  /\ prep' = [prep EXCEPT ![c] = "failed"]
  /\ UNCHANGED <<rsVars, msgs, kind, msgOf, lp, fresh, troubled, cutShort>>

(* Loop: only now does the call enter EnsureRunning. *)
EnterLoop(c) ==
  /\ prep[c] = "ready"
  /\ \/ Join(c) /\ UNCHANGED fresh
     \/ /\ Claim(c)
        /\ fresh' = IF \A i \in DOMAIN msgs : msgs[i].role # "none" => i <= msgOf[c]
                    THEN fresh \cup {c} ELSE fresh
  /\ UNCHANGED <<msgs, kind, prep, msgOf, lp, troubled, cutShort>>

-----------------------------------------------------------------------------
At(r, where) == stage[r] = "working" /\ lp[r].at = where

(* The iteration is over: the locals go out of scope. *)
Leave(r) == [lp EXCEPT ![r] = [LoopStart EXCEPT !.at = "return",
                                                !.step = lp[r].step]]

NextStep(r) == [lp EXCEPT ![r] = [LoopStart EXCEPT !.step = lp[r].step + 1]]

(* The history one iteration works on. *)
Filtered == FilterCompacted(StoredNewestFirst)

\* mutant: any finished answer ends the loop, also one to an older prompt
ShouldExitAnyAnswer(filtered) ==
  LET a == LatestAssistant(filtered)
  IN  a # 0 /\ msgs[a].finish \notin {NoFinish, "tool-calls"}

(* shouldExit: a finished answer newer than the newest user message. *)
ShouldExit(filtered) ==
  LET u == LatestUser(filtered)
      a == LatestAssistant(filtered)
  IN  /\ a # 0 /\ msgs[a].finish \notin {NoFinish, "tool-calls"}
      /\ u < a

\* mutant: the step limit is not an exit
MustGiveUpOnAbort(r) == r \in cancelled

(* The step limit or an interrupt ends the loop before an iteration ... *)
MustGiveUp(r) == lp[r].step = MaxSteps \/ r \in cancelled

(* ... and without either the loop goes on. *)
MayRead(r) == lp[r].step < MaxSteps /\ r \notin cancelled

(* Top of the loop: the step limit or an interrupt, both trouble.
   prune only marks old tool outputs, which no message here carries. *)
LoopGivesUp(r) ==
  /\ At(r, "top") /\ MustGiveUp(r)
  /\ lp' = Leave(r)
  /\ troubled' = troubled \cup {r}
  /\ UNCHANGED <<rsVars, msgs, kind, prep, msgOf, fresh, cutShort>>

(* Top of the loop: read the history and decide.  Nothing to answer, or the
   newest prompt is answered: leave.  The newest user message is an open
   compaction task: compact what comes before it, or clear the task when nothing
   does.  Otherwise stream a turn. *)
Decide(loop, f) ==
  LET u == LatestUser(f)
      history == Before(f, u)
      t == SelectTail(history, DefaultTailTurns)
      head == IF t = 0 THEN history ELSE SubSeq(history, 1, t - 1)
  IN  CASE u = 0 -> [loop EXCEPT !.at = "return"]
        [] u # 0 /\ PendingCompaction(f, u) /\ history = << >> ->
             [loop EXCEPT !.at = "clear", !.user = u]
        [] u # 0 /\ PendingCompaction(f, u) /\ history # << >> ->
             [loop EXCEPT !.at = "compact", !.user = u, !.view = Shown(head),
                          !.tail = IF t = 0 THEN 0 ELSE history[t].id]
        [] u # 0 /\ ~PendingCompaction(f, u) /\ ShouldExit(f) ->
             [loop EXCEPT !.at = "return"]
        [] OTHER -> [loop EXCEPT !.at = "turn", !.user = u, !.view = Shown(f)]

\* mutant: the step limit is not tested before the next iteration
LoopReadsOnce(r) ==
  /\ At(r, "top") /\ r \notin cancelled
  /\ \E f \in {Filtered} : lp' = [lp EXCEPT ![r] = Decide(@, f)]
  /\ UNCHANGED <<rsVars, msgs, kind, prep, msgOf, fresh, troubled, cutShort>>

LoopReads(r) ==
  /\ At(r, "top") /\ MayRead(r)
  /\ \E f \in {Filtered} : lp' = [lp EXCEPT ![r] = Decide(@, f)]
  /\ UNCHANGED <<rsVars, msgs, kind, prep, msgOf, fresh, troubled, cutShort>>

(* Stream, Providers or PutMessage fails or refuses the cancelled context. *)
CannotBegin(r) ==
  /\ (At(r, "top") /\ MayRead(r)) \/ At(r, "turn") \/ At(r, "compact")
  /\ r \in cancelled \/ "fail" \in Outcomes
  /\ lp' = Leave(r)
  /\ troubled' = troubled \cup {r}
  /\ UNCHANGED <<rsVars, msgs, kind, prep, msgOf, fresh, cutShort>>

\* mutant: the row is written although the run was interrupted
BeginTurnDetached(r) ==
  /\ At(r, "turn")
  /\ LET a == Len(msgs) + 1 IN
       /\ msgs' = Append(msgs, Assistant(a, lp[r].user, lp[r].view, FALSE))
       /\ lp' = [lp EXCEPT ![r].at = "stream", ![r].asst = a]
  /\ UNCHANGED <<rsVars, kind, prep, msgOf, fresh, troubled, cutShort>>

(* newAssistant draws the id now, after the history was read, and stores it. *)
BeginTurn(r) ==
  /\ At(r, "turn") /\ r \notin cancelled
  /\ LET a == Len(msgs) + 1 IN
       /\ msgs' = Append(msgs, Assistant(a, lp[r].user, lp[r].view, FALSE))
       /\ lp' = [lp EXCEPT ![r].at = "stream", ![r].asst = a]
  /\ UNCHANGED <<rsVars, kind, prep, msgOf, fresh, troubled, cutShort>>

(* processor.Run ends with OutcomeContinue and whatever finish it met. *)
TurnContinues(r) ==
  /\ At(r, "stream") /\ r \notin cancelled
  /\ \E f \in Stored(Finishes) :
       msgs' = [msgs EXCEPT ![lp[r].asst].finish = f]
  /\ lp' = NextStep(r)
  /\ UNCHANGED <<rsVars, kind, prep, msgOf, fresh, troubled, cutShort>>

(* OutcomeCompact, which goes before a provider error: the context overflowed,
   createCompaction queues a task. *)
TurnOverflows(r) ==
  /\ "overflow" \in Outcomes
  /\ At(r, "stream") /\ r \notin cancelled
  /\ \E f \in Stored(Finishes), failed \in BOOLEAN :
       /\ failed => "fail" \in Outcomes
       /\ msgs' = Append([msgs EXCEPT ![lp[r].asst].finish = f,
                                      ![lp[r].asst].err = failed],
                         User(Len(msgs) + 1, "auto"))
  /\ lp' = NextStep(r)
  /\ UNCHANGED <<rsVars, kind, prep, msgOf, fresh, troubled, cutShort>>

(* The same, but createCompaction stores the message and fails on its part: the
   task is an empty user message and the run ends with the error. *)
TaskCutShort(r) ==
  /\ {"overflow", "fail"} \subseteq Outcomes
  /\ At(r, "stream") /\ r \notin cancelled
  /\ \E f \in Stored(Finishes) :
       msgs' = Append([msgs EXCEPT ![lp[r].asst].finish = f],
                      User(Len(msgs) + 1, "none"))
  /\ lp' = Leave(r)
  /\ troubled' = troubled \cup {r}
  /\ UNCHANGED <<rsVars, kind, prep, msgOf, fresh, cutShort>>

(* A structured turn that captured its answer is recorded as a normal stop,
   unless the write is lost (finishStructured drops the error). *)
TurnStructured(r) ==
  /\ "structured" \in Outcomes
  /\ At(r, "stream") /\ r \notin cancelled
  /\ \/ /\ msgs' = [msgs EXCEPT ![lp[r].asst].finish = "stop"]
        /\ UNCHANGED troubled
     \/ /\ "fail" \in Outcomes
        /\ \E f \in Stored(Finishes) : msgs' = [msgs EXCEPT ![lp[r].asst].finish = f]
        /\ troubled' = troubled \cup {r}
  /\ lp' = Leave(r)
  /\ UNCHANGED <<rsVars, kind, prep, msgOf, fresh, cutShort>>

(* provider.Stream or the turn fails (failAssistant, OutcomeStop), a structured
   turn finished without its tool (failStructured), or the run was interrupted:
   after a cancel the final row is not stored, what was stored before stays. *)
TurnFails(r) ==
  /\ At(r, "stream")
  /\ r \in cancelled \/ "fail" \in Outcomes
  /\ \E f \in Finishes \cup {NoFinish}, failed \in BOOLEAN :
       /\ r \in cancelled => ~failed
       /\ msgs' = [msgs EXCEPT ![lp[r].asst].finish = f,
                               ![lp[r].asst].err = failed]
  /\ lp' = Leave(r)
  /\ troubled' = troubled \cup {r}
  /\ UNCHANGED <<rsVars, kind, prep, msgOf, fresh, cutShort>>

-----------------------------------------------------------------------------
(* processCompaction with no history at all: the task is deleted, unless the store
   refuses (the error is dropped). *)
CompactNothing(r) ==
  /\ At(r, "clear")
  /\ \/ msgs' = [msgs EXCEPT ![lp[r].user].comp = "none"] /\ r \notin cancelled
     \/ UNCHANGED msgs /\ (r \in cancelled \/ "fail" \in Outcomes)
  /\ lp' = NextStep(r)
  /\ UNCHANGED <<rsVars, kind, prep, msgOf, fresh, troubled, cutShort>>

(* The summary message is stored and its turn started. *)
BeginSummary(r) ==
  /\ At(r, "compact") /\ r \notin cancelled
  /\ LET a == Len(msgs) + 1 IN
       /\ msgs' = Append(msgs, Assistant(a, lp[r].user, lp[r].view, TRUE))
       /\ lp' = [lp EXCEPT ![r].at = "summarise", ![r].asst = a]
  /\ UNCHANGED <<rsVars, kind, prep, msgOf, fresh, troubled, cutShort>>

(* The task hides what comes before it if and only if its summary is stored as
   done or its tail is; it is cut short when it hides without both. *)
CountCutShort(r, isCut) ==
  cutShort' = IF isCut THEN cutShort \cup {lp[r].user} ELSE cutShort

(* The summary turn failed or overflowed itself (finish error), or was
   interrupted.  The writes of its row may be lost, after a cancel they are: then a
   finish stored before passes for a done summary, without its tail. *)
SummaryFails(r) ==
  /\ At(r, "summarise")
  /\ r \in cancelled \/ "fail" \in Outcomes
  /\ \E f \in (Finishes \ {"tool-calls"}) \cup {NoFinish, "error"}, failed \in BOOLEAN :
       /\ r \in cancelled => ~failed
       /\ f = "error" => failed
       /\ msgs' = [msgs EXCEPT ![lp[r].asst].finish = f, ![lp[r].asst].err = failed]
       /\ CountCutShort(r, f # NoFinish /\ ~failed)
  /\ lp' = Leave(r)
  /\ troubled' = troubled \cup {r}
  /\ UNCHANGED <<rsVars, kind, prep, msgOf, fresh>>

(* The rows of a compaction once its summary is done: with or without its tail. *)
Summarised(r, f, tail) ==
  [msgs EXCEPT ![lp[r].asst].finish = f,
               ![lp[r].user].tail = IF tail = 0 THEN @ ELSE tail]

(* The summary is done, but the tail anchor, or the synthetic prompt or its part,
   cannot be written: the run ends with what was stored so far. *)
CompactionCutShort(r) ==
  /\ At(r, "summarise")
  /\ \E f \in Stored(Finishes \ {"tool-calls"}) :
       \/ /\ lp[r].tail # 0 /\ (r \in cancelled \/ "fail" \in Outcomes)
          /\ msgs' = Summarised(r, f, 0)
          /\ CountCutShort(r, f # NoFinish)
       \/ /\ msgs[lp[r].user].comp = "auto"
          /\ \/ /\ r \in cancelled \/ "fail" \in Outcomes
                /\ msgs' = Summarised(r, f, lp[r].tail)
             \/ /\ r \notin cancelled /\ "fail" \in Outcomes
                /\ msgs' = Append(Summarised(r, f, lp[r].tail), User(Len(msgs) + 1, "none"))
          /\ CountCutShort(r, f = NoFinish /\ lp[r].tail # 0)
  /\ lp' = Leave(r)
  /\ troubled' = troubled \cup {r}
  /\ UNCHANGED <<rsVars, kind, prep, msgOf, fresh>>

\* mutant: the next iteration works on the history read before the compaction
SummaryEndsStale(r) ==
  /\ At(r, "summarise") /\ r \notin cancelled
  /\ \E f \in Finishes \ {"tool-calls"} : msgs' = [msgs EXCEPT ![lp[r].asst].finish = f]
  /\ lp' = [lp EXCEPT ![r].at = IF lp[r].step + 1 < MaxSteps THEN "compact" ELSE "return",
                     ![r].step = @ + 1]
  /\ UNCHANGED <<rsVars, kind, prep, msgOf, fresh, troubled, cutShort>>

(* The summary is done: record the tail, announce session.compacted and, for
   an automatic task, add the synthetic prompt unless a plugin says no. *)
SummaryEnds(r) ==
  /\ At(r, "summarise") /\ r \notin cancelled
  /\ \E f \in Stored(Finishes \ {"tool-calls"}), resume \in BOOLEAN :
       /\ msgs' = IF msgs[lp[r].user].comp = "auto" /\ resume
                  THEN Append(Summarised(r, f, lp[r].tail),
                              [User(Len(msgs) + 1, "none") EXCEPT !.parts = TRUE])
                  ELSE Summarised(r, f, lp[r].tail)
       /\ CountCutShort(r, f = NoFinish /\ lp[r].tail # 0)
  /\ lp' = NextStep(r)
  /\ UNCHANGED <<rsVars, kind, prep, msgOf, fresh, troubled>>

LoopReturns(r) == At(r, "return") /\ WorkReturns(r) /\ UNCHANGED loopVars

LoopStep(r) ==
  \/ LoopGivesUp(r) \/ LoopReads(r)
  \/ CannotBegin(r) \/ BeginTurn(r)
  \/ TurnContinues(r) \/ TurnOverflows(r) \/ TaskCutShort(r)
  \/ TurnStructured(r) \/ TurnFails(r)
  \/ CompactNothing(r) \/ BeginSummary(r) \/ SummaryFails(r)
  \/ CompactionCutShort(r) \/ SummaryEnds(r)
  \/ LoopReturns(r)

LockStep ==
  /\ \/ \E c \in Call : OnBusy(c) \/ Return(c)
     \/ \E r \in Call : ClearSlot(r) \/ OnIdle(r) \/ CloseDone(r) \/ CancelFire(r)
     \/ \E s \in Session : active[s] \in Interrupts /\ CancelLookup(s)
  /\ UNCHANGED loopVars

(* Every call has been made and is over: the instance rests. *)
AllOver ==
  /\ \A c \in Call : prep[c] = "failed" \/ pc[c] = "returned"
  /\ UNCHANGED vars

Next ==
  \/ \E c \in Call : \/ DrawId(c) \/ StoreMessage(c) \/ StoreParts(c)
                     \/ StoreFails(c) \/ EnterLoop(c)
  \/ \E r \in Call : LoopStep(r)
  \/ LockStep
  \/ AllOver

Spec == Init /\ [][Next]_vars

(* The daemon does not stop while one of its goroutines can move.  A turn's end
   is one of those moves: the provider, the tools and the clients that are asked
   are assumed to answer.  What is left to show is that the loop itself does not
   go round for ever.  Prompts and aborts are the users' and are not fair. *)
DaemonStep ==
  \/ \E r \in Call : LoopStep(r)
  \/ \E c \in Call : /\ \/ OnBusy(c) \/ Return(c)
                        \/ ClearSlot(c) \/ OnIdle(c) \/ CloseDone(c)
                     /\ UNCHANGED loopVars

(* The run's goroutine can move: every stage but the top of the loop has a step
   for the interrupted and one for the uninterrupted run. *)
RunCanMove(r) ==
  \/ stage[r] \notin {"none", "closed", "working"}
  \/ /\ stage[r] = "working"
     /\ lp[r].at = "top" => MustGiveUp(r) \/ MayRead(r)

(* Some goroutine of the daemon can move: a caller to announce, a run, a caller
   whose run is over.  This is what ENABLED DaemonStep comes to. *)
CanMove ==
  \E c \in Call : \/ pc[c] = "claimed"
                  \/ RunCanMove(c)
                  \/ pc[c] = "waiting" /\ stage[run[c]] = "closed"

(* Weak fairness of DaemonStep, with CanMove for its enabling condition. *)
Fairness == []<>(~CanMove) \/ []<><<DaemonStep>>_vars

FairSpec == Spec /\ Fairness

-----------------------------------------------------------------------------
Ended(c) == pc[c] = "returned"

(* Every call that enters the loop returns: a run ends within MaxSteps
   iterations whatever the model and the compactions do, and releases its
   starter and everyone who joined it. *)
RunsEnd == \A c \in Call : (pc[c] \in {"claimed", "waiting"}) ~> Ended(c)

(* Two assistant messages are never streamed into one session at a time. *)
OneStreamAtATime ==
  \A r1, r2 \in Call :
    /\ lp[r1].at \in {"stream", "summarise"}
    /\ lp[r2].at \in {"stream", "summarise"}
    => r1 = r2

(* What holds of the loop's own state at any time. *)
LoopInv == LoopTypeOK /\ OneStreamAtATime

(* An interrupted run starts no further message: the store refuses its
   cancelled context, so nothing follows the abort in the history. *)
NoNewMessageAfterAbort ==
  [][\A r \in cancelled :
       lp[r] # lp'[r] => Len(msgs') = Len(msgs)]_vars

(* A compaction task is summarised once: at most one summary that
   FilterCompacted accepts is anchored to it. *)
OneSummaryPerTask ==
  \A i, j \in DOMAIN msgs :
    /\ IsCompletedSummary(msgs[i]) /\ IsCompletedSummary(msgs[j])
    /\ msgs[i].parent = msgs[j].parent
    => i = j

(* A prompt that starts its own run as the newest message is put before the
   model and answered unless the run met an error, an abort or the step limit;
   overflows and compactions on the way do not lose it. *)
FreshPromptAnswered ==
  \A c \in fresh :
    (Ended(c) /\ c \notin troubled /\ \A d \in Call : kind[d] = "prompt") =>
      /\ \E i \in DOMAIN msgs : ~msgs[i].summary /\ msgOf[c] \in msgs[i].view
      /\ \E i \in DOMAIN msgs : /\ i > msgOf[c] /\ IsAssistant(msgs[i])
                                 /\ msgs[i].finish = "stop"

(* What FilterCompacted hides from the model and says anything was given to a
   summary that is done and carries no error: the cut it makes and the head that
   processCompaction summarised agree, also when compactions follow each other.
   Excepted is what comes before a task that was cut short.  This is about the
   tasks one run makes: a task that another call stores while a summary is written
   ends up before the tail that summary keeps, and its own summary hides the tail
   unread. *)
HiddenWasSummarised ==
  LET f == Filtered
      visible == {f[i].id : i \in DOMAIN f}
  IN  \A i \in DOMAIN msgs :
        (msgs[i].role # "none" /\ Says(msgs[i]) /\ i \notin visible) =>
           \/ \E t \in cutShort : i < t
           \/ \E j \in DOMAIN msgs :
                j > i /\ IsCompletedSummary(msgs[j]) /\ i \in msgs[j].view

(* "concurrent prompt() calls on the same session queue rather than conflict"
   (plans/02-agent-engine.md): a prompt whose run met no trouble was put
   before the model. *)
PromptAnswered ==
  \A c \in Call :
    (Ended(c) /\ kind[c] = "prompt" /\ run[c] \notin troubled) =>
      \E i \in DOMAIN msgs : msgOf[c] \in msgs[i].view

=============================================================================
