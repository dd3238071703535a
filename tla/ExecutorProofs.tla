--------------------------- MODULE ExecutorProofs ---------------------------
(***************************************************************************)
(* The tool gate and the managers it is made of.                           *)
(*                                                                         *)
(* First the permission manager, for every number of asks, sessions and    *)
(* patterns, every matching relation and every ruleset: its invariants and *)
(* that it implements Deferred.  Then the same of the question manager.    *)
(* Last the executor composed of both: for any number of concurrent calls  *)
(* a gated tool runs only when its own ask was let through, and no request *)
(* outlives the call that made it.  What is new there is how far a call    *)
(* has come when a manager waits for it.                                   *)
(***************************************************************************)
EXTENDS Executor, TLAPS

-----------------------------------------------------------------------------
(* The permission manager. *)

(* More grants never take a permission away: approved rules are all allow
   rules and come last (Evaluate, rulesetsFor). *)
LEMMA GrantsGrow ==
  ASSUME NEW in, NEW g, NEW h, g \subseteq h, AllAllowed(in, g)
  PROVE  AllAllowed(in, h)
BY DEF AllAllowed, Evaluate

(* Asks denied, allowed or refused by the rules, and what goes on in the
   asker's select, keep the invariant. *)
LEMMA AskStepKeepsInv ==
  ASSUME PermInv, NEW a \in Ask, AskStep(a)
  PROVE  PermInv'
<1> USE DEF PermInv, PermTypeOK, SendNeverBlocks, NoLostWakeup, ListedIsBlocked,
            GrantedIsNotAsked, AllowedForAReason, ChannelFollowsAsk, PendingIsShown, Blocked, Grants
<1>1. CASE AskDenied(a)
  BY <1>1 DEF AskDenied
<1>2. CASE AskAllowed(a)
  BY <1>2 DEF AskAllowed
<1>3. CASE AskRegisters(a)
  BY <1>3 DEF AskRegisters
<1>4. CASE PublishAsked(a)
  BY <1>4 DEF PublishAsked
<1>5. CASE Receive(a)
  BY <1>5 DEF Receive
<1>6. CASE CtxDone(a)
  BY <1>6 DEF CtxDone
<1>7. CASE Leave(a)
  BY <1>7 DEF Leave
<1> QED
  BY <1>1, <1>2, <1>3, <1>4, <1>5, <1>6, <1>7 DEF AskStep

(* Replies and cancellations keep the invariant. *)
LEMMA ClientStepKeepsInv ==
  ASSUME PermInv, NEW a \in Ask, ClientStep(a)
  PROVE  PermInv'
<1> USE DEF PermInv, PermTypeOK, SendNeverBlocks, NoLostWakeup, ListedIsBlocked,
            GrantedIsNotAsked, AllowedForAReason, ChannelFollowsAsk, PendingIsShown, Blocked, Grants, Send
<1>1. CASE CancelCtx(a)
  BY <1>1 DEF CancelCtx
<1>2. CASE ReplyOnce(a)
  BY <1>2 DEF ReplyOnce
<1>3. CASE ReplyAlways(a)
  BY <1>3, GrantsGrow DEF ReplyAlways, NowAllowed, AskInput
<1>4. CASE ReplyReject(a)
  BY <1>4 DEF ReplyReject
<1>5. CASE PublishReplied(a)
  BY <1>5 DEF PublishReplied
<1> QED
  BY <1>1, <1>2, <1>3, <1>4, <1>5 DEF ClientStep

(* The manager's inductive invariant. *)
THEOREM PermInvariant == PermSpec => []PermInv
<1>1. PermInit => PermInv
  BY DEF PermInit, PermInv, PermTypeOK, SendNeverBlocks, NoLostWakeup,
         ListedIsBlocked, GrantedIsNotAsked, AllowedForAReason, ChannelFollowsAsk, PendingIsShown, Blocked
<1>2. PermInv /\ [PermNext]_permVars => PermInv'
  <2> SUFFICES ASSUME PermInv, [PermNext]_permVars
               PROVE  PermInv'
    OBVIOUS
  <2>1. CASE PermNext
    BY <2>1, AskStepKeepsInv, ClientStepKeepsInv DEF PermNext
  <2>2. CASE UNCHANGED permVars
    BY <2>2 DEF permVars, PermInv, PermTypeOK, SendNeverBlocks, NoLostWakeup,
                ListedIsBlocked, GrantedIsNotAsked, AllowedForAReason, ChannelFollowsAsk, PendingIsShown, Blocked,
                Grants
  <2> QED
    BY <2>1, <2>2
<1> QED
  BY <1>1, <1>2, PTL DEF PermSpec

(* Reply's sends under mu never block. *)
THEOREM RepliesDoNotBlock == PermSpec => []SendNeverBlocks
BY PermInvariant, PTL DEF PermInv

(* A blocked tool can be answered or has its answer. *)
THEOREM WakeupsAreNotLost == PermSpec => []NoLostWakeup
BY PermInvariant, PTL DEF PermInv

(* No request is pending that the session's grants cover. *)
THEOREM NoNeedlessAsk == PermSpec => []GrantedIsNotAsked
BY PermInvariant, PTL DEF PermInv

(* A tool passes only by consent or by its own session's rules and grants. *)
THEOREM PassingIsJustified == PermSpec => []AllowedForAReason
BY PermInvariant, PTL DEF PermInv

-----------------------------------------------------------------------------
(* Every step of an asker is a step of Deferred or leaves it unchanged. *)
LEMMA AskStepRefines ==
  ASSUME PermInv, NEW a \in Ask, AskStep(a)
  PROVE  [D!DNext]_<<AbsState, AbsAnswer>>
<1> USE DEF PermInv, PermTypeOK, SendNeverBlocks, NoLostWakeup, ListedIsBlocked,
            ChannelFollowsAsk, PendingIsShown, Blocked, AbsState, AbsAnswer
<1>1. CASE AskDenied(a)
  <2>1. D!Decide(a)
    BY <1>1 DEF AskDenied, D!Decide
  <2> QED
    BY <2>1 DEF D!DNext
<1>2. CASE AskAllowed(a)
  <2>1. D!Decide(a)
    BY <1>2 DEF AskAllowed, D!Decide
  <2> QED
    BY <2>1 DEF D!DNext
<1>3. CASE AskRegisters(a)
  <2>1. D!Open(a)
    BY <1>3 DEF AskRegisters, D!Open
  <2> QED
    BY <2>1 DEF D!DNext
<1>4. CASE PublishAsked(a)
  BY <1>4 DEF PublishAsked
<1>5. CASE Receive(a)
  <2>1. D!Collect(a)
    BY <1>5 DEF Receive, D!Collect
  <2> QED
    BY <2>1 DEF D!DNext
<1>6. CASE CtxDone(a)
  BY <1>6 DEF CtxDone
<1>7. CASE Leave(a)
  <2>1. D!Abandon(a)
    BY <1>7 DEF Leave, D!Abandon
  <2> QED
    BY <2>1 DEF D!DNext
<1> QED
  BY <1>1, <1>2, <1>3, <1>4, <1>5, <1>6, <1>7 DEF AskStep

(* Settling a set of requests is a step of Deferred. *)
LEMMA SettleIsAStep ==
  ASSUME NEW S \in SUBSET Ask, D!Settle(S)
  PROVE  [D!DNext]_<<AbsState, AbsAnswer>>
BY DEF D!DNext

(* Every reply settles the requests it answers, nothing else changes them. *)
LEMMA ClientStepRefines ==
  ASSUME PermInv, NEW a \in Ask, ClientStep(a)
  PROVE  [D!DNext]_<<AbsState, AbsAnswer>>
<1> USE DEF PermInv, PermTypeOK, SendNeverBlocks, NoLostWakeup, ListedIsBlocked,
            ChannelFollowsAsk, PendingIsShown, Blocked, AbsState, AbsAnswer, Send
<1>1. CASE CancelCtx(a)
  BY <1>1 DEF CancelCtx
<1>2. CASE ReplyOnce(a)
  <2>1. D!Settle({a})
    BY <1>2 DEF ReplyOnce, D!Settle
  <2> QED
    BY <2>1, SettleIsAStep
<1>3. CASE ReplyAlways(a)
  <2> DEFINE S == {a} \cup NowAllowed(a, Grants(a) \cup info[a].patterns)
  <2>1. S \subseteq pending
    BY <1>3 DEF ReplyAlways, NowAllowed
  <2>2. S \in SUBSET Ask
    BY <2>1
  <2>3. D!Settle(S)
    BY <1>3, <2>1 DEF ReplyAlways, D!Settle
  <2> HIDE DEF S, AbsState, AbsAnswer
  <2> QED
    BY <2>2, <2>3, SettleIsAStep
<1>4. CASE ReplyReject(a)
  <2> DEFINE S == {a} \cup {b \in pending \ {a} : info[b].session = info[a].session}
  <2>1. S \subseteq pending
    BY <1>4 DEF ReplyReject
  <2>2. S \in SUBSET Ask
    BY <2>1
  <2>3. D!Settle(S)
    BY <1>4, <2>1 DEF ReplyReject, D!Settle
  <2> HIDE DEF S, AbsState, AbsAnswer
  <2> QED
    BY <2>2, <2>3, SettleIsAStep
<1>5. CASE PublishReplied(a)
  BY <1>5 DEF PublishReplied
<1> QED
  BY <1>1, <1>2, <1>3, <1>4, <1>5 DEF ClientStep

(* The permission manager implements Deferred: a request gets at most one
   answer and its tool returns that answer or its own cancellation. *)
THEOREM PermissionIsDeferred == PermSpec => IsDeferred
<1>1. PermInit => D!DInit
  BY DEF PermInit, D!DInit, AbsState, AbsAnswer, Blocked
<1>2. PermInv /\ [PermNext]_permVars => [D!DNext]_<<AbsState, AbsAnswer>>
  <2> SUFFICES ASSUME PermInv, [PermNext]_permVars
               PROVE  [D!DNext]_<<AbsState, AbsAnswer>>
    OBVIOUS
  <2>1. CASE PermNext
    BY <2>1, AskStepRefines, ClientStepRefines DEF PermNext
  <2>2. CASE UNCHANGED permVars
    BY <2>2 DEF permVars, AbsState, AbsAnswer, Blocked
  <2> QED
    BY <2>1, <2>2
<1> QED
  BY <1>1, <1>2, PermInvariant, PTL DEF PermSpec, IsDeferred, D!DSpec

-----------------------------------------------------------------------------
(* The question manager. *)

(* Every step of an asker and of a reply keeps the invariant. *)
LEMMA QStepInv ==
  ASSUME QInv, [QNext]_qVars
  PROVE  QInv'
<1> USE DEF QInv, QTypeOK, AnswerNeverBlocks, NoLostAnswer, ListedIsOpen,
            ReplyFollowsTake, QBlocked, Reply
<1>1. ASSUME NEW a \in Inquiry, Register(a) PROVE QInv'
  BY <1>1 DEF Register
<1>2. ASSUME NEW a \in Inquiry, PublishQuestion(a) PROVE QInv'
  BY <1>2 DEF PublishQuestion
<1>3. ASSUME NEW a \in Inquiry, ReceiveAnswer(a) PROVE QInv'
  BY <1>3 DEF ReceiveAnswer
<1>4. ASSUME NEW a \in Inquiry, QuestionCtxDone(a) PROVE QInv'
  BY <1>4 DEF QuestionCtxDone
<1>5. ASSUME NEW a \in Inquiry, LeaveQuestion(a) PROVE QInv'
  BY <1>5 DEF LeaveQuestion
<1>6. ASSUME NEW a \in Inquiry, CancelQuestionCtx(a) PROVE QInv'
  BY <1>6 DEF CancelQuestionCtx
<1>7. ASSUME NEW a \in Inquiry, Take(a) PROVE QInv'
  BY <1>7 DEF Take
<1>8. ASSUME NEW a \in Inquiry, SendReply(a) PROVE QInv'
  BY <1>8 DEF SendReply
<1>9. ASSUME NEW a \in Inquiry, PublishReply(a) PROVE QInv'
  BY <1>9 DEF PublishReply
<1>10. CASE UNCHANGED qVars
  BY <1>10 DEF qVars
<1> QED
  BY <1>1, <1>2, <1>3, <1>4, <1>5, <1>6, <1>7, <1>8, <1>9, <1>10
     DEF QNext, InquiryStep, ReplyStep

(* The question manager's inductive invariant. *)
THEOREM QuestionInvariant == QSpec => []QInv
<1>1. QInit => QInv
  BY DEF QInit, QInv, QTypeOK, AnswerNeverBlocks, NoLostAnswer, ListedIsOpen,
         ReplyFollowsTake, QBlocked, Reply
<1> QED
  BY <1>1, QStepInv, PTL DEF QSpec

(* The handler's unlocked send never blocks. *)
THEOREM QuestionSendNeverBlocks == QSpec => []AnswerNeverBlocks
BY QuestionInvariant, PTL DEF QInv

(* A blocked question tool is never forgotten. *)
THEOREM QuestionWakeup == QSpec => []NoLostAnswer
BY QuestionInvariant, PTL DEF QInv

(* Every step maps to a step of Deferred or to a stutter. *)
LEMMA QStepRefines ==
  ASSUME QInv, [QNext]_qVars
  PROVE  [QD!DNext]_<<QAbsState, QAbsAnswer>>
<1> USE DEF QInv, QTypeOK, AnswerNeverBlocks, NoLostAnswer, ListedIsOpen,
            ReplyFollowsTake, QBlocked, Reply, QAbsState, QAbsAnswer
<1>1. ASSUME NEW a \in Inquiry, Register(a) PROVE QD!Open(a)
  BY <1>1 DEF Register, QD!Open
<1>2. ASSUME NEW a \in Inquiry, PublishQuestion(a) PROVE UNCHANGED <<QAbsState, QAbsAnswer>>
  BY <1>2 DEF PublishQuestion
<1>3. ASSUME NEW a \in Inquiry, ReceiveAnswer(a) PROVE QD!Collect(a)
  <2>1. QAbsAnswer' = QAbsAnswer
    BY <1>3 DEF ReceiveAnswer
  <2>2. QAbsState[a] = "answered" /\ QAbsState' = [QAbsState EXCEPT ![a] = "over"]
    BY <1>3 DEF ReceiveAnswer
  <2> HIDE DEF QAbsState, QAbsAnswer
  <2> QED
    BY <2>1, <2>2 DEF QD!Collect
<1>4. ASSUME NEW a \in Inquiry, QuestionCtxDone(a) PROVE UNCHANGED <<QAbsState, QAbsAnswer>>
  BY <1>4 DEF QuestionCtxDone
<1>5. ASSUME NEW a \in Inquiry, LeaveQuestion(a) PROVE QD!Abandon(a)
  BY <1>5 DEF LeaveQuestion, QD!Abandon
<1>6. ASSUME NEW a \in Inquiry, CancelQuestionCtx(a) PROVE UNCHANGED <<QAbsState, QAbsAnswer>>
  BY <1>6 DEF CancelQuestionCtx
<1>7. ASSUME NEW a \in Inquiry, Take(a) PROVE QD!Settle({a})
  BY <1>7 DEF Take, QD!Settle
<1>8. ASSUME NEW a \in Inquiry, ReplyStep(a) PROVE UNCHANGED <<QAbsState, QAbsAnswer>>
  BY <1>8 DEF ReplyStep, SendReply, PublishReply
<1>9. CASE UNCHANGED qVars
  BY <1>9 DEF qVars
<1> HIDE DEF QInv, QAbsState, QAbsAnswer
<1> QED
  BY <1>1, <1>2, <1>3, <1>4, <1>5, <1>6, <1>7, <1>8, <1>9
     DEF QNext, InquiryStep, QD!DNext

(* The question manager implements Deferred. *)
THEOREM QuestionIsDeferred == QSpec => QuestionDeferred
<1>1. QInit => QD!DInit
  BY DEF QInit, QD!DInit, QAbsState, QAbsAnswer, QBlocked
<1> QED
  BY <1>1, QStepRefines, QuestionInvariant, PTL DEF QSpec, QuestionDeferred, QD!DSpec

-----------------------------------------------------------------------------
(* The executor. *)

(* A call that went past its gate was allowed, ... *)
GatePassed ==
  \A c \in Ask : (c \in ran \/ at[c] \in {"run", "asking"}) =>
                   /\ Gated(c) => result[c] = "allow"
                   /\ at[c] = "asking" => tool[c] = "question"

(* ... and a manager has a call waiting only where the executor waits too. *)
WaitsInPlace ==
  \A c \in Ask : /\ Blocked(c) => at[c] = "gate"
                 /\ QBlocked(c) => at[c] = "asking"

(* The inductive invariant of the composition. *)
GateInv == PermInv /\ QInv /\ ExecTypeOK /\ GatePassed /\ WaitsInPlace

(* But for an abort, which ends several contexts at once, every step is one of
   the managers or leaves them alone. *)
LEMMA ExecStepIsTheirs ==
  ASSUME [ExecNext]_allVars, ~\E s \in Session : Abort(s)
  PROVE  [PermNext]_permVars /\ [QNext]_qVars
<1>1. CASE ExecNext
  <2>1. [PermNext]_permVars
    BY <1>1 DEF ExecNext, EngineStep, ToolStep, Resolve, Gate, GateReturns, RunQuestion, Inquire,
       QuestionEnds, Record, FinishReply, RunTool, RunMCP, ReplyPermission, ReplyQuestion, DropMCP,
       PermNext, ClientStep
  <2>2. [QNext]_qVars
    BY <1>1, ExecutorAssumption DEF ExecNext, EngineStep, ToolStep, Resolve, Gate, GateReturns,
       RunQuestion, Inquire, QuestionEnds, Record, FinishReply, RunTool, RunMCP, ReplyPermission,
       ReplyQuestion, DropMCP, QNext
  <2> QED
    BY <2>1, <2>2
<1>2. CASE UNCHANGED allVars
  BY <1>2 DEF allVars
<1> QED
  BY <1>1, <1>2

(* The managers' own steps, and an abort, which only cancels contexts. *)
LEMMA ManagersKeepInv ==
  ASSUME PermInv, QInv, [ExecNext]_allVars
  PROVE  PermInv' /\ QInv'
<1>1. [PermNext]_permVars => PermInv'
  <2>1. CASE PermNext
    BY <2>1, AskStepKeepsInv, ClientStepKeepsInv DEF PermNext
  <2>2. CASE UNCHANGED permVars
    BY <2>2 DEF permVars, PermInv, PermTypeOK, SendNeverBlocks, NoLostWakeup, ListedIsBlocked,
       GrantedIsNotAsked, AllowedForAReason, ChannelFollowsAsk, PendingIsShown, Blocked, Grants
  <2> QED
    BY <2>1, <2>2
<1>2. CASE \E s \in Session : Abort(s)
  <2> PICK s \in Session : Abort(s)
    BY <1>2
  <2>1. ctx' \subseteq Ask
    BY DEF Abort, PermInv, PermTypeOK
  <2>2. PermInv'
    BY <2>1 DEF Abort, PermInv, PermTypeOK, SendNeverBlocks, NoLostWakeup, ListedIsBlocked,
       GrantedIsNotAsked, AllowedForAReason, ChannelFollowsAsk, PendingIsShown, Blocked, Grants
  <2>3. qctx' \subseteq Inquiry
    BY ExecutorAssumption DEF Abort, QInv, QTypeOK
  <2>4. QInv'
    BY <2>3 DEF Abort, QInv, QTypeOK, AnswerNeverBlocks, NoLostAnswer, ListedIsOpen,
       ReplyFollowsTake, QBlocked
  <2> QED
    BY <2>2, <2>4
<1>3. CASE ~\E s \in Session : Abort(s)
  BY <1>1, <1>3, ExecStepIsTheirs, QStepInv
<1> QED
  BY <1>2, <1>3

(* What a step of a manager may do to a call's place in it. *)
LEMMA ManagerPlaces ==
  ASSUME PermInv, QInv, NEW c \in Ask
  PROVE  /\ pc \in [Ask -> {"new", "registered", "waiting", "leaving", "done"}]
         /\ result \in [Ask -> {"none", "allow", "deny", "cancelled"}]
         /\ qpc \in [Ask -> {"new", "registered", "waiting", "leaving", "done"}]
         /\ pc[c] = "done" <=> result[c] # "none"
BY ExecutorAssumption DEF PermInv, PermTypeOK, ChannelFollowsAsk, QInv, QTypeOK

(* A step of a call in the executor. *)
LEMMA CallStepTypes ==
  ASSUME ExecTypeOK, NEW c \in Ask, EngineStep(c) \/ ToolStep(c)
  PROVE  ExecTypeOK'
<1>1. /\ at \in [Ask -> {"queued", "gate", "run", "asking", "returned", "recorded"}]
      /\ exit \in [Ask -> {"none", "ok", "err"}] /\ ran \subseteq Ask
      /\ part \in [Ask -> {"running", "completed", "error", "interrupted"}]
  BY DEF ExecTypeOK
<1>2. \A how \in {"ok", "err"} : Returns(c, how) =>
        /\ at' \in [Ask -> {"queued", "gate", "run", "asking", "returned", "recorded"}]
        /\ exit' \in [Ask -> {"none", "ok", "err"}]
  BY <1>1 DEF Returns
<1>3. \A w \in {"gate", "run", "asking"} : Goes(c, w) =>
        /\ at' \in [Ask -> {"queued", "gate", "run", "asking", "returned", "recorded"}]
        /\ exit' \in [Ask -> {"none", "ok", "err"}]
  BY <1>1 DEF Goes
<1>4. CASE Resolve(c) \/ GateReturns(c) \/ RunTool(c) \/ RunMCP(c) \/ RunQuestion(c) \/ QuestionEnds(c)
  <2>1. (\E how \in {"ok", "err"} : Returns(c, how)) \/ (\E w \in {"gate", "run", "asking"} : Goes(c, w))
    BY <1>4 DEF Resolve, GateReturns, RunTool, RunMCP, RunQuestion, QuestionEnds
  <2>2. ran' \subseteq Ask /\ UNCHANGED <<tool, part, mcpUp>>
    BY <1>1, <1>4 DEF Resolve, GateReturns, RunTool, RunMCP, RunQuestion, QuestionEnds
  <2> QED
    BY <1>2, <1>3, <2>1, <2>2 DEF ExecTypeOK
<1>5. CASE Record(c)
  <2>1. /\ at' \in [Ask -> {"queued", "gate", "run", "asking", "returned", "recorded"}]
        /\ part' \in [Ask -> {"running", "completed", "error", "interrupted"}]
    BY <1>1, <1>5 DEF Record
  <2> QED
    BY <1>5, <2>1 DEF Record, ExecTypeOK
<1>6. CASE Gate(c) \/ Inquire(c) \/ FinishReply(c)
  BY <1>6 DEF Gate, Inquire, FinishReply, execVars, ExecTypeOK
<1> QED
  BY <1>4, <1>5, <1>6 DEF EngineStep, ToolStep

(* The steps that move a call on in the executor. *)
LEMMA CallStepPlaces ==
  ASSUME PermInv, QInv, ExecTypeOK, GatePassed, WaitsInPlace, NEW c \in Ask,
         \/ Resolve(c) \/ GateReturns(c) \/ RunTool(c) \/ RunMCP(c) \/ RunQuestion(c)
         \/ QuestionEnds(c) \/ Record(c)
  PROVE  GatePassed' /\ WaitsInPlace'
<1>1. at \in [Ask -> {"queued", "gate", "run", "asking", "returned", "recorded"}]
  BY DEF ExecTypeOK
<1>2. /\ pc' = pc /\ result' = result /\ tool' = tool
      /\ qpc' = qpc \/ (RunQuestion(c) /\ qpc' = [qpc EXCEPT ![c] = "registered"] /\ at'[c] = "asking")
  BY <1>1 DEF Resolve, GateReturns, RunTool, RunMCP, RunQuestion, QuestionEnds, Record, permVars,
     qVars, Register, Goes
<1>3. \A e \in Ask \ {c} : at'[e] = at[e] /\ (e \in ran' <=> e \in ran)
  BY <1>1 DEF Resolve, GateReturns, RunTool, RunMCP, RunQuestion, QuestionEnds, Record, Returns, Goes
<1>4. qpc \in [Ask -> {"new", "registered", "waiting", "leaving", "done"}]
  BY ManagerPlaces
<1>5. GatePassed'
  <2>1. \A e \in Ask \ {c} : (e \in ran' \/ at'[e] \in {"run", "asking"}) =>
                    /\ Gated(e) => result[e] = "allow"
                    /\ at'[e] = "asking" => tool[e] = "question"
    BY <1>3 DEF GatePassed
  <2>2. (c \in ran' \/ at'[c] \in {"run", "asking"}) =>
                    /\ Gated(c) => result[c] = "allow"
                    /\ at'[c] = "asking" => tool[c] = "question"
    BY <1>1 DEF GatePassed, Resolve, GateReturns, RunTool, RunMCP, RunQuestion, QuestionEnds, Record,
       Returns, Goes, Gated
  <2>3. \A e \in Ask : Gated(e)' <=> Gated(e)
    BY <1>2 DEF Gated
  <2> QED
    BY <1>2, <2>1, <2>2, <2>3 DEF GatePassed
<1>6. WaitsInPlace'
  <2>1. \A e \in Ask \ {c} : Blocked(e)' => at'[e] = "gate"
    BY <1>2, <1>3 DEF WaitsInPlace, Blocked
  <2>2. \A e \in Ask \ {c} : QBlocked(e)' => at'[e] = "asking"
    BY <1>2, <1>3, <1>4 DEF WaitsInPlace, QBlocked
  <2>3. Blocked(c)' => at'[c] = "gate"
    BY <1>1, <1>2 DEF WaitsInPlace, Blocked, Resolve, GateReturns, RunTool, RunMCP, RunQuestion,
       QuestionEnds, Record
  <2>4. QBlocked(c)' => at'[c] = "asking"
    BY <1>1, <1>2, <1>4 DEF WaitsInPlace, QBlocked, Resolve, GateReturns, RunTool, RunMCP,
       RunQuestion, QuestionEnds, Record
  <2> QED
    BY <2>1, <2>2, <2>3, <2>4 DEF WaitsInPlace
<1> QED
  BY <1>5, <1>6

(* The steps of the managers, of clients and of the environment. *)
LEMMA OtherStepPlaces ==
  ASSUME PermInv, QInv, ExecTypeOK, GatePassed, WaitsInPlace,
         \/ \E c \in Ask : Gate(c) \/ Inquire(c) \/ FinishReply(c) \/ ReplyPermission(c) \/ ReplyQuestion(c)
         \/ (\E s \in Session : Abort(s)) \/ DropMCP
  PROVE  ExecTypeOK' /\ GatePassed' /\ WaitsInPlace'
<1>1. UNCHANGED <<tool, at, exit, ran, part>> /\ mcpUp' \in BOOLEAN
  BY DEF ExecTypeOK, Gate, Inquire, FinishReply, ReplyPermission, ReplyQuestion, Abort, DropMCP, execVars
<1>2. ExecTypeOK'
  BY <1>1 DEF ExecTypeOK
<1>3. \A e \in Ask : result[e] # "none" => result'[e] = result[e]
  <2>1. CASE \E c \in Ask : Gate(c)
    <3> PICK c \in Ask : Gate(c)
      BY <2>1
    <3> QED
      BY ManagerPlaces DEF Gate, AskStep, AskDenied, AskAllowed, AskRegisters, PublishAsked, Receive,
         CtxDone, Leave
  <2>2. CASE ~\E c \in Ask : Gate(c)
    BY <2>2 DEF Inquire, FinishReply, ReplyPermission, ReplyQuestion, Abort, DropMCP, permVars,
       PublishReplied, ReplyOnce, ReplyAlways, ReplyReject
  <2> QED
    BY <2>1, <2>2
<1>4. \A e \in Ask : Blocked(e)' => Blocked(e) \/ at[e] = "gate"
  <2>1. CASE \E c \in Ask : Gate(c)
    <3> PICK c \in Ask : Gate(c)
      BY <2>1
    <3> QED
      BY ManagerPlaces DEF Gate, AskStep, AskDenied, AskAllowed, AskRegisters, PublishAsked, Receive,
         CtxDone, Leave, Blocked
  <2>2. CASE ~\E c \in Ask : Gate(c)
    <3>1. pc' = pc
      BY <2>2 DEF Inquire, FinishReply, ReplyPermission, ReplyQuestion, Abort, DropMCP, permVars,
         PublishReplied, ReplyOnce, ReplyAlways, ReplyReject
    <3> QED
      BY <3>1 DEF Blocked
  <2> QED
    BY <2>1, <2>2
<1>5. \A e \in Ask : QBlocked(e)' => QBlocked(e)
  <2>1. CASE \E c \in Ask : Inquire(c)
    <3> PICK c \in Ask : Inquire(c)
      BY <2>1
    <3> QED
      BY ManagerPlaces DEF Inquire, InquiryStep, PublishQuestion, ReceiveAnswer, QuestionCtxDone,
         LeaveQuestion, QBlocked
  <2>2. CASE ~\E c \in Ask : Inquire(c)
    <3>1. qpc' = qpc
      BY <2>2 DEF Gate, FinishReply, ReplyPermission, ReplyQuestion, Abort, DropMCP, qVars,
         ReplyStep, SendReply, PublishReply, Take
    <3> QED
      BY <3>1 DEF QBlocked
  <2> QED
    BY <2>1, <2>2
<1>6. GatePassed'
  BY <1>1, <1>3 DEF GatePassed, Gated
<1>7. WaitsInPlace'
  BY <1>1, <1>4, <1>5 DEF WaitsInPlace
<1> QED
  BY <1>2, <1>6, <1>7

-----------------------------------------------------------------------------
(* The invariant of the executor on top of its managers (executor.go:98-167). *)
THEOREM GateInvariant == ExecSpec => []GateInv
<1>1. ExecInit => GateInv
  <2> SUFFICES ASSUME ExecInit PROVE GateInv
    OBVIOUS
  <2>1. PermInv
    BY DEF ExecInit, PermInit, PermInv, PermTypeOK, SendNeverBlocks, NoLostWakeup, ListedIsBlocked,
       GrantedIsNotAsked, AllowedForAReason, ChannelFollowsAsk, PendingIsShown, Blocked
  <2>2. QInv
    BY DEF ExecInit, QInit, QInv, QTypeOK, AnswerNeverBlocks, NoLostAnswer, ListedIsOpen,
       ReplyFollowsTake, QBlocked, Reply
  <2>3. ExecTypeOK
    BY DEF ExecInit, ExecTypeOK
  <2>4. GatePassed
    BY DEF ExecInit, GatePassed
  <2>5. WaitsInPlace
    BY ExecutorAssumption DEF ExecInit, PermInit, QInit, WaitsInPlace, Blocked, QBlocked
  <2> QED
    BY <2>1, <2>2, <2>3, <2>4, <2>5 DEF GateInv
<1>2. GateInv /\ [ExecNext]_allVars => GateInv'
  <2> SUFFICES ASSUME GateInv, [ExecNext]_allVars PROVE GateInv'
    OBVIOUS
  <2>1. PermInv' /\ QInv'
    BY ManagersKeepInv DEF GateInv
  <2>2. CASE ExecNext
    BY <2>1, <2>2, CallStepTypes, CallStepPlaces, OtherStepPlaces
       DEF GateInv, ExecNext, EngineStep, ToolStep
  <2>3. CASE UNCHANGED allVars
    BY <2>1, <2>3 DEF GateInv, allVars, execVars, permVars, qVars, ExecTypeOK, GatePassed,
       WaitsInPlace, Gated, Blocked, QBlocked
  <2> QED
    BY <2>2, <2>3
<1> QED
  BY <1>1, <1>2, PTL DEF ExecSpec

(* A gated tool runs, and a question is put, only if the ask of that very call
   was let through, by a client or by the rules and grants of its session
   (executor.go:117-156). *)
THEOREM GateIsPassed == ExecSpec => []RunsOnlyIfAllowed
<1>1. GateInv => RunsOnlyIfAllowed
  <2> SUFFICES ASSUME GateInv, NEW c \in ran, Gated(c)
               PROVE  result[c] = "allow" /\ (c \in consented \/ AllAllowed(info[c], Grants(c)))
    BY DEF RunsOnlyIfAllowed
  <2>1. c \in Ask
    BY DEF GateInv, ExecTypeOK
  <2>2. result[c] = "allow"
    BY <2>1 DEF GateInv, GatePassed
  <2> QED
    BY <2>1, <2>2 DEF GateInv, PermInv, AllowedForAReason
<1> QED
  BY <1>1, GateInvariant, PTL

(* A request or question is open only while the call that made it is blocked on
   it, whatever answers and aborts met (manager.go:105-114, question.go:84-92). *)
THEOREM NoOrphanRequests == ExecSpec => []ExecInv
<1>1. GateInv => ExecInv
  <2> SUFFICES ASSUME GateInv PROVE RequestsBelongToCalls
    BY DEF GateInv, ExecInv
  <2>1. \A c \in pending : c \in Ask /\ at[c] = "gate"
    BY DEF GateInv, WaitsInPlace, PermInv, PermTypeOK, ListedIsBlocked
  <2>2. \A c \in asked : c \in Ask /\ at[c] = "asking"
    BY ExecutorAssumption DEF GateInv, WaitsInPlace, QInv, QTypeOK, ListedIsOpen
  <2>3. \A c \in asked : result[c] = "allow"
    BY <2>2 DEF GateInv, GatePassed, Gated
  <2> QED
    BY <2>1, <2>2, <2>3 DEF RequestsBelongToCalls
<1> QED
  BY <1>1, GateInvariant, PTL

(* Below the executor, with aborts that end permission asks and questions
   together, both managers still answer a request at most once, and its tool
   returns that answer or its own cancellation. *)
THEOREM ManagersStayDeferred == ExecSpec => IsDeferred /\ QuestionDeferred
<1>1. ExecInit => D!DInit
  BY DEF ExecInit, PermInit, D!DInit, AbsState, AbsAnswer, Blocked
<1>2. ExecInit => QD!DInit
  BY DEF ExecInit, QInit, QD!DInit, QAbsState, QAbsAnswer, QBlocked
<1>3. GateInv /\ [ExecNext]_allVars => /\ [D!DNext]_<<AbsState, AbsAnswer>>
                                      /\ [QD!DNext]_<<QAbsState, QAbsAnswer>>
  <2> SUFFICES ASSUME GateInv, [ExecNext]_allVars
               PROVE  /\ [D!DNext]_<<AbsState, AbsAnswer>>
                      /\ [QD!DNext]_<<QAbsState, QAbsAnswer>>
    OBVIOUS
  <2>1. PermInv /\ QInv
    BY DEF GateInv
  <2>2. CASE \E s \in Session : Abort(s)
    <3>1. UNCHANGED <<pc, pending, resolve, result, qpc, replier, reply, qresult>>
      BY <2>2 DEF Abort
    <3>2. UNCHANGED <<AbsState, AbsAnswer>>
      BY <3>1 DEF AbsState, AbsAnswer, Blocked
    <3>3. UNCHANGED <<QAbsState, QAbsAnswer>>
      BY <3>1 DEF QAbsState, QAbsAnswer, QBlocked
    <3> QED
      BY <3>2, <3>3
  <2>3. CASE ~\E s \in Session : Abort(s)
    <3>1. [PermNext]_permVars /\ [QNext]_qVars
      BY <2>3, ExecStepIsTheirs
    <3>2. [QD!DNext]_<<QAbsState, QAbsAnswer>>
      BY <2>1, <3>1, QStepRefines
    <3>3. CASE PermNext
      <4>1. [D!DNext]_<<AbsState, AbsAnswer>>
        BY <2>1, <3>3, AskStepRefines, ClientStepRefines DEF PermNext
      <4> QED
        BY <3>2, <4>1
    <3>4. CASE UNCHANGED permVars
      <4>1. UNCHANGED <<AbsState, AbsAnswer>>
        BY <3>4 DEF permVars, AbsState, AbsAnswer, Blocked
      <4> QED
        BY <3>2, <4>1
    <3> QED
      BY <3>1, <3>3, <3>4
  <2> QED
    BY <2>2, <2>3
<1> QED
  BY <1>1, <1>2, <1>3, GateInvariant, PTL
     DEF ExecSpec, IsDeferred, QuestionDeferred, D!DSpec, QD!DSpec

=============================================================================
