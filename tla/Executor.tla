------------------------------ MODULE Executor ------------------------------
(***************************************************************************)
(* internal/engine/registry Executor.Execute, run by                       *)
(* processor.executePending for every unresolved tool call of a turn in a  *)
(* goroutine of its own, on top of the permission and question managers.   *)
(*                                                                         *)
(* A call makes at most one permission ask and one question, so it names   *)
(* both: Ask = Inquiry = the calls.  Calls of one session share the        *)
(* context of its run.                                                     *)
(***************************************************************************)
EXTENDS Permission, Question

CONSTANT Kinds   \* Kinds[c]: what the call c may name, among AllKinds

AllKinds == {"structured",  \* the synthetic StructuredOutput tool
             "unknown",     \* neither a built-in nor an MCP tool
             "mcp",         \* a tool of an MCP server
             "ungated",     \* a built-in without a permission key
             "builtin",     \* a gated built-in
             "question"}    \* the gated built-in that asks the user

ASSUME ExecutorAssumption == Inquiry = Ask /\ Kinds \in [Ask -> SUBSET AllKinds]

VARIABLES
  tool,   \* tool[c]: the kind of the call
  at,     \* at[c]: queued | gate | run | asking | returned | recorded
  exit,   \* exit[c]: what Execute returned, ok | err
  ran,    \* calls whose tool really ran
  part,   \* part[c]: the tool part's status in memory
  mcpUp   \* the MCP server is connected

execVars == <<tool, at, exit, ran, part, mcpUp>>
allVars == <<permVars, qVars, execVars>>

ExecTypeOK ==
  /\ tool \in [Ask -> AllKinds]
  /\ at \in [Ask -> {"queued", "gate", "run", "asking", "returned", "recorded"}]
  /\ exit \in [Ask -> {"none", "ok", "err"}]
  /\ ran \subseteq Ask
  /\ part \in [Ask -> {"running", "completed", "error", "interrupted"}]
  /\ mcpUp \in BOOLEAN

(* permKeyPattern gives a call one pattern; the ask is made when it is gated. *)
Gated(c) == tool[c] \in {"builtin", "question", "mcp"}

ExecInit ==
  /\ PermInit /\ QInit
  /\ \A c \in Ask : Cardinality(info[c].patterns) = 1
  /\ tool \in {f \in [Ask -> AllKinds] : \A c \in Ask : f[c] \in Kinds[c]}
  /\ at = [c \in Ask |-> "queued"]
  /\ exit = [c \in Ask |-> "none"]
  /\ ran = {}
  /\ part = [c \in Ask |-> "running"]
  /\ mcpUp \in BOOLEAN

Returns(c, how) ==
  /\ at' = [at EXCEPT ![c] = "returned"]
  /\ exit' = [exit EXCEPT ![c] = how]

Goes(c, where) == at' = [at EXCEPT ![c] = where] /\ UNCHANGED exit

(* Execute resolves the name: captured, dispatched to its gate, or unknown. *)
Resolve(c) ==
  /\ at[c] = "queued"
  /\ CASE tool[c] = "structured" -> Returns(c, "ok")
       [] tool[c] = "unknown" \/ (tool[c] = "mcp" /\ ~mcpUp) -> Returns(c, "err")
       [] tool[c] = "ungated" -> Goes(c, "run")
       [] OTHER -> Goes(c, "gate")
  /\ UNCHANGED <<permVars, qVars, tool, ran, part, mcpUp>>

(* The permission ask, a step of the manager ... *)
Gate(c) == at[c] = "gate" /\ AskStep(c) /\ UNCHANGED <<qVars, execVars>>

\* mutant: the ask's error is dropped
GateReturnsAnyway(c) ==
  /\ at[c] = "gate" /\ pc[c] = "done"
  /\ Goes(c, "run")
  /\ UNCHANGED <<permVars, qVars, tool, ran, part, mcpUp>>

(* ... and its verdict. *)
GateReturns(c) ==
  /\ at[c] = "gate" /\ pc[c] = "done"
  /\ IF result[c] = "allow" THEN Goes(c, "run") ELSE Returns(c, "err")
  /\ UNCHANGED <<permVars, qVars, tool, ran, part, mcpUp>>

(* t.Run of a built-in. *)
RunTool(c) ==
  /\ at[c] = "run" /\ tool[c] \in {"builtin", "ungated"}
  /\ ran' = ran \cup {c}
  /\ \E how \in {"ok", "err"} : Returns(c, how)
  /\ UNCHANGED <<permVars, qVars, tool, part, mcpUp>>

(* MCP.CallTool looks the server up again; when it is gone by now, found is
   false, Execute ignores that and returns an empty success. *)
RunMCP(c) ==
  /\ at[c] = "run" /\ tool[c] = "mcp"
  /\ \/ /\ mcpUp
        /\ ran' = ran \cup {c}
        /\ \E how \in {"ok", "err"} : Returns(c, how)
     \/ /\ ~mcpUp
        /\ Returns(c, "ok")
        /\ UNCHANGED ran
  /\ UNCHANGED <<permVars, qVars, tool, part, mcpUp>>

(* The question tool fails on input it cannot decode, or registers its
   question ... *)
RunQuestion(c) ==
  /\ at[c] = "run" /\ tool[c] = "question"
  /\ ran' = ran \cup {c}
  /\ \/ Returns(c, "err") /\ UNCHANGED qVars
     \/ Register(c) /\ Goes(c, "asking")
  /\ UNCHANGED <<permVars, tool, part, mcpUp>>

Inquire(c) == at[c] = "asking" /\ InquiryStep(c) /\ UNCHANGED <<permVars, execVars>>

(* ... and returns its answers, or the dismissal or cancellation as error. *)
QuestionEnds(c) ==
  /\ at[c] = "asking" /\ qpc[c] = "done"
  /\ Returns(c, IF qresult[c] = "answers" THEN "ok" ELSE "err")
  /\ UNCHANGED <<permVars, qVars, tool, ran, part, mcpUp>>

\* mutant: the part takes what Execute returned as its status
RecordExit(c) ==
  /\ at[c] = "returned"
  /\ at' = [at EXCEPT ![c] = "recorded"]
  /\ part' = [part EXCEPT ![c] = exit[c]]
  /\ UNCHANGED <<permVars, qVars, tool, exit, ran, mcpUp>>

(* The goroutine of executePending records what came back. *)
Record(c) ==
  /\ at[c] = "returned"
  /\ at' = [at EXCEPT ![c] = "recorded"]
  /\ part' = [part EXCEPT ![c] = CASE exit[c] = "ok" -> "completed"
                                   [] exit[c] = "err" /\ c \in ctx -> "interrupted"
                                   [] OTHER -> "error"]
  /\ UNCHANGED <<permVars, qVars, tool, exit, ran, mcpUp>>

\* mutant: the question is asked with a context of its own
AbortGateOnly(s) ==
  /\ ctx' = ctx \cup {c \in Ask : info[c].session = s}
  /\ UNCHANGED <<info, pc, pending, approved, resolve, result, replying, dialogs, consented>>
  /\ UNCHANGED <<qVars, execVars>>

(* RunState.Cancel ends the context all calls of the session's run share. *)
Abort(s) ==
  LET calls == {c \in Ask : info[c].session = s} IN
  /\ ctx' = ctx \cup calls
  /\ qctx' = qctx \cup calls
  /\ UNCHANGED <<info, pc, pending, approved, resolve, result, replying, dialogs, consented>>
  /\ UNCHANGED <<qpc, asked, replier, reply, qresolve, qresult>>
  /\ UNCHANGED execVars

(* A client answers a permission request ... *)
ReplyPermission(c) ==
  /\ ReplyOnce(c) \/ ReplyAlways(c) \/ ReplyReject(c)
  /\ UNCHANGED <<qVars, execVars>>

(* ... or a question. *)
ReplyQuestion(c) == Take(c) /\ UNCHANGED <<permVars, execVars>>

(* What the reply handlers do after their unlock. *)
FinishReply(c) ==
  \/ PublishReplied(c) /\ UNCHANGED <<qVars, execVars>>
  \/ ReplyStep(c) /\ UNCHANGED <<permVars, execVars>>

(* The MCP server goes away.  One that comes back gives no call a new outcome:
   the name is looked up when the call starts and once more when it runs. *)
DropMCP ==
  /\ mcpUp
  /\ mcpUp' = FALSE
  /\ UNCHANGED <<permVars, qVars, tool, at, exit, ran, part>>

(* A step of a call that needs no tool, client or server outside the engine. *)
EngineStep(c) ==
  \/ Resolve(c) \/ Gate(c) \/ GateReturns(c) \/ RunQuestion(c)
  \/ Inquire(c) \/ QuestionEnds(c) \/ Record(c) \/ FinishReply(c)

ToolStep(c) == RunTool(c) \/ RunMCP(c)

ExecNext ==
  \/ \E c \in Ask : \/ EngineStep(c) \/ ToolStep(c)
                    \/ ReplyPermission(c) \/ ReplyQuestion(c)
  \/ \E s \in Session : Abort(s)
  \/ DropMCP

ExecSpec == ExecInit /\ [][ExecNext]_allVars

(* Goroutines of the engine are scheduled fairly, and a tool returns once its
   context is cancelled (ToolExecutor's contract); clients are not fair. *)
MustMove(c) == EngineStep(c) \/ (c \in ctx /\ ToolStep(c))

ExecFairSpec ==
  /\ ExecSpec
  /\ WF_allVars(\E c \in Ask : MustMove(c))

-----------------------------------------------------------------------------
(* No gated tool runs, and no question is put to the user, unless the ask for
   that very call was let through. *)
RunsOnlyIfAllowed ==
  \A c \in ran : Gated(c) =>
     result[c] = "allow" /\ (c \in consented \/ AllAllowed(info[c], Grants(c)))

(* The manager's bookkeeping and the calls agree: a request or a question is on
   a client's screen only while the call that made it is blocked there, so an
   abort or an answer never leaves one behind in a manager. *)
RequestsBelongToCalls ==
  /\ \A c \in pending : at[c] = "gate"
  /\ \A c \in asked : at[c] = "asking" /\ result[c] = "allow"

(* What holds of the calls' own state at any time. *)
ExecInv == ExecTypeOK /\ RequestsBelongToCalls

(* Whatever the calls of a turn wait for, a permission, a question or a tool, an
   abort ends all of them with a final part, so executePending's wg.Wait
   returns. *)
AbortedCallsEnd ==
  \A s \in Session :
    (\E c \in ctx : info[c].session = s)
      ~> (\A c \in Ask : info[c].session = s => at[c] = "recorded" /\ part[c] # "running")

=============================================================================
