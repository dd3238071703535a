----------------------------- MODULE Processor -----------------------------
(***************************************************************************)
(* internal/engine/processor: Processor.Run consumes the event stream of   *)
(* one assistant turn, keeps the turn's parts in memory and in the store,  *)
(* executes the tool calls the provider left unresolved, each in its own   *)
(* goroutine, and finalises what is still open.                            *)
(*                                                                         *)
(* The handlers take the provider's events in any order and any number: no *)
(* start, call or result is checked against what came before.  The text of *)
(* a part is the number of deltas it was given; the signature of a call is *)
(* its tool with its input, which is not empty.  The store refuses every   *)
(* write once the context is cancelled, and any write may fail before: the *)
(* processor goes on as if it had succeeded.                               *)
(***************************************************************************)
EXTENDS Integers, Sequences, FiniteSets

CONSTANTS
  Call,        \* tool call ids of the turn
  Sig,         \* signatures: a tool and its input
  Structured,  \* the signatures of the StructuredOutput tool
  Key,         \* ids under which the provider streams reasoning
  MaxEvents,   \* bound: events of the provider
  MaxStale,    \* bound: parts and messages whose last write failed at one time
  MaxParts,    \* bound: text and reasoning parts of the turn
  MaxDeltas,   \* bound: deltas of one part
  doomLoopThreshold   \* identical calls in a row that trip the guard, 3 in the code

ASSUME ProcessorAssumption ==
  /\ Structured \subseteq Sig
  /\ MaxEvents \in Nat /\ MaxStale \in Nat /\ MaxParts \in Nat /\ MaxDeltas \in Nat
  /\ doomLoopThreshold \in Nat \ {0}

VARIABLES
  events,     \* events taken from the provider
  phase,      \* stream | asking | finishing | exec | cleanup | returned
  executor,   \* whether the run has a ToolExecutor
  ctxDone,    \* the context of the run is cancelled
  sig,        \* sig[c]: the tool of a call, and the input it was made with last
  currentText,   \* Processor.currentText: the one text that takes deltas
  reasoning,  \* Processor.reasoning: the open part of an id
  toolOrder,  \* Processor.toolOrder
  tool,       \* tool[c]: state of the tool part in memory
  blank,      \* calls whose part has lost its input
  pending,    \* Processor.pending
  asking,     \* the call the doom-loop guard asks about: at most one
  worker,     \* worker[c]: goroutine of executePending: none | run | put | over
  seg,        \* seg[x]: text and reasoning parts in memory
  message,    \* Processor.assistant: finish, error, completed
  flags,      \* subset of {"needsCompact", "shouldBreak"}
  storedTool, storedSeg, storedMessage,   \* what the store holds of them
  lostTool, lostSeg, lostMessage,         \* history: whose last write failed by itself
  last,       \* history: last[c], what was last said about a call
  overwritten,   \* history: texts a later text took the slot of
  outcome     \* what Run returned

callVars == <<sig, toolOrder, last, pending, asking>>
engineVars == <<phase, executor, ctxDone, callVars>>
segVars == <<currentText, reasoning, seg, overwritten>>
stored == <<storedTool, storedSeg, storedMessage, lostTool, lostSeg, lostMessage>>
procVars == <<events, engineVars, segVars, tool, blank, worker, message, flags, stored, outcome>>

Part == 1..MaxParts
NoPart == 0
NoSig == "none"   \* of a call that was not named yet
ToolState == {"none", "pending", "running", "completed", "error", "interrupted"}
Segment == [state : {"none", "open", "ended"}, text : 0..MaxDeltas]
Message == [finish : BOOLEAN, error : {"none", "api", "aborted"}, completed : BOOLEAN]

ProcTypeOK ==
  /\ phase \in {"stream", "asking", "finishing", "exec", "cleanup", "returned"}
  /\ events \in 0..MaxEvents /\ executor \in BOOLEAN /\ ctxDone \in BOOLEAN
  /\ sig \in [Call -> Sig \cup {NoSig}]
  /\ currentText \in Part \cup {NoPart}
  /\ reasoning \in [Key -> Part \cup {NoPart}]
  /\ toolOrder \in Seq(Call)
  /\ tool \in [Call -> ToolState]
  /\ blank \subseteq Call /\ pending \subseteq Call /\ asking \subseteq Call
  /\ (asking # {}) <=> (phase = "asking")
  /\ worker \in [Call -> {"none", "run", "put", "over"}]
  /\ seg \in [Part -> Segment]
  /\ message \in Message
  /\ flags \subseteq {"needsCompact", "shouldBreak"}
  /\ storedTool \in [Call -> ToolState] /\ lostTool \subseteq Call
  /\ storedSeg \in [Part -> Segment] /\ lostSeg \subseteq Part
  /\ storedMessage \in Message /\ lostMessage \in BOOLEAN
  /\ last \in [Call -> {"none", "input", "call", "refused", "answered"}]
  /\ overwritten \subseteq Part
  /\ outcome \in {"none", "continue", "stop", "compact"}

ProcInit ==
  /\ events = 0 /\ phase = "stream" /\ executor \in BOOLEAN /\ ctxDone = FALSE
  /\ sig = [c \in Call |-> NoSig]
  /\ currentText = NoPart /\ reasoning = [k \in Key |-> NoPart]
  /\ toolOrder = <<>>
  /\ tool = [c \in Call |-> "none"]
  /\ blank = {} /\ pending = {} /\ asking = {}
  /\ worker = [c \in Call |-> "none"]
  /\ seg = [x \in Part |-> [state |-> "none", text |-> 0]]
  /\ message = [finish |-> FALSE, error |-> "none", completed |-> FALSE]
  /\ flags = {}
  /\ storedTool = tool /\ storedSeg = seg /\ storedMessage = message
  /\ lostTool = {} /\ lostSeg = {} /\ lostMessage = FALSE
  /\ last = [c \in Call |-> "none"]
  /\ overwritten = {}
  /\ outcome = "none"

(* What the store refuses by itself; a write that is refused again counts once. *)
MayFail(tools, parts, msg) ==
  ~ctxDone /\ Cardinality(tools) + Cardinality(parts) + (IF msg THEN 1 ELSE 0) <= MaxStale

(* updatePart for a tool and for texts, and updateMessage: the new value is stored
   unless the context is cancelled or the write fails, of which the processor does
   not learn. *)
PutTool(c) ==
  /\ \/ /\ ~ctxDone
        /\ storedTool' = [storedTool EXCEPT ![c] = tool'[c]] /\ lostTool' = lostTool \ {c}
     \/ /\ MayFail(lostTool \cup {c}, lostSeg, lostMessage)
        /\ lostTool' = lostTool \cup {c} /\ UNCHANGED storedTool
     \/ ctxDone /\ UNCHANGED <<storedTool, lostTool>>
  /\ UNCHANGED <<storedSeg, lostSeg, storedMessage, lostMessage>>
PutSegs(X) ==
  /\ \/ /\ ~ctxDone
        /\ \E L \in SUBSET X :
             /\ L = {} \/ MayFail(lostTool, (lostSeg \ X) \cup L, lostMessage)
             /\ storedSeg' = [x \in Part |-> IF x \in X \ L THEN seg'[x] ELSE storedSeg[x]]
             /\ lostSeg' = (lostSeg \ X) \cup L
     \/ ctxDone /\ UNCHANGED <<storedSeg, lostSeg>>
  /\ UNCHANGED <<storedTool, lostTool, storedMessage, lostMessage>>
PutMessage ==
  /\ \/ ~ctxDone /\ storedMessage' = message' /\ lostMessage' = FALSE
     \/ /\ MayFail(lostTool, lostSeg, TRUE)
        /\ lostMessage' = TRUE /\ UNCHANGED storedMessage
     \/ ctxDone /\ UNCHANGED <<storedMessage, lostMessage>>
  /\ UNCHANGED <<storedTool, lostTool, storedSeg, lostSeg>>

-----------------------------------------------------------------------------
(* The stream: the consumer takes the provider's next event. *)
Consuming == phase = "stream" /\ events < MaxEvents /\ events' = events + 1

NewPart(x) ==
  /\ seg[x].state = "none" /\ \A y \in 1..(x - 1) : seg[y].state # "none"
  /\ seg' = [seg EXCEPT ![x] = [state |-> "open", text |-> 0]]
  /\ PutSegs({x})

(* onTextStart: a new part takes the slot, whatever was in it. *)
TextStart(x) ==
  /\ Consuming /\ NewPart(x)
  /\ currentText' = x
  /\ overwritten' = overwritten \cup ({currentText} \ {NoPart})
  /\ UNCHANGED <<engineVars, reasoning, tool, blank, worker, message, flags, outcome>>

(* onReasoningStart: an id that is open keeps its part. *)
ReasoningStart(k, x) ==
  /\ Consuming /\ reasoning[k] = NoPart /\ NewPart(x)
  /\ reasoning' = [reasoning EXCEPT ![k] = x]
  /\ UNCHANGED <<engineVars, currentText, overwritten, tool, blank, worker, message, flags,
                 outcome>>

(* The parts the slot and the map hold. *)
Held == ({currentText} \cup {reasoning[k] : k \in Key}) \ {NoPart}

(* onTextDelta, onReasoningDelta: only in memory, and only for a part that is held. *)
SegmentDelta(x) ==
  /\ Consuming /\ x \in Held /\ seg[x].text < MaxDeltas
  /\ seg' = [seg EXCEPT ![x].text = @ + 1]
  /\ UNCHANGED <<engineVars, currentText, reasoning, overwritten, tool, blank, worker,
                 message, flags, stored, outcome>>

(* onTextEnd, onReasoningEnd and cleanup let go of parts, ended and stored. *)
Finish(X) ==
  /\ seg' = [x \in Part |-> IF x \in X THEN [seg[x] EXCEPT !.state = "ended"] ELSE seg[x]]
  /\ currentText' = IF currentText \in X THEN NoPart ELSE currentText
  /\ reasoning' = [k \in Key |-> IF reasoning[k] \in X THEN NoPart ELSE reasoning[k]]
  /\ UNCHANGED overwritten
  /\ PutSegs(X)

SegmentEnd(x) ==
  /\ Consuming /\ x \in Held /\ Finish({x})
  /\ UNCHANGED <<engineVars, tool, blank, worker, message, flags, outcome>>

(* ensureTool: the order is that of first sight. *)
Seen(c) == tool[c] # "none"
EnsureTool(c) == toolOrder' = IF Seen(c) THEN toolOrder ELSE Append(toolOrder, c)

(* tool-input-start, tool-input-end: nothing for an id that was seen. *)
ToolInputStart(c) ==
  /\ Consuming /\ ~Seen(c)
  /\ EnsureTool(c)
  /\ \E s \in Sig : sig' = [sig EXCEPT ![c] = s]
  /\ tool' = [tool EXCEPT ![c] = "pending"]
  /\ last' = [last EXCEPT ![c] = "input"]
  /\ PutTool(c)
  /\ UNCHANGED <<phase, executor, ctxDone, pending, asking, segVars, blank, worker, message,
                 flags, outcome>>

(* isDoomLoop: the last parts of the order are the same call, none of them
   still pending and none failed. *)
IsDoomLoop(c) ==
  LET n == Len(toolOrder')
      recent == {toolOrder'[i] : i \in (n - doomLoopThreshold + 1)..n}
  IN  /\ n >= doomLoopThreshold
      /\ \A d \in recent : /\ sig'[d] = sig'[c] /\ d \notin blank'
                           /\ tool'[d] \in {"running", "completed"}

(* onToolCall, whatever the call went through before: it runs with the input it is
   given now, waits in pending, and is asked about if it trips the guard; the
   consumer blocks in that ask. *)
OnToolCall(c) ==
  /\ Consuming
  /\ EnsureTool(c)
  /\ \E s \in Sig : sig' = [sig EXCEPT ![c] = s]
  /\ tool' = [tool EXCEPT ![c] = "running"] /\ blank' = blank \ {c}
  /\ pending' = pending \cup {c}
  /\ last' = [last EXCEPT ![c] = "call"]
  /\ PutTool(c)
  /\ IF IsDoomLoop(c) THEN phase' = "asking" /\ asking' = {c}
                      ELSE UNCHANGED <<phase, asking>>
  /\ UNCHANGED <<executor, ctxDone, segVars, worker, message, flags, outcome>>

(* completeCall, failCall and interruptCall put a part into its last state, whatever
   state it is in; only a running one still has its input.  completeCall of a
   StructuredOutput call ends the loop. *)
Resolve(c, state) ==
  /\ tool' = [tool EXCEPT ![c] = state]
  /\ blank' = IF tool[c] = "running" THEN blank ELSE blank \cup {c}
  /\ flags' = IF state = "completed" /\ sig[c] \in Structured
              THEN flags \cup {"shouldBreak"} ELSE flags

(* AskPermission returns nil, or there is no Asker ... *)
DoomAllowed ==
  /\ phase = "asking"
  /\ phase' = "stream" /\ asking' = {}
  /\ UNCHANGED <<events, executor, ctxDone, sig, toolOrder, last, pending, segVars, tool,
                 blank, worker, message, flags, stored, outcome>>

(* ... or an error, a denial or the cancelled context: failCall.  The call stays
   in pending. *)
DoomDenied ==
  /\ phase = "asking"
  /\ \E c \in asking :
       /\ Resolve(c, "error") /\ PutTool(c)
       /\ last' = [last EXCEPT ![c] = "refused"]
  /\ phase' = "stream" /\ asking' = {}
  /\ UNCHANGED <<events, executor, ctxDone, sig, toolOrder, pending, segVars, worker,
                 message, outcome>>

\* mutant: a call the provider resolved stays in pending
ProviderResolvesKeeping(c) ==
  /\ Consuming /\ Seen(c)
  /\ pending' = pending
  /\ last' = [last EXCEPT ![c] = "answered"]
  /\ Resolve(c, "completed") \/ Resolve(c, "error")
  /\ PutTool(c)
  /\ UNCHANGED <<phase, executor, ctxDone, sig, toolOrder, asking, segVars, worker, message,
                 outcome>>

(* onToolResult, onToolError, for a call in any state; for an id never seen they do
   nothing. *)
ProviderResolves(c) ==
  /\ Consuming /\ Seen(c)
  /\ pending' = pending \ {c}
  /\ last' = [last EXCEPT ![c] = "answered"]
  /\ Resolve(c, "completed") \/ Resolve(c, "error")
  /\ PutTool(c)
  /\ UNCHANGED <<phase, executor, ctxDone, sig, toolOrder, asking, segVars, worker, message,
                 outcome>>

(* finishAllReasoning. *)
OpenReasoning == {reasoning[k] : k \in Key} \ {NoPart}

(* onStepFinish: reasoning is finished, the finish is set ... *)
OnStepFinish ==
  /\ Consuming
  /\ Finish(OpenReasoning)
  /\ message' = [message EXCEPT !.finish = TRUE]
  /\ phase' = "finishing"
  /\ UNCHANGED <<executor, ctxDone, callVars, tool, blank, worker, flags, outcome>>

(* isOverflow: whether the usage fills the model's usable context. *)
Overflow(f) == {f, f \cup {"needsCompact"}}

(* ... then stored, and the usage is compared with the model's context. *)
StoreFinish ==
  /\ phase = "finishing"
  /\ UNCHANGED message
  /\ PutMessage
  /\ flags' \in Overflow(flags)
  /\ phase' = "stream"
  /\ UNCHANGED <<events, executor, ctxDone, callVars, segVars, tool, blank, worker, outcome>>

(* onProviderError: stored only by cleanup. *)
OnProviderError ==
  /\ Consuming
  /\ message' = [message EXCEPT !.error = "api"]
  /\ flags' = flags \cup {"shouldBreak"}
  /\ UNCHANGED <<engineVars, segVars, tool, blank, worker, stored, outcome>>

(* The run's cancel function. *)
Cancel ==
  /\ ~ctxDone /\ phase # "returned"
  /\ ctxDone' = TRUE
  /\ UNCHANGED <<events, phase, executor, callVars, segVars, tool, blank, worker, message,
                 flags, stored, outcome>>

-----------------------------------------------------------------------------
\* mutant: a goroutine for every call of the turn
ExecuteAll ==
  /\ phase = "stream"
  /\ worker' = [c \in Call |-> IF executor /\ Seen(c) THEN "run" ELSE "none"]
  /\ pending' = IF executor THEN {} ELSE pending
  /\ phase' = "exec"
  /\ UNCHANGED <<events, executor, ctxDone, sig, toolOrder, last, asking, segVars, tool,
                 blank, message, flags, stored, outcome>>

(* The channel is closed, at any time: after the provider's last event, or because
   its body ended or emit saw the cancelled context.  executePending starts a
   goroutine per pending call, if there is an executor. *)
ExecutePending ==
  /\ phase = "stream"
  /\ worker' = [c \in Call |-> IF executor /\ c \in pending THEN "run" ELSE "none"]
  /\ pending' = IF executor THEN {} ELSE pending
  /\ phase' = "exec"
  /\ UNCHANGED <<events, executor, ctxDone, sig, toolOrder, last, asking, segVars, tool,
                 blank, message, flags, stored, outcome>>

(* Executor.Execute returns: completeCall, failCall or, when the context is
   cancelled by then, interruptCall changes the part ... *)
ExecuteReturns(c) ==
  /\ worker[c] = "run"
  /\ worker' = [worker EXCEPT ![c] = "put"]
  /\ Resolve(c, "completed") \/ Resolve(c, IF ctxDone THEN "interrupted" ELSE "error")
  /\ UNCHANGED <<events, engineVars, segVars, message, stored, outcome>>

\* mutant: a goroutine that was aborted does not reach wg.Done
ExecutePutsUnlessAborted(c) ==
  /\ worker[c] = "put" /\ ~ctxDone
  /\ worker' = [worker EXCEPT ![c] = "over"]
  /\ UNCHANGED tool
  /\ PutTool(c)
  /\ UNCHANGED <<events, engineVars, segVars, blank, message, flags, outcome>>

(* ... and then stores it. *)
ExecutePuts(c) ==
  /\ worker[c] = "put"
  /\ worker' = [worker EXCEPT ![c] = "over"]
  /\ UNCHANGED tool
  /\ PutTool(c)
  /\ UNCHANGED <<events, engineVars, segVars, blank, message, flags, outcome>>

\* mutant: cleanup does not wait for the goroutines
WaitNot ==
  /\ phase = "exec"
  /\ phase' = "cleanup"
  /\ UNCHANGED <<events, executor, ctxDone, callVars, segVars, tool, blank, worker, message,
                 flags, stored, outcome>>

(* wg.Wait. *)
Wait ==
  /\ phase = "exec" /\ \A c \in Call : worker[c] \in {"none", "over"}
  /\ phase' = "cleanup"
  /\ UNCHANGED <<events, executor, ctxDone, callVars, segVars, tool, blank, worker, message,
                 flags, stored, outcome>>

\* mutant: a held part is ended in memory only
CleanSegmentUnwritten(x) ==
  /\ phase = "cleanup" /\ x \in Held
  /\ seg' = [seg EXCEPT ![x].state = "ended"]
  /\ currentText' = IF currentText = x THEN NoPart ELSE currentText
  /\ reasoning' = [k \in Key |-> IF reasoning[k] = x THEN NoPart ELSE reasoning[k]]
  /\ UNCHANGED <<events, engineVars, overwritten, tool, blank, worker, message, flags,
                 stored, outcome>>

(* cleanup: the text in the slot, then the open reasoning, is ended and written ... *)
CleanSegment(x) ==
  /\ phase = "cleanup" /\ x \in Held
  /\ currentText # NoPart => x = currentText
  /\ Finish({x})
  /\ UNCHANGED <<events, engineVars, tool, blank, worker, message, flags, outcome>>

Unresolved(c) == tool[c] \in {"pending", "running"}

(* ... the tools that are still pending or running are interrupted, in order ... *)
CleanTool(c) ==
  /\ phase = "cleanup" /\ Held = {}
  /\ \E i \in DOMAIN toolOrder :
       /\ toolOrder[i] = c /\ Unresolved(c)
       /\ \A j \in 1..(i - 1) : ~Unresolved(toolOrder[j])
  /\ Resolve(c, "interrupted")
  /\ PutTool(c)
  /\ UNCHANGED <<events, engineVars, segVars, worker, message, outcome>>

(* ... and the message is completed, marked as aborted if it is, and stored; Run
   returns. *)
CleanMessage ==
  /\ phase = "cleanup" /\ Held = {} /\ \A c \in Call : ~Unresolved(c)
  /\ message' = [message EXCEPT !.completed = TRUE,
                                !.error = IF ctxDone /\ @ = "none" THEN "aborted" ELSE @]
  /\ PutMessage
  /\ outcome' = CASE "needsCompact" \in flags -> "compact"
                  [] "needsCompact" \notin flags
                     /\ ("shouldBreak" \in flags \/ message'.error # "none") -> "stop"
                  [] OTHER -> "continue"
  /\ phase' = "returned"
  /\ UNCHANGED <<events, executor, ctxDone, callVars, segVars, tool, blank, worker, flags>>

-----------------------------------------------------------------------------
ProviderEvent ==
  \/ \E x \in Part : \/ TextStart(x) \/ SegmentDelta(x) \/ SegmentEnd(x)
                     \/ \E k \in Key : ReasoningStart(k, x)
  \/ \E c \in Call : ToolInputStart(c) \/ OnToolCall(c) \/ ProviderResolves(c)
  \/ OnStepFinish \/ OnProviderError

RunStep ==
  \/ StoreFinish \/ Wait \/ CleanMessage
  \/ \E x \in Part : CleanSegment(x)
  \/ \E c \in Call : ExecutePuts(c) \/ CleanTool(c)

ProcNext ==
  \/ ProviderEvent \/ ExecutePending \/ RunStep \/ Cancel \/ DoomAllowed \/ DoomDenied
  \/ \E c \in Call : ExecuteReturns(c)

ProcSpec == ProcInit /\ [][ProcNext]_procVars

(* The processor's goroutines run; once the context is cancelled Manager.Ask returns
   the context's error and, by the contract of ToolExecutor, Execute returns.  emit
   selects between the cancelled context and the next event, each time anew, so it
   cannot pick the event for ever: strong fairness for the end of the stream.
   Providers, clients and tools owe nothing before that. *)
ProcFairSpec ==
  /\ ProcSpec
  /\ WF_procVars(RunStep)
  /\ WF_procVars(ctxDone /\ (DoomDenied \/ \E c \in Call : ExecuteReturns(c)))
  /\ SF_procVars(ctxDone /\ ExecutePending)

-----------------------------------------------------------------------------
(* When a turn that was not aborted returns, however its stream ended, no tool part
   is pending or running and the message is complete; each part, and the message, is
   in the store as it is in memory unless its own last write failed; and the only
   text that is not finalised is one that a later text-start took the slot of, which
   keeps in the store what it had at its start. *)
TurnIsStored ==
  (phase = "returned" /\ ~ctxDone) =>
    /\ message.completed /\ (~lostMessage => storedMessage = message)
    /\ \A c \in Call : ~Unresolved(c) /\ (c \notin lostTool => storedTool[c] = tool[c])
    /\ \A x \in Part \ overwritten :
         seg[x].state # "open" /\ (x \notin lostSeg => storedSeg[x] = seg[x])
    /\ \A x \in overwritten \ lostSeg : storedSeg[x] = [state |-> "open", text |-> 0]

(* The outcome of a call.  A goroutine runs it when the last thing said about it was
   the model's call or the guard's refusal, and there is an executor: never a call
   that the provider answered and did not make again.  Without a goroutine an
   answered call has the provider's verdict, a refused one the guard's, and the rest
   is interrupted. *)
CallsHaveOneOutcome ==
  \A c \in Call :
    /\ worker[c] # "none" => executor /\ last[c] \in {"call", "refused"}
    /\ phase = "returned" =>
         CASE last[c] = "none" -> tool[c] = "none"
           [] last[c] = "answered" -> tool[c] \in {"completed", "error"}
           [] last[c] = "input" -> tool[c] = "interrupted"
           [] last[c] \in {"call", "refused"} /\ executor ->
                /\ worker[c] = "over" /\ tool[c] \in {"completed", "error", "interrupted"}
                /\ tool[c] = "interrupted" => ctxDone
           [] last[c] = "call" /\ ~executor -> tool[c] = "interrupted"
           [] last[c] = "refused" /\ ~executor -> tool[c] = "error"

(* Only what the provider says of the same call replaces a completion: the guard's
   refusal, the goroutines and cleanup leave it, in memory and, once stored, in the
   store. *)
CompletedStays ==
  [][phase # "stream" =>
       \A c \in Call : tool[c] = "completed" =>
         /\ tool'[c] = "completed"
         /\ storedTool[c] = "completed" => storedTool'[c] = "completed"]_procVars

(* Nothing is written once Run has returned: the next turn's reader does not
   meet a goroutine of this one. *)
QuietAfterReturn == [][phase = "returned" => UNCHANGED procVars]_procVars

(* Why it is stored: until an abort the store is behind memory only where a write
   failed, a goroutine has yet to put its part, or a part is not finalised: then the
   store has what it had at its start.  Those parts are the held and the overwritten
   ones, and no two holders hold the same. *)
ToolsFollow ==
  ~ctxDone => \A c \in Call : worker[c] # "put" /\ c \notin lostTool => storedTool[c] = tool[c]

SegsFollow ==
  /\ \A x \in Part : seg[x].state = "open" <=> x \in Held \cup overwritten
  /\ Held \cap overwritten = {}
  /\ \A k \in Key : reasoning[k] # NoPart => reasoning[k] # currentText
  /\ \A j, k \in Key : reasoning[j] = reasoning[k] /\ reasoning[k] # NoPart => j = k
  /\ ~ctxDone => \A x \in Part \ lostSeg :
       storedSeg[x] = IF x \in Held \cup overwritten THEN [state |-> "open", text |-> 0]
                      ELSE seg[x]

WorkersInExec ==
  \A c \in Call :
    /\ worker[c] \in {"run", "put"} => phase = "exec"
    /\ worker[c] = "over" => phase \in {"exec", "cleanup", "returned"}

ReturnedIsFinal ==
  phase = "returned" =>
    /\ \A c \in Call : ~Unresolved(c)
    /\ Held = {}
    /\ message.completed
    /\ ~ctxDone /\ ~lostMessage => storedMessage = message

(* Who resolved a call.  Calls wait in pending while the stream lasts, exactly those
   whose call or refusal was the last word; one that waits or runs is not complete. *)
CallsAccounted ==
  /\ asking \subseteq pending
  /\ \A c \in asking : tool[c] = "running" /\ last[c] = "call"
  /\ \A c \in Call :
       /\ last[c] \in {"call", "refused"} <=>
            c \in pending \/ worker[c] # "none"
       /\ worker[c] # "none" => executor
       /\ executor /\ c \in pending => phase \in {"stream", "asking", "finishing"}
       /\ last[c] = "none" <=> tool[c] = "none"
       /\ last[c] = "input" => tool[c] \in {"pending", "interrupted"}
       /\ last[c] = "answered" => tool[c] \in {"completed", "error"}
       /\ worker[c] \in {"none", "run"} /\ last[c] = "call" =>
            tool[c] \in {"running", "interrupted"}
       /\ worker[c] \in {"none", "run"} /\ last[c] = "refused" => tool[c] = "error"
       /\ worker[c] \in {"put", "over"} => tool[c] \in {"completed", "error", "interrupted"}
       /\ worker[c] \in {"put", "over"} /\ tool[c] = "interrupted" => ctxDone

ProcInv ==
  /\ ProcTypeOK /\ ToolsFollow /\ SegsFollow /\ WorkersInExec /\ ReturnedIsFinal /\ CallsAccounted

(* An abort ends the turn, wherever it is blocked: in the stream, in the
   doom-loop ask, in a tool. *)
AbortEndsTurn == ctxDone ~> (phase = "returned")

=============================================================================
