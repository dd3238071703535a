----------------------------- MODULE Permission -----------------------------
(***************************************************************************)
(* internal/engine/permission: Manager.Ask blocks a tool until a client    *)
(* replies, "always" replies become grants of the session, a reject        *)
(* cascades over the session.                                              *)
(*                                                                         *)
(* An Ask is one invocation of Manager.Ask (a tool call of a run, or the   *)
(* doom-loop guard).  A Pattern stands for a permission key with its       *)
(* pattern; every caller passes the same patterns as Patterns and Always.  *)
(* Each critical section of mu is one step; what is published after the    *)
(* unlock is a step of its own.                                            *)
(***************************************************************************)
EXTENDS Integers, FiniteSets, FiniteSetsExt

CONSTANTS
  Ask,       \* invocations of Manager.Ask, each made once
  Session,   \* session ids
  Pattern,   \* permission key and pattern
  Matches,   \* <<rule, value>>: the pattern of a rule matches that of an ask
  Rulesets   \* the merged agent/config rulesets asks come with

ASSUME PermissionAssumption ==
  /\ Matches \subseteq Pattern \X Pattern
  /\ \A rs \in Rulesets : \A i \in DOMAIN rs :
       rs[i] \in [pattern : Pattern, action : {"allow", "ask", "deny"}]

VARIABLES
  info,      \* info[a]: the AskInput
  pc,        \* pc[a]: new | registered | waiting | leaving | done
  pending,   \* Manager.pending
  approved,  \* Manager.approved[s], all allow rules: only membership matters
  resolve,   \* resolve[a]: content of the request's channel, of capacity 1
  ctx,       \* asks whose context is cancelled
  result,    \* result[a]: what Ask returned
  replying,  \* requests whose replied event Reply still has to publish
  dialogs,   \* requests a client shows: asked was seen and replied was not
  consented  \* requests a client answered once or always itself

permVars == <<info, pc, pending, approved, resolve, ctx, result, replying,
              dialogs, consented>>

AskInput == [session : Session, patterns : SUBSET Pattern, rules : Rulesets]

PermTypeOK ==
  /\ info \in [Ask -> AskInput]
  /\ pc \in [Ask -> {"new", "registered", "waiting", "leaving", "done"}]
  /\ pending \subseteq Ask
  /\ approved \in [Session -> SUBSET Pattern]
  /\ resolve \in [Ask -> {"empty", "allow", "deny"}]
  /\ ctx \subseteq Ask
  /\ result \in [Ask -> {"none", "allow", "deny", "cancelled"}]
  /\ replying \subseteq Ask
  /\ dialogs \subseteq Ask
  /\ consented \subseteq Ask

PermInit ==
  /\ info \in [Ask -> AskInput]
  /\ pc = [a \in Ask |-> "new"]
  /\ pending = {}
  /\ approved = [s \in Session |-> {}]
  /\ resolve = [a \in Ask |-> "empty"]
  /\ ctx = {}
  /\ result = [a \in Ask |-> "none"]
  /\ replying = {}
  /\ dialogs = {}
  /\ consented = {}

-----------------------------------------------------------------------------
(* Evaluate over the rulesets of the ask: the last match wins, ask if none. *)
RuleVerdict(rules, p) ==
  LET hits == {i \in DOMAIN rules : <<rules[i].pattern, p>> \in Matches}
  IN  IF hits = {} THEN "ask" ELSE rules[Max(hits)].action

(* Evaluate over rulesetsFor: the session's grants come last. *)
Evaluate(in, p, grants) ==
  IF \E g \in grants : <<g, p>> \in Matches THEN "allow"
  ELSE RuleVerdict(in.rules, p)

Denied(in, grants) ==
  \E p \in in.patterns : Evaluate(in, p, grants) = "deny"

(* An ask without patterns always prompts. *)
AllAllowed(in, grants) ==
  /\ in.patterns # {}
  /\ \A p \in in.patterns : Evaluate(in, p, grants) = "allow"

Grants(a) == approved[info[a].session]

(* Ask, first critical section: a pattern is denied ... *)
AskDenied(a) ==
  /\ pc[a] = "new"
  /\ Denied(info[a], Grants(a))
  /\ pc' = [pc EXCEPT ![a] = "done"]
  /\ result' = [result EXCEPT ![a] = "deny"]
  /\ UNCHANGED <<info, pending, approved, resolve, ctx, replying, dialogs, consented>>

(* ... or all are allowed ... *)
AskAllowed(a) ==
  /\ pc[a] = "new"
  /\ ~Denied(info[a], Grants(a)) /\ AllAllowed(info[a], Grants(a))
  /\ pc' = [pc EXCEPT ![a] = "done"]
  /\ result' = [result EXCEPT ![a] = "allow"]
  /\ UNCHANGED <<info, pending, approved, resolve, ctx, replying, dialogs, consented>>

(* ... or the request is registered. *)
AskRegisters(a) ==
  /\ pc[a] = "new"
  /\ ~Denied(info[a], Grants(a)) /\ ~AllAllowed(info[a], Grants(a))
  /\ pc' = [pc EXCEPT ![a] = "registered"]
  /\ pending' = pending \cup {a}
  /\ UNCHANGED <<info, approved, resolve, ctx, result, replying, dialogs, consented>>

(* permission.asked goes out after the unlock; then the select. *)
PublishAsked(a) ==
  /\ pc[a] = "registered"
  /\ pc' = [pc EXCEPT ![a] = "waiting"]
  /\ dialogs' = dialogs \cup {a}
  /\ UNCHANGED <<info, pending, approved, resolve, ctx, result, replying, consented>>

\* mutant: the asker does not wait for the channel
ReceiveAtOnce(a) ==
  /\ pc[a] = "waiting"
  /\ pc' = [pc EXCEPT ![a] = "done"]
  /\ result' = [result EXCEPT ![a] = resolve[a]]
  /\ UNCHANGED <<info, pending, approved, resolve, ctx, replying, dialogs, consented>>

(* select, case <-p.resolve. *)
Receive(a) ==
  /\ pc[a] = "waiting"
  /\ resolve[a] # "empty"
  /\ pc' = [pc EXCEPT ![a] = "done"]
  /\ resolve' = [resolve EXCEPT ![a] = "empty"]
  /\ result' = [result EXCEPT ![a] = resolve[a]]
  /\ UNCHANGED <<info, pending, approved, ctx, replying, dialogs, consented>>

(* select, case <-ctx.Done(), which may also win over a reply that is there. *)
CtxDone(a) ==
  /\ pc[a] = "waiting"
  /\ a \in ctx
  /\ pc' = [pc EXCEPT ![a] = "leaving"]
  /\ UNCHANGED <<info, pending, approved, resolve, ctx, result, replying, dialogs, consented>>

\* mutant: the request stays registered
LeaveKeepingRequest(a) ==
  /\ pc[a] = "leaving"
  /\ pc' = [pc EXCEPT ![a] = "done"]
  /\ result' = [result EXCEPT ![a] = "cancelled"]
  /\ UNCHANGED <<info, pending, approved, resolve, ctx, replying, dialogs, consented>>

(* The cancelled asker removes its request; no event is published. *)
Leave(a) ==
  /\ pc[a] = "leaving"
  /\ pc' = [pc EXCEPT ![a] = "done"]
  /\ pending' = pending \ {a}
  /\ result' = [result EXCEPT ![a] = "cancelled"]
  /\ UNCHANGED <<info, approved, resolve, ctx, replying, dialogs, consented>>

(* An abort cancels the run the ask belongs to. *)
CancelCtx(a) ==
  /\ pc[a] # "done"
  /\ ctx' = ctx \cup {a}
  /\ UNCHANGED <<info, pc, pending, approved, resolve, result, replying, dialogs, consented>>

-----------------------------------------------------------------------------
Send(S, v) == [b \in Ask |-> IF b \in S THEN v ELSE resolve[b]]

\* mutant: the answered request stays registered
ReplyOnceKeeping(a) ==
  /\ a \in pending
  /\ resolve' = Send({a}, "allow")
  /\ consented' = consented \cup {a}
  /\ replying' = replying \cup {a}
  /\ UNCHANGED <<info, pc, pending, approved, ctx, result, dialogs>>

(* Reply once.  A reply to a request that is not pending is refused and changes
   nothing. *)
ReplyOnce(a) ==
  /\ a \in pending
  /\ pending' = pending \ {a}
  /\ resolve' = Send({a}, "allow")
  /\ consented' = consented \cup {a}
  /\ replying' = replying \cup {a}
  /\ UNCHANGED <<info, pc, approved, ctx, result, dialogs>>

(* unblockNowAllowed: the session's other requests the new grants allow. *)
NowAllowed(a, grants) ==
  {b \in pending \ {a} : /\ info[b].session = info[a].session
                         /\ AllAllowed(info[b], grants)}

\* mutant: grants are recorded but nobody else is unblocked
ReplyAlwaysAlone(a) ==
  /\ a \in pending
  /\ approved' = [approved EXCEPT ![info[a].session] = @ \cup info[a].patterns]
  /\ pending' = pending \ {a}
  /\ resolve' = Send({a}, "allow")
  /\ consented' = consented \cup {a}
  /\ replying' = replying \cup {a}
  /\ UNCHANGED <<info, pc, ctx, result, dialogs>>

\* mutant: the grant unblocks the requests of every session
ReplyAlwaysEverywhere(a) ==
  /\ a \in pending
  /\ LET grants == Grants(a) \cup info[a].patterns
         unblocked == {b \in pending \ {a} : AllAllowed(info[b], grants)}
     IN  /\ approved' = [approved EXCEPT ![info[a].session] = grants]
         /\ pending' = pending \ ({a} \cup unblocked)
         /\ resolve' = Send({a} \cup unblocked, "allow")
         /\ dialogs' = dialogs \ unblocked
  /\ consented' = consented \cup {a}
  /\ replying' = replying \cup {a}
  /\ UNCHANGED <<info, pc, ctx, result>>

(* Reply always: the others' replied events go out under mu. *)
ReplyAlways(a) ==
  /\ a \in pending
  /\ LET grants == Grants(a) \cup info[a].patterns
         unblocked == NowAllowed(a, grants)
     IN  /\ approved' = [approved EXCEPT ![info[a].session] = grants]
         /\ pending' = pending \ ({a} \cup unblocked)
         /\ resolve' = Send({a} \cup unblocked, "allow")
         /\ dialogs' = dialogs \ unblocked
  /\ consented' = consented \cup {a}
  /\ replying' = replying \cup {a}
  /\ UNCHANGED <<info, pc, ctx, result>>

\* mutant: the cascade forgets to send to the others' channels
ReplyRejectSilently(a) ==
  /\ a \in pending
  /\ LET others == {b \in pending \ {a} : info[b].session = info[a].session}
     IN  /\ pending' = pending \ ({a} \cup others)
         /\ resolve' = Send({a}, "deny")
         /\ dialogs' = dialogs \ others
  /\ replying' = replying \cup {a}
  /\ UNCHANGED <<info, pc, approved, ctx, result, consented>>

(* Reply reject: the session's other requests are rejected with it. *)
ReplyReject(a) ==
  /\ a \in pending
  /\ LET others == {b \in pending \ {a} : info[b].session = info[a].session}
     IN  /\ pending' = pending \ ({a} \cup others)
         /\ resolve' = Send({a} \cup others, "deny")
         /\ dialogs' = dialogs \ others
  /\ replying' = replying \cup {a}
  /\ UNCHANGED <<info, pc, approved, ctx, result, consented>>

(* The replied event of the request itself goes out after the unlock. *)
PublishReplied(a) ==
  /\ a \in replying
  /\ replying' = replying \ {a}
  /\ dialogs' = dialogs \ {a}
  /\ UNCHANGED <<info, pc, pending, approved, resolve, ctx, result, consented>>

AskStep(a) ==
  \/ AskDenied(a) \/ AskAllowed(a) \/ AskRegisters(a) \/ PublishAsked(a)
  \/ Receive(a) \/ CtxDone(a) \/ Leave(a)

ClientStep(a) ==
  \/ CancelCtx(a)
  \/ ReplyOnce(a) \/ ReplyAlways(a) \/ ReplyReject(a) \/ PublishReplied(a)

PermNext == \E a \in Ask : AskStep(a) \/ ClientStep(a)

PermSpec == PermInit /\ [][PermNext]_permVars

-----------------------------------------------------------------------------
Blocked(a) == pc[a] \in {"registered", "waiting", "leaving"}

(* Reply sends on the request's channel while it holds mu: the channel of a
   registered request is empty, so the send never blocks the manager. *)
SendNeverBlocks == \A a \in pending : resolve[a] = "empty"

(* No lost wakeup: a tool that is blocked in Ask can still be answered or has
   its answer waiting, whatever replies, cascades and cancels came first. *)
NoLostWakeup == \A a \in Ask : Blocked(a) => a \in pending \/ resolve[a] # "empty"

(* List shows a request only while its tool is blocked on it: a client that
   reloads GET /permission sees no request without an asker. *)
ListedIsBlocked == \A a \in pending : Blocked(a)

(* Nobody is asked about what the session's grants already allow: "always"
   leaves no request pending that it covers. *)
GrantedIsNotAsked == \A a \in pending : ~AllAllowed(info[a], Grants(a))

(* A tool is let through only by its own client's consent or by rules and
   grants of its own session, never by a reply given in another session. *)
AllowedForAReason ==
  \A a \in Ask :
    (result[a] = "allow" \/ resolve[a] = "allow") =>
       a \in consented \/ AllAllowed(info[a], Grants(a))

(* Nothing is sent or replied before the request is registered, and an ask has a
   result when it returns; with these two the conjunction is inductive. *)
ChannelFollowsAsk ==
  \A a \in Ask : /\ pc[a] = "new" => resolve[a] = "empty" /\ a \notin replying
                 /\ pc[a] = "done" <=> result[a] # "none"

(* Once asked went out a client shows the request for as long as it is pending:
   a replied event, of this request or of a cascade, never hides one that still
   waits, though asked and replied are published without a common order
   (manager.go:103). *)
PendingIsShown ==
  /\ replying \cap pending = {}
  /\ \A a \in pending : pc[a] = "waiting" => a \in dialogs

(* The manager is in order, whatever replies, cascades, grants and aborts met. *)
PermInv ==
  /\ PermTypeOK /\ SendNeverBlocks /\ NoLostWakeup /\ ListedIsBlocked
  /\ GrantedIsNotAsked /\ AllowedForAReason /\ ChannelFollowsAsk /\ PendingIsShown

(* The manager is the deferred its package comment describes. *)
AbsState ==
  [a \in Ask |->
     CASE pc[a] = "new" -> "new"
       [] Blocked(a) /\ a \in pending -> "open"
       [] Blocked(a) /\ a \notin pending -> "answered"
       [] OTHER -> "over"]

AbsAnswer ==
  [a \in Ask |->
     CASE pc[a] = "done" -> result[a]
       [] Blocked(a) /\ resolve[a] # "empty" -> resolve[a]
       [] OTHER -> "none"]

D == INSTANCE Deferred WITH Answer <- {"allow", "deny"},
                            state <- AbsState, answer <- AbsAnswer

(* Every request gets at most one answer, and its tool returns that answer or
   its own cancellation. *)
IsDeferred == D!DSpec

=============================================================================
