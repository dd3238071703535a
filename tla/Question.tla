------------------------------ MODULE Question ------------------------------
(***************************************************************************)
(* internal/engine/question: Manager.Ask blocks the question tool until a  *)
(* client answers or dismisses it.  Unlike the permission manager a reply  *)
(* only takes the request out of the map under mu; it sends the answer and *)
(* publishes the event after the unlock.                                   *)
(***************************************************************************)
CONSTANT Inquiry   \* invocations of Manager.Ask, each made once

VARIABLES
  qpc,       \* qpc[a]: new | registered | waiting | leaving | done
  asked,     \* Manager.pending
  replier,   \* replier[a]: none, or where the reply that took a is:
             \* sending | publishing | over
  reply,     \* reply[a]: what that reply carries
  qresolve,  \* qresolve[a]: content of the request's channel, of capacity 1
  qctx,      \* asks whose context is cancelled
  qresult    \* qresult[a]: what Ask returned

qVars == <<qpc, asked, replier, reply, qresolve, qctx, qresult>>

Reply == {"answers", "rejected"}

QTypeOK ==
  /\ qpc \in [Inquiry -> {"new", "registered", "waiting", "leaving", "done"}]
  /\ asked \subseteq Inquiry
  /\ replier \in [Inquiry -> {"none", "sending", "publishing", "over"}]
  /\ reply \in [Inquiry -> Reply \cup {"none"}]
  /\ qresolve \in [Inquiry -> Reply \cup {"empty"}]
  /\ qctx \subseteq Inquiry
  /\ qresult \in [Inquiry -> Reply \cup {"none", "cancelled"}]

QInit ==
  /\ qpc = [a \in Inquiry |-> "new"]
  /\ asked = {}
  /\ replier = [a \in Inquiry |-> "none"]
  /\ reply = [a \in Inquiry |-> "none"]
  /\ qresolve = [a \in Inquiry |-> "empty"]
  /\ qctx = {}
  /\ qresult = [a \in Inquiry |-> "none"]

(* Ask registers the request under mu ... *)
Register(a) ==
  /\ qpc[a] = "new"
  /\ qpc' = [qpc EXCEPT ![a] = "registered"]
  /\ asked' = asked \cup {a}
  /\ UNCHANGED <<replier, reply, qresolve, qctx, qresult>>

(* ... publishes question.asked and enters the select. *)
PublishQuestion(a) ==
  /\ qpc[a] = "registered"
  /\ qpc' = [qpc EXCEPT ![a] = "waiting"]
  /\ UNCHANGED <<asked, replier, reply, qresolve, qctx, qresult>>

(* select, case <-p.resolve. *)
ReceiveAnswer(a) ==
  /\ qpc[a] = "waiting"
  /\ qresolve[a] # "empty"
  /\ qpc' = [qpc EXCEPT ![a] = "done"]
  /\ qresolve' = [qresolve EXCEPT ![a] = "empty"]
  /\ qresult' = [qresult EXCEPT ![a] = qresolve[a]]
  /\ UNCHANGED <<asked, replier, reply, qctx>>

(* select, case <-ctx.Done(). *)
QuestionCtxDone(a) ==
  /\ qpc[a] = "waiting"
  /\ a \in qctx
  /\ qpc' = [qpc EXCEPT ![a] = "leaving"]
  /\ UNCHANGED <<asked, replier, reply, qresolve, qctx, qresult>>

\* mutant: the abandoned request stays registered
LeaveQuestionOpen(a) ==
  /\ qpc[a] = "leaving"
  /\ qpc' = [qpc EXCEPT ![a] = "done"]
  /\ qresult' = [qresult EXCEPT ![a] = "cancelled"]
  /\ UNCHANGED <<asked, replier, reply, qresolve, qctx>>

(* remove, then return ctx.Err(). *)
LeaveQuestion(a) ==
  /\ qpc[a] = "leaving"
  /\ qpc' = [qpc EXCEPT ![a] = "done"]
  /\ asked' = asked \ {a}
  /\ qresult' = [qresult EXCEPT ![a] = "cancelled"]
  /\ UNCHANGED <<replier, reply, qresolve, qctx>>

(* An abort cancels the run the ask belongs to. *)
CancelQuestionCtx(a) ==
  /\ qpc[a] # "done"
  /\ qctx' = qctx \cup {a}
  /\ UNCHANGED <<qpc, asked, replier, reply, qresolve, qresult>>

\* mutant: a second reply finds the request still in the map
TakeWithoutDelete(a) ==
  /\ a \in asked
  /\ replier' = [replier EXCEPT ![a] = "sending"]
  /\ \E v \in Reply : reply' = [reply EXCEPT ![a] = v]
  /\ UNCHANGED <<qpc, asked, qresolve, qctx, qresult>>

(* Reply and Reject: look the request up and delete it under mu.  A request
   that is not there is refused with ErrUnknown and nothing changes. *)
Take(a) ==
  /\ a \in asked
  /\ asked' = asked \ {a}
  /\ replier' = [replier EXCEPT ![a] = "sending"]
  /\ \E v \in Reply : reply' = [reply EXCEPT ![a] = v]
  /\ UNCHANGED <<qpc, qresolve, qctx, qresult>>

\* mutant: the event goes out and the send is skipped for a waiting asker
SendOnlyToWaiting(a) ==
  /\ replier[a] = "sending"
  /\ replier' = [replier EXCEPT ![a] = "publishing"]
  /\ qresolve' = IF qpc[a] = "waiting" THEN [qresolve EXCEPT ![a] = reply[a]]
                ELSE qresolve
  /\ UNCHANGED <<qpc, asked, reply, qctx, qresult>>

(* The send, which would block on a full channel ... *)
SendReply(a) ==
  /\ replier[a] = "sending"
  /\ qresolve[a] = "empty"
  /\ qresolve' = [qresolve EXCEPT ![a] = reply[a]]
  /\ replier' = [replier EXCEPT ![a] = "publishing"]
  /\ UNCHANGED <<qpc, asked, reply, qctx, qresult>>

(* ... and the replied or rejected event. *)
PublishReply(a) ==
  /\ replier[a] = "publishing"
  /\ replier' = [replier EXCEPT ![a] = "over"]
  /\ UNCHANGED <<qpc, asked, reply, qresolve, qctx, qresult>>

InquiryStep(a) ==
  PublishQuestion(a) \/ ReceiveAnswer(a) \/ QuestionCtxDone(a) \/ LeaveQuestion(a)
ReplyStep(a) == SendReply(a) \/ PublishReply(a)

QNext == \E a \in Inquiry : Register(a) \/ InquiryStep(a) \/ CancelQuestionCtx(a)
                        \/ Take(a) \/ ReplyStep(a)

QSpec == QInit /\ [][QNext]_qVars

-----------------------------------------------------------------------------
QBlocked(a) == qpc[a] \in {"registered", "waiting", "leaving"}

(* A reply in flight finds the channel empty: the handler's send, made without
   mu and without a select, never blocks, also if the asker is gone. *)
AnswerNeverBlocks == \A a \in Inquiry : replier[a] = "sending" => qresolve[a] = "empty"

(* No lost wakeup: a blocked tool can be answered, is being answered or has its
   answer. *)
NoLostAnswer ==
  \A a \in Inquiry :
    QBlocked(a) => a \in asked \/ replier[a] = "sending" \/ qresolve[a] # "empty"

(* List shows only requests a tool is blocked on and nobody has answered. *)
ListedIsOpen == \A a \in asked : QBlocked(a) /\ replier[a] = "none"

(* Before a reply took the request nothing was sent, what is sent is what the
   reply carries, and an ask has a result when it returns; with these the
   conjunction is inductive. *)
ReplyFollowsTake ==
  \A a \in Inquiry :
    /\ replier[a] = "none" => reply[a] = "none" /\ qresolve[a] = "empty"
    /\ replier[a] # "none" => reply[a] \in Reply
    /\ qresolve[a] # "empty" => qresolve[a] = reply[a]
    /\ qpc[a] = "new" => replier[a] = "none"
    /\ qpc[a] = "done" <=> qresult[a] # "none"

(* The manager is in order, whatever replies, rejections and aborts met. *)
QInv == /\ QTypeOK /\ AnswerNeverBlocks /\ NoLostAnswer /\ ListedIsOpen
        /\ ReplyFollowsTake

QAbsState ==
  [a \in Inquiry |->
     CASE qpc[a] = "new" -> "new"
       [] QBlocked(a) /\ replier[a] = "none" -> "open"
       [] QBlocked(a) /\ replier[a] # "none" -> "answered"
       [] OTHER -> "over"]

QAbsAnswer ==
  [a \in Inquiry |-> IF qpc[a] = "done" THEN qresult[a] ELSE reply[a]]

QD == INSTANCE Deferred WITH Ask <- Inquiry, Answer <- Reply,
                              state <- QAbsState, answer <- QAbsAnswer

(* A question gets at most one answer, the first reply that takes it, and its
   tool returns that answer or its own cancellation. *)
QuestionDeferred == QD!DSpec
=============================================================================
