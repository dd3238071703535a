------------------------------ MODULE RunState ------------------------------
(***************************************************************************)
(* internal/engine/runstate: the per-session run lock of the agent loop.   *)
(*                                                                         *)
(* A Call is one invocation of EnsureRunning.  The call that finds its     *)
(* session's slot empty starts a run and the run is named after that call; *)
(* a call that finds the slot taken joins the run it finds there.  The     *)
(* run's goroutine goes through the stages                                 *)
(*                                                                         *)
(*   working   work(ctx) is executing                                      *)
(*   finished  work has returned, the slot is still taken                  *)
(*   cleared   the slot was released under mu                              *)
(*   idled     the deferred OnIdle published session.status idle           *)
(*   closed    cancel() and close(done) ran, the waiters can return        *)
(***************************************************************************)
EXTENDS Naturals, FiniteSets

CONSTANTS
  Session,  \* session ids
  Call,     \* invocations of EnsureRunning, each made at most once
  NoRun     \* the nil *sessionRun

ASSUME RunStateAssumption == NoRun \notin Call

VARIABLES
  active,      \* active[s]: the run in RunState.active, or NoRun
  pc,          \* pc[c]: new | claimed | waiting | returned
  sessionOf,   \* sessionOf[c]: the session id the call was made with
  run,         \* run[c]: the run whose done channel the call waits on
  stage,       \* stage[c]: the goroutine of the run started by c
  cancelling,  \* runs a Cancel has looked up and not yet interrupted
  cancelled,   \* runs whose context is cancelled
  status       \* status[s]: the session.status last published for s

rsVars == <<active, pc, sessionOf, run, stage, cancelling, cancelled, status>>

Stage == {"none", "working", "finished", "cleared", "idled", "closed"}

RSTypeOK ==
  /\ active \in [Session -> Call \cup {NoRun}]
  /\ pc \in [Call -> {"new", "claimed", "waiting", "returned"}]
  /\ sessionOf \in [Call -> Session]
  /\ run \in [Call -> Call \cup {NoRun}]
  /\ stage \in [Call -> Stage]
  /\ cancelling \subseteq Call
  /\ cancelled \subseteq Call
  /\ status \in [Session -> {"busy", "idle"}]

RSInit ==
  /\ active = [s \in Session |-> NoRun]
  /\ pc = [c \in Call |-> "new"]
  /\ sessionOf \in [Call -> Session]
  /\ run = [c \in Call |-> NoRun]
  /\ stage = [c \in Call |-> "none"]
  /\ cancelling = {}
  /\ cancelled = {}
  /\ status = [s \in Session |-> "idle"]

-----------------------------------------------------------------------------
\* mutant: the joined call keeps the session id in place of the run
JoinBySession(c) ==
  /\ pc[c] = "new"
  /\ active[sessionOf[c]] # NoRun
  /\ pc' = [pc EXCEPT ![c] = "waiting"]
  /\ run' = [run EXCEPT ![c] = sessionOf[c]]
  /\ UNCHANGED <<active, sessionOf, stage, cancelling, cancelled, status>>

(* EnsureRunning, first critical section: a run is active, so join it. *)
Join(c) ==
  /\ pc[c] = "new"
  /\ active[sessionOf[c]] # NoRun
  /\ pc' = [pc EXCEPT ![c] = "waiting"]
  /\ run' = [run EXCEPT ![c] = active[sessionOf[c]]]
  /\ UNCHANGED <<active, sessionOf, stage, cancelling, cancelled, status>>

\* mutant: the slot is taken without looking whether it is free
ClaimBlindly(c) ==
  /\ pc[c] = "new"
  /\ active' = [active EXCEPT ![sessionOf[c]] = c]
  /\ pc' = [pc EXCEPT ![c] = "claimed"]
  /\ run' = [run EXCEPT ![c] = c]
  /\ UNCHANGED <<sessionOf, stage, cancelling, cancelled, status>>

(* EnsureRunning, first critical section: the slot is free, so take it. *)
Claim(c) ==
  /\ pc[c] = "new"
  /\ active[sessionOf[c]] = NoRun
  /\ active' = [active EXCEPT ![sessionOf[c]] = c]
  /\ pc' = [pc EXCEPT ![c] = "claimed"]
  /\ run' = [run EXCEPT ![c] = c]
  /\ UNCHANGED <<sessionOf, stage, cancelling, cancelled, status>>

(* OnBusy publishes session.status busy outside mu, then the run's goroutine
   is launched and the caller blocks on done. *)
OnBusy(c) ==
  /\ pc[c] = "claimed"
  /\ pc' = [pc EXCEPT ![c] = "waiting"]
  /\ stage' = [stage EXCEPT ![c] = "working"]
  /\ status' = [status EXCEPT ![sessionOf[c]] = "busy"]
  /\ UNCHANGED <<active, sessionOf, run, cancelling, cancelled>>

(* work(ctx) returns and its result is stored in the run. *)
WorkReturns(r) ==
  /\ stage[r] = "working"
  /\ stage' = [stage EXCEPT ![r] = "finished"]
  /\ UNCHANGED <<active, pc, sessionOf, run, cancelling, cancelled, status>>

\* mutant: an interrupted run leaves without giving the slot back
ClearSlotUnlessCancelled(r) ==
  /\ stage[r] = "finished"
  /\ stage' = [stage EXCEPT ![r] = "cleared"]
  /\ active' = IF r \in cancelled
               THEN active
               ELSE [active EXCEPT ![sessionOf[r]] = NoRun]
  /\ UNCHANGED <<pc, sessionOf, run, cancelling, cancelled, status>>

(* Second critical section: release the slot if it is still this run's. *)
ClearSlot(r) ==
  /\ stage[r] = "finished"
  /\ stage' = [stage EXCEPT ![r] = "cleared"]
  /\ active' = IF active[sessionOf[r]] = r
               THEN [active EXCEPT ![sessionOf[r]] = NoRun]
               ELSE active
  /\ UNCHANGED <<pc, sessionOf, run, cancelling, cancelled, status>>

\* mutant: an interrupted run publishes nothing
OnIdleUnlessCancelled(r) ==
  /\ stage[r] = "cleared"
  /\ stage' = [stage EXCEPT ![r] = "idled"]
  /\ status' = IF r \in cancelled THEN status ELSE [status EXCEPT ![sessionOf[r]] = "idle"]
  /\ UNCHANGED <<active, pc, sessionOf, run, cancelling, cancelled>>

(* The deferred OnIdle publishes session.status idle, outside mu. *)
OnIdle(r) ==
  /\ stage[r] = "cleared"
  /\ stage' = [stage EXCEPT ![r] = "idled"]
  /\ status' = [status EXCEPT ![sessionOf[r]] = "idle"]
  /\ UNCHANGED <<active, pc, sessionOf, run, cancelling, cancelled>>

\* mutant: done is only closed when the run was not interrupted
CloseDoneUnlessCancelled(r) ==
  /\ stage[r] = "idled"
  /\ r \notin cancelled
  /\ stage' = [stage EXCEPT ![r] = "closed"]
  /\ cancelled' = cancelled \cup {r}
  /\ UNCHANGED <<active, pc, sessionOf, run, cancelling, status>>

(* The deferred cancel() and close(run.done). *)
CloseDone(r) ==
  /\ stage[r] = "idled"
  /\ stage' = [stage EXCEPT ![r] = "closed"]
  /\ cancelled' = cancelled \cup {r}
  /\ UNCHANGED <<active, pc, sessionOf, run, cancelling, status>>

\* mutant: a waiter is released as soon as the slot is free again
ReturnEarly(c) ==
  /\ pc[c] = "waiting"
  /\ stage[run[c]] \in {"cleared", "idled", "closed"}
  /\ pc' = [pc EXCEPT ![c] = "returned"]
  /\ UNCHANGED <<active, sessionOf, run, stage, cancelling, cancelled, status>>

(* <-run.done: the starter and the calls that joined return its result. *)
Return(c) ==
  /\ pc[c] = "waiting"
  /\ stage[run[c]] = "closed"
  /\ pc' = [pc EXCEPT ![c] = "returned"]
  /\ UNCHANGED <<active, sessionOf, run, stage, cancelling, cancelled, status>>

(* Cancel looks the run up under mu ... *)
CancelLookup(s) ==
  /\ active[s] # NoRun
  /\ cancelling' = cancelling \cup {active[s]}
  /\ UNCHANGED <<active, pc, sessionOf, run, stage, cancelled, status>>

\* mutant: the run is looked up again when the interrupt is delivered
CancelFireLatest(r) ==
  /\ r \in cancelling
  /\ cancelling' = cancelling \ {r}
  /\ cancelled' = cancelled \cup ({active[sessionOf[r]]} \ {NoRun})
  /\ UNCHANGED <<active, pc, sessionOf, run, stage, status>>

(* ... and interrupts it after unlocking, whatever happened in between. *)
CancelFire(r) ==
  /\ r \in cancelling
  /\ cancelling' = cancelling \ {r}
  /\ cancelled' = cancelled \cup {r}
  /\ UNCHANGED <<active, pc, sessionOf, run, stage, status>>

(* Busy / AssertNotBusy: what a shell-style caller reads under mu. *)
Busy(s) == active[s] # NoRun

RunSteps(r) == WorkReturns(r) \/ ClearSlot(r) \/ OnIdle(r) \/ CloseDone(r)

RSNext ==
  \/ \E c \in Call : Join(c) \/ Claim(c) \/ OnBusy(c) \/ Return(c)
  \/ \E r \in Call : RunSteps(r)
  \/ \E s \in Session : CancelLookup(s)
  \/ \E r \in Call : CancelFire(r)

RSSpec == RSInit /\ [][RSNext]_rsVars

(* Some goroutine of the lock moves while one can; each moves finitely often.
   The lock promises nothing about how long work runs, so its return is fair
   only once the context is cancelled: work is context-aware and gives up. *)
CancelledWorkReturns(r) == r \in cancelled /\ WorkReturns(r)

RSFairness ==
  WF_rsVars(\E c \in Call : \/ OnBusy(c) \/ Return(c) \/ CancelledWorkReturns(c)
                           \/ ClearSlot(c) \/ OnIdle(c) \/ CloseDone(c))

RSFairSpec == RSSpec /\ RSFairness

-----------------------------------------------------------------------------
(* The run owns its session's slot: claimed, and not yet cleared. *)
Owns(r) == pc[r] = "claimed" \/ stage[r] \in {"working", "finished"}

(* "Each session has at most one active run": no two runs of one session are
   ever between taking the slot and giving it back, so two loops never write
   to one session's history at the same time (runstate.go package comment). *)
OneRunPerSession ==
  \A r1, r2 \in Call :
    Owns(r1) /\ Owns(r2) /\ sessionOf[r1] = sessionOf[r2] => r1 = r2

(* The slot names exactly the run that owns it, so the guard
   "only clear if still ours" in the goroutine never fails and Busy is exact. *)
SlotIsExact ==
  \A s \in Session, r \in Call :
    active[s] = r <=> (Owns(r) /\ sessionOf[r] = s)

(* A caller only ever waits on, and only ever returns, a run of the session it
   prompted, and it returns only once that run is over. *)
ResultIsOwnSession ==
  \A c \in Call :
    /\ pc[c] \in {"waiting", "returned"} =>
         /\ run[c] \in Call
         /\ sessionOf[run[c]] = sessionOf[c]
    /\ pc[c] = "returned" => stage[run[c]] = "closed"

(* A run's goroutine exists only after its starter took the slot and
   announced busy; with the three facts above this is inductive. *)
StageFollowsCall ==
  \A c \in Call :
    /\ pc[c] \in {"new", "claimed"} => stage[c] = "none"
    /\ pc[c] = "claimed" => run[c] = c

(* No session is left busy: while the last status published for it is busy some
   run of it has yet to publish idle, however its idle and the next run's busy,
   both published without the lock, overtake each other (runstate.go:83). *)
BusyHasRun ==
  \A s \in Session : status[s] = "busy" =>
    \E r \in Call : /\ sessionOf[r] = s
                    /\ stage[r] \in {"working", "finished", "cleared"}

(* The lock is in order: its variables are well typed, the slot is exact, waiters
   wait for a run of their own session, and busy sessions have a run. *)
RSInv ==
  /\ RSTypeOK /\ SlotIsExact /\ StageFollowsCall /\ ResultIsOwnSession /\ BusyHasRun

(* Cancel interrupts only a run whose slot was taken when it looked: the
   context of a run that is working is cancelled by a step only if a Cancel
   held that very run, never the run that replaced it. *)
CancelHitsItsRun ==
  [][\A r \in Call :
       (r \in cancelled' \ cancelled /\ Owns(r)) => r \in cancelling]_rsVars

(* Once a run is interrupted everybody waiting on it, the starter and the
   coalesced callers alike, gets its result: no caller is left on a done
   channel nobody will close. *)
InterruptReleasesWaiters ==
  \A c, r \in Call :
    (r \in cancelled /\ pc[c] = "waiting" /\ run[c] = r) ~> (pc[c] = "returned")

=============================================================================
