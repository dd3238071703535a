------------------------------- MODULE Relay --------------------------------
(***************************************************************************)
(* internal/push: the relay that turns events of the global bus into push  *)
(* notifications while no client is connected, and the store of the        *)
(* registered devices.                                                     *)
(*                                                                         *)
(* The relay is one subscriber of the global bus; the bus and its client   *)
(* count are used through busSource.  The app of a device is given one     *)
(* token after the other, and FCM knows the newest one only.               *)
(***************************************************************************)
EXTENDS Naturals, Sequences

CONSTANTS
  Note,         \* events of the global bus, each published at most once
  WantedSets,   \* the choices of those FromEvent maps to a notification
  Session,      \* session ids
  SessionOf,    \* SessionOf[n]: the session an event is about
  Device,       \* device ids
  Filters,      \* session filters a device registers with
  Grace,        \* clientGrace
  Window,       \* rateWindow
  QueueDepth,   \* depth of the relay's channel
  MaxTime,      \* bound: the clock
  MaxTokens,    \* bound: tokens the app of one device is given
  None          \* no registration, the zero time

Time == 0 .. MaxTime
Token == 1 .. MaxTokens
Registration == [token : Token, wants : Filters]

ASSUME RelayAssumption ==
  /\ WantedSets \subseteq SUBSET Note /\ SessionOf \in [Note -> Session]
  /\ Filters \subseteq SUBSET Session
  /\ {Grace, Window, QueueDepth, MaxTime} \subseteq Nat /\ MaxTokens \in Nat \ {0}
  /\ None \notin Nat \cup Registration \cup (Device \X Token)

VARIABLES
  clock, clients,   \* the time, and Global.Clients()
  ch,               \* the relay's channel
  wanted,           \* the events FromEvent maps to a notification
  published,        \* events already published
  clientsSeen, lastDisconnect,   \* locals of Run
  device,           \* device[d]: its row in push_device, or None
  minted,           \* minted[d]: the tokens its app was given so far
  rate,             \* rate[d][s]: Relay.rate, the time of the last admitted push
  job, todo, target, now,   \* the dispatch goroutine of each event: its stage, the
                    \* registrations it has yet to serve, the one it serves,
                    \* and the time it read
  handled,          \* history: the events Run took, with what it saw and did
  admitted,         \* history: admitted[d][s], what rate last recorded, kept
  admittedAt,       \* history: the time at which it was recorded
  wished,           \* history: devices whose app registered its newest token last
  met, parted       \* history: the client that is connected was found by an event; when
                    \* the last one of which that is true left, unless it is met

relayVars == <<clock, clients, ch, wanted, published, clientsSeen, lastDisconnect, device,
               minted, rate, job, todo, target, now, handled, admitted, admittedAt, wished,
               met, parted>>
clientVars == <<clients, met, parted>>
runVars == <<ch, wanted, published, clientsSeen, lastDisconnect, handled>>
storeVars == <<device, minted, wished>>
admitVars == <<admitted, admittedAt>>
jobVars == <<rate, job, todo, target, now, admitVars>>

RelayTypeOK ==
  /\ clock \in Time /\ clients \in 0 .. 1
  /\ ch \in Seq(Note) /\ Len(ch) <= QueueDepth
  /\ wanted \subseteq Note /\ published \subseteq Note
  /\ clientsSeen \in BOOLEAN /\ lastDisconnect \in Time \cup {None}
  /\ device \in [Device -> Registration \cup {None}]
  /\ minted \in [Device -> Token]
  /\ rate \in [Device -> [Session -> Time \cup {None}]]
  /\ job \in [Note -> {"none", "list", "loop", "allow", "send", "done"}]
  /\ todo \in [Note -> SUBSET (Device \X Token)]
  /\ target \in [Note -> (Device \X Token) \cup {None}]
  /\ now \in [Note -> Time]
  /\ handled \in Seq([at : Time, want : BOOLEAN, alone : BOOLEAN, pushed : BOOLEAN])
  /\ admitted \in [Device -> [Session -> Time \cup {None}]]
  /\ admittedAt \in [Device -> [Session -> Time \cup {None}]]
  /\ wished \subseteq Device
  /\ met \in BOOLEAN /\ parted \in Time \cup {None}

Never == [d \in Device |-> [s \in Session |-> None]]

RelayInit ==
  /\ clock = 0 /\ clients = 0
  /\ ch = <<>> /\ wanted \in WantedSets /\ published = {}
  /\ clientsSeen = FALSE /\ lastDisconnect = None
  /\ device = [d \in Device |-> None]
  /\ minted = [d \in Device |-> 1]
  /\ rate = Never
  /\ job = [n \in Note |-> "none"]
  /\ todo = [n \in Note |-> {}]
  /\ target = [n \in Note |-> None]
  /\ now = [n \in Note |-> 0]
  /\ handled = <<>>
  /\ admitted = Never /\ admittedAt = Never
  /\ wished = {} /\ met = FALSE /\ parted = None

-----------------------------------------------------------------------------
(* Time passes; a client connects to, or leaves, its event stream; the bus fans
   an event out to the relay, or loses it to a full channel. *)
Tick ==
  /\ clock < MaxTime
  /\ clock' = clock + 1
  /\ UNCHANGED <<clientVars, runVars, storeVars, jobVars>>

ClientChange ==
  /\ clients' = 1 - clients
  /\ met' = FALSE
  /\ parted' = IF met THEN clock ELSE parted
  /\ UNCHANGED <<clock, runVars, storeVars, jobVars>>

Publish(n) ==
  /\ n \notin published
  /\ published' = published \cup {n}
  /\ ch' = IF Len(ch) < QueueDepth THEN Append(ch, n) ELSE ch
  /\ UNCHANGED <<clock, clientVars, wanted, clientsSeen, lastDisconnect, handled, storeVars, jobVars>>

(* What Run does with the event at the head of its channel, given the time it
   takes for the last disconnect: withhold it while a client is connected or
   within the grace period, or start a dispatch goroutine. *)
Decide(last) ==
  LET n == Head(ch)
      push == n \in wanted /\ clients = 0 /\ ~(last # None /\ clock - last < Grace)
  IN
  /\ ch' = Tail(ch)
  /\ lastDisconnect' = last
  /\ job' = IF push THEN [job EXCEPT ![n] = "list"] ELSE job
  /\ handled' = Append(handled, [at |-> clock, want |-> n \in wanted,
                                 alone |-> clients = 0, pushed |-> push])
  /\ met' = (clients > 0)
  /\ parted' = IF clients > 0 THEN None ELSE parted

\* mutant: every event that finds no client starts the grace period anew
HandleSliding ==
  /\ ch # <<>>
  /\ clientsSeen' = (clientsSeen \/ clients > 0)
  /\ Decide(IF clients > 0 THEN None
            ELSE IF clientsSeen THEN clock ELSE lastDisconnect)
  /\ UNCHANGED <<clock, clients, wanted, published, storeVars, rate, todo, target, now, admitVars>>

\* mutant: the grace period is counted from the last event that found a client
HandleLastSeen ==
  /\ ch # <<>>
  /\ clientsSeen' = (clientsSeen \/ clients > 0)
  /\ Decide(IF clients > 0 THEN clock ELSE lastDisconnect)
  /\ UNCHANGED <<clock, clients, wanted, published, storeVars, rate, todo, target, now, admitVars>>

\* mutant: the notification is sent by the goroutine that drains the bus
HandleInline ==
  /\ ch # <<>>
  /\ \A n \in Note : job[n] \in {"none", "done"}
  /\ clientsSeen' = (clientsSeen \/ clients > 0)
  /\ Decide(IF clients > 0 THEN None
            ELSE IF clientsSeen /\ lastDisconnect = None THEN clock
            ELSE lastDisconnect)
  /\ UNCHANGED <<clock, clients, wanted, published, storeVars, rate, todo, target, now, admitVars>>

(* Run takes an event and reads the client count: the first event that finds no
   client after one that found some starts the grace period. *)
Handle ==
  /\ ch # <<>>
  /\ clientsSeen' = (clientsSeen \/ clients > 0)
  /\ Decide(IF clients > 0 THEN None
            ELSE IF clientsSeen /\ lastDisconnect = None THEN clock
            ELSE lastDisconnect)
  /\ UNCHANGED <<clock, clients, wanted, published, storeVars, rate, todo, target, now, admitVars>>

\* mutant: the device ids are kept without their tokens
ListDevices(n) ==
  /\ job[n] = "list"
  /\ job' = [job EXCEPT ![n] = "loop"]
  /\ todo' = [todo EXCEPT ![n] = {d \in Device : device[d] # None}]
  /\ UNCHANGED <<clock, clientVars, runVars, storeVars, rate, target, now, admitVars>>

(* dispatch lists the registrations that want the session, or fails to ... *)
ListTargets(n) ==
  /\ job[n] = "list"
  /\ \/ /\ job' = [job EXCEPT ![n] = "loop"]
        /\ todo' = [todo EXCEPT ![n] =
             {<<d, device[d].token>> :
                d \in {d \in Device : /\ device[d] # None
                                      /\ SessionOf[n] \in device[d].wants}}]
     \/ job' = [job EXCEPT ![n] = "done"] /\ UNCHANGED todo
  /\ UNCHANGED <<clock, clientVars, runVars, storeVars, rate, target, now, admitVars>>

(* ... and takes them one by one, until none is left.  allow reads the clock ... *)
ReadNow(n) ==
  /\ job[n] = "loop"
  /\ \/ \E t \in todo[n] :
          /\ todo' = [todo EXCEPT ![n] = @ \ {t}]
          /\ target' = [target EXCEPT ![n] = t]
          /\ now' = [now EXCEPT ![n] = clock]
          /\ job' = [job EXCEPT ![n] = "allow"]
     \/ /\ todo[n] = {}
        /\ job' = [job EXCEPT ![n] = "done"]
        /\ UNCHANGED <<todo, target, now>>
  /\ UNCHANGED <<clock, clientVars, runVars, storeVars, rate, admitVars>>

(* ... and, under the lock, drops the entries that are past the window ... *)
Evicted(t) ==
  [d \in Device |-> [s \in Session |->
     IF rate[d][s] # None /\ t >= rate[d][s] + Window THEN None ELSE rate[d][s]]]

\* mutant: the admitted push is not recorded
AllowForgetting(n) ==
  LET d == target[n][1]
      s == SessionOf[n]
  IN
  /\ job[n] = "allow"
  /\ rate' = Evicted(now[n])
  /\ IF Evicted(now[n])[d][s] # None
     THEN /\ job' = [job EXCEPT ![n] = "loop"]
          /\ UNCHANGED admitVars
     ELSE /\ job' = [job EXCEPT ![n] = "send"]
          /\ admitted' = [admitted EXCEPT ![d][s] = now[n]]
          /\ admittedAt' = [admittedAt EXCEPT ![d][s] = clock]
  /\ target' = IF job'[n] = "send" THEN target ELSE [target EXCEPT ![n] = None]
  /\ now' = [now EXCEPT ![n] = 0]
  /\ UNCHANGED <<clock, clientVars, runVars, storeVars, todo>>

(* ... and admits the push unless its own entry is left. *)
Allow(n) ==
  LET d == target[n][1]
      s == SessionOf[n]
  IN
  /\ job[n] = "allow"
  /\ IF Evicted(now[n])[d][s] # None
     THEN /\ rate' = Evicted(now[n])
          /\ job' = [job EXCEPT ![n] = "loop"]
          /\ UNCHANGED admitVars
     ELSE /\ rate' = [Evicted(now[n]) EXCEPT ![d][s] = now[n]]
          /\ job' = [job EXCEPT ![n] = "send"]
          /\ admitted' = [admitted EXCEPT ![d][s] = now[n]]
          /\ admittedAt' = [admittedAt EXCEPT ![d][s] = clock]
  /\ target' = IF job'[n] = "send" THEN target ELSE [target EXCEPT ![n] = None]
  /\ now' = [now EXCEPT ![n] = 0]
  /\ UNCHANGED <<clock, clientVars, runVars, storeVars, todo>>

\* mutant: the registration is pruned by device id
SendPruningDevice(n) ==
  LET d == target[n][1]
      k == target[n][2]
  IN
  /\ job[n] = "send"
  /\ job' = [job EXCEPT ![n] = "loop"]
  /\ target' = [target EXCEPT ![n] = None]
  /\ device' = IF k # minted[d] THEN [device EXCEPT ![d] = None] ELSE device
  /\ UNCHANGED <<clock, clientVars, runVars, minted, wished, rate, todo, now, admitVars>>

(* Send to FCM: it succeeds or fails, and a token FCM no longer knows is pruned
   wherever it is registered (removeByToken). *)
Send(n) ==
  LET d == target[n][1]
      k == target[n][2]
  IN
  /\ job[n] = "send"
  /\ job' = [job EXCEPT ![n] = "loop"]
  /\ target' = [target EXCEPT ![n] = None]
  /\ \/ UNCHANGED device
     \/ /\ k # minted[d]
        /\ device' = [device EXCEPT ![d] =
                        IF @ # None /\ @.token = k THEN None ELSE @]
  /\ UNCHANGED <<clock, clientVars, runVars, minted, wished, rate, todo, now, admitVars>>

-----------------------------------------------------------------------------
(* Register upserts the device's row with the token its app holds. *)
RegisterDevice(d, f) ==
  /\ device' = [device EXCEPT ![d] = [token |-> minted[d], wants |-> f]]
  /\ wished' = wished \cup {d}
  /\ UNCHANGED <<clock, clientVars, runVars, minted, jobVars>>

(* Unregister deletes the row, and is refused when there is none. *)
Unregister(d) ==
  /\ device[d] # None
  /\ device' = [device EXCEPT ![d] = None]
  /\ wished' = wished \ {d}
  /\ UNCHANGED <<clock, clientVars, runVars, minted, jobVars>>

(* FCM gives the app of d a new token; the old one is dead from now on. *)
Rotate(d) ==
  /\ minted[d] < MaxTokens
  /\ minted' = [minted EXCEPT ![d] = @ + 1]
  /\ wished' = wished \ {d}
  /\ UNCHANGED <<clock, clientVars, runVars, device, jobVars>>

RelayNext ==
  \/ Tick \/ ClientChange \/ Handle
  \/ \E n \in Note : Publish(n) \/ ListTargets(n) \/ ReadNow(n) \/ Allow(n) \/ Send(n)
  \/ \E d \in Device : Unregister(d) \/ Rotate(d)
  \/ \E d \in Device, f \in Filters : RegisterDevice(d, f)

RelaySpec == RelayInit /\ [][RelayNext]_relayVars

(* The relay's goroutine is scheduled.  Nothing is assumed of the dispatch
   goroutines: a send may hang for as long as it likes. *)
RelayFairSpec == RelaySpec /\ WF_relayVars(Handle)

-----------------------------------------------------------------------------
(* A notification is withheld in two cases only: a client was connected, or one
   had been when the relay last looked and less than Grace has passed since the
   first event that found none.  That event is withheld however long ago the
   client left, and a client that no event found gives no grace at all: the
   grace period is not counted from the disconnect (relay.go:83-116). *)
WithheldForAReason ==
  \A k \in 1 .. Len(handled) :
    LET recently == \E j \in 1 .. k - 1 :
                      /\ ~handled[j].alone
                      /\ \A i \in j + 1 .. k :
                           handled[i].alone /\ handled[k].at - handled[i].at < Grace
    IN  handled[k].pushed <=> handled[k].want /\ handled[k].alone /\ ~recently

(* A client whose stream drops and comes back is not notified meanwhile: nothing
   is pushed within Grace of the disconnect of a client that an event had found
   connected, whatever other clients came and left since, unseen (relay.go:83-116). *)
ReconnectIsQuiet ==
  [][\A n \in Note :
       job[n] = "none" /\ job'[n] = "list"
         => clients = 0 /\ (parted = None \/ clock >= parted + Grace)]_relayVars

(* Two pushes of a session to a device are a window apart, in the time at which
   they are admitted, but for the time that the first of them waited between its
   reading of the clock and the lock: so much closer may they come, and no more,
   for a dispatch that read the clock long ago and for one that found the entry
   evicted by another session's push (relay.go:161-176). *)
PushesAreSpaced ==
  [][\A n \in Note :
       job[n] = "allow" /\ job'[n] = "send" =>
         LET read == admitted[target[n][1]][SessionOf[n]]
             at == admittedAt[target[n][1]][SessionOf[n]]
         IN  at = None \/ clock >= at + Window - (at - read)]_relayVars

(* A device whose app registered its newest token stays registered until it says
   otherwise: the answer to a send made with its old token prunes nothing, even
   when it comes after the registration was renewed (store.go:108-113). *)
RenewedStaysRegistered ==
  \A d \in wished : device[d] # None /\ device[d].token = minted[d]

(* RateRemembers: what the rate table has forgotten is older than a window, for
   an entry is evicted by a clock that some goroutine read, and what it has not
   forgotten is the last push that was admitted (relay.go:164-175). *)
RateRemembers ==
  \A d \in Device, s \in Session :
    IF rate[d][s] # None THEN admitted[d][s] = rate[d][s]
    ELSE admitted[d][s] = None \/ clock >= admitted[d][s] + Window

(* What was recorded had been read before. *)
RecordedLater ==
  \A d \in Device, s \in Session :
    /\ admitted[d][s] = None <=> admittedAt[d][s] = None
    /\ admitted[d][s] # None => admitted[d][s] <= admittedAt[d][s] /\ admittedAt[d][s] <= clock

(* A dispatch goroutine that asks or sends has a target, and a time read in the
   past. *)
DispatchHasTarget ==
  \A n \in Note : /\ job[n] \in {"allow", "send"} => target[n] # None
                  /\ now[n] <= clock

(* Registrations and rate table are in order, whatever sends, renewals, prunings
   and evictions met. *)
RelayInv ==
  /\ RelayTypeOK
  /\ RenewedStaysRegistered /\ RateRemembers /\ RecordedLater /\ DispatchHasTarget

(* The relay drains its channel whatever FCM does: no send keeps it from taking
   the next event, so that its channel does not fill up and lose events
   (relay.go:117-122). *)
ConsumerNeverStalls == []<>(ch = <<>>)

=============================================================================
