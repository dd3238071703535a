-------------------------------- MODULE Bus ---------------------------------
(***************************************************************************)
(* internal/bus: the bus of every instance and the process-global bus that *)
(* every instance bus forwards to.                                         *)
(*                                                                         *)
(* A subscriber is a bounded channel that its bus fills without waiting:   *)
(* an event that meets a full channel is lost for that subscriber.  A      *)
(* producer is a goroutine that publishes one event after the other.       *)
(***************************************************************************)
EXTENDS Naturals, Sequences

CONSTANTS
  Instance,   \* names of the instances that can be created, and so their buses
  Global,     \* the name of the global bus
  Sub,        \* subscribers, each subscribing at most once
  Producer,   \* goroutines that publish on an instance bus
  MaxEvents,  \* bound: events a producer publishes
  SubBuffer   \* depth of a subscriber's channel

ASSUME BusAssumption ==
  /\ Global \notin Instance
  /\ MaxEvents \in Nat
  /\ SubBuffer \in Nat \ {0}

BusName == Instance \cup {Global}

Event == [by : Producer, n : 1 .. MaxEvents, on : Instance]

VARIABLES
  subs,      \* subs[b]: the subscribers in the map of bus b
  ch,        \* ch[x]: what waits in the channel of subscriber x
  sent,      \* sent[p]: how many events p has published
  forward,   \* events out on their instance bus and not yet on the global one
  log,       \* history: log[b], what was fanned out on b, in the order of its lock
  overflow   \* history: overflow[x], the events x lost to a full channel

busVars == <<subs, ch, sent, forward, log, overflow>>

BusTypeOK ==
  /\ subs \in [BusName -> SUBSET Sub]
  /\ ch \in [Sub -> Seq(Event)]
  /\ sent \in [Producer -> 0 .. MaxEvents]
  /\ forward \subseteq Event
  /\ log \in [BusName -> Seq(Event)]
  /\ overflow \in [Sub -> SUBSET Event]

BusInit ==
  /\ subs = [b \in BusName |-> {}]
  /\ ch = [x \in Sub |-> <<>>]
  /\ sent = [p \in Producer |-> 0]
  /\ forward = {}
  /\ log = [b \in BusName |-> <<>>]
  /\ overflow = [x \in Sub |-> {}]

Full(x) == Len(ch[x]) >= SubBuffer

(* The select with a default, once for every subscriber, under the lock. *)
FanOut(b, e) ==
  /\ ch' = [x \in Sub |-> IF x \in subs[b] /\ ~Full(x) THEN Append(ch[x], e) ELSE ch[x]]
  /\ overflow' = [x \in Sub |-> IF x \in subs[b] /\ Full(x)
                                THEN overflow[x] \cup {e} ELSE overflow[x]]
  /\ log' = [log EXCEPT ![b] = Append(@, e)]

(* Subscribe and the unsubscribe it returns, on an instance bus or the global
   one; nobody reads the channel that is closed then. *)
Subscribe(x, b) ==
  /\ subs' = [subs EXCEPT ![b] = @ \cup {x}]
  /\ UNCHANGED <<ch, sent, forward, log, overflow>>

Unsubscribe(x, b) ==
  /\ subs' = [subs EXCEPT ![b] = @ \ {x}]
  /\ ch' = [ch EXCEPT ![x] = <<>>]
  /\ overflow' = [overflow EXCEPT ![x] = {}]
  /\ UNCHANGED <<sent, forward, log>>

(* A subscriber takes the oldest event out of its channel. *)
Take(x) ==
  /\ ch[x] # <<>>
  /\ ch' = [ch EXCEPT ![x] = Tail(@)]
  /\ UNCHANGED <<subs, sent, forward, log, overflow>>

\* mutant: the global bus is served by a goroutine of its own
PublishAsync(p, i) ==
  LET e == [by |-> p, n |-> sent[p] + 1, on |-> i] IN
  /\ sent[p] < MaxEvents
  /\ sent' = [sent EXCEPT ![p] = @ + 1]
  /\ FanOut(i, e)
  /\ forward' = forward \cup {e}
  /\ UNCHANGED subs

(* Publish: the fan-out on the instance bus, under its lock ... *)
Publish(p, i) ==
  LET e == [by |-> p, n |-> sent[p] + 1, on |-> i] IN
  /\ sent[p] < MaxEvents
  /\ \A f \in forward : f.by # p
  /\ sent' = [sent EXCEPT ![p] = @ + 1]
  /\ FanOut(i, e)
  /\ forward' = forward \cup {e}
  /\ UNCHANGED subs

(* ... and, after the unlock and before the caller goes on, the fan-out on the
   global bus. *)
PublishGlobal(e) ==
  /\ e \in forward
  /\ FanOut(Global, e)
  /\ forward' = forward \ {e}
  /\ UNCHANGED <<subs, sent>>

-----------------------------------------------------------------------------
(* The events of one producer reach the global bus in the order in which the
   producer published them, and none before its own instance bus had it, even
   though no lock is held between the two fan-outs (bus.go:83-93). *)
GlobalKeepsProducerOrder ==
  /\ \A k \in 1 .. Len(log[Global]) :
       LET e == log[Global][k] IN
       \E j \in 1 .. Len(log[e.on]) : log[e.on][j] = e
  /\ \A j, k \in 1 .. Len(log[Global]) :
       (j < k /\ log[Global][j].by = log[Global][k].by)
         => log[Global][j].n < log[Global][k].n

=============================================================================
