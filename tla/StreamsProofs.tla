--------------------------- MODULE StreamsProofs ---------------------------
(***************************************************************************)
(* The event streams for any number of directories, instances, requests,   *)
(* producers and events, and any depth of the channels: what a stream      *)
(* sends, the order on the global bus, the fate of every instance and the  *)
(* client count.                                                           *)
(***************************************************************************)
EXTENDS EventStreams, FiniteSetTheorems, SequenceTheorems, TLAPS

USE BusAssumption, StreamsAssumption

(* A handler is in the map of its own bus, from its subscription to its last
   deferred call. *)
SubsAreStreams ==
  \A x \in Sub, b \in BusName :
    x \in subs[b] <=> b = bus[x] /\ at[x] \in {"subscribed", "live", "leaving"}

(* Nothing waits for a handler before it subscribed and after it left, and
   nothing was sent before server.connected. *)
QuietUnlessOpen ==
  \A x \in Sub :
    /\ at[x] \in {"new", "counted", "closed"} => ch[x] = <<>> /\ overflow[x] = {}
    /\ at[x] \in {"new", "counted", "subscribed", "closed"} => recv[x] = <<>>

(* The numbers of a producer's events grow on every bus, and are drawn already. *)
LogsKeepProducerOrder ==
  \A b \in BusName :
    /\ \A k \in 1 .. Len(log[b]) : log[b][k].n <= sent[log[b][k].by]
    /\ \A j, k \in 1 .. Len(log[b]) :
         (j < k /\ log[b][j].by = log[b][k].by) => log[b][j].n < log[b][k].n

(* An event on its way to the global bus is its producer's newest, is on its own
   bus and is not on the global one. *)
ForwardIsNewest ==
  \A e \in forward :
    /\ e.n = sent[e.by]
    /\ \E k \in 1 .. Len(log[e.on]) : log[e.on][k] = e
    /\ \A k \in 1 .. Len(log[Global]) : log[Global][k].by = e.by => log[Global][k].n < e.n
    /\ \A f \in forward : f.by = e.by => f = e

(* The global bus repeats what an instance bus had first. *)
GlobalRepeats ==
  \A k \in 1 .. Len(log[Global]) :
    \E j \in 1 .. Len(log[log[Global][k].on]) : log[log[Global][k].on][j] = log[Global][k]

BusInv ==
  /\ BusTypeOK
  /\ LogsKeepProducerOrder /\ ForwardIsNewest /\ GlobalRepeats

(* What a handler has, g, and what it lost, o, was on its bus, whose log is l, *)
Logged(g, o, l) ==
  /\ \A j \in 1 .. Len(g) : g[j] \notin o /\ \E m \in 1 .. Len(l) : l[m] = g[j]
  /\ \A e \in o : \E m \in 1 .. Len(l) : l[m] = e

(* in that order *)
Ordered(g, l) ==
  \A j, k \in 1 .. Len(g) : j < k =>
    /\ g[j] # g[k]
    /\ \E m, n \in 1 .. Len(l) : m < n /\ l[m] = g[j] /\ l[n] = g[k]

(* and is all that was published after the first f events. *)
Complete(g, o, l, f) ==
  \A k \in f + 1 .. Len(l) : l[k] \notin o => \E j \in 1 .. Len(g) : g[j] = l[k]

StreamsDeliver ==
  \A x \in Sub : at[x] \in {"subscribed", "live"} =>
    /\ Logged(Got(x), overflow[x], log[bus[x]])
    /\ Ordered(Got(x), log[bus[x]])
    /\ at[x] = "live" => Complete(Got(x), overflow[x], log[bus[x]], from[x])

DeliveryInv == SubsAreStreams /\ QuietUnlessOpen /\ StreamsDeliver

(* The cached instance of a directory is its newest, and DisposeAll handles
   instances that exist, one at a time, telling each one's streams first. *)
InstancesInv ==
  /\ \A d \in Directory : instances[d] \in {0, created[d]}
  /\ doomed \cup disposing \cup torn \subseteq Created
  /\ \A i \in disposing : \E k \in 1 .. Len(log[i]) : log[i][k].by = Main
  /\ \A i, j \in disposing : i = j
  /\ phase = "up" => /\ \A d \in Directory : instances[d] = created[d]
                     /\ doomed = {} /\ disposing = {} /\ torn = {}

(* The requests being served are finitely many, so they can be counted. *)
Handlers == {x \in Sub : at[x] \notin {"new", "closed"}}

HandlersInv == IsFiniteSet(Handlers) /\ ClientsAreHandlers

(* The inductive invariant. *)
StreamsIndInv ==
  /\ StreamsTypeOK /\ BusInv
  /\ DeliveryInv /\ DisposedIsLast
  /\ InstancesInv /\ InstancesAccountedFor
  /\ HandlersInv

-----------------------------------------------------------------------------
(* What one fan-out does to the history of the buses. *)
LEMMA FanOutLogs ==
  ASSUME BusTypeOK, NEW b \in BusName, NEW e \in Event, FanOut(b, e)
  PROVE  /\ log' \in [BusName -> Seq(Event)]
         /\ Len(log[b]) \in Nat
         /\ Len(log'[b]) = Len(log[b]) + 1
         /\ log'[b][Len(log[b]) + 1] = e
         /\ \A k \in 1 .. Len(log[b]) : log'[b][k] = log[b][k] /\ log[b][k] \in Event
         /\ \A c \in BusName : c # b => log'[c] = log[c]
<1>1. log[b] \in Seq(Event)
  BY DEF BusTypeOK
<1>2. log' = [log EXCEPT ![b] = Append(log[b], e)]
  BY DEF FanOut
<1>3. log'[b] = Append(log[b], e) /\ \A c \in BusName : c # b => log'[c] = log[c]
  BY <1>2 DEF BusTypeOK
<1>4. Append(log[b], e) \in Seq(Event) /\ Len(log[b]) \in Nat
  BY <1>1, AppendProperties, LenProperties
<1>5. log' \in [BusName -> Seq(Event)]
  BY <1>2, <1>4 DEF BusTypeOK
<1>6. /\ Len(log'[b]) = Len(log[b]) + 1
      /\ log'[b][Len(log[b]) + 1] = e
      /\ \A k \in 1 .. Len(log[b]) : log'[b][k] = log[b][k]
  BY <1>1, <1>3, AppendProperties
<1>7. \A k \in 1 .. Len(log[b]) : log[b][k] \in Event
  BY <1>1, ElementOfSeq
<1> QED
  BY <1>3, <1>4, <1>5, <1>6, <1>7

(* What one fan-out does to the channels. *)
LEMMA FanOutChannels ==
  ASSUME BusTypeOK, NEW b \in BusName, NEW e \in Event, FanOut(b, e)
  PROVE  /\ ch' \in [Sub -> Seq(Event)]
         /\ overflow' \in [Sub -> SUBSET Event]
         /\ \A x \in Sub :
              \/ x \in subs[b] /\ ch'[x] = Append(ch[x], e) /\ overflow'[x] = overflow[x]
              \/ x \in subs[b] /\ ch'[x] = ch[x] /\ overflow'[x] = overflow[x] \cup {e}
              \/ x \notin subs[b] /\ ch'[x] = ch[x] /\ overflow'[x] = overflow[x]
<1>1. \A x \in Sub : Append(ch[x], e) \in Seq(Event) /\ ch[x] \in Seq(Event)
  BY AppendProperties DEF BusTypeOK
<1>2. \A x \in Sub : overflow[x] \in SUBSET Event
  BY DEF BusTypeOK
<1>3. ch' = [x \in Sub |-> IF x \in subs[b] /\ ~Full(x) THEN Append(ch[x], e) ELSE ch[x]]
  BY DEF FanOut
<1>4. overflow' = [x \in Sub |-> IF x \in subs[b] /\ Full(x) THEN overflow[x] \cup {e} ELSE overflow[x]]
  BY DEF FanOut
<1>5. ch' \in [Sub -> Seq(Event)]
  BY <1>1, <1>3
<1>6. overflow' \in [Sub -> SUBSET Event]
  BY <1>2, <1>4
<1>7. ASSUME NEW x \in Sub
      PROVE  \/ x \in subs[b] /\ ch'[x] = Append(ch[x], e) /\ overflow'[x] = overflow[x]
             \/ x \in subs[b] /\ ch'[x] = ch[x] /\ overflow'[x] = overflow[x] \cup {e}
             \/ x \notin subs[b] /\ ch'[x] = ch[x] /\ overflow'[x] = overflow[x]
  <2>1. ch'[x] = IF x \in subs[b] /\ ~Full(x) THEN Append(ch[x], e) ELSE ch[x]
    BY <1>3
  <2>2. overflow'[x] = IF x \in subs[b] /\ Full(x) THEN overflow[x] \cup {e} ELSE overflow[x]
    BY <1>4
  <2> QED
    BY <2>1, <2>2 DEF Full
<1> QED
  BY <1>5, <1>6, <1>7

(* A publication numbers a new event and fans it out on its instance bus. *)
LEMMA PublishKeepsBusInv ==
  ASSUME BusInv, NEW p \in Producer, NEW i \in Instance, Publish(p, i)
  PROVE  BusInv'
<1> DEFINE e == [by |-> p, n |-> sent[p] + 1, on |-> i]
<1>1. /\ sent[p] < MaxEvents /\ \A f \in forward : f.by # p
      /\ sent' = [sent EXCEPT ![p] = @ + 1]
      /\ FanOut(i, e) /\ forward' = forward \cup {e} /\ subs' = subs
  BY DEF Publish
<1>2. BusTypeOK /\ i \in BusName /\ Global \in BusName /\ i # Global
  BY DEF BusInv, BusName
<1>3. e \in Event
  BY <1>1, <1>2 DEF BusTypeOK, Event
<1> HIDE DEF e
<1>4. e.by = p /\ e.n = sent[p] + 1 /\ e.on = i /\ sent[p] \in Nat
  BY <1>2 DEF e, BusTypeOK
<1>5. /\ log' \in [BusName -> Seq(Event)]
      /\ Len(log[i]) \in Nat
      /\ Len(log'[i]) = Len(log[i]) + 1
      /\ log'[i][Len(log[i]) + 1] = e
      /\ \A k \in 1 .. Len(log[i]) : log'[i][k] = log[i][k] /\ log[i][k] \in Event
      /\ \A c \in BusName : c # i => log'[c] = log[c]
  BY <1>1, <1>2, <1>3, FanOutLogs
<1>6. BusTypeOK'
  <2>1. sent' \in [Producer -> 0 .. MaxEvents]
    BY <1>1, <1>2 DEF BusTypeOK
  <2>2. ch' \in [Sub -> Seq(Event)] /\ overflow' \in [Sub -> SUBSET Event]
    BY <1>1, <1>2, <1>3, FanOutChannels
  <2> QED
    BY <1>1, <1>2, <1>3, <1>5, <2>1, <2>2 DEF BusTypeOK
<1>7. \A q \in Producer : sent[q] \in Nat /\ sent'[q] \in Nat /\ sent'[q] = IF q = p THEN sent[q] + 1 ELSE sent[q]
  BY <1>1, <1>2 DEF BusTypeOK
<1>8. \A c \in BusName : \A k \in 1 .. Len(log[c]) : log[c][k] \in Event /\ log[c][k].by \in Producer /\ log[c][k].n \in Nat
  <2>1. \A c \in BusName : log[c] \in Seq(Event)
    BY <1>2 DEF BusTypeOK
  <2>2. \A f \in Event : f.by \in Producer /\ f.n \in Nat
    BY DEF Event
  <2> QED
    BY <2>1, <2>2, ElementOfSeq
<1>9. \A c \in BusName : \A k \in 1 .. Len(log[c]) : log[c][k].n <= sent[log[c][k].by]
  BY DEF BusInv, LogsKeepProducerOrder
<1>10. LogsKeepProducerOrder'
  <2> SUFFICES ASSUME NEW c \in BusName
               PROVE  /\ \A k \in 1 .. Len(log'[c]) : log'[c][k].n <= sent'[log'[c][k].by]
                      /\ \A j, k \in 1 .. Len(log'[c]) :
                           (j < k /\ log'[c][j].by = log'[c][k].by) => log'[c][j].n < log'[c][k].n
    BY DEF LogsKeepProducerOrder
  <2>1. CASE c # i
    <3>1. log'[c] = log[c]
      BY <2>1, <1>5
    <3>2. \A k \in 1 .. Len(log[c]) : log[c][k].n <= sent'[log[c][k].by]
      <4> SUFFICES ASSUME NEW k \in 1 .. Len(log[c])
                   PROVE  log[c][k].n <= sent'[log[c][k].by]
        OBVIOUS
      <4>1. log[c][k].by \in Producer /\ log[c][k].n \in Nat /\ log[c][k].n <= sent[log[c][k].by]
        BY <1>8, <1>9
      <4>2. \A q \in Producer : sent[q] \in Nat /\ sent'[q] \in Nat /\ sent[q] <= sent'[q]
        BY <1>7
      <4> QED
        BY <4>1, <4>2
    <3> QED
      BY <3>1, <3>2 DEF BusInv, LogsKeepProducerOrder
  <2>2. CASE c = i
    <3>1. \A k \in 1 .. Len(log[i]) : log[i][k].n <= sent[log[i][k].by]
      BY <1>2, <1>9
    <3>2. \A k \in 1 .. Len(log'[i]) : k \in 1 .. Len(log[i]) \/ k = Len(log[i]) + 1
      BY <1>5
    <3>3. \A j, k \in 1 .. Len(log[i]) : (j < k /\ log[i][j].by = log[i][k].by) => log[i][j].n < log[i][k].n
      BY <1>2 DEF BusInv, LogsKeepProducerOrder
    <3>4. \A k \in 1 .. Len(log'[i]) : log'[i][k].n <= sent'[log'[i][k].by]
      <4> SUFFICES ASSUME NEW k \in 1 .. Len(log'[i])
                   PROVE  log'[i][k].n <= sent'[log'[i][k].by]
        OBVIOUS
      <4>1. CASE k \in 1 .. Len(log[i])
        <5>1. log'[i][k] = log[i][k] /\ log[i][k].by \in Producer /\ log[i][k].n \in Nat
          BY <4>1, <1>2, <1>5, <1>8
        <5> QED
          <6>1. log[i][k].n <= sent[log[i][k].by]
            BY <4>1, <3>1
          <6>2. \A q \in Producer : sent[q] \in Nat /\ sent'[q] \in Nat /\ sent[q] <= sent'[q]
            BY <1>7
          <6> QED
            BY <5>1, <6>1, <6>2
      <4>2. CASE k = Len(log[i]) + 1
        BY <4>2, <1>4, <1>5, <1>7
      <4> QED
        BY <4>1, <4>2, <3>2
    <3>5. \A j, k \in 1 .. Len(log'[i]) :
            (j < k /\ log'[i][j].by = log'[i][k].by) => log'[i][j].n < log'[i][k].n
      <4> SUFFICES ASSUME NEW j \in 1 .. Len(log'[i]), NEW k \in 1 .. Len(log'[i]), j < k,
                          log'[i][j].by = log'[i][k].by
                   PROVE  log'[i][j].n < log'[i][k].n
        OBVIOUS
      <4>1. j \in 1 .. Len(log[i])
        BY <1>5
      <4>2. CASE k = Len(log[i]) + 1
        <5>1. log[i][j].by = p /\ log'[i][k].n = sent[p] + 1
          BY <4>1, <4>2, <1>4, <1>5
        <5>2. log[i][j].n <= sent[p]
          BY <4>1, <5>1, <3>1
        <5> QED
          <6>1. log'[i][j] = log[i][j] /\ log[i][j].n \in Nat
            BY <4>1, <1>2, <1>5, <1>8
          <6> QED
            BY <5>1, <5>2, <6>1, <1>4
      <4>3. CASE k \in 1 .. Len(log[i])
        BY <4>1, <4>3, <1>5, <3>3
      <4> QED
        BY <4>2, <4>3, <3>2
    <3> QED
      BY <2>2, <3>4, <3>5
  <2> QED
    BY <2>1, <2>2
<1>11. ForwardIsNewest'
  <2> SUFFICES ASSUME NEW f \in forward'
               PROVE  /\ f.n = sent'[f.by]
                      /\ \E k \in 1 .. Len(log'[f.on]) : log'[f.on][k] = f
                      /\ \A k \in 1 .. Len(log'[Global]) : log'[Global][k].by = f.by => log'[Global][k].n < f.n
                      /\ \A g \in forward' : g.by = f.by => g = f
    BY DEF ForwardIsNewest
  <2>0. log'[Global] = log[Global]
    BY <1>2, <1>5
  <2>1. CASE f \in forward
    <3>1. f \in Event /\ f.by \in Producer /\ f.on \in Instance /\ f.by # p
      BY <2>1, <1>1, <1>2 DEF BusTypeOK, Event
    <3>2. /\ f.n = sent[f.by]
          /\ \E k \in 1 .. Len(log[f.on]) : log[f.on][k] = f
          /\ \A k \in 1 .. Len(log[Global]) : log[Global][k].by = f.by => log[Global][k].n < f.n
          /\ \A g \in forward : g.by = f.by => g = f
      BY <2>1 DEF BusInv, ForwardIsNewest
    <3>3. PICK k \in 1 .. Len(log[f.on]) : log[f.on][k] = f
      BY <3>2
    <3>4. \E m \in 1 .. Len(log'[f.on]) : log'[f.on][m] = f
      <4>1. CASE f.on = i
        BY <4>1, <3>3, <1>5
      <4>2. CASE f.on # i
        BY <4>2, <3>1, <3>3, <1>5 DEF BusName
      <4> QED
        BY <4>1, <4>2
    <3>5. \A g \in forward' : g.by = f.by => g = f
      BY <3>1, <3>2, <1>1, <1>4
    <3> QED
      BY <2>0, <3>1, <3>2, <3>4, <3>5, <1>7
  <2>2. CASE f = e
    <3>1. f.n = sent'[f.by]
      BY <2>2, <1>4, <1>7
    <3>2. \E k \in 1 .. Len(log'[f.on]) : log'[f.on][k] = f
      BY <2>2, <1>4, <1>5
    <3>3. \A k \in 1 .. Len(log[Global]) : log[Global][k].by = p => log[Global][k].n < sent[p] + 1
      BY <1>2, <1>4, <1>8, <1>9
    <3>4. \A g \in forward' : g.by = f.by => g = f
      BY <2>2, <1>1, <1>4
    <3> QED
      BY <2>0, <2>2, <1>4, <3>1, <3>2, <3>3, <3>4
  <2> QED
    BY <1>1, <2>1, <2>2
<1>12. GlobalRepeats'
  <2> SUFFICES ASSUME NEW k \in 1 .. Len(log'[Global])
               PROVE  \E j \in 1 .. Len(log'[log'[Global][k].on]) : log'[log'[Global][k].on][j] = log'[Global][k]
    BY DEF GlobalRepeats
  <2>1. log'[Global] = log[Global] /\ k \in 1 .. Len(log[Global])
    BY <1>2, <1>5
  <2> DEFINE g == log[Global][k]
  <2>2. g \in Event /\ g.on \in Instance
    BY <2>1, <1>2, <1>8 DEF Event
  <2>3. PICK j \in 1 .. Len(log[g.on]) : log[g.on][j] = g
    BY <2>1 DEF BusInv, GlobalRepeats
  <2> HIDE DEF g
  <2>4. \E m \in 1 .. Len(log'[g.on]) : log'[g.on][m] = g
    <3>1. CASE g.on = i
      <4>1. j \in 1 .. Len(log'[i]) /\ log'[i][j] = g
        BY <3>1, <2>3, <1>5
      <4> QED
        BY <3>1, <4>1
    <3>2. CASE g.on # i
      BY <3>2, <2>2, <2>3, <1>5 DEF BusName
    <3> QED
      BY <3>1, <3>2
  <2> QED
    BY <2>1, <2>4 DEF g
<1> QED
  BY <1>6, <1>10, <1>11, <1>12 DEF BusInv

(* The second half of a publication keeps the producer's order on the global
   bus, for a producer waits for it before it publishes again. *)
LEMMA PublishGlobalKeepsBusInv ==
  ASSUME BusInv, NEW e \in forward, PublishGlobal(e)
  PROVE  BusInv'
<1>1. FanOut(Global, e) /\ forward' = forward \ {e} /\ subs' = subs /\ sent' = sent
  BY DEF PublishGlobal
<1>2. BusTypeOK /\ Global \in BusName /\ e \in Event
  BY DEF BusInv, BusName, BusTypeOK
<1>3. /\ log' \in [BusName -> Seq(Event)]
      /\ Len(log[Global]) \in Nat
      /\ Len(log'[Global]) = Len(log[Global]) + 1
      /\ log'[Global][Len(log[Global]) + 1] = e
      /\ \A k \in 1 .. Len(log[Global]) : log'[Global][k] = log[Global][k] /\ log[Global][k] \in Event
      /\ \A c \in BusName : c # Global => log'[c] = log[c]
  BY <1>1, <1>2, FanOutLogs
<1>4. BusTypeOK'
  <2>1. ch' \in [Sub -> Seq(Event)] /\ overflow' \in [Sub -> SUBSET Event]
    BY <1>1, <1>2, FanOutChannels
  <2> QED
    BY <1>1, <1>2, <1>3, <2>1 DEF BusTypeOK
<1>5. /\ e.n = sent[e.by]
      /\ \E k \in 1 .. Len(log[e.on]) : log[e.on][k] = e
      /\ \A k \in 1 .. Len(log[Global]) : log[Global][k].by = e.by => log[Global][k].n < e.n
      /\ \A f \in forward : f.by = e.by => f = e
  BY DEF BusInv, ForwardIsNewest
<1>6. e.by \in Producer /\ e.on \in Instance /\ e.on # Global /\ e.n \in Nat
  BY <1>2 DEF Event
<1>7. \A k \in 1 .. Len(log'[Global]) : k \in 1 .. Len(log[Global]) \/ k = Len(log[Global]) + 1
  BY <1>3
<1>8. LogsKeepProducerOrder'
  <2> SUFFICES ASSUME NEW c \in BusName
               PROVE  /\ \A k \in 1 .. Len(log'[c]) : log'[c][k].n <= sent[log'[c][k].by]
                      /\ \A j, k \in 1 .. Len(log'[c]) :
                           (j < k /\ log'[c][j].by = log'[c][k].by) => log'[c][j].n < log'[c][k].n
    BY <1>1 DEF LogsKeepProducerOrder
  <2>1. CASE c # Global
    BY <2>1, <1>3 DEF BusInv, LogsKeepProducerOrder
  <2>2. CASE c = Global
    <3>1. /\ \A k \in 1 .. Len(log[Global]) : log[Global][k].n <= sent[log[Global][k].by]
          /\ \A j, k \in 1 .. Len(log[Global]) :
               (j < k /\ log[Global][j].by = log[Global][k].by) => log[Global][j].n < log[Global][k].n
      BY <1>2 DEF BusInv, LogsKeepProducerOrder
    <3>2. \A k \in 1 .. Len(log'[Global]) : log'[Global][k].n <= sent[log'[Global][k].by]
      <4> SUFFICES ASSUME NEW k \in 1 .. Len(log'[Global])
                   PROVE  log'[Global][k].n <= sent[log'[Global][k].by]
        OBVIOUS
      <4>1. CASE k \in 1 .. Len(log[Global])
        BY <4>1, <3>1, <1>3
      <4>2. CASE k = Len(log[Global]) + 1
        <5>1. log'[Global][k] = e /\ sent[e.by] = e.n
          BY <4>2, <1>3, <1>5
        <5> QED
          BY <5>1, <1>6
      <4> QED
        BY <4>1, <4>2, <1>7
    <3>3. \A j, k \in 1 .. Len(log'[Global]) :
            (j < k /\ log'[Global][j].by = log'[Global][k].by) => log'[Global][j].n < log'[Global][k].n
      <4> SUFFICES ASSUME NEW j \in 1 .. Len(log'[Global]), NEW k \in 1 .. Len(log'[Global]), j < k,
                          log'[Global][j].by = log'[Global][k].by
                   PROVE  log'[Global][j].n < log'[Global][k].n
        OBVIOUS
      <4>1. j \in 1 .. Len(log[Global])
        BY <1>3
      <4>2. CASE k = Len(log[Global]) + 1
        BY <4>1, <4>2, <1>3, <1>5
      <4>3. CASE k \in 1 .. Len(log[Global])
        BY <4>1, <4>3, <1>3, <3>1
      <4> QED
        BY <4>2, <4>3, <1>7
    <3> QED
      BY <2>2, <3>2, <3>3
  <2> QED
    BY <2>1, <2>2
<1>9. ForwardIsNewest'
  <2> SUFFICES ASSUME NEW f \in forward'
               PROVE  /\ f.n = sent[f.by]
                      /\ \E k \in 1 .. Len(log'[f.on]) : log'[f.on][k] = f
                      /\ \A k \in 1 .. Len(log'[Global]) : log'[Global][k].by = f.by => log'[Global][k].n < f.n
                      /\ \A g \in forward' : g.by = f.by => g = f
    BY <1>1 DEF ForwardIsNewest
  <2>1. f \in forward /\ f # e /\ f.on \in Instance /\ f.on # Global
    BY <1>1, <1>2 DEF BusTypeOK, Event
  <2>2. /\ f.n = sent[f.by]
        /\ \E k \in 1 .. Len(log[f.on]) : log[f.on][k] = f
        /\ \A k \in 1 .. Len(log[Global]) : log[Global][k].by = f.by => log[Global][k].n < f.n
        /\ \A g \in forward : g.by = f.by => g = f
    BY <2>1 DEF BusInv, ForwardIsNewest
  <2>3. log'[f.on] = log[f.on]
    BY <2>1, <1>3 DEF BusName
  <2>4. \A k \in 1 .. Len(log'[Global]) : log'[Global][k].by = f.by => log'[Global][k].n < f.n
    BY <2>1, <2>2, <1>3, <1>5, <1>7
  <2> QED
    BY <2>2, <2>3, <2>4, <1>1
<1>10. GlobalRepeats'
  <2> SUFFICES ASSUME NEW k \in 1 .. Len(log'[Global])
               PROVE  \E j \in 1 .. Len(log'[log'[Global][k].on]) : log'[log'[Global][k].on][j] = log'[Global][k]
    BY DEF GlobalRepeats
  <2>1. CASE k \in 1 .. Len(log[Global])
    <3>1. log'[Global][k] = log[Global][k] /\ log[Global][k].on \in Instance
      BY <2>1, <1>3 DEF Event
    <3>2. log'[log[Global][k].on] = log[log[Global][k].on]
      BY <3>1, <1>3 DEF BusName
    <3> QED
      BY <2>1, <3>1, <3>2 DEF BusInv, GlobalRepeats
  <2>2. CASE k = Len(log[Global]) + 1
    <3>1. log'[Global][k] = e /\ log'[e.on] = log[e.on]
      BY <2>2, <1>3, <1>6 DEF BusName
    <3> QED
      BY <3>1, <1>5
  <2> QED
    BY <2>1, <2>2, <1>7
<1> QED
  BY <1>4, <1>8, <1>9, <1>10 DEF BusInv

-----------------------------------------------------------------------------
(* An event that waits can be counted with those that were sent. *)
LEMMA ConcatAppend ==
  ASSUME NEW S, NEW r \in Seq(S), NEW c \in Seq(S), NEW e \in S
  PROVE  r \o Append(c, e) = Append(r \o c, e)
<1>1. <<e>> \in Seq(S) /\ r \o c \in Seq(S)
  BY ConcatProperties
<1>2. (r \o c) \o <<e>> = r \o (c \o <<e>>)
  BY <1>1, ConcatAssociative
<1> QED
  BY <1>1, <1>2, AppendIsConcat

(* Sending the oldest waiting event changes nothing about both together. *)
LEMMA ConcatMove ==
  ASSUME NEW S, NEW r \in Seq(S), NEW c \in Seq(S), c # <<>>
  PROVE  Append(r, Head(c)) \o Tail(c) = r \o c
<1>1. Head(c) \in S /\ Tail(c) \in Seq(S) /\ Len(Tail(c)) = Len(c) - 1
      /\ \A i \in 1 .. Len(Tail(c)) : Tail(c)[i] = c[i + 1]
  BY HeadTailProperties
<1>2. <<Head(c)>> \in Seq(S) /\ Append(r, Head(c)) = r \o <<Head(c)>>
  BY <1>1, AppendIsConcat
<1>3. (r \o <<Head(c)>>) \o Tail(c) = r \o (<<Head(c)>> \o Tail(c))
  BY <1>1, <1>2, ConcatAssociative
<1>4. <<Head(c)>> \o Tail(c) = c
  <2> DEFINE t == <<Head(c)>> \o Tail(c)
  <2>1. Len(<<Head(c)>>) = 1 /\ <<Head(c)>>[1] = c[1] /\ Len(c) \in Nat /\ Len(c) # 0
    BY EmptySeq, LenProperties
  <2>2. t \in Seq(S) /\ Len(t) = 1 + Len(Tail(c))
        /\ \A i \in 1 .. 1 + Len(Tail(c)) : t[i] = IF i <= 1 THEN <<Head(c)>>[i] ELSE Tail(c)[i - 1]
    BY <1>1, <1>2, <2>1, ConcatProperties
  <2> HIDE DEF t
  <2>3. Len(t) = Len(c) /\ \A i \in 1 .. Len(c) : t[i] = c[i]
    <3>1. Len(t) = Len(c)
      BY <1>1, <2>1, <2>2
    <3>2. ASSUME NEW i \in 1 .. Len(c) PROVE t[i] = c[i]
      <4>1. CASE i = 1
        BY <4>1, <1>1, <2>1, <2>2
      <4>2. CASE i # 1
        <5>1. t[i] = Tail(c)[i - 1] /\ i - 1 \in 1 .. Len(Tail(c))
          BY <4>2, <1>1, <2>1, <2>2
        <5> QED
          BY <5>1, <1>1
      <4> QED
        BY <4>1, <4>2
    <3> QED
      BY <3>1, <3>2
  <2> QED
    BY <2>2, <2>3, SeqEqual DEF t
<1> QED
  BY <1>2, <1>3, <1>4

(* An event that is new on the bus and finds room ... *)
LEMMA RoomForEvent ==
  ASSUME NEW g \in Seq(Event), NEW l \in Seq(Event), NEW o \in SUBSET Event, NEW e \in Event,
         \A m \in 1 .. Len(l) : l[m] # e, Logged(g, o, l), Ordered(g, l)
  PROVE  /\ Logged(Append(g, e), o, Append(l, e))
         /\ Ordered(Append(g, e), Append(l, e))
         /\ \A f \in Nat : Complete(g, o, l, f) => Complete(Append(g, e), o, Append(l, e), f)
<1> DEFINE h == Append(g, e)
           k == Append(l, e)
<1>1. /\ Len(g) \in Nat /\ Len(h) = Len(g) + 1 /\ h[Len(g) + 1] = e
      /\ \A j \in 1 .. Len(g) : h[j] = g[j]
  BY AppendProperties, LenProperties
<1>2. /\ Len(l) \in Nat /\ Len(k) = Len(l) + 1 /\ k[Len(l) + 1] = e
      /\ \A m \in 1 .. Len(l) : k[m] = l[m]
  BY AppendProperties, LenProperties
<1> HIDE DEF h, k
<1>3. e \notin o
  BY DEF Logged
<1>4. \A j \in 1 .. Len(h) : j \in 1 .. Len(g) \/ j = Len(g) + 1
  BY <1>1
<1>5. \A j \in 1 .. Len(g) : \E m \in 1 .. Len(l) : k[m] = h[j] /\ l[m] = g[j]
  BY <1>1, <1>2 DEF Logged
<1>6. Logged(h, o, k)
  <2>1. \A j \in 1 .. Len(g) : h[j] \notin o
    BY <1>1 DEF Logged
  <2>2. \A j \in 1 .. Len(g) : \E m \in 1 .. Len(k) : k[m] = h[j]
    BY <1>2, <1>5
  <2>3. Len(l) + 1 \in 1 .. Len(k)
    BY <1>2
  <2>4. \A d \in o : \E m \in 1 .. Len(k) : k[m] = d
    BY <1>2 DEF Logged
  <2> QED
    BY <1>1, <1>2, <1>3, <1>4, <2>1, <2>2, <2>3, <2>4 DEF Logged
<1>7. Ordered(h, k)
  <2> SUFFICES ASSUME NEW i \in 1 .. Len(h), NEW j \in 1 .. Len(h), i < j
               PROVE  /\ h[i] # h[j]
                      /\ \E m, n \in 1 .. Len(k) : m < n /\ k[m] = h[i] /\ k[n] = h[j]
    BY DEF Ordered
  <2>1. i \in 1 .. Len(g)
    BY <1>1
  <2>2. CASE j \in 1 .. Len(g)
    <3>1. h[i] = g[i] /\ h[j] = g[j] /\ g[i] # g[j]
      BY <2>1, <2>2, <1>1 DEF Ordered
    <3>2. PICK m \in 1 .. Len(l), n \in 1 .. Len(l) : m < n /\ l[m] = g[i] /\ l[n] = g[j]
      BY <2>1, <2>2 DEF Ordered
    <3>3. m \in 1 .. Len(k) /\ n \in 1 .. Len(k) /\ k[m] = l[m] /\ k[n] = l[n]
      BY <1>2
    <3> QED
      BY <3>1, <3>2, <3>3
  <2>3. CASE j = Len(g) + 1
    <3>1. PICK m \in 1 .. Len(l) : k[m] = h[i] /\ l[m] = g[i]
      BY <2>1, <1>5
    <3>2. m \in 1 .. Len(k) /\ Len(l) + 1 \in 1 .. Len(k) /\ m < Len(l) + 1
      BY <1>2
    <3>3. h[i] # h[j] /\ k[Len(l) + 1] = h[j]
      BY <2>1, <2>3, <3>1, <1>1, <1>2
    <3> QED
      BY <3>1, <3>2, <3>3
  <2> QED
    BY <2>2, <2>3, <1>4
<1>8. ASSUME NEW f \in Nat, Complete(g, o, l, f) PROVE Complete(h, o, k, f)
  <2> SUFFICES ASSUME NEW n \in f + 1 .. Len(k), k[n] \notin o
               PROVE  \E j \in 1 .. Len(h) : h[j] = k[n]
    BY DEF Complete
  <2>1. CASE n = Len(l) + 1
    BY <2>1, <1>1, <1>2
  <2>2. CASE n # Len(l) + 1
    <3>1. n \in f + 1 .. Len(l) /\ n \in 1 .. Len(l)
      BY <2>2, <1>2
    <3>2. PICK j \in 1 .. Len(g) : g[j] = l[n]
      BY <3>1, <1>2, <1>8 DEF Complete
    <3>3. j \in 1 .. Len(h) /\ h[j] = k[n]
      BY <3>1, <3>2, <1>1, <1>2
    <3> QED
      BY <3>3
  <2> QED
    BY <2>1, <2>2
<1> QED
  BY <1>6, <1>7, <1>8 DEF h, k

(* ... or finds none keeps what was delivered an account of the bus. *)
LEMMA NoRoomForEvent ==
  ASSUME NEW g \in Seq(Event), NEW l \in Seq(Event), NEW o \in SUBSET Event, NEW e \in Event,
         \A m \in 1 .. Len(l) : l[m] # e, Logged(g, o, l), Ordered(g, l)
  PROVE  /\ Logged(g, o \cup {e}, Append(l, e))
         /\ Ordered(g, Append(l, e))
         /\ \A f \in Nat : Complete(g, o, l, f) => Complete(g, o \cup {e}, Append(l, e), f)
<1> DEFINE k == Append(l, e)
<1>1. /\ Len(l) \in Nat /\ Len(k) = Len(l) + 1 /\ k[Len(l) + 1] = e
      /\ \A m \in 1 .. Len(l) : k[m] = l[m] /\ m \in 1 .. Len(k)
  BY AppendProperties, LenProperties
<1> HIDE DEF k
<1>2. Logged(g, o \cup {e}, k)
  <2>1. Len(l) + 1 \in 1 .. Len(k)
    BY <1>1
  <2>2. \A j \in 1 .. Len(g) : g[j] \notin o \cup {e} /\ \E m \in 1 .. Len(k) : k[m] = g[j]
    BY <1>1 DEF Logged
  <2>3. \A d \in o \cup {e} : \E m \in 1 .. Len(k) : k[m] = d
    BY <2>1, <1>1 DEF Logged
  <2> QED
    BY <2>2, <2>3 DEF Logged
<1>3. Ordered(g, k)
  BY <1>1 DEF Ordered
<1>4. ASSUME NEW f \in Nat, Complete(g, o, l, f) PROVE Complete(g, o \cup {e}, k, f)
  <2> SUFFICES ASSUME NEW n \in f + 1 .. Len(k), k[n] \notin o \cup {e}
               PROVE  \E j \in 1 .. Len(g) : g[j] = k[n]
    BY DEF Complete
  <2>1. n \in f + 1 .. Len(l) /\ n \in 1 .. Len(l)
    BY <1>1
  <2> QED
    BY <2>1, <1>1, <1>4 DEF Complete
<1> QED
  BY <1>2, <1>3, <1>4 DEF k

-----------------------------------------------------------------------------
(* The buses keep their invariant under every step of the composition. *)
LEMMA BusStep ==
  ASSUME BusInv, StreamsTypeOK, [StreamsNext]_esVars
  PROVE  BusInv'
<1>1. ASSUME UNCHANGED <<sent, forward, log>>, BusTypeOK' PROVE BusInv'
  BY <1>1 DEF BusInv, LogsKeepProducerOrder, ForwardIsNewest, GlobalRepeats
<1>2. ASSUME UNCHANGED busVars PROVE BusInv'
  BY <1>1, <1>2 DEF busVars, BusInv, BusTypeOK
<1>3. ASSUME NEW p \in Producer, NEW i \in Instance, Produce(p, i) PROVE BusInv'
  BY <1>3, PublishKeepsBusInv DEF Produce
<1>4. ASSUME NEW i \in Instance, Dispose(i) PROVE BusInv'
  BY <1>4, PublishKeepsBusInv DEF Dispose
<1>5. ASSUME NEW e \in forward, Relayed(e) PROVE BusInv'
  BY <1>5, PublishGlobalKeepsBusInv DEF Relayed
<1>6. ASSUME NEW x \in Sub, Register(x) PROVE BusInv'
  <2>1. UNCHANGED <<ch, sent, forward, log, overflow>> /\ subs' = [subs EXCEPT ![bus[x]] = @ \cup {x}]
    BY <1>6 DEF Register, Subscribe
  <2>2. BusTypeOK'
    BY <2>1 DEF BusInv, BusTypeOK, StreamsTypeOK
  <2> QED
    BY <1>1, <2>1, <2>2
<1>7. ASSUME NEW x \in Sub, Deliver(x) PROVE BusInv'
  <2>1. UNCHANGED <<subs, sent, forward, log, overflow>> /\ ch[x] # <<>> /\ ch' = [ch EXCEPT ![x] = Tail(ch[x])]
    BY <1>7 DEF Deliver, Take
  <2>2. ch[x] \in Seq(Event) /\ ch \in [Sub -> Seq(Event)]
    BY DEF BusInv, BusTypeOK
  <2>3. ch' \in [Sub -> Seq(Event)]
    BY <2>1, <2>2, HeadTailProperties
  <2>4. BusTypeOK'
    BY <2>1, <2>3 DEF BusInv, BusTypeOK
  <2> QED
    BY <1>1, <2>1, <2>4
<1>8. ASSUME NEW x \in Sub, Leave(x) PROVE BusInv'
  <2>1. /\ UNCHANGED <<sent, forward, log>>
        /\ subs' = [subs EXCEPT ![bus[x]] = @ \ {x}]
        /\ ch' = [ch EXCEPT ![x] = <<>>]
        /\ overflow' = [overflow EXCEPT ![x] = {}]
    BY <1>8 DEF Leave, Unsubscribe
  <2>2. BusTypeOK'
    BY <2>1 DEF BusInv, BusTypeOK, StreamsTypeOK
  <2> QED
    BY <1>1, <2>1, <2>2
<1>9. ASSUME \/ \E x \in Sub, d \in Directory : Arrive(x, d)
             \/ \E x \in Sub : Connected(x) \/ CtxDone(x) \/ Disconnect(x)
             \/ \E d \in Directory : Request(d)
             \/ DisposeAll \/ TearDown \/ CancelBase \/ UNCHANGED esVars
      PROVE  UNCHANGED busVars
  BY <1>9 DEF Arrive, Connected, CtxDone, Disconnect, Request, DisposeAll, TearDown, CancelBase, esVars
<1> QED
  BY <1>2, <1>3, <1>4, <1>5, <1>6, <1>7, <1>8, <1>9 DEF StreamsNext, HandlerStep, MainStep

(* Manager.Get returns an instance that exists. *)
LEMMA GetAnInstance ==
  ASSUME StreamsTypeOK, InstancesInv, NEW d \in Directory, Get(d)
  PROVE  /\ instances' \in [Directory -> 0 .. MaxInstances]
         /\ created' \in [Directory -> 0 .. MaxInstances]
         /\ <<d, instances'[d]>> \in Instance
         /\ \/ UNCHANGED <<instances, created>>
            \/ /\ instances[d] = 0
               /\ created' = [created EXCEPT ![d] = created[d] + 1]
               /\ instances' = [instances EXCEPT ![d] = created[d] + 1]
<1>1. instances[d] \in 0 .. MaxInstances /\ created[d] \in 0 .. MaxInstances /\ MaxInstances \in Nat
  BY DEF StreamsTypeOK
<1>2. CASE instances[d] # 0 /\ UNCHANGED <<instances, created>>
  BY <1>1, <1>2 DEF StreamsTypeOK
<1>3. CASE /\ instances[d] = 0
           /\ created[d] < MaxInstances
           /\ created' = [created EXCEPT ![d] = @ + 1]
           /\ instances' = [instances EXCEPT ![d] = created[d] + 1]
  BY <1>1, <1>3 DEF StreamsTypeOK
<1> QED
  BY <1>2, <1>3 DEF Get

(* The variables keep their types. *)
LEMMA TypeStep ==
  ASSUME StreamsTypeOK, BusInv, BusInv', InstancesInv, HandlersInv, [StreamsNext]_esVars
  PROVE  StreamsTypeOK'
<1> USE DEF StreamsTypeOK
<1>0. BusTypeOK' /\ BusName \in {Instance \cup {Global}} /\ BusTypeOK
  BY DEF BusInv, BusName
<1>1. ASSUME NEW x \in Sub, NEW d \in Directory, Arrive(x, d) PROVE StreamsTypeOK'
  <2>1. CASE x \in InstanceStream
    <3>1. Get(d) /\ bus' = [bus EXCEPT ![x] = <<d, instances'[d]>>]
      BY <1>1, <2>1 DEF Arrive
    <3>2. /\ instances' \in [Directory -> 0 .. MaxInstances]
          /\ created' \in [Directory -> 0 .. MaxInstances]
          /\ <<d, instances'[d]>> \in BusName
      BY <3>1, GetAnInstance DEF BusName
    <3>3. bus' \in [Sub -> BusName]
      BY <3>1, <3>2
    <3> QED
      <4>1. /\ at' = [at EXCEPT ![x] = "counted"] /\ clients' = clients + 1
            /\ UNCHANGED <<busVars, phase, doomed, disposing, torn, gone, from, recv>>
        BY <1>1 DEF Arrive
      <4>2. at' \in [Sub -> Handler] /\ clients' \in Nat
        BY <4>1 DEF Handler
      <4> QED
        BY <1>0, <4>1, <4>2, <3>2, <3>3
  <2>2. CASE x \notin InstanceStream
    BY <1>0, <1>1, <2>2 DEF Arrive, Handler
  <2> QED
    BY <2>1, <2>2
<1>2. ASSUME NEW x \in Sub, Register(x) PROVE StreamsTypeOK'
  BY <1>0, <1>2 DEF Register, Handler, instVars
<1>3. ASSUME NEW x \in Sub, Connected(x) PROVE StreamsTypeOK'
  <2>1. Len(log[bus[x]]) \in Nat
    BY <1>0, LenProperties DEF BusTypeOK
  <2> QED
    <3>1. UNCHANGED <<busVars, instVars, bus, gone, clients, recv>>
      BY <1>3 DEF Connected
    <3>2. at' \in [Sub -> Handler]
      BY <1>3 DEF Connected, Handler
    <3>3. from' \in [Sub -> Nat]
      BY <1>3, <2>1 DEF Connected
    <3> QED
      BY <1>0, <3>1, <3>2, <3>3 DEF instVars
<1>4. ASSUME NEW x \in Sub, Deliver(x) PROVE StreamsTypeOK'
  <2>1. ch[x] # <<>> /\ ch[x] \in Seq(Event) /\ recv[x] \in Seq(Event)
    BY <1>0, <1>4 DEF Deliver, Take, BusTypeOK
  <2>2. Append(recv[x], Head(ch[x])) \in Seq(Event)
    BY <2>1, HeadTailProperties, AppendProperties
  <2>3. recv' \in [Sub -> Seq(Event)]
    BY <1>4, <2>2 DEF Deliver
  <2>4. at' \in [Sub -> Handler]
    BY <1>4 DEF Deliver, Handler
  <2> QED
    BY <1>0, <1>4, <2>3, <2>4 DEF Deliver, instVars
<1>5. ASSUME NEW x \in Sub, CtxDone(x) PROVE StreamsTypeOK'
  BY <1>0, <1>5 DEF CtxDone, Handler, instVars
<1>6. ASSUME NEW x \in Sub, Leave(x) PROVE StreamsTypeOK'
  <2>1. x \in Handlers
    BY <1>6 DEF Leave, Handlers
  <2>2. clients = Cardinality(Handlers) /\ IsFiniteSet(Handlers)
    BY DEF HandlersInv, ClientsAreHandlers, Handlers
  <2>3. clients \in Nat /\ clients # 0
    BY <2>1, <2>2, FS_CardinalityType, FS_EmptySet
  <2>4. <<>> \in Seq(Event) /\ Global \in BusName
    BY EmptySeq DEF BusName
  <2> QED
    BY <1>0, <1>6, <2>3, <2>4 DEF Leave, Handler, instVars
<1>7. ASSUME NEW x \in Sub, Disconnect(x) PROVE StreamsTypeOK'
  BY <1>0, <1>7 DEF Disconnect, instVars
<1>8. ASSUME NEW d \in Directory, Request(d) PROVE StreamsTypeOK'
  BY <1>0, <1>8, GetAnInstance DEF Request, streamVars
<1>9. ASSUME NEW p \in Producer, NEW i \in Instance, Produce(p, i) PROVE StreamsTypeOK'
  BY <1>0, <1>9 DEF Produce, streamVars, instVars
<1>10. ASSUME NEW e \in forward, Relayed(e) PROVE StreamsTypeOK'
  BY <1>0, <1>10 DEF Relayed, streamVars, instVars
<1>11. CASE DisposeAll
  BY <1>0, <1>11 DEF DisposeAll, streamVars
<1>12. ASSUME NEW i \in Instance, Dispose(i) PROVE StreamsTypeOK'
  BY <1>0, <1>12 DEF Dispose, streamVars
<1>13. CASE TearDown
  BY <1>0, <1>13 DEF TearDown, streamVars
<1>14. CASE CancelBase
  BY <1>0, <1>14 DEF CancelBase, streamVars
<1>15. CASE UNCHANGED esVars
  BY <1>0, <1>15 DEF esVars, streamVars, instVars
<1> QED
  BY <1>1, <1>2, <1>3, <1>4, <1>5, <1>6, <1>7, <1>8, <1>9, <1>10, <1>11, <1>12, <1>13, <1>14, <1>15
     DEF StreamsNext, HandlerStep, MainStep

-----------------------------------------------------------------------------
(* What is fanned out was not on that bus before. *)
LEMMA PublishIsNew ==
  ASSUME BusInv, NEW p \in Producer, NEW i \in Instance, Publish(p, i)
  PROVE  \E e \in Event :
           /\ FanOut(i, e) /\ subs' = subs
           /\ \A m \in 1 .. Len(log[i]) : log[i][m] # e
           /\ e.by = p
<1> DEFINE e == [by |-> p, n |-> sent[p] + 1, on |-> i]
<1>1. sent[p] < MaxEvents /\ FanOut(i, e) /\ subs' = subs
  BY DEF Publish
<1>2. sent[p] \in 0 .. MaxEvents /\ i \in BusName /\ log[i] \in Seq(Event)
  BY DEF BusInv, BusTypeOK, BusName
<1>3. e \in Event
  BY <1>1, <1>2 DEF Event
<1>4. \A m \in 1 .. Len(log[i]) : log[i][m].n <= sent[log[i][m].by]
  BY <1>2 DEF BusInv, LogsKeepProducerOrder
<1>5. e.by = p /\ e.n = sent[p] + 1
  OBVIOUS
<1> HIDE DEF e
<1>6. ~(e.n <= sent[e.by])
  BY <1>2, <1>5
<1>7. \A m \in 1 .. Len(log[i]) : log[i][m] # e
  BY <1>4, <1>6
<1> QED
  BY <1>1, <1>3, <1>5, <1>7

(* Neither was what the second half of a publication fans out. *)
LEMMA RelayedIsNew ==
  ASSUME BusInv, NEW e \in forward
  PROVE  e \in Event /\ \A m \in 1 .. Len(log[Global]) : log[Global][m] # e
<1>1. e \in Event /\ e.n \in Nat
  BY DEF BusInv, BusTypeOK, Event
<1>2. \A m \in 1 .. Len(log[Global]) : log[Global][m].by = e.by => log[Global][m].n < e.n
  BY DEF BusInv, ForwardIsNewest
<1> QED
  BY <1>1, <1>2

(* A fan-out delivers to the handlers of its bus, and to no other. *)
LEMMA FanOutDelivers ==
  ASSUME StreamsTypeOK, BusTypeOK, DeliveryInv, NEW b \in BusName, NEW e \in Event, FanOut(b, e),
         \A m \in 1 .. Len(log[b]) : log[b][m] # e,
         UNCHANGED <<subs, at, bus, from, recv>>
  PROVE  DeliveryInv'
<1>1. \A x \in Sub :
        /\ recv[x] \in Seq(Event) /\ ch[x] \in Seq(Event) /\ overflow[x] \in SUBSET Event
        /\ from[x] \in Nat /\ bus[x] \in BusName /\ log[bus[x]] \in Seq(Event)
  BY DEF StreamsTypeOK, BusTypeOK
<1>2. \A x \in Sub :
        \/ x \in subs[b] /\ ch'[x] = Append(ch[x], e) /\ overflow'[x] = overflow[x]
        \/ x \in subs[b] /\ ch'[x] = ch[x] /\ overflow'[x] = overflow[x] \cup {e}
        \/ x \notin subs[b] /\ ch'[x] = ch[x] /\ overflow'[x] = overflow[x]
  BY FanOutChannels
<1>3. log'[b] = Append(log[b], e) /\ \A c \in BusName : c # b => log'[c] = log[c]
  BY DEF FanOut, BusTypeOK
<1>4. SubsAreStreams'
  BY DEF DeliveryInv, SubsAreStreams
<1>5. \A x \in Sub : x \in subs[b] <=> b = bus[x] /\ at[x] \in {"subscribed", "live", "leaving"}
  BY DEF DeliveryInv, SubsAreStreams
<1>6. QuietUnlessOpen'
  BY <1>2, <1>5 DEF DeliveryInv, QuietUnlessOpen
<1>7. StreamsDeliver'
  <2> SUFFICES ASSUME NEW x \in Sub, at[x] \in {"subscribed", "live"}
               PROVE  /\ Logged(Got(x)', overflow'[x], log'[bus[x]])
                      /\ Ordered(Got(x)', log'[bus[x]])
                      /\ at[x] = "live" => Complete(Got(x)', overflow'[x], log'[bus[x]], from[x])
    BY DEF StreamsDeliver
  <2> DEFINE g == Got(x)
             o == overflow[x]
             l == log[bus[x]]
  <2>1. /\ Logged(g, o, l) /\ Ordered(g, l)
        /\ at[x] = "live" => Complete(g, o, l, from[x])
    BY DEF DeliveryInv, StreamsDeliver
  <2>2. g \in Seq(Event) /\ l \in Seq(Event) /\ o \in SUBSET Event /\ from[x] \in Nat
    BY <1>1, ConcatProperties DEF Got
  <2>3. Got(x)' = recv[x] \o ch'[x]
    BY DEF Got
  <2>4. CASE x \in subs[b] /\ ch'[x] = Append(ch[x], e) /\ overflow'[x] = overflow[x]
    <3>1. l = log[b] /\ log'[bus[x]] = Append(l, e)
      BY <2>4, <1>3, <1>5
    <3>2. Got(x)' = Append(g, e)
      <4>0. recv[x] \in Seq(Event) /\ ch[x] \in Seq(Event)
        BY <1>1
      <4>1. recv[x] \o Append(ch[x], e) = Append(recv[x] \o ch[x], e)
        <5>1. \A r, c \in Seq(Event) : r \o Append(c, e) = Append(r \o c, e)
          BY ConcatAppend
        <5> QED
          BY <4>0, <5>1
      <4> QED
        BY <2>3, <2>4, <4>1 DEF Got
    <3>3. \A m \in 1 .. Len(l) : l[m] # e
      BY <3>1
    <3> HIDE DEF g, o, l
    <3>4. /\ Logged(Append(g, e), o, Append(l, e))
          /\ Ordered(Append(g, e), Append(l, e))
          /\ \A f \in Nat : Complete(g, o, l, f) => Complete(Append(g, e), o, Append(l, e), f)
      BY <2>1, <2>2, <3>3, RoomForEvent
    <3> QED
      BY <2>1, <2>2, <2>4, <3>1, <3>2, <3>4 DEF o
  <2>5. CASE x \in subs[b] /\ ch'[x] = ch[x] /\ overflow'[x] = overflow[x] \cup {e}
    <3>1. l = log[b] /\ log'[bus[x]] = Append(l, e)
      BY <2>5, <1>3, <1>5
    <3>2. Got(x)' = g
      BY <2>3, <2>5 DEF Got
    <3>3. \A m \in 1 .. Len(l) : l[m] # e
      BY <3>1
    <3> HIDE DEF g, o, l
    <3>4. /\ Logged(g, o \cup {e}, Append(l, e))
          /\ Ordered(g, Append(l, e))
          /\ \A f \in Nat : Complete(g, o, l, f) => Complete(g, o \cup {e}, Append(l, e), f)
      BY <2>1, <2>2, <3>3, NoRoomForEvent
    <3> QED
      BY <2>1, <2>2, <2>5, <3>1, <3>2, <3>4 DEF o
  <2>6. CASE x \notin subs[b] /\ ch'[x] = ch[x] /\ overflow'[x] = overflow[x]
    <3>1. log'[bus[x]] = l /\ Got(x)' = g
      BY <2>3, <2>6, <1>1, <1>3, <1>5 DEF Got
    <3> QED
      BY <2>1, <2>6, <3>1
  <2> QED
    BY <2>4, <2>5, <2>6, <1>2
<1> QED
  BY <1>4, <1>6, <1>7 DEF DeliveryInv

(* What one handler does to its own channel and history. *)
LEMMA HandlerDelivers ==
  ASSUME StreamsTypeOK, BusTypeOK, DeliveryInv, NEW x \in Sub, HandlerStep(x)
  PROVE  DeliveryInv'
<1>1. /\ recv \in [Sub -> Seq(Event)] /\ ch \in [Sub -> Seq(Event)] /\ overflow \in [Sub -> SUBSET Event]
      /\ subs \in [BusName -> SUBSET Sub] /\ at \in [Sub -> Handler] /\ from \in [Sub -> Nat]
      /\ bus \in [Sub -> BusName] /\ log[bus[x]] \in Seq(Event) /\ Global \in BusName
  BY DEF StreamsTypeOK, BusTypeOK, BusName
<1>2. log' = log
  BY DEF HandlerStep, Register, Subscribe, Connected, Deliver, Take, CtxDone, Leave, Unsubscribe, busVars
<1>3. \A y \in Sub \ {x} : /\ at'[y] = at[y] /\ bus'[y] = bus[y] /\ ch'[y] = ch[y] /\ recv'[y] = recv[y]
                           /\ overflow'[y] = overflow[y] /\ from'[y] = from[y]
                           /\ \A b \in BusName : y \in subs'[b] <=> y \in subs[b]
  <2> TAKE y \in Sub \ {x}
  <2>1. CASE Register(x)
    BY <2>1, <1>1 DEF Register, Subscribe
  <2>2. CASE Connected(x)
    BY <2>2, <1>1 DEF Connected, busVars
  <2>3. CASE Deliver(x)
    BY <2>3, <1>1 DEF Deliver, Take
  <2>4. CASE CtxDone(x)
    BY <2>4, <1>1 DEF CtxDone, busVars
  <2>5. CASE Leave(x)
    BY <2>5, <1>1 DEF Leave, Unsubscribe
  <2> QED
    BY <2>1, <2>2, <2>3, <2>4, <2>5 DEF HandlerStep
<1>4. SUFFICES ASSUME NEW y \in Sub
               PROVE  /\ \A b \in BusName :
                           y \in subs'[b] <=> b = bus'[y] /\ at'[y] \in {"subscribed", "live", "leaving"}
                      /\ at'[y] \in {"new", "counted", "closed"} => ch'[y] = <<>> /\ overflow'[y] = {}
                      /\ at'[y] \in {"new", "counted", "subscribed", "closed"} => recv'[y] = <<>>
                      /\ at'[y] \in {"subscribed", "live"} =>
                           /\ Logged(Got(y)', overflow'[y], log[bus'[y]])
                           /\ Ordered(Got(y)', log[bus'[y]])
                           /\ at'[y] = "live" => Complete(Got(y)', overflow'[y], log[bus'[y]], from'[y])
  BY <1>2 DEF DeliveryInv, SubsAreStreams, QuietUnlessOpen, StreamsDeliver
<1>5. /\ \A b \in BusName : y \in subs[b] <=> b = bus[y] /\ at[y] \in {"subscribed", "live", "leaving"}
      /\ at[y] \in {"new", "counted", "closed"} => ch[y] = <<>> /\ overflow[y] = {}
      /\ at[y] \in {"new", "counted", "subscribed", "closed"} => recv[y] = <<>>
      /\ at[y] \in {"subscribed", "live"} =>
           /\ Logged(Got(y), overflow[y], log[bus[y]])
           /\ Ordered(Got(y), log[bus[y]])
           /\ at[y] = "live" => Complete(Got(y), overflow[y], log[bus[y]], from[y])
  BY DEF DeliveryInv, SubsAreStreams, QuietUnlessOpen, StreamsDeliver
<1>6. CASE y # x
  <2>1. Got(y)' = Got(y)
    BY <1>3, <1>6 DEF Got
  <2> QED
    BY <1>3, <1>5, <1>6, <2>1
<1>7. CASE y = x
  <2>1. CASE Register(x)
    <3>1. /\ at[x] = "counted" /\ at'[x] = "subscribed"
          /\ ch' = ch /\ overflow' = overflow /\ recv' = recv /\ bus' = bus
          /\ \A b \in BusName : x \in subs'[b] <=> b = bus[x] \/ x \in subs[b]
      BY <2>1, <1>1 DEF Register, Subscribe
    <3>2. recv[x] = <<>> /\ ch[x] = <<>> /\ overflow[x] = {}
      BY <3>1, <1>5, <1>7
    <3>3. Got(x)' = <<>>
      BY <3>1, <3>2 DEF Got
    <3>4. Logged(Got(x)', {}, log[bus[x]]) /\ Ordered(Got(x)', log[bus[x]])
      BY <3>3, EmptySeq DEF Logged, Ordered
    <3> QED
      BY <3>1, <3>2, <3>4, <1>5, <1>7
  <2>2. CASE Connected(x)
    <3>1. /\ at[x] = "subscribed" /\ at'[x] \in {"live", "leaving"}
          /\ at'[x] = "live" => from'[x] = Len(log[bus[x]])
          /\ ch' = ch /\ overflow' = overflow /\ recv' = recv /\ bus' = bus /\ subs' = subs
      BY <2>2, <1>1 DEF Connected, busVars
    <3>2. Got(x)' = Got(x)
      BY <3>1 DEF Got
    <3>3. \A g, o : Complete(g, o, log[bus[x]], Len(log[bus[x]]))
      BY <1>1, LenProperties DEF Complete
    <3> QED
      BY <3>1, <3>2, <3>3, <1>5, <1>7
  <2>3. CASE Deliver(x)
    <3>1. /\ at[x] = "live" /\ at'[x] \in {"live", "leaving"}
          /\ ch[x] # <<>> /\ ch'[x] = Tail(ch[x])
          /\ at'[x] = "live" => recv'[x] = Append(recv[x], Head(ch[x]))
          /\ overflow' = overflow /\ from' = from /\ bus' = bus /\ subs' = subs
      BY <2>3, <1>1 DEF Deliver, Take
    <3>2. at'[x] = "live" => Got(x)' = Got(x)
      <4>1. recv[x] \in Seq(Event) /\ ch[x] \in Seq(Event)
        BY <1>1
      <4>2. Append(recv[x], Head(ch[x])) \o Tail(ch[x]) = recv[x] \o ch[x]
        BY <3>1, <4>1, ConcatMove
      <4> QED
        BY <3>1, <4>2 DEF Got
    <3> QED
      BY <3>1, <3>2, <1>5, <1>7
  <2>4. CASE CtxDone(x)
    <3>1. at[x] = "live" /\ at'[x] = "leaving" /\ bus' = bus /\ subs' = subs
      BY <2>4, <1>1 DEF CtxDone, busVars
    <3> QED
      BY <3>1, <1>5, <1>7
  <2>5. CASE Leave(x)
    <3>1. /\ at'[x] = "closed" /\ ch'[x] = <<>> /\ overflow'[x] = {} /\ recv'[x] = <<>>
          /\ \A b \in BusName : x \in subs'[b] <=> x \in subs[b] /\ b # bus[x]
      BY <2>5, <1>1 DEF Leave, Unsubscribe
    <3> QED
      BY <3>1, <1>5, <1>7
  <2> QED
    BY <2>1, <2>2, <2>3, <2>4, <2>5 DEF HandlerStep
<1> QED
  BY <1>6, <1>7

(* Every step keeps the account of what was delivered. *)
LEMMA DeliveryStep ==
  ASSUME StreamsTypeOK, BusInv, DeliveryInv, [StreamsNext]_esVars
  PROVE  DeliveryInv'
<1>0. BusTypeOK
  BY DEF BusInv
<1>1. ASSUME NEW p \in Producer, NEW i \in Instance, Publish(p, i), UNCHANGED streamVars PROVE DeliveryInv'
  <2>1. PICK e \in Event : FanOut(i, e) /\ subs' = subs /\ \A m \in 1 .. Len(log[i]) : log[i][m] # e
    BY <1>1, PublishIsNew
  <2> QED
    BY <1>0, <1>1, <2>1, FanOutDelivers DEF streamVars, BusName
<1>2. ASSUME NEW p \in Producer, NEW i \in Instance, Produce(p, i) PROVE DeliveryInv'
  BY <1>1, <1>2 DEF Produce
<1>3. ASSUME NEW i \in Instance, Dispose(i) PROVE DeliveryInv'
  BY <1>1, <1>3 DEF Dispose
<1>4. ASSUME NEW e \in forward, Relayed(e) PROVE DeliveryInv'
  BY <1>0, <1>4, RelayedIsNew, FanOutDelivers DEF Relayed, PublishGlobal, streamVars, BusName
<1>5. ASSUME NEW x \in Sub, HandlerStep(x) PROVE DeliveryInv'
  BY <1>0, <1>5, HandlerDelivers
<1>6. ASSUME NEW x \in Sub, NEW d \in Directory, Arrive(x, d) PROVE DeliveryInv'
  <2>1. /\ at[x] = "new" /\ at' = [at EXCEPT ![x] = "counted"] /\ UNCHANGED <<busVars, from, recv>>
        /\ \A y \in Sub : y # x => bus'[y] = bus[y]
    BY <1>6 DEF Arrive, StreamsTypeOK
  <2>2. \A y \in Sub : at'[y] = IF y = x THEN "counted" ELSE at[y]
    BY <2>1 DEF StreamsTypeOK
  <2>3. subs' = subs /\ ch' = ch /\ overflow' = overflow /\ log' = log
    BY <2>1 DEF busVars
  <2>4. SubsAreStreams'
    BY <2>1, <2>2, <2>3 DEF DeliveryInv, SubsAreStreams
  <2>5. QuietUnlessOpen'
    BY <2>1, <2>2, <2>3 DEF DeliveryInv, QuietUnlessOpen
  <2>6. \A y \in Sub : Got(y)' = Got(y)
    BY <2>1, <2>3 DEF Got
  <2>7. StreamsDeliver'
    BY <2>1, <2>2, <2>3, <2>6 DEF DeliveryInv, StreamsDeliver
  <2> QED
    BY <2>4, <2>5, <2>7 DEF DeliveryInv
<1>7. ASSUME \/ \E x \in Sub : Disconnect(x)
             \/ \E d \in Directory : Request(d)
             \/ DisposeAll \/ TearDown \/ CancelBase \/ UNCHANGED esVars
      PROVE  UNCHANGED <<busVars, at, bus, from, recv>>
  BY <1>7 DEF Disconnect, Request, DisposeAll, TearDown, CancelBase, esVars, streamVars
<1>8. ASSUME UNCHANGED <<busVars, at, bus, from, recv>> PROVE DeliveryInv'
  BY <1>8 DEF DeliveryInv, SubsAreStreams, QuietUnlessOpen, StreamsDeliver, Got, busVars
<1> QED
  BY <1>2, <1>3, <1>4, <1>5, <1>6, <1>7, <1>8 DEF StreamsNext, MainStep

-----------------------------------------------------------------------------
(* An instance stream that has sent server.instance.disposed is not live, so it
   sends nothing after it. *)
LEMMA DisposedStep ==
  ASSUME StreamsTypeOK, BusTypeOK, DeliveryInv, DisposedIsLast, [StreamsNext]_esVars
  PROVE  DisposedIsLast'
<1>1. ASSUME recv' = recv, \A x \in InstanceStream : at'[x] = "live" => at[x] = "live" \/ recv[x] = <<>>
      PROVE  DisposedIsLast'
  BY <1>1, EmptySeq DEF DisposedIsLast
<1>2. ASSUME NEW x \in Sub, NEW d \in Directory, Arrive(x, d) PROVE DisposedIsLast'
  BY <1>1, <1>2 DEF Arrive, StreamsTypeOK
<1>3. ASSUME NEW x \in Sub, Register(x) PROVE DisposedIsLast'
  BY <1>1, <1>3 DEF Register, StreamsTypeOK
<1>4. ASSUME NEW x \in Sub, Connected(x) PROVE DisposedIsLast'
  <2>1. at[x] = "subscribed" /\ recv' = recv /\ \A y \in Sub : y # x => at'[y] = at[y]
    BY <1>4 DEF Connected, StreamsTypeOK
  <2>2. recv[x] = <<>>
    BY <2>1 DEF DeliveryInv, QuietUnlessOpen
  <2> QED
    BY <1>1, <2>1, <2>2
<1>5. ASSUME NEW x \in Sub, Deliver(x) PROVE DisposedIsLast'
  <2>1. /\ at[x] = "live" /\ \A y \in Sub : y # x => at'[y] = at[y] /\ recv'[y] = recv[y]
        /\ at'[x] = "live" => x \notin InstanceStream \/ Head(ch[x]).by # Main
        /\ recv'[x] = recv[x] \/ recv'[x] = Append(recv[x], Head(ch[x]))
        /\ ch[x] # <<>> /\ ch[x] \in Seq(Event) /\ recv[x] \in Seq(Event)
    BY <1>5 DEF Deliver, Take, StreamsTypeOK, BusTypeOK
  <2>2. Head(ch[x]) \in Event
    BY <2>1, HeadTailProperties
  <2>3. ASSUME x \in InstanceStream, NEW k \in 1 .. Len(recv'[x]), recv'[x][k].by = Main
        PROVE  k = Len(recv'[x]) /\ at'[x] # "live"
    <3>1. \A j \in 1 .. Len(recv[x]) : recv[x][j].by # Main
      BY <2>1, <2>3 DEF DisposedIsLast
    <3>2. recv'[x] = Append(recv[x], Head(ch[x]))
      BY <2>1, <2>3, <3>1
    <3>3. /\ Len(recv[x]) \in Nat /\ Len(recv'[x]) = Len(recv[x]) + 1
          /\ recv'[x][Len(recv[x]) + 1] = Head(ch[x])
          /\ \A j \in 1 .. Len(recv[x]) : recv'[x][j] = recv[x][j]
      BY <2>1, <2>2, <3>2, AppendProperties, LenProperties
    <3>4. k = Len(recv'[x])
      BY <2>3, <3>1, <3>3
    <3> QED
      BY <2>1, <2>3, <3>3, <3>4
  <2>4. ASSUME NEW y \in InstanceStream, y # x, NEW k \in 1 .. Len(recv'[y]), recv'[y][k].by = Main
        PROVE  k = Len(recv'[y]) /\ at'[y] # "live"
    BY <2>1, <2>4 DEF DisposedIsLast
  <2> QED
    BY <2>3, <2>4 DEF DisposedIsLast
<1>6. ASSUME NEW x \in Sub, CtxDone(x) PROVE DisposedIsLast'
  BY <1>1, <1>6 DEF CtxDone, StreamsTypeOK
<1>7. ASSUME NEW x \in Sub, Leave(x) PROVE DisposedIsLast'
  <2>1. /\ recv'[x] = <<>> /\ \A y \in Sub : y # x => at'[y] = at[y] /\ recv'[y] = recv[y]
    BY <1>7 DEF Leave, StreamsTypeOK
  <2>2. Len(recv'[x]) = 0
    BY <2>1, EmptySeq
  <2> QED
    BY <2>1, <2>2 DEF DisposedIsLast
<1>8. ASSUME \/ \E x \in Sub : Disconnect(x)
             \/ \E d \in Directory : Request(d)
             \/ \E p \in Producer, i \in Instance : Produce(p, i)
             \/ \E i \in Instance : Dispose(i)
             \/ \E e \in forward : Relayed(e)
             \/ DisposeAll \/ TearDown \/ CancelBase \/ UNCHANGED esVars
      PROVE  UNCHANGED <<at, recv>>
  BY <1>8 DEF Disconnect, Request, Produce, Dispose, Relayed, DisposeAll, TearDown, CancelBase,
              esVars, streamVars
<1> QED
  BY <1>1, <1>2, <1>3, <1>4, <1>5, <1>6, <1>7, <1>8 DEF StreamsNext, HandlerStep, MainStep

(* A request that comes or goes changes the set of handlers by one. *)
LEMMA HandlersStep ==
  ASSUME StreamsTypeOK, HandlersInv, [StreamsNext]_esVars
  PROVE  HandlersInv'
<1>1. clients = Cardinality(Handlers) /\ IsFiniteSet(Handlers) /\ Cardinality(Handlers) \in Nat
  BY FS_CardinalityType DEF HandlersInv, ClientsAreHandlers, Handlers
<1>2. SUFFICES clients' = Cardinality(Handlers') /\ IsFiniteSet(Handlers')
  BY DEF HandlersInv, ClientsAreHandlers, Handlers
<1>3. ASSUME NEW x \in Sub, NEW d \in Directory, Arrive(x, d)
      PROVE  clients' = Cardinality(Handlers') /\ IsFiniteSet(Handlers')
  <2>1. Handlers' = Handlers \cup {x} /\ x \notin Handlers /\ clients' = clients + 1
    BY <1>3 DEF Arrive, Handlers, StreamsTypeOK
  <2> QED
    BY <1>1, <2>1, FS_AddElement
<1>4. ASSUME NEW x \in Sub, Leave(x)
      PROVE  clients' = Cardinality(Handlers') /\ IsFiniteSet(Handlers')
  <2>1. Handlers' = Handlers \ {x} /\ x \in Handlers /\ clients' = clients - 1
    BY <1>4 DEF Leave, Handlers, StreamsTypeOK
  <2> QED
    BY <1>1, <2>1, FS_RemoveElement
<1>5. ASSUME NEW x \in Sub, Register(x) \/ Connected(x) \/ Deliver(x) \/ CtxDone(x) \/ Disconnect(x)
      PROVE  Handlers' = Handlers /\ clients' = clients
  BY <1>5 DEF Register, Connected, Deliver, CtxDone, Disconnect, Handlers, StreamsTypeOK
<1>6. ASSUME \/ \E d \in Directory : Request(d)
             \/ \E p \in Producer, i \in Instance : Produce(p, i)
             \/ \E i \in Instance : Dispose(i)
             \/ \E e \in forward : Relayed(e)
             \/ DisposeAll \/ TearDown \/ CancelBase \/ UNCHANGED esVars
      PROVE  UNCHANGED <<at, clients>>
  BY <1>6 DEF Request, Produce, Dispose, Relayed, DisposeAll, TearDown, CancelBase, esVars, streamVars
<1>7. UNCHANGED <<at, clients>> => Handlers' = Handlers /\ clients' = clients
  BY DEF Handlers
<1> QED
  BY <1>1, <1>3, <1>4, <1>5, <1>6, <1>7 DEF StreamsNext, HandlerStep, MainStep

-----------------------------------------------------------------------------
(* The manager's bookkeeping in the terms the steps are about. *)
InstanceBooks == InstancesInv /\ InstancesAccountedFor

(* A lookup creates an instance only where none is cached. *)
LEMMA GetKeepsBooks ==
  ASSUME StreamsTypeOK, InstanceBooks, NEW d \in Directory, Get(d),
         UNCHANGED <<log, phase, doomed, disposing, torn>>
  PROVE  InstanceBooks'
<1>1. CASE UNCHANGED <<instances, created>>
  BY <1>1 DEF InstanceBooks, InstancesInv, InstancesAccountedFor, Created
<1>2. CASE /\ instances[d] = 0
           /\ created' = [created EXCEPT ![d] = created[d] + 1]
           /\ instances' = [instances EXCEPT ![d] = created[d] + 1]
           /\ <<d, created[d] + 1>> \in Instance
  <2> DEFINE i == <<d, created[d] + 1>>
             Cached == {j \in Instance : instances[j[1]] = j[2]}
  <2>1. \A j \in Instance : j[1] \in Directory /\ j[2] \in 1 .. MaxInstances /\ j = <<j[1], j[2]>>
    OBVIOUS
  <2>2. \A c \in Directory :
          /\ created[c] \in Nat /\ instances[c] \in Nat
          /\ created'[c] = IF c = d THEN created[c] + 1 ELSE created[c]
          /\ instances'[c] = IF c = d THEN created[c] + 1 ELSE instances[c]
    BY <1>2 DEF StreamsTypeOK
  <2>3. \A j \in Instance : j[2] \in Nat /\ (j[1] = d /\ j[2] = created[d] + 1 <=> j = i)
    BY <2>1
  <2>4. Created' = Created \cup {i} /\ i \notin Created
    <3>1. \A j \in Instance : j[2] <= created'[j[1]] <=> j[2] <= created[j[1]] \/ j = i
      <4> TAKE j \in Instance
      <4>1. CASE j[1] = d
        BY <4>1, <2>1, <2>2, <2>3
      <4>2. CASE j[1] # d
        BY <4>2, <2>1, <2>2, <2>3
      <4> QED
        BY <4>1, <4>2
    <3>2. ~(i[2] <= created[i[1]])
      BY <2>2
    <3> QED
      BY <1>2, <3>1, <3>2 DEF Created
  <2>5. {j \in Instance : instances'[j[1]] = j[2]} = Cached \cup {i}
    <3>1. \A j \in Instance : instances'[j[1]] = j[2] <=> instances[j[1]] = j[2] \/ j = i
      <4> TAKE j \in Instance
      <4>1. CASE j[1] = d
        BY <4>1, <1>2, <2>1, <2>2, <2>3
      <4>2. CASE j[1] # d
        BY <4>2, <2>1, <2>2, <2>3
      <4> QED
        BY <4>1, <4>2
    <3> QED
      BY <1>2, <3>1
  <2>6. /\ Created = Cached \cup doomed \cup disposing \cup torn
        /\ Cached \cap (doomed \cup disposing \cup torn) = {}
        /\ doomed \cap (disposing \cup torn) = {} /\ disposing \cap torn = {}
        /\ \A j \in torn : \E k \in 1 .. Len(log[j]) : log[j][k].by = Main
        /\ phase = "up" => \A c \in Directory : created[c] <= 1
    BY DEF InstanceBooks, InstancesAccountedFor
  <2>7. phase = "up" => created[d] = 0
    BY <1>2 DEF InstanceBooks, InstancesInv
  <2> HIDE DEF i, Cached
  <2>8. phase' = "up" => \A c \in Directory : created'[c] <= 1
    BY <2>2, <2>6, <2>7
  <2>9. InstancesAccountedFor'
    BY <2>4, <2>5, <2>6, <2>8 DEF InstancesAccountedFor
  <2>10. InstancesInv'
    <3>1. \A c \in Directory : instances'[c] \in {0, created'[c]}
      BY <2>2 DEF InstanceBooks, InstancesInv
    <3>2. phase = "up" => \A c \in Directory : instances'[c] = created'[c]
      BY <2>2 DEF InstanceBooks, InstancesInv
    <3> QED
      BY <3>1, <3>2, <2>4 DEF InstanceBooks, InstancesInv
  <2> QED
    BY <2>9, <2>10 DEF InstanceBooks
<1>3. /\ <<d, instances'[d]>> \in Instance
      /\ \/ UNCHANGED <<instances, created>>
         \/ /\ instances[d] = 0
            /\ created' = [created EXCEPT ![d] = created[d] + 1]
            /\ instances' = [instances EXCEPT ![d] = created[d] + 1]
  BY GetAnInstance DEF InstanceBooks
<1>4. instances' = [instances EXCEPT ![d] = created[d] + 1] => instances'[d] = created[d] + 1
  BY DEF StreamsTypeOK
<1> QED
  BY <1>1, <1>2, <1>3, <1>4

(* A fan-out only adds to a log, which keeps the event that ended an instance. *)
LEMMA FanOutKeepsEnd ==
  ASSUME BusTypeOK, NEW b \in BusName, NEW e \in Event, FanOut(b, e), NEW i \in Instance,
         \E k \in 1 .. Len(log[i]) : log[i][k].by = Main
  PROVE  \E k \in 1 .. Len(log'[i]) : log'[i][k].by = Main
<1>1. PICK k \in 1 .. Len(log[i]) : log[i][k].by = Main
  OBVIOUS
<1>2. k \in 1 .. Len(log'[i]) /\ log'[i][k] = log[i][k]
  <2>1. CASE i = b
    BY <2>1, FanOutLogs
  <2>2. CASE i # b
    BY <2>2, FanOutLogs DEF BusName
  <2> QED
    BY <2>1, <2>2
<1> QED
  BY <1>1, <1>2

(* Every step keeps an account of every instance. *)
LEMMA InstancesStep ==
  ASSUME StreamsTypeOK, BusInv, InstanceBooks, [StreamsNext]_esVars
  PROVE  InstanceBooks'
<1>0. BusTypeOK /\ \A i \in Instance : i \in BusName
  BY DEF BusInv, BusName
<1>1. ASSUME UNCHANGED <<instances, created, phase, doomed, disposing, torn>>,
             \A i \in Instance : (\E k \in 1 .. Len(log[i]) : log[i][k].by = Main)
                                 => \E k \in 1 .. Len(log'[i]) : log'[i][k].by = Main
      PROVE  InstanceBooks'
  BY <1>1 DEF InstanceBooks, InstancesInv, InstancesAccountedFor, Created, StreamsTypeOK
<1>2. ASSUME NEW x \in Sub, NEW d \in Directory, Arrive(x, d) PROVE InstanceBooks'
  <2>1. CASE x \in InstanceStream
    BY <1>2, <2>1, GetKeepsBooks DEF Arrive, busVars
  <2>2. CASE x \notin InstanceStream
    BY <1>1, <1>2, <2>2 DEF Arrive, busVars
  <2> QED
    BY <2>1, <2>2
<1>3. ASSUME NEW d \in Directory, Request(d) PROVE InstanceBooks'
  BY <1>3, GetKeepsBooks DEF Request, busVars
<1>4. ASSUME NEW x \in Sub, HandlerStep(x) \/ Disconnect(x) PROVE InstanceBooks'
  <2>1. UNCHANGED <<instVars, log>>
    BY <1>4 DEF HandlerStep, Register, Subscribe, Connected, Deliver, Take, CtxDone, Leave, Unsubscribe,
                Disconnect, busVars
  <2> QED
    BY <1>1, <2>1 DEF instVars
<1>5. ASSUME NEW p \in Producer, NEW i \in Instance, Produce(p, i) PROVE InstanceBooks'
  <2>1. PICK e \in Event : FanOut(i, e)
    BY <1>5, PublishIsNew DEF Produce
  <2>2. \A j \in Instance : (\E k \in 1 .. Len(log[j]) : log[j][k].by = Main)
                            => \E k \in 1 .. Len(log'[j]) : log'[j][k].by = Main
    BY <1>0, <2>1, FanOutKeepsEnd
  <2> QED
    BY <1>1, <1>5, <2>2 DEF Produce, instVars
<1>6. ASSUME NEW e \in forward, Relayed(e) PROVE InstanceBooks'
  <2>1. e \in Event /\ FanOut(Global, e) /\ Global \in BusName
    BY <1>0, <1>6 DEF Relayed, PublishGlobal, BusTypeOK, BusName
  <2>2. \A j \in Instance : (\E k \in 1 .. Len(log[j]) : log[j][k].by = Main)
                            => \E k \in 1 .. Len(log'[j]) : log'[j][k].by = Main
    BY <1>0, <2>1, FanOutKeepsEnd
  <2> QED
    BY <1>1, <1>6, <2>2 DEF Relayed, instVars
<1>7. CASE DisposeAll
  <2>1. /\ phase = "up" /\ phase' = "disposing"
        /\ doomed' = {i \in Instance : instances[i[1]] = i[2]}
        /\ instances' = [d \in Directory |-> 0]
        /\ created' = created /\ disposing' = disposing /\ torn' = torn /\ log' = log
    BY <1>7 DEF DisposeAll, busVars
  <2>2. doomed = {} /\ disposing = {} /\ torn = {}
    BY <2>1 DEF InstanceBooks, InstancesInv
  <2>3. {i \in Instance : instances'[i[1]] = i[2]} = {}
    <3>1. \A i \in Instance : i[1] \in Directory /\ i[2] # 0
      OBVIOUS
    <3> QED
      BY <2>1, <3>1
  <2>4. Created' = doomed' /\ Created' = Created
    BY <2>1, <2>2 DEF InstanceBooks, InstancesAccountedFor, Created
  <2>5. InstancesAccountedFor'
    BY <2>1, <2>2, <2>3, <2>4 DEF InstancesAccountedFor
  <2>6. InstancesInv'
    BY <2>1, <2>2, <2>4 DEF InstancesInv
  <2> QED
    BY <2>5, <2>6 DEF InstanceBooks
<1>8. ASSUME NEW i \in Instance, Dispose(i) PROVE InstanceBooks'
  <2>1. /\ i \in doomed /\ disposing = {} /\ Publish(Main, i)
        /\ doomed' = doomed \ {i} /\ disposing' = {i}
        /\ instances' = instances /\ created' = created /\ phase' = phase /\ torn' = torn
    BY <1>8 DEF Dispose
  <2>2. PICK e \in Event : FanOut(i, e) /\ e.by = Main
    BY <2>1, PublishIsNew
  <2>3. \A j \in Instance : (\E k \in 1 .. Len(log[j]) : log[j][k].by = Main)
                            => \E k \in 1 .. Len(log'[j]) : log'[j][k].by = Main
    BY <1>0, <2>2, FanOutKeepsEnd
  <2>4. \E k \in 1 .. Len(log'[i]) : log'[i][k].by = Main
    <3>1. Len(log[i]) \in Nat /\ Len(log'[i]) = Len(log[i]) + 1 /\ log'[i][Len(log[i]) + 1] = e
      BY <1>0, <2>2, FanOutLogs
    <3> QED
      BY <2>2, <3>1
  <2>5. Created' = Created
    BY <2>1 DEF Created
  <2>6. InstancesAccountedFor'
    BY <2>1, <2>3, <2>5 DEF InstanceBooks, InstancesAccountedFor, StreamsTypeOK
  <2>7. InstancesInv'
    BY <2>1, <2>4, <2>5 DEF InstanceBooks, InstancesInv
  <2> QED
    BY <2>6, <2>7 DEF InstanceBooks
<1>9. CASE TearDown
  <2>1. /\ disposing # {} /\ torn' = torn \cup disposing /\ disposing' = {}
        /\ log' = log /\ instances' = instances /\ created' = created /\ phase' = phase /\ doomed' = doomed
    BY <1>9 DEF TearDown, busVars
  <2>2. Created' = Created
    BY <2>1 DEF Created
  <2>3. InstancesAccountedFor'
    BY <2>1, <2>2 DEF InstanceBooks, InstancesInv, InstancesAccountedFor
  <2>4. InstancesInv'
    BY <2>1, <2>2 DEF InstanceBooks, InstancesInv
  <2> QED
    BY <2>3, <2>4 DEF InstanceBooks
<1>10. CASE CancelBase
  <2>1. phase # "up" /\ phase' # "up" /\ UNCHANGED <<log, instances, created, doomed, disposing, torn>>
    BY <1>10 DEF CancelBase, busVars
  <2> QED
    BY <2>1 DEF InstanceBooks, InstancesInv, InstancesAccountedFor, Created
<1>11. CASE UNCHANGED esVars
  BY <1>1, <1>11 DEF esVars, instVars, busVars
<1> QED
  BY <1>2, <1>3, <1>4, <1>5, <1>6, <1>7, <1>8, <1>9, <1>10, <1>11 DEF StreamsNext, MainStep

-----------------------------------------------------------------------------
(* The initial state. *)
LEMMA StreamsInitInv == StreamsInit => StreamsIndInv
<1> SUFFICES ASSUME StreamsInit
             PROVE  StreamsIndInv
  OBVIOUS
<1> USE DEF StreamsInit, BusInit
<1>0. <<>> \in Seq(Event) /\ Len(<<>>) = 0 /\ Global \in BusName
  BY EmptySeq DEF BusName
<1>1. BusTypeOK
  BY <1>0 DEF BusTypeOK
<1>2. StreamsTypeOK
  BY <1>0, <1>1 DEF StreamsTypeOK, Handler
<1>3. BusInv
  BY <1>0, <1>1 DEF BusInv, LogsKeepProducerOrder, ForwardIsNewest, GlobalRepeats
<1>4. DeliveryInv
  BY <1>0 DEF DeliveryInv, SubsAreStreams, QuietUnlessOpen, StreamsDeliver
<1>5. DisposedIsLast
  BY <1>0 DEF DisposedIsLast
<1>6. InstancesInv /\ InstancesAccountedFor
  <2>1. Created = {} /\ {i \in Instance : instances[i[1]] = i[2]} = {}
    <3>1. \A i \in Instance : i[1] \in Directory /\ i[2] \in Nat /\ ~(i[2] <= 0)
      OBVIOUS
    <3> QED
      BY <3>1 DEF Created
  <2> QED
    BY <2>1 DEF InstancesInv, InstancesAccountedFor
<1>7. HandlersInv
  <2>1. Handlers = {}
    BY DEF Handlers
  <2> QED
    BY <2>1, FS_EmptySet DEF HandlersInv, ClientsAreHandlers, Handlers
<1> QED
  BY <1>2, <1>3, <1>4, <1>5, <1>6, <1>7 DEF StreamsIndInv

(* The invariant of the buses, the instances and the handlers: it is inductive. *)
THEOREM StreamsInvariant == StreamsSpec => []StreamsIndInv
<1>1. StreamsIndInv /\ [StreamsNext]_esVars => StreamsIndInv'
  <2> SUFFICES ASSUME StreamsIndInv, [StreamsNext]_esVars
               PROVE  StreamsIndInv'
    OBVIOUS
  <2>1. BusInv' /\ BusTypeOK
    BY BusStep DEF StreamsIndInv, BusInv
  <2>2. StreamsTypeOK'
    BY <2>1, TypeStep DEF StreamsIndInv
  <2>3. DeliveryInv'
    BY DeliveryStep DEF StreamsIndInv
  <2>4. DisposedIsLast'
    BY <2>1, DisposedStep DEF StreamsIndInv
  <2>5. InstancesInv' /\ InstancesAccountedFor'
    BY InstancesStep DEF StreamsIndInv, InstanceBooks
  <2>6. HandlersInv'
    BY HandlersStep DEF StreamsIndInv
  <2> QED
    BY <2>1, <2>2, <2>3, <2>4, <2>5, <2>6 DEF StreamsIndInv
<1> QED
  BY <1>1, StreamsInitInv, PTL DEF StreamsSpec

(* The buses, the instances and the handlers agree at any time: producer order on
   the global bus, server.instance.disposed last, every instance accounted for,
   and the client count (bus.go:83-93, sse.go:98-110, instance.go:73-104). *)
THEOREM StreamsAgree == StreamsSpec => []StreamsInv
<1>1. StreamsIndInv => StreamsInv
  BY DEF StreamsIndInv, StreamsInv, BusInv, LogsKeepProducerOrder, GlobalRepeats, GlobalKeepsProducerOrder,
         HandlersInv, BusName
<1> QED
  BY <1>1, StreamsInvariant, PTL

(* Subscribing before server.connected leaves no window (sse.go:78-87): whatever
   is published afterwards reaches a live stream, once and in order, unless it
   met the stream's full channel. *)
THEOREM LiveStreamsMissNothing == StreamsSpec => []LiveStreamMissesNothing
<1>1. StreamsIndInv => LiveStreamMissesNothing
  BY DEF StreamsIndInv, DeliveryInv, StreamsDeliver, LiveStreamMissesNothing, Logged, Ordered, Complete
<1> QED
  BY <1>1, StreamsInvariant, PTL

=============================================================================
