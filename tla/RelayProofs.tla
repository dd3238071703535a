---------------------------- MODULE RelayProofs -----------------------------
(***************************************************************************)
(* Safety of the push relay for any number of devices, sessions and events *)
(* and any grace period and window: registrations survive stale answers,   *)
(* and pushes are a window apart, however the dispatch goroutines race.    *)
(***************************************************************************)
EXTENDS Relay, SequenceTheorems, TLAPS

(* The relay starts without registrations and without pushes. *)
LEMMA RelayInitInv == RelayInit => RelayInv
<1> SUFFICES ASSUME RelayInit PROVE RelayInv
  OBVIOUS
<1>1. /\ clock \in Time /\ clients \in 0 .. 1 /\ ch \in Seq(Note) /\ Len(ch) <= QueueDepth
      /\ wanted \subseteq Note /\ published \subseteq Note
      /\ clientsSeen \in BOOLEAN /\ lastDisconnect \in Time \cup {None}
      /\ handled \in Seq([at : Time, want : BOOLEAN, alone : BOOLEAN, pushed : BOOLEAN])
  <2>1. 0 \in Time /\ ch = <<>> /\ Len(ch) = 0 /\ handled = <<>>
    BY RelayAssumption DEF RelayInit, Time
  <2>2. ch \in Seq(Note) /\ handled \in Seq([at : Time, want : BOOLEAN, alone : BOOLEAN, pushed : BOOLEAN])
    BY <2>1
  <2>3. QueueDepth \in Nat
    BY RelayAssumption
  <2>4. Len(ch) <= QueueDepth
    BY <2>1, <2>3
  <2>5. wanted \subseteq Note
    BY RelayAssumption DEF RelayInit
  <2>6. clock = 0 /\ clients \in 0 .. 1 /\ published = {} /\ clientsSeen = FALSE /\ lastDisconnect = None
    BY DEF RelayInit
  <2> QED
    BY <2>1, <2>2, <2>4, <2>5, <2>6
<1>2. /\ device \in [Device -> Registration \cup {None}]
      /\ minted \in [Device -> Token] /\ wished \subseteq Device
  BY RelayAssumption DEF RelayInit, Token
<1>3. /\ job \in [Note -> {"none", "list", "loop", "allow", "send", "done"}]
      /\ todo \in [Note -> SUBSET (Device \X Token)]
      /\ target \in [Note -> (Device \X Token) \cup {None}]
      /\ now \in [Note -> Time]
  BY RelayAssumption DEF RelayInit, Time
<1>4. Never \in [Device -> [Session -> Time \cup {None}]]
  BY DEF Never
<1>5. RelayTypeOK
  BY <1>1, <1>2, <1>3, <1>4 DEF RelayTypeOK, RelayInit
<1>6. RenewedStaysRegistered /\ RateRemembers /\ RecordedLater /\ DispatchHasTarget
  BY <1>1 DEF RelayInit, RenewedStaysRegistered, RateRemembers, RecordedLater, DispatchHasTarget,
     Never, Time
<1> QED
  BY <1>5, <1>6 DEF RelayInv

(* The types of what a dispatch goroutine works on. *)
LEMMA JobTypes ==
  ASSUME RelayTypeOK
  PROVE  /\ job \in [Note -> {"none", "list", "loop", "allow", "send", "done"}]
         /\ todo \in [Note -> SUBSET (Device \X Token)]
         /\ target \in [Note -> (Device \X Token) \cup {None}]
         /\ now \in [Note -> Time]
         /\ \A n \in Note : now[n] \in Nat
         /\ clock \in Nat /\ Window \in Nat /\ clock \in Time
         /\ \A n \in Note : target[n] # None => target[n][1] \in Device /\ target[n][2] \in Token
BY RelayAssumption DEF RelayTypeOK, Time

-----------------------------------------------------------------------------
(* Time passes, clients come and go, an event is fanned out or handled. *)
LEMMA RunStepTypes ==
  ASSUME RelayTypeOK,
         Tick \/ ClientChange \/ Handle \/ (\E n \in Note : Publish(n))
  PROVE  RelayTypeOK' /\ clock <= clock'
<1> USE DEF storeVars, jobVars, admitVars, runVars, clientVars
<1> DEFINE Entry == [at : Time, want : BOOLEAN, alone : BOOLEAN, pushed : BOOLEAN]
<1>1. /\ clock \in Time /\ clients \in 0 .. 1 /\ ch \in Seq(Note) /\ Len(ch) <= QueueDepth
      /\ wanted \subseteq Note /\ published \subseteq Note
      /\ clientsSeen \in BOOLEAN /\ lastDisconnect \in Time \cup {None}
      /\ handled \in Seq(Entry)
  BY DEF RelayTypeOK
<1>2. job \in [Note -> {"none", "list", "loop", "allow", "send", "done"}]
  BY DEF RelayTypeOK
<1>3. CASE Tick
  <2>1. clock' \in Time /\ clock <= clock'
    BY <1>1, <1>3, RelayAssumption DEF Tick, Time
  <2> QED
    BY <1>3, <2>1 DEF Tick, RelayTypeOK
<1>4. CASE ClientChange
  <2>1. clients' \in 0 .. 1
    BY <1>1, <1>4 DEF ClientChange
  <2>2. met' \in BOOLEAN /\ parted' \in Time \cup {None}
    BY <1>1, <1>4 DEF ClientChange, RelayTypeOK
  <2> QED
    BY <1>1, <1>4, <2>1, <2>2 DEF ClientChange, RelayTypeOK, Time
<1>5. CASE \E n \in Note : Publish(n)
  <2> PICK n \in Note : Publish(n)
    BY <1>5
  <2>1. published' \subseteq Note
    BY <1>1 DEF Publish
  <2>2. ch' \in Seq(Note) /\ Len(ch') <= QueueDepth
    BY <1>1, RelayAssumption DEF Publish
  <2> QED
    BY <1>1, <2>1, <2>2 DEF Publish, RelayTypeOK, Time
<1>6. CASE Handle
  <2>1. Head(ch) \in Note /\ Tail(ch) \in Seq(Note) /\ Len(Tail(ch)) <= QueueDepth
    BY <1>1, <1>6, RelayAssumption DEF Handle
  <2>2. PICK last \in Time \cup {None} : Decide(last)
    BY <1>1, <1>6 DEF Handle
  <2>3. ch' \in Seq(Note) /\ Len(ch') <= QueueDepth /\ lastDisconnect' \in Time \cup {None}
    BY <2>1, <2>2 DEF Decide
  <2>4. job' \in [Note -> {"none", "list", "loop", "allow", "send", "done"}]
    BY <1>2, <2>2 DEF Decide
  <2>5. handled' \in Seq(Entry)
    <3>1. \A w, a, p \in BOOLEAN :
            [at |-> clock, want |-> w, alone |-> a, pushed |-> p] \in Entry
      BY <1>1
    <3>2. \E w, a, p \in BOOLEAN :
            handled' = Append(handled, [at |-> clock, want |-> w, alone |-> a, pushed |-> p])
      <4> DEFINE w == Head(ch) \in wanted
                 a == clients = 0
                 p == w /\ a /\ ~(last # None /\ clock - last < Grace)
      <4>1. handled' = Append(handled, [at |-> clock, want |-> w, alone |-> a, pushed |-> p])
        BY <2>2 DEF Decide
      <4>2. w \in BOOLEAN /\ a \in BOOLEAN /\ p \in BOOLEAN
        OBVIOUS
      <4> HIDE DEF w, a, p
      <4> QED
        BY <4>1, <4>2
    <3> HIDE DEF Entry
    <3> QED
      BY <1>1, <3>1, <3>2
  <2>6. clientsSeen' \in BOOLEAN
    BY <1>6 DEF Handle
  <2>7. met' \in BOOLEAN /\ parted' \in Time \cup {None}
    BY <2>2 DEF Decide, RelayTypeOK
  <2>8. UNCHANGED <<clock, clients, wanted, published, storeVars, rate, todo, target, now, admitVars>>
    BY <1>6 DEF Handle
  <2> QED
    BY <1>1, <2>3, <2>4, <2>5, <2>6, <2>7, <2>8 DEF RelayTypeOK, Time
<1> QED
  BY <1>3, <1>4, <1>5, <1>6

(* They touch neither registrations nor rate table, and start goroutines only. *)
LEMMA RunStepInv ==
  ASSUME RelayInv,
         Tick \/ ClientChange \/ Handle \/ (\E n \in Note : Publish(n))
  PROVE  RelayInv'
<1>1. RelayTypeOK' /\ clock <= clock'
  BY RunStepTypes DEF RelayInv
<1>2. clock \in Nat /\ clock' \in Nat
  BY <1>1 DEF RelayInv, RelayTypeOK, Time
<1>3. UNCHANGED <<device, minted, wished, rate, admitted, admittedAt, target, now>>
  BY DEF Tick, ClientChange, Handle, Publish, storeVars, jobVars, admitVars
<1>4. RenewedStaysRegistered'
  BY <1>3 DEF RelayInv, RenewedStaysRegistered
<1>5. RateRemembers'
  <2> SUFFICES ASSUME NEW d \in Device, NEW s \in Session, rate[d][s] = None, admitted[d][s] # None
               PROVE  clock' >= admitted[d][s] + Window
    BY <1>3 DEF RelayInv, RateRemembers
  <2>1. clock >= admitted[d][s] + Window /\ admitted[d][s] \in Nat /\ Window \in Nat
    BY RelayAssumption DEF RelayInv, RelayTypeOK, RateRemembers, Time
  <2> QED
    BY <1>1, <1>2, <2>1
<1>6. \A n \in Note : job'[n] \in {"allow", "send"} => job[n] \in {"allow", "send"}
  <2>1. job \in [Note -> {"none", "list", "loop", "allow", "send", "done"}]
    BY DEF RelayInv, RelayTypeOK
  <2>2. CASE job' = job
    BY <2>2
  <2>3. CASE \E h : job' = [job EXCEPT ![h] = "list"]
    <3> PICK h : job' = [job EXCEPT ![h] = "list"]
      BY <2>3
    <3>1. \A n \in Note : job'[n] = IF n = h THEN "list" ELSE job[n]
      BY <2>1
    <3> QED
      BY <3>1
  <2> QED
    BY <2>2, <2>3, Zenon DEF Tick, ClientChange, Handle, Publish, Decide, jobVars, admitVars
<1>7. \A n \in Note : now[n] \in Nat
  BY JobTypes, Zenon DEF RelayInv
<1>8. DispatchHasTarget'
  BY <1>1, <1>2, <1>3, <1>6, <1>7 DEF RelayInv, DispatchHasTarget
<1>9. RecordedLater'
  <2> SUFFICES ASSUME NEW d \in Device, NEW s \in Session, admitted[d][s] # None
               PROVE  admittedAt[d][s] <= clock'
    BY <1>3 DEF RelayInv, RecordedLater
  <2>1. admittedAt[d][s] <= clock /\ admittedAt[d][s] \in Nat
    BY DEF RelayInv, RelayTypeOK, RecordedLater, Time
  <2> QED
    BY <1>1, <1>2, <2>1
<1> QED
  BY <1>1, <1>4, <1>5, <1>8, <1>9 DEF RelayInv

-----------------------------------------------------------------------------
(* The app registers, unregisters, and is given a new token. *)
LEMMA StoreStepInv ==
  ASSUME RelayInv, NEW d \in Device,
         \/ Unregister(d) \/ Rotate(d) \/ \E f \in Filters : RegisterDevice(d, f)
  PROVE  RelayInv'
<1>1. /\ device \in [Device -> Registration \cup {None}]
      /\ minted \in [Device -> Token] /\ wished \subseteq Device
  BY DEF RelayInv, RelayTypeOK
<1>2. \A e \in Device, f \in Filters : [token |-> minted[e], wants |-> f] \in Registration
  BY <1>1 DEF Registration
<1>3. device' \in [Device -> Registration \cup {None}] /\ wished' \subseteq Device
  <2> HIDE DEF Registration
  <2> QED
    BY <1>1, <1>2 DEF Unregister, Rotate, RegisterDevice
<1>4. minted' \in [Device -> Token]
  BY <1>1, RelayAssumption DEF Unregister, Rotate, RegisterDevice, Token
<1>5. UNCHANGED <<clock, clientVars, runVars, jobVars>>
  BY DEF Unregister, Rotate, RegisterDevice
<1>6. RelayTypeOK'
  BY <1>3, <1>4, <1>5 DEF RelayInv, RelayTypeOK, runVars, clientVars, jobVars, admitVars, Time
<1>7. RateRemembers' /\ RecordedLater' /\ DispatchHasTarget'
  BY <1>5 DEF RelayInv, RateRemembers, RecordedLater, DispatchHasTarget, jobVars, admitVars
<1>8. RenewedStaysRegistered'
  <2> SUFFICES ASSUME NEW e \in wished'
               PROVE  device'[e] # None /\ device'[e].token = minted'[e]
    BY DEF RenewedStaysRegistered
  <2>1. CASE e = d
    <3>1. PICK f \in Filters : RegisterDevice(d, f)
      BY <1>1, <2>1 DEF Unregister, Rotate
    <3>2. device'[d] = [token |-> minted[d], wants |-> f] /\ minted' = minted
      BY <1>1, <3>1 DEF RegisterDevice
    <3>3. [token |-> minted[d], wants |-> f] # None
      BY <1>2, RelayAssumption
    <3> QED
      BY <2>1, <3>2, <3>3
  <2>2. CASE e # d
    <3>1. e \in wished /\ e \in Device
      BY <1>1, <2>2 DEF Unregister, Rotate, RegisterDevice
    <3>2. device'[e] = device[e] /\ minted'[e] = minted[e]
      BY <1>1, <2>2, <3>1 DEF Unregister, Rotate, RegisterDevice
    <3> QED
      BY <3>1, <3>2 DEF RelayInv, RenewedStaysRegistered
  <2> QED
    BY <2>1, <2>2
<1> QED
  BY <1>6, <1>7, <1>8 DEF RelayInv

-----------------------------------------------------------------------------
(* A goroutine lists the registrations, or takes the next one. *)
LEMMA ListStepInv ==
  ASSUME RelayInv, NEW n \in Note, ListTargets(n) \/ ReadNow(n)
  PROVE  RelayInv'
<1>1. RelayTypeOK
  BY DEF RelayInv
<1>2. UNCHANGED <<clock, clientVars, runVars, storeVars, rate, admitVars>>
  BY DEF ListTargets, ReadNow
<1>3. job' \in [Note -> {"none", "list", "loop", "allow", "send", "done"}]
  BY <1>1, JobTypes DEF ListTargets, ReadNow
<1>4. todo' \in [Note -> SUBSET (Device \X Token)]
  <2>1. CASE ListTargets(n)
    <3>1. \A d \in Device : device[d] # None => device[d].token \in Token
      BY <1>1 DEF RelayTypeOK, Registration
    <3>2. {<<d, device[d].token>> :
             d \in {d \in Device : device[d] # None /\ SessionOf[n] \in device[d].wants}}
            \in SUBSET (Device \X Token)
      BY <3>1
    <3> QED
      BY <1>1, <2>1, <3>2, JobTypes DEF ListTargets
  <2>2. CASE ReadNow(n)
    BY <1>1, <2>2, JobTypes DEF ReadNow
  <2> QED
    BY <2>1, <2>2
<1>5. target' \in [Note -> (Device \X Token) \cup {None}] /\ now' \in [Note -> Time]
  BY <1>1, JobTypes DEF ListTargets, ReadNow
<1>6. RelayTypeOK'
  BY <1>1, <1>2, <1>3, <1>4, <1>5 DEF RelayTypeOK, runVars, clientVars, storeVars, admitVars, Time
<1>7. RenewedStaysRegistered' /\ RateRemembers' /\ RecordedLater'
  BY <1>2 DEF RelayInv, RenewedStaysRegistered, RateRemembers, RecordedLater, storeVars, admitVars
<1>8. DispatchHasTarget'
  <2>1. \A m \in Note : (m # n => job'[m] = job[m] /\ target'[m] = target[m] /\ now'[m] = now[m])
    BY <1>1, JobTypes DEF ListTargets, ReadNow
  <2>2. now'[n] <= clock
    BY <1>1, JobTypes DEF ListTargets, ReadNow, RelayInv, DispatchHasTarget
  <2>3. job'[n] \in {"allow", "send"} => target'[n] # None
    <3>1. None \notin Device \X Token
      BY RelayAssumption
    <3> QED
      BY <1>1, <3>1, JobTypes DEF ListTargets, ReadNow
  <2> QED
    BY <1>2, <2>1, <2>2, <2>3 DEF RelayInv, DispatchHasTarget
<1> QED
  BY <1>6, <1>7, <1>8 DEF RelayInv

(* An answer of FCM prunes the registration it is about, and no newer one. *)
LEMMA SendStepInv ==
  ASSUME RelayInv, NEW n \in Note, Send(n)
  PROVE  RelayInv'
<1>1. RelayTypeOK /\ job[n] = "send" /\ target[n] # None
  BY DEF RelayInv, Send, DispatchHasTarget
<1> DEFINE d == target[n][1]
           k == target[n][2]
<1>2. d \in Device /\ k \in Token
  BY <1>1, JobTypes
<1>3. UNCHANGED <<clock, clientVars, runVars, minted, wished, rate, todo, now, admitVars>>
  BY DEF Send
<1>4. /\ job' \in [Note -> {"none", "list", "loop", "allow", "send", "done"}]
      /\ target' \in [Note -> (Device \X Token) \cup {None}]
  BY <1>1, JobTypes DEF Send
<1>5. device \in [Device -> Registration \cup {None}] /\ wished \subseteq Device
  BY <1>1 DEF RelayTypeOK
<1>6. device' \in [Device -> Registration \cup {None}]
  BY <1>2, <1>5 DEF Send
<1>7. RelayTypeOK'
  BY <1>1, <1>3, <1>4, <1>6 DEF RelayTypeOK, runVars, clientVars, admitVars, Time
<1>8. RenewedStaysRegistered'
  <2> SUFFICES ASSUME NEW e \in wished PROVE device'[e] = device[e]
    BY <1>3 DEF RelayInv, RenewedStaysRegistered
  <2>1. device[e] # None /\ device[e].token = minted[e]
    BY DEF RelayInv, RenewedStaysRegistered
  <2> QED
    BY <1>2, <1>5, <2>1 DEF Send
<1>9. RateRemembers' /\ RecordedLater'
  BY <1>3 DEF RelayInv, RateRemembers, RecordedLater, admitVars
<1>10. DispatchHasTarget'
  <2>1. \A m \in Note : job'[m] \in {"allow", "send"} =>
          job[m] \in {"allow", "send"} /\ target'[m] = target[m]
    BY <1>1, JobTypes DEF Send
  <2> QED
    BY <1>3, <2>1 DEF RelayInv, DispatchHasTarget
<1> QED
  BY <1>7, <1>8, <1>9, <1>10 DEF RelayInv

-----------------------------------------------------------------------------
(* An eviction by a clock that was read in the past forgets nothing younger than
   a window. *)
LEMMA EvictionIsSafe ==
  ASSUME RelayInv, NEW n \in Note, NEW d \in Device, NEW s \in Session
  PROVE  LET left == Evicted(now[n])[d][s]
         IN  /\ left \in Time \cup {None}
             /\ IF left # None THEN admitted[d][s] = left
                ELSE admitted[d][s] = None \/ clock >= admitted[d][s] + Window
<1>1. /\ rate[d][s] \in Time \cup {None} /\ admitted[d][s] \in Time \cup {None}
      /\ now[n] \in Nat /\ clock \in Nat /\ Window \in Nat /\ now[n] <= clock
  BY RelayAssumption DEF RelayInv, RelayTypeOK, DispatchHasTarget, Time
<1>2. Evicted(now[n])[d][s] =
        IF rate[d][s] # None /\ now[n] >= rate[d][s] + Window THEN None ELSE rate[d][s]
  BY DEF Evicted
<1>3. IF rate[d][s] # None THEN admitted[d][s] = rate[d][s]
      ELSE admitted[d][s] = None \/ clock >= admitted[d][s] + Window
  BY DEF RelayInv, RateRemembers
<1> QED
  BY <1>1, <1>2, <1>3 DEF Time

(* The entry of a registration is admitted, or found. *)
LEMMA AllowStepInv ==
  ASSUME RelayInv, NEW n \in Note, Allow(n)
  PROVE  RelayInv'
<1> DEFINE d == target[n][1]
           s == SessionOf[n]
<1>1. RelayTypeOK /\ job[n] = "allow" /\ target[n] # None
  BY DEF RelayInv, Allow, DispatchHasTarget
<1>2. d \in Device /\ s \in Session
  BY <1>1, JobTypes, RelayAssumption
<1>3. UNCHANGED <<clock, clientVars, runVars, storeVars, todo>>
  BY DEF Allow
<1>4. Evicted(now[n]) \in [Device -> [Session -> Time \cup {None}]]
  <2>1. \A e \in Device, t \in Session : Evicted(now[n])[e][t] \in Time \cup {None}
    BY EvictionIsSafe
  <2> QED
    BY <2>1 DEF Evicted
<1>5. now[n] \in Time /\ now[n] # None /\ now[n] <= clock
  BY <1>1, RelayAssumption DEF RelayTypeOK, RelayInv, DispatchHasTarget, Time
<1>6. /\ admitted \in [Device -> [Session -> Time \cup {None}]]
      /\ admittedAt \in [Device -> [Session -> Time \cup {None}]]
  BY <1>1 DEF RelayTypeOK
<1>7. /\ job' = [job EXCEPT ![n] = "loop"] \/ job' = [job EXCEPT ![n] = "send"]
      /\ target' = (IF job'[n] = "send" THEN target ELSE [target EXCEPT ![n] = None])
      /\ now' = [now EXCEPT ![n] = 0]
  BY DEF Allow
<1>8. \/ rate' = Evicted(now[n]) /\ admitted' = admitted /\ admittedAt' = admittedAt
      \/ /\ rate' = [Evicted(now[n]) EXCEPT ![d][s] = now[n]]
         /\ admitted' = [admitted EXCEPT ![d][s] = now[n]]
         /\ admittedAt' = [admittedAt EXCEPT ![d][s] = clock]
  BY DEF Allow, admitVars
<1>9. ASSUME NEW e \in Device, NEW t \in Session
       PROVE  \/ /\ rate'[e][t] = Evicted(now[n])[e][t]
                 /\ admitted'[e][t] = admitted[e][t] /\ admittedAt'[e][t] = admittedAt[e][t]
              \/ /\ rate'[e][t] = now[n] /\ admitted'[e][t] = now[n] /\ admittedAt'[e][t] = clock
  <2> DEFINE Evict == Evicted(now[n])
  <2>1. Evict \in [Device -> [Session -> Time \cup {None}]]
    BY <1>4
  <2> HIDE DEF Evict, d, s
  <2>2. CASE rate' = Evict /\ admitted' = admitted /\ admittedAt' = admittedAt
    BY <2>2 DEF Evict
  <2>3. CASE /\ rate' = [Evict EXCEPT ![d][s] = now[n]]
             /\ admitted' = [admitted EXCEPT ![d][s] = now[n]]
             /\ admittedAt' = [admittedAt EXCEPT ![d][s] = clock]
    <3>1. CASE e = d /\ t = s
      BY <1>2, <1>6, <2>1, <2>3, <3>1
    <3>2. CASE e # d \/ t # s
      <4>1. rate'[e][t] = Evict[e][t] /\ admitted'[e][t] = admitted[e][t] /\ admittedAt'[e][t] = admittedAt[e][t]
        BY <1>2, <1>6, <2>1, <2>3, <3>2
      <4> QED
        BY <4>1 DEF Evict
    <3> QED
      BY <3>1, <3>2
  <2> QED
    BY <1>8, <2>2, <2>3 DEF Evict
<1>10. /\ rate' \in [Device -> [Session -> Time \cup {None}]]
      /\ admitted' \in [Device -> [Session -> Time \cup {None}]]
      /\ admittedAt' \in [Device -> [Session -> Time \cup {None}]]
  <2>1. \A f \in [Device -> [Session -> Time \cup {None}]], t \in Time :
          [f EXCEPT ![d][s] = t] \in [Device -> [Session -> Time \cup {None}]]
    <3> SUFFICES ASSUME NEW f \in [Device -> [Session -> Time \cup {None}]], NEW t \in Time
                 PROVE  [f EXCEPT ![d][s] = t] \in [Device -> [Session -> Time \cup {None}]]
      OBVIOUS
    <3>1. [f[d] EXCEPT ![s] = t] \in [Session -> Time \cup {None}]
      BY <1>2
    <3> QED
      BY <1>2, <3>1
  <2>2. clock \in Time
    BY <1>1 DEF RelayTypeOK
  <2>3. CASE rate' = Evicted(now[n]) /\ admitted' = admitted /\ admittedAt' = admittedAt
    BY <1>4, <1>6, <2>3
  <2>4. CASE /\ rate' = [Evicted(now[n]) EXCEPT ![d][s] = now[n]]
             /\ admitted' = [admitted EXCEPT ![d][s] = now[n]]
             /\ admittedAt' = [admittedAt EXCEPT ![d][s] = clock]
    <3> HIDE DEF d, s
    <3> QED
      BY <1>4, <1>5, <1>6, <2>1, <2>2, <2>4
  <2> QED
    BY <1>8, <2>3, <2>4
<1>11. job' \in [Note -> {"none", "list", "loop", "allow", "send", "done"}]
  BY <1>1, <1>7, JobTypes
<1>12. target' \in [Note -> (Device \X Token) \cup {None}]
  BY <1>1, <1>7, JobTypes
<1>13. now' \in [Note -> Time]
  BY <1>1, <1>7, JobTypes, RelayAssumption DEF Time
<1>14. RelayTypeOK'
  BY <1>1, <1>3, <1>10, <1>11, <1>12, <1>13 DEF RelayTypeOK, runVars, clientVars, storeVars, admitVars, Time
<1>15. RenewedStaysRegistered'
  BY <1>3 DEF RelayInv, RenewedStaysRegistered, storeVars
<1>16. RateRemembers'
  <2> SUFFICES ASSUME NEW e \in Device, NEW t \in Session
               PROVE  IF rate'[e][t] # None THEN admitted'[e][t] = rate'[e][t]
                      ELSE admitted'[e][t] = None \/ clock >= admitted'[e][t] + Window
    BY <1>3 DEF RateRemembers
  <2>1. CASE rate'[e][t] = Evicted(now[n])[e][t] /\ admitted'[e][t] = admitted[e][t]
    BY <2>1, EvictionIsSafe
  <2>2. CASE rate'[e][t] = now[n] /\ admitted'[e][t] = now[n]
    BY <2>2, <1>5
  <2> QED
    BY <1>9, <2>1, <2>2
<1>17. RecordedLater'
  <2> SUFFICES ASSUME NEW e \in Device, NEW t \in Session
               PROVE  /\ admitted'[e][t] = None <=> admittedAt'[e][t] = None
                      /\ admitted'[e][t] # None =>
                           admitted'[e][t] <= admittedAt'[e][t] /\ admittedAt'[e][t] <= clock
    BY <1>3 DEF RecordedLater
  <2>1. CASE admitted'[e][t] = admitted[e][t] /\ admittedAt'[e][t] = admittedAt[e][t]
    BY <2>1 DEF RelayInv, RecordedLater
  <2>2. CASE admitted'[e][t] = now[n] /\ admittedAt'[e][t] = clock
    <3>1. clock \in Nat /\ clock # None
      BY <1>1, RelayAssumption DEF RelayTypeOK, Time
    <3> QED
      BY <2>2, <3>1, <1>5
  <2> QED
    BY <1>9, <2>1, <2>2
<1>18. DispatchHasTarget'
  <2>1. \A m \in Note \ {n} : job'[m] = job[m] /\ target'[m] = target[m] /\ now'[m] = now[m]
    BY <1>1, <1>7, JobTypes
  <2>2. job'[n] \in {"allow", "send"} => target'[n] # None
    BY <1>1, <1>7, JobTypes
  <2>3. now'[n] <= clock
    BY <1>1, <1>7, JobTypes
  <2>4. clock' = clock
    BY <1>3
  <2>5. \A m \in Note : /\ job[m] \in {"allow", "send"} => target[m] # None
                        /\ now[m] <= clock
    BY DEF RelayInv, DispatchHasTarget
  <2>6. ASSUME NEW m \in Note \ {n}
        PROVE  (job'[m] \in {"allow", "send"} => target'[m] # None) /\ now'[m] <= clock'
    <3>1. job'[m] = job[m] /\ target'[m] = target[m] /\ now'[m] = now[m]
      BY <2>1
    <3>2. (job[m] \in {"allow", "send"} => target[m] # None) /\ now[m] <= clock
      BY <2>5
    <3> QED
      BY <2>4, <3>1, <3>2, Zenon
  <2> QED
    BY <2>2, <2>3, <2>4, <2>6 DEF DispatchHasTarget
<1> QED
  BY <1>14, <1>15, <1>16, <1>17, <1>18 DEF RelayInv

-----------------------------------------------------------------------------
(* Whatever events, renewals, dead tokens and evictions meet, registrations and
   rate table stay in order (relay.go:66-176, store.go:64-113). *)
THEOREM RelayInvariant == RelaySpec => []RelayInv
<1>1. RelayInit => RelayInv
  BY RelayInitInv
<1>2. RelayInv /\ [RelayNext]_relayVars => RelayInv'
  <2> SUFFICES ASSUME RelayInv, [RelayNext]_relayVars PROVE RelayInv'
    OBVIOUS
  <2>1. CASE RelayNext
    BY <2>1, RunStepInv, StoreStepInv, ListStepInv, SendStepInv, AllowStepInv DEF RelayNext
  <2>2. CASE UNCHANGED relayVars
    <3>1. RelayTypeOK'
      BY <2>2 DEF RelayInv, RelayTypeOK, relayVars, Time
    <3> QED
      BY <2>2, <3>1 DEF RelayInv, RenewedStaysRegistered, RateRemembers, RecordedLater,
         DispatchHasTarget, relayVars
  <2> QED
    BY <2>1, <2>2
<1> QED
  BY <1>1, <1>2, PTL DEF RelaySpec

(* However many goroutines ask at once, however long each waits for the lock and
   whatever was evicted, two pushes of a session to a device are admitted a window
   apart, less what the first waited for the lock after it read the clock
   (relay.go:153-176). *)
THEOREM PushesSpaced == RelaySpec => PushesAreSpaced
<1> DEFINE Spaced == \A n \in Note :
                       job[n] = "allow" /\ job'[n] = "send" =>
                         LET read == admitted[target[n][1]][SessionOf[n]]
                             at == admittedAt[target[n][1]][SessionOf[n]]
                         IN  at = None \/ clock >= at + Window - (at - read)
<1>1. RelayInv /\ [RelayNext]_relayVars => [Spaced]_relayVars
  <2> SUFFICES ASSUME RelayInv, RelayNext, NEW n \in Note, job[n] = "allow", job'[n] = "send"
               PROVE  LET read == admitted[target[n][1]][SessionOf[n]]
                          at == admittedAt[target[n][1]][SessionOf[n]]
                      IN  at = None \/ clock >= at + Window - (at - read)
    OBVIOUS
  <2>1. job \in [Note -> {"none", "list", "loop", "allow", "send", "done"}]
    BY DEF RelayInv, RelayTypeOK
  <2>2. Allow(n)
    <3>1. CASE \E d \in Device : \/ Unregister(d) \/ Rotate(d)
                                 \/ \E f \in Filters : RegisterDevice(d, f)
      BY <3>1 DEF Unregister, Rotate, RegisterDevice, jobVars, admitVars
    <3>2. CASE Tick \/ ClientChange \/ Handle \/ \E m \in Note : Publish(m)
      <4>1. job' = job \/ job' = [job EXCEPT ![Head(ch)] = "list"]
        BY <3>2, Zenon DEF Tick, ClientChange, Handle, Publish, Decide, jobVars, admitVars
      <4> QED
        BY <2>1, <4>1
    <3>3. CASE \E m \in Note : ListTargets(m) \/ ReadNow(m) \/ Send(m) \/ Allow(m)
      <4> PICK m \in Note : ListTargets(m) \/ ReadNow(m) \/ Send(m) \/ Allow(m)
        BY <3>3
      <4>1. \E w \in {"loop", "done", "allow", "send"} : job' = [job EXCEPT ![m] = w]
        BY Zenon DEF ListTargets, ReadNow, Send, Allow
      <4>2. m = n
        BY <2>1, <4>1
      <4>3. ~(ListTargets(n) \/ ReadNow(n) \/ Send(n))
        BY DEF ListTargets, ReadNow, Send
      <4> QED
        BY <4>2, <4>3
    <3> QED
      BY <3>1, <3>2, <3>3 DEF RelayNext
  <2>3. target[n] # None
    BY DEF RelayInv, DispatchHasTarget
  <2>4. target[n][1] \in Device /\ SessionOf[n] \in Session
    BY <2>3, JobTypes, RelayAssumption DEF RelayInv
  <2>5. Evicted(now[n])[target[n][1]][SessionOf[n]] = None
    BY <2>1, <2>2 DEF Allow
  <2>6. LET last == admitted[target[n][1]][SessionOf[n]] IN last = None \/ clock >= last + Window
    BY <2>4, <2>5, EvictionIsSafe
  <2>7. /\ admitted[target[n][1]][SessionOf[n]] \in Nat \cup {None}
        /\ admittedAt[target[n][1]][SessionOf[n]] \in Nat \cup {None}
        /\ admitted[target[n][1]][SessionOf[n]] = None <=> admittedAt[target[n][1]][SessionOf[n]] = None
        /\ clock \in Nat /\ Window \in Nat /\ None \notin Nat
    BY <2>4, RelayAssumption DEF RelayInv, RelayTypeOK, RecordedLater, Time
  <2> QED
    BY <2>6, <2>7
<1> QED
  BY <1>1, RelayInvariant, PTL DEF RelaySpec, PushesAreSpaced

-----------------------------------------------------------------------------
(* While a client is there that an event found, Run knows of no disconnect; once
   it has left, Run knows of none yet or of one that is no older. *)
PartedInv ==
  /\ met => clients = 1 /\ clientsSeen /\ lastDisconnect = None
  /\ parted # None => /\ parted <= clock /\ clientsSeen
                      /\ lastDisconnect = None \/ lastDisconnect >= parted
  /\ lastDisconnect # None => lastDisconnect <= clock

(* A stream that drops for a moment brings no push, whatever else connects and
   leaves meanwhile (relay.go:83-116). *)
THEOREM QuietReconnect == RelaySpec => ReconnectIsQuiet
<1> DEFINE Quiet == \A n \in Note :
                      job[n] = "none" /\ job'[n] = "list"
                        => clients = 0 /\ (parted = None \/ clock >= parted + Grace)
<1>1. RelayInit => PartedInv
  BY DEF RelayInit, PartedInv
<1>2. ASSUME RelayInv, PartedInv, [RelayNext]_relayVars
      PROVE  PartedInv' /\ [Quiet]_relayVars
  <2>1. /\ clock \in Nat /\ clients \in 0 .. 1 /\ met \in BOOLEAN /\ clientsSeen \in BOOLEAN
        /\ lastDisconnect \in Nat \cup {None} /\ parted \in Nat \cup {None}
        /\ Grace \in Nat /\ None \notin Nat
        /\ job \in [Note -> {"none", "list", "loop", "allow", "send", "done"}]
    BY <1>2, RelayAssumption DEF RelayInv, RelayTypeOK, Time
  <2>2. CASE Handle
    <3> DEFINE last == IF clients > 0 THEN None
                       ELSE IF clientsSeen /\ lastDisconnect = None THEN clock
                       ELSE lastDisconnect
    <3>1. /\ met' = (clients > 0) /\ parted' = (IF clients > 0 THEN None ELSE parted)
          /\ clientsSeen' = (clientsSeen \/ clients > 0) /\ lastDisconnect' = last
          /\ clock' = clock /\ clients' = clients
      BY <2>2 DEF Handle, Decide
    <3>2. PartedInv'
      BY <1>2, <2>1, <3>1 DEF PartedInv
    <3>3. ASSUME NEW n \in Note, job[n] = "none", job'[n] = "list"
          PROVE  clients = 0 /\ (parted = None \/ clock >= parted + Grace)
      <4>1. clients = 0 /\ ~(last # None /\ clock - last < Grace)
        <5>1. job' # job
          BY <3>3
        <5> QED
          BY <2>2, <5>1 DEF Handle, Decide
      <4> QED
        BY <1>2, <2>1, <4>1 DEF PartedInv
    <3> QED
      BY <3>2, <3>3
  <2>3. CASE Tick \/ ClientChange
    <3>1. UNCHANGED <<job, clientsSeen, lastDisconnect>>
      BY <2>3 DEF Tick, ClientChange, runVars, jobVars
    <3>2. CASE Tick
      <4>1. UNCHANGED <<clients, met, parted>> /\ clock' = clock + 1
        BY <3>2 DEF Tick, clientVars
      <4> QED
        BY <1>2, <2>1, <3>1, <4>1 DEF PartedInv
    <3>3. CASE ClientChange
      <4>1. /\ clients' = 1 - clients /\ met' = FALSE /\ clock' = clock
            /\ parted' = IF met THEN clock ELSE parted
        BY <3>3 DEF ClientChange
      <4> QED
        BY <1>2, <2>1, <3>1, <4>1 DEF PartedInv
    <3> QED
      BY <2>3, <3>2, <3>3
  <2>4. CASE ~Handle /\ ~Tick /\ ~ClientChange
    <3>1. UNCHANGED <<clock, clients, met, parted, clientsSeen, lastDisconnect>>
      BY <1>2, <2>4, Zenon DEF RelayNext, Publish, ListTargets, ReadNow, Allow, Send, Unregister,
         Rotate, RegisterDevice, clientVars, runVars, relayVars
    <3>2. PartedInv'
      BY <1>2, <3>1 DEF PartedInv
    <3>3. ASSUME NEW n \in Note, job[n] = "none" PROVE job'[n] # "list"
      <4>1. \/ job' = job
            \/ \E m \in Note, w \in {"loop", "done", "allow", "send"} : job' = [job EXCEPT ![m] = w]
        BY <1>2, <2>4, Zenon DEF RelayNext, Publish, ListTargets, ReadNow, Allow, Send, Unregister,
           Rotate, RegisterDevice, jobVars, relayVars
      <4> QED
        BY <2>1, <3>3, <4>1
    <3> QED
      BY <3>2, <3>3
  <2> QED
    BY <2>2, <2>3, <2>4
<1>3. RelaySpec => [](RelayInv /\ PartedInv)
  BY <1>1, <1>2, RelayInvariant, PTL DEF RelaySpec
<1> QED
  BY <1>2, <1>3, PTL DEF RelaySpec, ReconnectIsQuiet

-----------------------------------------------------------------------------
(* The j-th event found a client, and none from then to the k-th did. *)
LastSeen(h, j, k) == ~h[j].alone /\ \A i \in j + 1 .. k : h[i].alone

(* What Run's two locals say of the events it has handled: whether one found a
   client, and when the first one after the last of these was handled. *)
HistoryInv ==
  /\ \A i \in 1 .. Len(handled) : handled[i].at <= clock
  /\ \A i, j \in 1 .. Len(handled) : i <= j => handled[i].at <= handled[j].at
  /\ clientsSeen <=> \E j \in 1 .. Len(handled) : ~handled[j].alone
  /\ lastDisconnect = None /\ clientsSeen => ~handled[Len(handled)].alone
  /\ lastDisconnect # None =>
       \E j \in 1 .. Len(handled) - 1 : /\ LastSeen(handled, j, Len(handled))
                                        /\ handled[j + 1].at = lastDisconnect

(* An event that Run takes is judged by its locals as by the whole history. *)
LEMMA HandleJudges ==
  ASSUME RelayInv, HistoryInv, WithheldForAReason, Handle
  PROVE  HistoryInv' /\ WithheldForAReason'
<1> DEFINE N == Len(handled)
           last == IF clients > 0 THEN None
                   ELSE IF clientsSeen /\ lastDisconnect = None THEN clock
                   ELSE lastDisconnect
           w == Head(ch) \in wanted
           push == w /\ clients = 0 /\ ~(last # None /\ clock - last < Grace)
           e == [at |-> clock, want |-> w, alone |-> clients = 0, pushed |-> push]
           Entry == [at : Time, want : BOOLEAN, alone : BOOLEAN, pushed : BOOLEAN]
<1>1. /\ handled \in Seq(Entry) /\ clock \in Nat /\ clients \in 0 .. 1 /\ clientsSeen \in BOOLEAN
      /\ lastDisconnect \in Nat \cup {None} /\ Grace \in Nat /\ None \notin Nat
  BY RelayAssumption DEF RelayInv, RelayTypeOK, Time
<1>2. clientsSeen' = (clientsSeen \/ clients > 0) /\ clock' = clock
      /\ lastDisconnect' = last /\ handled' = Append(handled, e)
  BY DEF Handle, Decide
<1>3. e.at = clock /\ e.want = w /\ e.alone = (clients = 0) /\ e.pushed = push
  OBVIOUS
<1>4. N \in Nat /\ Len(handled') = N + 1 /\ handled'[N + 1] = e
      /\ \A i \in 1 .. N : handled'[i] = handled[i]
  BY <1>1, <1>2
<1>5. \A i \in 1 .. N : handled[i].at \in Nat /\ handled[i].alone \in BOOLEAN /\ handled[i].at <= clock
  <2>2. \A x \in Entry : x.at \in Nat /\ x.alone \in BOOLEAN
    BY RelayAssumption DEF Time
  <2> HIDE DEF Entry
  <2>1. \A i \in 1 .. N : handled[i] \in Entry
    BY <1>1, ElementOfSeq
  <2> QED
    BY <2>1, <2>2 DEF HistoryInv
<1>6. /\ clientsSeen <=> \E j \in 1 .. N : ~handled[j].alone
      /\ lastDisconnect = None /\ clientsSeen => ~handled[N].alone
      /\ \A i, j \in 1 .. N : i <= j => handled[i].at <= handled[j].at
  BY DEF HistoryInv
<1>7. lastDisconnect # None =>
        \E j \in 1 .. N - 1 : LastSeen(handled, j, N) /\ handled[j + 1].at = lastDisconnect
  BY DEF HistoryInv
<1> HIDE DEF N, e, push, w, Entry, last
<1>8. /\ clients > 0 => last = None
      /\ clients = 0 /\ clientsSeen /\ lastDisconnect = None => last = clock
      /\ clients = 0 /\ ~(clientsSeen /\ lastDisconnect = None) => last = lastDisconnect
      /\ clients > 0 <=> clients # 0
  BY <1>1 DEF last
<1>9. \A i \in 1 .. N + 1 : i \in 1 .. N \/ i = N + 1
  BY <1>4
(* What the last disconnect means for the new event. *)
<1>10. clients = 0 /\ last # None =>
         \E j \in 1 .. N : LastSeen(handled', j, N + 1) /\ handled'[j + 1].at = last
  <2> SUFFICES ASSUME clients = 0, last # None
               PROVE  \E j \in 1 .. N : LastSeen(handled', j, N + 1) /\ handled'[j + 1].at = last
    OBVIOUS
  <2>1. CASE clientsSeen /\ lastDisconnect = None
    <3>1. N \in 1 .. N /\ ~handled[N].alone
      BY <2>1, <1>4, <1>6
    <3>2. LastSeen(handled', N, N + 1) /\ handled'[N + 1].at = last
      <4>1. handled'[N + 1].alone /\ handled'[N + 1].at = last
        BY <2>1, <1>3, <1>4, <1>8
      <4>2. \A i \in N + 1 .. N + 1 : i = N + 1
        BY <1>4
      <4>3. ~handled'[N].alone
        BY <3>1, <1>4
      <4> QED
        BY <4>1, <4>2, <4>3 DEF LastSeen
    <3> QED
      BY <3>1, <3>2
  <2>2. CASE ~(clientsSeen /\ lastDisconnect = None)
    <3>1. PICK j \in 1 .. N - 1 : LastSeen(handled, j, N) /\ handled[j + 1].at = lastDisconnect
      BY <2>2, <1>7, <1>8
    <3>2. j \in 1 .. N /\ j + 1 \in 1 .. N
      BY <1>4
    <3>3. LastSeen(handled', j, N + 1)
      <4>1. ~handled'[j].alone
        BY <3>1, <3>2, <1>4 DEF LastSeen
      <4>2. \A i \in j + 1 .. N + 1 : (i \in j + 1 .. N /\ i \in 1 .. N) \/ i = N + 1
        BY <3>2, <1>4
      <4>3. \A i \in j + 1 .. N + 1 : handled'[i].alone
        BY <4>2, <3>1, <1>3, <1>4 DEF LastSeen
      <4> QED
        BY <4>1, <4>3 DEF LastSeen
    <3> QED
      BY <2>2, <3>1, <3>2, <3>3, <1>4, <1>8
  <2> QED
    BY <2>1, <2>2
<1>11. HistoryInv'
  <2>1. \A i \in 1 .. Len(handled') : handled'[i].at <= clock'
    BY <1>1, <1>2, <1>3, <1>4, <1>5, <1>9
  <2>2. ASSUME NEW i \in 1 .. Len(handled'), NEW j \in 1 .. Len(handled'), i <= j
        PROVE  handled'[i].at <= handled'[j].at
    <3>1. CASE j = N + 1
      BY <3>1, <2>1, <1>2, <1>3, <1>4
    <3>2. CASE j # N + 1
      <4>1. i \in 1 .. N /\ j \in 1 .. N
        BY <2>2, <3>2, <1>4
      <4> QED
        BY <2>2, <4>1, <1>4, <1>6
    <3> QED
      BY <3>1, <3>2
  <2>3. clientsSeen' <=> \E j \in 1 .. Len(handled') : ~handled'[j].alone
    <3>1. N + 1 \in 1 .. Len(handled') /\ \A i \in 1 .. N : i \in 1 .. Len(handled')
      BY <1>4
    <3>2. (\E j \in 1 .. Len(handled') : ~handled'[j].alone)
            <=> (\E j \in 1 .. N : ~handled[j].alone) \/ clients # 0
      BY <3>1, <1>3, <1>4, <1>9
    <3> QED
      BY <3>2, <1>2, <1>6, <1>8
  <2>4. lastDisconnect' = None /\ clientsSeen' => ~handled'[Len(handled')].alone
    BY <1>1, <1>2, <1>3, <1>4, <1>8
  <2>5. lastDisconnect' # None =>
          \E j \in 1 .. Len(handled') - 1 : /\ LastSeen(handled', j, Len(handled'))
                                            /\ handled'[j + 1].at = lastDisconnect'
    BY <1>2, <1>4, <1>8, <1>10
  <2> QED
    BY <2>1, <2>2, <2>3, <2>4, <2>5 DEF HistoryInv
<1>12. WithheldForAReason'
  <2> DEFINE Recently(k) == \E j \in 1 .. k - 1 :
                              /\ ~handled'[j].alone
                              /\ \A i \in j + 1 .. k :
                                   handled'[i].alone /\ handled'[k].at - handled'[i].at < Grace
  <2>1. SUFFICES ASSUME NEW k \in 1 .. N + 1
                 PROVE  handled'[k].pushed <=> handled'[k].want /\ handled'[k].alone /\ ~Recently(k)
    BY <1>4 DEF WithheldForAReason
  <2>2. CASE k \in 1 .. N
    <3>1. Recently(k) <=> \E j \in 1 .. k - 1 :
                            /\ ~handled[j].alone
                            /\ \A i \in j + 1 .. k :
                                 handled[i].alone /\ handled[k].at - handled[i].at < Grace
      <4>1. \A j \in 1 .. k - 1 : j \in 1 .. N /\ \A i \in j + 1 .. k : i \in 1 .. N
        BY <2>2, <1>4
      <4> QED
        BY <2>2, <4>1, <1>4
    <3> QED
      BY <2>2, <3>1, <1>4 DEF WithheldForAReason, N
  <2>3. CASE k = N + 1
    <3>1. CASE clients # 0
      BY <2>3, <3>1, <1>3, <1>4 DEF push
    <3>2. CASE clients = 0
      <4>1. Recently(k) => last # None /\ clock - last < Grace
        <5> SUFFICES ASSUME NEW j \in 1 .. N, ~handled'[j].alone,
                            \A i \in j + 1 .. N + 1 : handled'[i].alone /\ clock - handled'[i].at < Grace
                     PROVE  last # None /\ clock - last < Grace
          BY <2>3, <1>3, <1>4
        <5>1. j + 1 \in j + 1 .. N + 1 /\ ~handled[j].alone
          BY <1>4
        <5>2. clientsSeen
          BY <5>1, <1>6
        <5>3. last # None
          BY <3>2, <5>2, <1>1, <1>8
        <5>4. PICK l \in 1 .. N : LastSeen(handled', l, N + 1) /\ handled'[l + 1].at = last
          BY <3>2, <5>3, <1>10
        <5>5. l = j
          BY <5>4, <1>4 DEF LastSeen
        <5> QED
          BY <5>1, <5>3, <5>4, <5>5
      <4>2. last # None /\ clock - last < Grace => Recently(k)
        <5> SUFFICES ASSUME last # None, clock - last < Grace
                     PROVE  Recently(k)
          OBVIOUS
        <5>1. PICK j \in 1 .. N : LastSeen(handled', j, N + 1) /\ handled'[j + 1].at = last
          BY <3>2, <1>10
        <5>2. \A i \in j + 1 .. N + 1 : clock - handled'[i].at < Grace
          <6> TAKE i \in j + 1 .. N + 1
          <6>1. j + 1 \in 1 .. Len(handled') /\ i \in 1 .. Len(handled') /\ j + 1 <= i
            BY <1>4
          <6>2. handled'[j + 1].at <= handled'[i].at
            BY <6>1, <1>11 DEF HistoryInv
          <6>3. handled'[i].at \in Nat /\ handled'[j + 1].at \in Nat
            BY <6>1, <1>1, <1>3, <1>4, <1>5, <1>9
          <6> QED
            BY <5>1, <6>2, <6>3, <1>1
        <5>3. handled'[k].at = clock /\ k - 1 = N
          BY <2>3, <1>3, <1>4
        <5> QED
          BY <2>3, <5>1, <5>2, <5>3 DEF LastSeen
      <4> HIDE DEF Recently
      <4> QED
        BY <2>3, <3>2, <4>1, <4>2, <1>3, <1>4 DEF push
    <3> QED
      BY <3>1, <3>2
  <2> QED
    BY <2>1, <2>2, <2>3, <1>9
<1> QED
  BY <1>11, <1>12

(* A notification is withheld while a client is connected or within the grace
   period after the first event that found none, and for no other reason
   (relay.go:83-116). *)
THEOREM WithheldIsJustified == RelaySpec => []WithheldForAReason
<1>1. RelayInit => HistoryInv /\ WithheldForAReason
  BY RelayAssumption DEF RelayInit, HistoryInv, WithheldForAReason
<1>2. RelayInv /\ RelayInv' /\ HistoryInv /\ WithheldForAReason /\ [RelayNext]_relayVars
        => HistoryInv' /\ WithheldForAReason'
  <2> SUFFICES ASSUME RelayInv, RelayInv', HistoryInv, WithheldForAReason, [RelayNext]_relayVars
               PROVE  HistoryInv' /\ WithheldForAReason'
    OBVIOUS
  <2>1. ASSUME UNCHANGED <<handled, clientsSeen, lastDisconnect>>, clock <= clock'
        PROVE  HistoryInv' /\ WithheldForAReason'
    <3>1. WithheldForAReason'
      BY <2>1 DEF WithheldForAReason
    <3>2. \A i \in 1 .. Len(handled) : handled[i].at \in Nat
      <4> DEFINE Entry == [at : Time, want : BOOLEAN, alone : BOOLEAN, pushed : BOOLEAN]
      <4>1. \A x \in Entry : x.at \in Nat
        BY DEF Time
      <4>2. handled \in Seq(Entry)
        BY DEF RelayInv, RelayTypeOK
      <4> HIDE DEF Entry
      <4> QED
        BY <4>1, <4>2, ElementOfSeq
    <3>3. clock \in Nat /\ clock' \in Nat
      BY DEF RelayInv, RelayTypeOK, Time
    <3>4. \A i \in 1 .. Len(handled) : handled[i].at <= clock'
      BY <2>1, <3>2, <3>3 DEF HistoryInv
    <3> QED
      BY <2>1, <3>1, <3>4 DEF HistoryInv, LastSeen
  <2>2. CASE Handle
    BY <2>2, HandleJudges
  <2>3. CASE ~Handle
    <3>1. UNCHANGED <<handled, clientsSeen, lastDisconnect>> /\ (clock' = clock \/ clock' = clock + 1)
      BY <2>3, Zenon DEF RelayNext, Tick, ClientChange, Publish, ListTargets, ReadNow, Allow, Send, Unregister,
                  Rotate, RegisterDevice, runVars, storeVars, jobVars, relayVars
    <3>2. clock <= clock'
      BY <3>1 DEF RelayInv, RelayTypeOK, Time
    <3> QED
      BY <2>1, <3>1, <3>2
  <2> QED
    BY <2>2, <2>3
<1> QED
  BY <1>1, <1>2, RelayInvariant, PTL DEF RelaySpec

=============================================================================
