----------------------------- MODULE McpProofs ------------------------------
(***************************************************************************)
(* Safety of the MCP manager for any number of servers, connections and    *)
(* concurrent operations.  The published state is in order because of what *)
(* is not published yet: who holds a connection that was just dialled, and *)
(* what the first connect and Close leave to the operations around them.   *)
(***************************************************************************)
EXTENDS Mcp, TLAPS

(* A goroutine that dials holds what it has dialled alone, under its server's
   name; the rest of its table is empty. *)
HandInOrder(p, n) ==
  /\ hand[p][n].c # NoConn => hand[p][n].st \in {"open", "listed", "connected", "hung"}
  /\ hand[p][n].st \in {"open", "listed", "connected"} => hand[p][n].c # NoConn
  /\ hand[p][n].st # "none" => pc[p] = "dialAll" \/ (pc[p] = "dialOne" /\ on[p] = n)
  /\ hand[p][n].st = "todo" => pc[p] = "dialAll"
  /\ hand[p][n].c # NoConn => /\ conn[hand[p][n].c] = "open" /\ of[hand[p][n].c] = n
                              /\ hand[p][n].c \notin closing /\ hand[p][n].c # client[n]

HandsInOrder == \A p \in Call, n \in Server : HandInOrder(p, n)

HandsDiffer ==
  \A p, q \in Call, n \in Server :
    p # q /\ hand[p][n].c # NoConn => hand[q][n].c # hand[p][n].c

(* Nothing is published before the one goroutine that connects the configured
   servers is through, and maps are made by it unless Close came first. *)
FirstConnect ==
  /\ once # "done" => /\ \A n \in Server : client[n] = NoConn
                      /\ \A p \in Call : pc[p] \in {"idle", "enter", "dialAll"}
  /\ \A p \in Call : pc[p] = "dialAll" => once = "running"
  /\ \A p, q \in Call : pc[p] = "dialAll" /\ pc[q] = "dialAll" => p = q
  /\ once = "done" => maps \/ closed

(* A closed manager holds no client, and closes what it held. *)
ClosedIsEmpty ==
  /\ closed => \A n \in Server : client[n] = NoConn
  /\ closing # {} => closed
  /\ \A k \in closing : conn[k] = "open"

(* The latest change of the tools on a connection is being refreshed, or its
   refresh is lost, or whoever has a list of the tools has it in. *)
Unrefreshed(k) ==
  \/ <<k, version[k]>> \in missed
  \/ \E r \in refresh : r.by = k /\ r.change = version[k]

VersionsFollow ==
  \A k \in Conn : version[k] # 0 =>
    \/ Unrefreshed(k)
    \/ /\ \A p \in Call, n \in Server :
            hand[p][n].c = k /\ hand[p][n].st \in {"listed", "connected"} => hand[p][n].v = version[k]
       /\ \A n \in Server : client[n] = k => closed \/ tools[n].version = version[k]

(* A handler was given its list no earlier than the change that asked for it. *)
ListsInOrder ==
  \A r \in refresh : /\ r.change <= version[r.by] /\ r.seen <= version[r.by]
                     /\ r.seen # 0 => r.change <= r.seen

(* No open connection is lost, said of the hands one by one. *)
NoneLost ==
  \A k \in Conn : conn[k] = "open" =>
    \/ \E n \in Server : client[n] = k
    \/ \E p \in Call, n \in Server : hand[p][n].c = k
    \/ k \in closing

Connections == NoneLost /\ StatusMatchesClient /\ HandsInOrder /\ HandsDiffer /\ ClosedIsEmpty
Tools == ToolsOfClient /\ VersionsFollow /\ ListsInOrder

ManagerInv == McpTypeOK /\ FirstConnect /\ Connections /\ Tools /\ PanicsOnlyWhenClosed

Place == {"idle", "enter", "dialAll", "ready", "dial", "dialOne", "exchange", "started", "done",
          "panicked"}

LEMMA NoConnIsNone == NoConn \notin Conn /\ Conn \subseteq Int /\ NoConn \in Int
BY McpAssumption DEF NoConn, Conn

(* NoneLost is NoConnectionLeaks. *)
LEMMA LostOrLeaked == NoneLost => NoConnectionLeaks
BY NoConnIsNone DEF NoneLost, NoConnectionLeaks, Held

(* The types of the manager, of the goroutines and of the connections. *)
LEMMA Types ==
  ASSUME McpTypeOK
  PROVE  /\ config \in [Server -> Config] /\ once \in {"fresh", "running", "done"}
         /\ closed \in BOOLEAN /\ locked \in BOOLEAN /\ maps \in BOOLEAN /\ closeHung \in BOOLEAN
         /\ status \in [Server -> States] /\ client \in [Server -> Conn \cup {NoConn}]
         /\ tools \in [Server -> Listing]
         /\ pending \subseteq Server /\ token \subseteq Server /\ closing \subseteq Conn
         /\ pc \in [Call -> Place] /\ op \in [Call -> Op] /\ on \in [Call -> Server]
         /\ cfg \in [Call -> Config] /\ hand \in [Call -> [Server -> Dialled]]
         /\ conn \in [Conn -> {"unused", "open", "closed"}] /\ of \in [Conn -> Server]
         /\ version \in [Conn -> Nat] /\ changes \in Nat /\ watched \subseteq Conn
         /\ refresh \subseteq Change /\ missed \subseteq Conn \X Nat
BY DEF McpTypeOK, Place

(* A dial gives a connection that was unused, or nothing. *)
LEMMA DialOutcome ==
  ASSUME McpTypeOK, NEW n \in Server, NEW c, NEW res \in DialResults(n, c)
  PROVE  /\ res \in Dialled /\ res.st \in {"failed", "needs_auth", "open", "hung"}
         /\ res.c # NoConn <=> res.st = "open"
         /\ res.c # NoConn => res.c \in Conn /\ conn[res.c] = "unused"
<1>1. CASE res \in Failures(c)
  BY <1>1, NoConnIsNone DEF Failures, Result, Dialled, States, Dialling
<1>2. CASE res = Result("hung")
  BY <1>2, NoConnIsNone DEF Result, Dialled, States, Dialling
<1>3. CASE \E k \in Conn : conn[k] = "unused" /\ res = [st |-> "open", c |-> k, v |-> 0]
  BY <1>3, NoConnIsNone DEF Dialled, States, Dialling
<1> QED
  BY <1>1, <1>2, <1>3 DEF DialResults

LEMMA ResultTypes ==
  \A st \in States \cup Dialling : /\ Result(st) \in Dialled
                                   /\ Result(st).c = NoConn /\ Result(st).st = st
BY DEF Result, Dialled

LEMMA NothingTypes ==
  /\ Nothing \in [Server -> Dialled]
  /\ \A n \in Server : Nothing[n].c = NoConn /\ Nothing[n].st = "none"
BY ResultTypes DEF Nothing, States

(* What a hand holds. *)
LEMMA HandTypes ==
  ASSUME McpTypeOK, NEW p \in Call, NEW n \in Server
  PROVE  /\ hand[p][n] \in Dialled /\ hand[p][n].c \in Conn \cup {NoConn}
         /\ hand[p][n].st \in States \cup Dialling /\ hand[p][n].v \in Nat
BY DEF McpTypeOK, Dialled

LEMMA HoldsTypes ==
  ASSUME McpTypeOK, NEW p \in Call, NEW n \in Server, NEW res \in Dialled, Holds(p, n, res)
  PROVE  /\ hand' \in [Call -> [Server -> Dialled]] /\ hand'[p][n] = res
         /\ \A q \in Call, m \in Server : q # p \/ m # n => hand'[q][m] = hand[q][m]
<1>1. hand \in [Call -> [Server -> Dialled]]
  BY Types
<1>2. [hand[p] EXCEPT ![n] = res] \in [Server -> Dialled]
  BY <1>1
<1>3. hand' = [hand EXCEPT ![p] = [hand[p] EXCEPT ![n] = res]]
  BY <1>1 DEF Holds
<1> QED
  BY <1>1, <1>2, <1>3

-----------------------------------------------------------------------------
(* Types. *)
LEMMA InitTypes == McpInit => McpTypeOK
<1> SUFFICES ASSUME McpInit PROVE McpTypeOK
  OBVIOUS
<1>1. config \in [Server -> Config] /\ once \in {"fresh", "running", "done"}
      /\ {closed, locked, maps, closeHung} \subseteq BOOLEAN
  BY McpAssumption DEF McpInit
<1>2. status \in [Server -> States] /\ client \in [Server -> Conn \cup {NoConn}]
      /\ tools \in [Server -> Listing]
  BY DEF McpInit, States, Listing, NoTools
<1>3. SomeServer \in Server
  <2>1. \E n \in Server : TRUE
    BY McpAssumption
  <2> QED
    BY <2>1, Zenon DEF SomeServer
<1>4. /\ pc \in [Call -> Place] /\ op \in [Call -> Op] /\ on \in [Call -> Server]
      /\ cfg \in [Call -> Config]
  BY <1>3 DEF McpInit, Place, Op, Config
<1>5. hand \in [Call -> [Server -> Dialled]]
  BY NothingTypes DEF McpInit
<1>6. /\ conn \in [Conn -> {"unused", "open", "closed"}] /\ of \in [Conn -> Server]
      /\ version \in [Conn -> Nat] /\ changes \in Nat
  BY <1>3 DEF McpInit
<1>7. pending \subseteq Server /\ token \subseteq Server /\ closing \subseteq Conn
      /\ watched \subseteq Conn /\ refresh \subseteq Change /\ missed \subseteq Conn \X Nat
  BY DEF McpInit
<1> QED
  BY <1>1, <1>2, <1>4, <1>5, <1>6, <1>7 DEF McpTypeOK, Place

(* A result that takes its place in the published state. *)
LEMMA ReplaceTypes ==
  ASSUME McpTypeOK, NEW n \in Server, NEW res \in Dialled, res.st \in States, Replace(n, res)
  PROVE  /\ maps' \in BOOLEAN /\ status' \in [Server -> States]
         /\ client' \in [Server -> Conn \cup {NoConn}]
         /\ tools' \in [Server -> Listing]
         /\ conn' \in [Conn -> {"unused", "open", "closed"}]
<1>1. res.c \in Conn \cup {NoConn} /\ res.v \in Nat
  BY DEF Dialled
<1>2. [by |-> res.c, version |-> res.v] \in Listing
  BY <1>1 DEF Listing
<1>3. status \in [Server -> States] /\ client \in [Server -> Conn \cup {NoConn}]
      /\ tools \in [Server -> Listing] /\ conn \in [Conn -> {"unused", "open", "closed"}]
  BY Types
<1>4. maps' \in BOOLEAN /\ status' \in [Server -> States]
  BY <1>3 DEF Replace
<1>5. client' \in [Server -> Conn \cup {NoConn}]
  BY <1>1, <1>3 DEF Replace
<1>6. tools' \in [Server -> Listing]
  BY <1>2, <1>3 DEF Replace
<1>7. conn' \in [Conn -> {"unused", "open", "closed"}]
  BY <1>3 DEF Replace, ClosedConns
<1> QED
  BY <1>4, <1>5, <1>6, <1>7

(* A dial that is remembered by the goroutine that made it. *)
LEMMA DialTypes ==
  ASSUME McpTypeOK, NEW p \in Call, NEW n \in Server, NEW c, Dial(p, n, c)
  PROVE  /\ hand' \in [Call -> [Server -> Dialled]]
         /\ conn' \in [Conn -> {"unused", "open", "closed"}] /\ of' \in [Conn -> Server]
<1>1. conn \in [Conn -> {"unused", "open", "closed"}] /\ of \in [Conn -> Server]
  BY Types
<1>2. PICK res \in DialResults(n, c) :
        /\ Holds(p, n, res)
        /\ conn' = [k \in Conn |-> IF k = res.c THEN "open" ELSE conn[k]]
        /\ of' = [k \in Conn |-> IF k = res.c THEN n ELSE of[k]]
  BY DEF Dial
<1>3. res \in Dialled
  BY DialOutcome
<1>4. hand' \in [Call -> [Server -> Dialled]]
  BY <1>2, <1>3, HoldsTypes
<1> QED
  BY <1>1, <1>2, <1>4

(* The places a goroutine goes to. *)
LEMMA GotoTypes ==
  ASSUME McpTypeOK, NEW p \in Call, NEW w \in Place, Goto(p, w)
  PROVE  pc' \in [Call -> Place] /\ pc'[p] = w /\ \A q \in Call \ {p} : pc'[q] = pc[q]
BY Types DEF Goto

(* The operations between the first connect and the dial of connectOne. *)
Quiet(p) ==
  \/ OnceDone(p) \/ Read(p) \/ Add(p) \/ Connect(p) \/ StartAuth(p) \/ KeepFlow(p)
  \/ FinishAuth(p) \/ Exchange(p)

LEMMA QuietTypes ==
  ASSUME McpTypeOK, NEW p \in Call, Quiet(p)
  PROVE  McpTypeOK'
<1>1. config \in [Server -> Config] /\ on \in [Call -> Server] /\ cfg \in [Call -> Config]
      /\ pending \subseteq Server /\ token \subseteq Server /\ on[p] \in Server
  BY Types
<1>2. \E w \in Place : Goto(p, w)
  BY DEF Quiet, OnceDone, Read, Add, Connect, StartAuth, KeepFlow, FinishAuth, Exchange, Place
<1>3. pc' \in [Call -> Place]
  BY <1>2, GotoTypes
<1>4. config' \in [Server -> Config]
  BY <1>1, McpAssumption DEF Quiet, OnceDone, Read, Add, Connect, StartAuth, KeepFlow, FinishAuth, Exchange
<1>5. \A n \in Server : config[n].known => Enabled(n) \in Config
  <2> SUFFICES ASSUME NEW n \in Server, config[n].known PROVE Enabled(n) \in Config
    OBVIOUS
  <2>1. config[n] \in [known : {TRUE}, enabled : BOOLEAN, oauth : BOOLEAN]
    <3>1. config[n] \in Config /\ NoConfig.known = FALSE
      BY <1>1 DEF NoConfig
    <3>2. config[n] # NoConfig
      BY <3>1
    <3> QED
      BY <3>1, <3>2, Zenon DEF Config
  <2>2. Enabled(n) \in [known : {TRUE}, enabled : BOOLEAN, oauth : BOOLEAN]
    BY <2>1 DEF Enabled
  <2> QED
    BY <2>2 DEF Config
<1>6. cfg' \in [Call -> Config]
  BY <1>1, <1>5, McpAssumption DEF Quiet, OnceDone, Read, Add, Connect, StartAuth, KeepFlow,
     FinishAuth, Exchange
<1>7. pending' \subseteq Server /\ token' \subseteq Server
  BY <1>1 DEF Quiet, OnceDone, Read, Add, Connect, StartAuth, KeepFlow, FinishAuth, Exchange, authVars
<1>8. UNCHANGED <<once, closeVars, mapVars, op, on, hand, connVars, watchVars>>
  BY DEF Quiet, OnceDone, Read, Add, Connect, StartAuth, KeepFlow, FinishAuth, Exchange
<1> QED
  BY <1>3, <1>4, <1>6, <1>7, <1>8 DEF McpTypeOK, Place, closeVars, mapVars, connVars, watchVars

LEMMA BeginTypes ==
  ASSUME McpTypeOK, NEW p \in Call, NEW o \in Op, NEW n \in Server, Begin(p, o, n)
  PROVE  McpTypeOK'
<1>1. op \in [Call -> Op] /\ on \in [Call -> Server] /\ hand \in [Call -> [Server -> Dialled]]
      /\ closed \in BOOLEAN /\ once \in {"fresh", "running", "done"}
  BY Types
<1>2. op' \in [Call -> Op] /\ on' \in [Call -> Server] /\ once' \in {"fresh", "running", "done"}
  BY <1>1 DEF Begin
<1>3. \E w \in Place : Goto(p, w)
  BY DEF Begin, Place
<1>4. pc' \in [Call -> Place]
  BY <1>3, GotoTypes
<1>5. [m \in Server |-> Result(IF config[m].known /\ ~closed THEN "todo" ELSE "none")]
        \in [Server -> Dialled]
  BY ResultTypes DEF States, Dialling
<1>6. hand' \in [Call -> [Server -> Dialled]]
  BY <1>1, <1>5 DEF Begin
<1>7. UNCHANGED <<config, closeVars, mapVars, authVars, cfg, connVars, watchVars>>
  BY DEF Begin
<1> QED
  BY <1>2, <1>4, <1>6, <1>7 DEF McpTypeOK, Place, closeVars, mapVars, authVars, connVars, watchVars

LEMMA ConnectEachTypes ==
  ASSUME McpTypeOK, NEW p \in Call, NEW n \in Server, ConnectEach(p, n)
  PROVE  McpTypeOK'
<1>1. /\ hand' \in [Call -> [Server -> Dialled]]
      /\ conn' \in [Conn -> {"unused", "open", "closed"}] /\ of' \in [Conn -> Server]
  <2>1. CASE Dial(p, n, config[n])
    BY <2>1, DialTypes
  <2>2. CASE Holds(p, n, Result("disabled")) /\ UNCHANGED connVars
    <3>1. Result("disabled") \in Dialled
      BY ResultTypes DEF States
    <3> QED
      BY <2>2, <3>1, HoldsTypes, Types DEF connVars
  <2> QED
    BY <2>1, <2>2 DEF ConnectEach
<1>2. UNCHANGED <<config, once, closeVars, mapVars, authVars, pc, op, on, cfg, watchVars>>
  BY DEF ConnectEach
<1> QED
  BY <1>1, <1>2 DEF McpTypeOK, closeVars, mapVars, authVars, connVars, watchVars

(* What a goroutine does with a connection it has in hand. *)
LEMMA DiallingTypes ==
  ASSUME McpTypeOK, HandsInOrder, NEW p \in Call, NEW n \in Server,
         ListTools(p, n) \/ Watch(p, n) \/ CloseOwnHangs(p, n) \/ CloseOwn(p, n)
  PROVE  McpTypeOK'
<1>1. /\ hand[p][n] \in Dialled /\ version \in [Conn -> Nat]
      /\ conn \in [Conn -> {"unused", "open", "closed"}]
      /\ hand[p][n].st \in {"open", "listed"} => hand[p][n].c \in Conn
  BY HandTypes, Types DEF HandsInOrder, HandInOrder
<1>2. UNCHANGED <<config, once, closeVars, mapVars, authVars, pc, op, on, cfg, of,
                  version, changes, refresh, missed>>
  BY DEF ListTools, Watch, CloseOwnHangs, CloseOwn, connVars, watchVars
<1>3. conn' \in [Conn -> {"unused", "open", "closed"}]
  BY <1>1 DEF ListTools, Watch, CloseOwnHangs, CloseOwn, connVars, ClosedConns
<1>4. watched' \subseteq Conn
  <2>1. CASE Watch(p, n)
    BY <1>1, <2>1, Types DEF Watch
  <2> QED
    BY <2>1, Types DEF ListTools, CloseOwnHangs, CloseOwn, watchVars
<1>5. \E res \in Dialled : Holds(p, n, res)
  <2>1. \A st \in {"listed", "connected", "hung"} : [hand[p][n] EXCEPT !.st = st] \in Dialled
    BY <1>1 DEF Dialled, States, Dialling
  <2>2. \A v \in Nat : [hand[p][n] EXCEPT !.st = "listed", !.v = v] \in Dialled
    BY <1>1 DEF Dialled, Dialling
  <2>3. \A c : Failures(c) \subseteq Dialled /\ Result("none") \in Dialled
    BY ResultTypes DEF Failures, States
  <2>4. CASE ListTools(p, n)
    <3>1. CASE Holds(p, n, [hand[p][n] EXCEPT !.st = "listed", !.v = version[hand[p][n].c]])
      <4>1. version[hand[p][n].c] \in Nat
        BY <1>1, <2>4 DEF ListTools
      <4> QED
        BY <2>2, <3>1, <4>1
    <3> QED
      BY <2>3, <2>4, <3>1 DEF ListTools
  <2> QED
    BY <2>1, <2>3, <2>4 DEF Watch, CloseOwnHangs, CloseOwn
<1>6. hand' \in [Call -> [Server -> Dialled]]
  BY <1>5, HoldsTypes
<1> QED
  BY <1>2, <1>3, <1>4, <1>6 DEF McpTypeOK, closeVars, mapVars, authVars, watchVars

LEMMA ConnectPublishTypes ==
  ASSUME McpTypeOK, NEW p \in Call, ConnectPublish(p)
  PROVE  McpTypeOK'
<1>1. \E w \in Place : Goto(p, w)
  BY DEF ConnectPublish, Place
<1>2. pc' \in [Call -> Place]
  BY <1>1, GotoTypes
<1>3. once' \in {"fresh", "running", "done"}
  BY DEF ConnectPublish
<1>4. hand' \in [Call -> [Server -> Dialled]]
  BY Types, NothingTypes DEF ConnectPublish
<1>5. \A n \in Server : /\ hand[p][n].st \in States
                        /\ [by |-> hand[p][n].c, version |-> hand[p][n].v] \in Listing
  BY HandTypes DEF ConnectPublish, Through, Listing
<1>6. /\ maps' \in BOOLEAN /\ status' \in [Server -> States]
      /\ client' \in [Server -> Conn \cup {NoConn}]
      /\ tools' \in [Server -> Listing]
  <2>1. CASE closed
    BY <2>1, Types DEF ConnectPublish, mapVars
  <2>2. CASE ~closed
    <3>1. PublishAll(p)
      BY <2>2 DEF ConnectPublish
    <3>2. \A n \in Server : hand[p][n].c \in Conn \cup {NoConn}
      BY HandTypes
    <3> QED
      BY <1>5, <3>1, <3>2 DEF PublishAll
  <2> QED
    BY <2>1, <2>2
<1>7. UNCHANGED <<config, closeVars, authVars, op, on, cfg, connVars, watchVars>>
  BY DEF ConnectPublish
<1> QED
  BY <1>2, <1>3, <1>4, <1>6, <1>7 DEF McpTypeOK, Place, closeVars, authVars, connVars, watchVars

LEMMA ConnectOneTypes ==
  ASSUME McpTypeOK, NEW p \in Call, ConnectOne(p)
  PROVE  McpTypeOK'
<1>1. \E w \in Place : Goto(p, w)
  BY DEF ConnectOne, Place
<1>2. pc' \in [Call -> Place]
  BY <1>1, GotoTypes
<1>3. UNCHANGED <<config, once, closeVars, authVars, op, on, cfg, watchVars>>
  BY DEF ConnectOne
<1>4. CASE UNCHANGED <<mapVars, hand, connVars>>
  BY <1>2, <1>3, <1>4 DEF McpTypeOK, Place, closeVars, mapVars, authVars, connVars, watchVars
<1>5. CASE Replace(on[p], Result("disabled")) /\ UNCHANGED <<hand, of>>
  <2>1. on[p] \in Server /\ Result("disabled") \in Dialled /\ Result("disabled").st \in States
    BY Types, ResultTypes DEF States
  <2>2. /\ maps' \in BOOLEAN /\ status' \in [Server -> States]
        /\ client' \in [Server -> Conn \cup {NoConn}]
        /\ tools' \in [Server -> Listing]
        /\ conn' \in [Conn -> {"unused", "open", "closed"}]
    BY <1>5, <2>1, ReplaceTypes
  <2> QED
    BY <1>2, <1>3, <1>5, <2>2 DEF McpTypeOK, Place, closeVars, authVars, watchVars
<1>6. CASE Dial(p, on[p], cfg[p]) /\ UNCHANGED mapVars
  <2>1. on[p] \in Server
    BY Types
  <2>2. /\ hand' \in [Call -> [Server -> Dialled]]
        /\ conn' \in [Conn -> {"unused", "open", "closed"}] /\ of' \in [Conn -> Server]
    BY <1>6, <2>1, DialTypes
  <2> QED
    BY <1>2, <1>3, <1>6, <2>2 DEF McpTypeOK, Place, closeVars, mapVars, authVars, watchVars
<1> QED
  BY <1>4, <1>5, <1>6 DEF ConnectOne

LEMMA PublishTypes ==
  ASSUME McpTypeOK, NEW p \in Call, Publish(p)
  PROVE  McpTypeOK'
<1>1. \E w \in Place : Goto(p, w)
  BY DEF Publish, Place
<1>2. pc' \in [Call -> Place]
  BY <1>1, GotoTypes
<1>3. UNCHANGED <<config, once, closeVars, authVars, op, on, cfg, of, watchVars>>
  BY DEF Publish
<1>4. hand' \in [Call -> [Server -> Dialled]]
  BY Types, NothingTypes DEF Publish
<1>5. /\ maps' \in BOOLEAN /\ status' \in [Server -> States]
      /\ client' \in [Server -> Conn \cup {NoConn}]
      /\ tools' \in [Server -> Listing]
      /\ conn' \in [Conn -> {"unused", "open", "closed"}]
  <2>1. CASE closed
    BY <2>1, Types DEF Publish, mapVars
  <2>2. CASE ~closed
    <3>1. Replace(on[p], hand[p][on[p]]) /\ on[p] \in Server
      BY <2>2, Types DEF Publish
    <3>2. hand[p][on[p]] \in Dialled /\ hand[p][on[p]].st \in States
      BY <3>1, HandTypes DEF Publish, Through
    <3> QED
      BY <3>1, <3>2, ReplaceTypes
  <2> QED
    BY <2>1, <2>2
<1> QED
  BY <1>2, <1>3, <1>4, <1>5 DEF McpTypeOK, Place, closeVars, authVars, watchVars

LEMMA DisconnectTypes ==
  ASSUME McpTypeOK, NEW p \in Call, Disconnect(p)
  PROVE  McpTypeOK'
<1>1. \E w \in Place : Goto(p, w)
  BY DEF Disconnect, Place
<1>2. pc' \in [Call -> Place]
  BY <1>1, GotoTypes
<1>3. UNCHANGED <<config, once, closeVars, authVars, op, on, cfg, hand, of, watchVars>>
  BY DEF Disconnect
<1>4. CASE UNCHANGED <<mapVars, conn>>
  BY <1>2, <1>3, <1>4 DEF McpTypeOK, Place, closeVars, mapVars, authVars, watchVars
<1>5. CASE Replace(on[p], Result("disabled"))
  <2>1. on[p] \in Server /\ Result("disabled") \in Dialled /\ Result("disabled").st \in States
    BY Types, ResultTypes DEF States
  <2>2. /\ maps' \in BOOLEAN /\ status' \in [Server -> States]
        /\ client' \in [Server -> Conn \cup {NoConn}]
        /\ tools' \in [Server -> Listing]
        /\ conn' \in [Conn -> {"unused", "open", "closed"}]
    BY <1>5, <2>1, ReplaceTypes
  <2> QED
    BY <1>2, <1>3, <2>2 DEF McpTypeOK, Place, closeVars, authVars, watchVars
<1> QED
  BY <1>4, <1>5 DEF Disconnect

(* The steps of no operation. *)
LEMMA OtherTypes ==
  ASSUME McpTypeOK,
         \/ (\E n \in Server : RemoveAuth(n)) \/ (\E p \in Call : CloseLockedHangs(p))
         \/ Close \/ \E k \in Conn : CloseRest(k)
  PROVE  McpTypeOK'
<1>1. CASE \E n \in Server : RemoveAuth(n)
  <2>1. pending' \subseteq Server /\ token' \subseteq Server
    BY <1>1, Types DEF RemoveAuth
  <2> QED
    BY <1>1, <2>1 DEF RemoveAuth, McpTypeOK, closeVars, mapVars, callVars, connVars, watchVars
<1>2. CASE \E p \in Call : CloseLockedHangs(p)
  BY <1>2 DEF CloseLockedHangs, McpTypeOK, mapVars, authVars, callVars, connVars, watchVars
<1>3. CASE Close
  <2>1. closing' \subseteq Conn /\ client' \in [Server -> Conn \cup {NoConn}] /\ closed' \in BOOLEAN
    BY <1>3, Types DEF Close
  <2> QED
    BY <1>3, <2>1 DEF Close, McpTypeOK, authVars, callVars, connVars, watchVars
<1>4. CASE \E k \in Conn : CloseRest(k)
  <2>1. closing' \subseteq Conn /\ conn' \in [Conn -> {"unused", "open", "closed"}]
        /\ closeHung' \in BOOLEAN
    BY <1>4, Types DEF CloseRest, ClosedConns
  <2> QED
    BY <1>4, <2>1 DEF CloseRest, McpTypeOK, mapVars, authVars, callVars, watchVars
<1> QED
  BY <1>1, <1>2, <1>3, <1>4

(* The steps of a server's notification. *)
LEMMA ChangeTypes ==
  ASSUME McpTypeOK,
         \/ \E k \in Conn : ToolsChange(k)
         \/ \E r \in refresh : Unheard(r) \/ ListAgain(r) \/ RefreshTools(r)
  PROVE  McpTypeOK'
<1>1. CASE \E k \in Conn : ToolsChange(k)
  <2>1. version' \in [Conn -> Nat] /\ changes' \in Nat /\ refresh' \subseteq Change
    BY <1>1, Types DEF ToolsChange, Change
  <2> QED
    BY <1>1, <2>1 DEF ToolsChange, McpTypeOK, closeVars, mapVars, authVars, callVars, connVars
<1>2. ASSUME NEW r \in refresh PROVE r \in Change /\ r.by \in Conn /\ r.change \in Nat
  BY Types DEF Change
<1>3. ASSUME NEW r \in refresh, Unheard(r) PROVE McpTypeOK'
  <2>1. refresh' \subseteq Change /\ missed' \subseteq Conn \X Nat
    BY <1>2, <1>3, Types DEF Unheard, Misses
  <2> QED
    BY <1>3, <2>1 DEF Unheard, McpTypeOK, closeVars, mapVars, authVars, callVars, connVars
<1>4. ASSUME NEW r \in refresh, ListAgain(r) PROVE McpTypeOK'
  <2>1. [r EXCEPT !.seen = version[r.by]] \in Change
    BY <1>2, Types DEF Change
  <2>2. refresh' \subseteq Change /\ missed' \subseteq Conn \X Nat
    <3>1. refresh \subseteq Change /\ missed \subseteq Conn \X Nat /\ <<r.by, r.change>> \in Conn \X Nat
      BY <1>2, Types
    <3>2. CASE /\ refresh' = (refresh \ {r}) \cup {[r EXCEPT !.seen = version[r.by]]}
               /\ UNCHANGED missed
      BY <2>1, <3>1, <3>2
    <3>3. CASE refresh' = refresh \ {r} /\ Misses(r)
      BY <3>1, <3>3 DEF Misses
    <3> QED
      BY <1>4, <3>2, <3>3 DEF ListAgain
  <2> QED
    BY <1>4, <2>2 DEF ListAgain, McpTypeOK, closeVars, mapVars, authVars, callVars, connVars
<1>5. ASSUME NEW r \in refresh, RefreshTools(r) PROVE McpTypeOK'
  <2>1. [by |-> r.by, version |-> r.seen] \in Listing /\ r.seen \in Nat /\ of[r.by] \in Server
    BY <1>2, Types DEF Listing, Change
  <2>2. tools' \in [Server -> Listing]
    BY <1>5, <2>1, Types DEF RefreshTools
  <2>3. tools[of[r.by]].version \in Nat
    BY <2>1, Types DEF Listing
  <2>4. {<<r.by, i>> : i \in r.seen + 1 .. tools[of[r.by]].version} \subseteq Conn \X Nat
    BY <1>2, <2>1, <2>3
  <2>5. refresh' \subseteq Change /\ missed' \subseteq Conn \X Nat
    BY <1>2, <1>5, <2>4, Types DEF RefreshTools, Misses
  <2> QED
    BY <1>5, <2>2, <2>5 DEF RefreshTools, McpTypeOK, closeVars, authVars, callVars, connVars
<1> QED
  BY <1>1, <1>3, <1>4, <1>5

-----------------------------------------------------------------------------
(* Who owns a connection. *)
LEMMA QuietConnections ==
  ASSUME McpTypeOK, Connections,
         UNCHANGED <<hand, conn, of, client, status, closing, closed>>,
         \A p \in Call : pc[p] \in {"dialAll", "dialOne"} => pc'[p] = pc[p] /\ on'[p] = on[p]
  PROVE  Connections'
<1>1. NoneLost' /\ StatusMatchesClient' /\ HandsDiffer' /\ ClosedIsEmpty'
  BY DEF Connections, NoneLost, StatusMatchesClient, HandsDiffer, ClosedIsEmpty
<1>2. HandsInOrder'
  <2> SUFFICES ASSUME NEW p \in Call, NEW n \in Server PROVE HandInOrder(p, n)'
    BY DEF HandsInOrder
  <2> QED
    BY DEF Connections, HandsInOrder, HandInOrder
<1> QED
  BY <1>1, <1>2 DEF Connections

(* What the invariant says of two connections in hand, of one in hand and one
   published, and of one in hand and one that Close has. *)
LEMMA HandsApart ==
  ASSUME McpTypeOK, Connections, NEW p \in Call, NEW n \in Server, hand[p][n].c # NoConn
  PROVE  /\ hand[p][n].c \in Conn /\ conn[hand[p][n].c] = "open" /\ of[hand[p][n].c] = n
         /\ hand[p][n].c \notin closing /\ \A m \in Server : client[m] # hand[p][n].c
         /\ \A q \in Call, m \in Server : q # p \/ m # n => hand[q][m].c # hand[p][n].c
<1>1. HandInOrder(p, n)
  BY DEF Connections, HandsInOrder
<1>2. hand[p][n].c \in Conn
  BY HandTypes
<1>3. ASSUME NEW m \in Server, client[m] = hand[p][n].c PROVE FALSE
  <2>1. ~closed /\ client[m] # NoConn
    BY <1>3 DEF Connections, ClosedIsEmpty
  <2>2. of[client[m]] = m
    BY <2>1 DEF Connections, StatusMatchesClient
  <2> QED
    BY <1>1, <1>3, <2>2 DEF HandInOrder
<1>4. ASSUME NEW q \in Call, NEW m \in Server, q # p \/ m # n, hand[q][m].c = hand[p][n].c PROVE FALSE
  <2>1. of[hand[q][m].c] = m
    BY <1>4 DEF Connections, HandsInOrder, HandInOrder
  <2>2. m = n /\ q # p
    BY <1>1, <1>4, <2>1 DEF HandInOrder
  <2> QED
    BY <1>4, <2>2 DEF Connections, HandsDiffer
<1> QED
  BY <1>1, <1>2, <1>3, <1>4 DEF HandInOrder

(* A goroutine takes a result in hand: a connection that was unused, or none. *)
LEMMA HandConnections ==
  ASSUME McpTypeOK, Connections, NEW p \in Call, NEW n \in Server, NEW res \in Dialled,
         hand[p][n].c = NoConn, res.st \in {"disabled", "failed", "needs_auth", "open", "hung"},
         res.c # NoConn <=> res.st = "open",
         res.c # NoConn => res.c \in Conn /\ conn[res.c] = "unused",
         Holds(p, n, res),
         conn' = [k \in Conn |-> IF k = res.c THEN "open" ELSE conn[k]],
         of' = [k \in Conn |-> IF k = res.c THEN n ELSE of[k]],
         UNCHANGED <<client, status, closing, closed, on>>,
         \A q \in Call \ {p} : pc'[q] = pc[q],
         \/ pc[p] = "dialAll" /\ pc'[p] = "dialAll"
         \/ pc[p] = "dial" /\ pc'[p] = "dialOne" /\ on[p] = n
  PROVE  Connections'
<1>1. /\ client \in [Server -> Conn \cup {NoConn}]
      /\ conn \in [Conn -> {"unused", "open", "closed"}] /\ of \in [Conn -> Server]
      /\ closing \subseteq Conn
  BY Types
<1>2. /\ hand'[p][n] = res
      /\ \A q \in Call, m \in Server : (q # p \/ m # n) => hand'[q][m] = hand[q][m]
  BY HoldsTypes
<1>3. \A k \in Conn : k # res.c => conn'[k] = conn[k] /\ of'[k] = of[k]
  BY <1>1
<1>4. /\ \A q \in Call, m \in Server : hand[q][m].c # NoConn => hand[q][m].c # res.c
      /\ \A k \in closing : k # res.c
      /\ \A m \in Server : res.c # NoConn => client[m] # res.c
  <2>1. \A q \in Call, m \in Server : hand[q][m].c # NoConn => conn[hand[q][m].c] = "open"
    BY HandsApart
  <2>2. \A k \in closing : conn[k] = "open"
    BY DEF Connections, ClosedIsEmpty
  <2>3. \A m \in Server : client[m] # NoConn => conn[client[m]] = "open"
    BY DEF Connections, StatusMatchesClient, ClosedIsEmpty
  <2> QED
    BY <1>1, <2>1, <2>2, <2>3, NoConnIsNone
<1>5. NoneLost'
  <2> SUFFICES ASSUME NEW k \in Conn, conn'[k] = "open"
               PROVE  \/ \E m \in Server : client[m] = k
                      \/ \E q \in Call, m \in Server : hand'[q][m].c = k
                      \/ k \in closing
    BY DEF NoneLost
  <2>1. CASE k = res.c
    BY <1>2, <2>1
  <2>2. CASE k # res.c
    <3>1. conn[k] = "open"
      BY <1>3, <2>2
    <3>2. CASE \E q \in Call, m \in Server : hand[q][m].c = k
      BY <1>2, <3>2, NoConnIsNone
    <3> QED
      BY <3>1, <3>2 DEF Connections, NoneLost
  <2> QED
    BY <2>1, <2>2
<1>6. StatusMatchesClient'
  <2> SUFFICES ASSUME ~closed, NEW m \in Server
               PROVE  /\ status[m] = "connected" <=> client[m] # NoConn
                      /\ client[m] # NoConn => conn'[client[m]] = "open" /\ of'[client[m]] = m
    BY DEF StatusMatchesClient
  <2>1. /\ status[m] = "connected" <=> client[m] # NoConn
        /\ client[m] # NoConn => conn[client[m]] = "open" /\ of[client[m]] = m
    BY DEF Connections, StatusMatchesClient
  <2>2. client[m] # NoConn => client[m] \in Conn /\ client[m] # res.c
    BY <1>1, <1>4
  <2> QED
    BY <1>3, <2>1, <2>2
<1>7. HandsInOrder'
  <2> SUFFICES ASSUME NEW q \in Call, NEW m \in Server PROVE HandInOrder(q, m)'
    BY DEF HandsInOrder
  <2>1. CASE q = p /\ m = n
    <3>1. res.c # NoConn => /\ conn'[res.c] = "open" /\ of'[res.c] = n
                            /\ res.c \notin closing /\ res.c # client[n]
      BY <1>4
    <3> QED
      BY <1>2, <2>1, <3>1 DEF HandInOrder
  <2>2. CASE q # p \/ m # n
    <3>1. HandInOrder(q, m)
      BY DEF Connections, HandsInOrder
    <3>2. hand[q][m].c # NoConn => hand[q][m].c \in Conn /\ hand[q][m].c # res.c
      BY <1>4, HandTypes
    <3>3. pc[q] \in {"dialAll", "dialOne"} => pc'[q] = pc[q]
      OBVIOUS
    <3> QED
      BY <1>2, <1>3, <2>2, <3>1, <3>2, <3>3 DEF HandInOrder
  <2> QED
    BY <2>1, <2>2
<1>8. HandsDiffer'
  <2> SUFFICES ASSUME NEW q \in Call, NEW r \in Call, NEW m \in Server, q # r, hand'[q][m].c # NoConn
               PROVE  hand'[r][m].c # hand'[q][m].c
    BY DEF HandsDiffer
  <2>1. hand[q][m].c # NoConn => hand[r][m].c # hand[q][m].c
    BY DEF Connections, HandsDiffer
  <2>2. CASE q = p /\ m = n
    BY <1>2, <1>4, <2>2
  <2>3. CASE r = p /\ m = n
    BY <1>2, <1>4, <2>3
  <2>4. CASE m # n \/ (q # p /\ r # p)
    BY <1>2, <2>1, <2>4
  <2> QED
    BY <2>2, <2>3, <2>4
<1>9. ClosedIsEmpty'
  <2>1. \A k \in closing : conn'[k] = "open"
    BY <1>1, <1>3, <1>4 DEF Connections, ClosedIsEmpty
  <2> QED
    BY <2>1 DEF Connections, ClosedIsEmpty
<1> QED
  BY <1>5, <1>6, <1>7, <1>8, <1>9 DEF Connections

(* A goroutine comes further with a connection it has in hand. *)
LEMMA RestateConnections ==
  ASSUME McpTypeOK, Connections, NEW p \in Call, NEW n \in Server, NEW res \in Dialled,
         hand[p][n].c # NoConn, res.c = hand[p][n].c, res.st \in {"listed", "connected", "hung"},
         Holds(p, n, res), UNCHANGED <<conn, of, client, status, closing, closed, on, pc>>
  PROVE  Connections'
<1>1. /\ hand'[p][n] = res
      /\ \A q \in Call, m \in Server : (q # p \/ m # n) => hand'[q][m] = hand[q][m]
  BY HoldsTypes
<1>2. \A q \in Call, m \in Server : hand'[q][m].c = hand[q][m].c
  BY <1>1
<1>3. NoneLost' /\ HandsDiffer'
  BY <1>2 DEF Connections, NoneLost, HandsDiffer
<1>4. StatusMatchesClient' /\ ClosedIsEmpty'
  BY DEF Connections, StatusMatchesClient, ClosedIsEmpty
<1>5. HandsInOrder'
  <2> SUFFICES ASSUME NEW q \in Call, NEW m \in Server PROVE HandInOrder(q, m)'
    BY DEF HandsInOrder
  <2>1. HandInOrder(q, m)
    BY DEF Connections, HandsInOrder
  <2>2. CASE q = p /\ m = n
    BY <1>1, <2>1, <2>2 DEF HandInOrder
  <2>3. CASE q # p \/ m # n
    BY <1>1, <2>1, <2>3 DEF HandInOrder
  <2> QED
    BY <2>2, <2>3
<1> QED
  BY <1>3, <1>4, <1>5 DEF Connections

(* A goroutine closes a connection it has in hand. *)
LEMMA ReleaseConnections ==
  ASSUME McpTypeOK, Connections, NEW p \in Call, NEW n \in Server, NEW res \in Dialled,
         hand[p][n].c # NoConn, res.c = NoConn, res.st \in {"none", "failed", "needs_auth"},
         Holds(p, n, res), ClosedConns({hand[p][n].c}),
         UNCHANGED <<of, client, status, closing, closed, on, pc>>
  PROVE  Connections'
<1>1. /\ hand'[p][n] = res
      /\ \A q \in Call, m \in Server : (q # p \/ m # n) => hand'[q][m] = hand[q][m]
  BY HoldsTypes
<1>2. /\ hand[p][n].c \in Conn /\ hand[p][n].c \notin closing
      /\ \A m \in Server : client[m] # hand[p][n].c
      /\ \A q \in Call, m \in Server : q # p \/ m # n => hand[q][m].c # hand[p][n].c
  BY HandsApart
<1>3. \A k \in Conn : conn'[k] = IF k = hand[p][n].c THEN "closed" ELSE conn[k]
  BY DEF ClosedConns
<1>4. NoneLost'
  <2> SUFFICES ASSUME NEW k \in Conn, conn'[k] = "open"
               PROVE  \/ \E m \in Server : client[m] = k
                      \/ \E q \in Call, m \in Server : hand'[q][m].c = k
                      \/ k \in closing
    BY DEF NoneLost
  <2>1. conn[k] = "open" /\ k # hand[p][n].c
    BY <1>3
  <2> QED
    BY <1>1, <2>1 DEF Connections, NoneLost
<1>5. StatusMatchesClient' /\ ClosedIsEmpty'
  <2>1. client \in [Server -> Conn \cup {NoConn}] /\ closing \subseteq Conn
    BY Types
  <2> QED
    BY <1>2, <1>3, <2>1 DEF Connections, StatusMatchesClient, ClosedIsEmpty
<1>6. HandsInOrder'
  <2> SUFFICES ASSUME NEW q \in Call, NEW m \in Server PROVE HandInOrder(q, m)'
    BY DEF HandsInOrder
  <2>1. HandInOrder(q, m) /\ HandInOrder(p, n)
    BY DEF Connections, HandsInOrder
  <2>2. CASE q = p /\ m = n
    BY <1>1, <2>1, <2>2 DEF HandInOrder
  <2>3. CASE q # p \/ m # n
    <3>1. hand[q][m].c # NoConn => conn'[hand[q][m].c] = conn[hand[q][m].c]
      BY <1>2, <1>3, <2>3, HandTypes
    <3> QED
      BY <1>1, <2>1, <2>3, <3>1 DEF HandInOrder
  <2> QED
    BY <2>2, <2>3
<1>7. HandsDiffer'
  <2> SUFFICES ASSUME NEW q \in Call, NEW r \in Call, NEW m \in Server, q # r, hand'[q][m].c # NoConn
               PROVE  hand'[r][m].c # hand'[q][m].c
    BY DEF HandsDiffer
  <2>1. hand[q][m].c # NoConn => hand[r][m].c # hand[q][m].c
    BY DEF Connections, HandsDiffer
  <2> QED
    BY <1>1, <2>1
<1> QED
  BY <1>4, <1>5, <1>6, <1>7 DEF Connections

(* A result in hand, or one without a connection, takes the place of what is
   published for a server. *)
LEMMA ReplaceConnections ==
  ASSUME McpTypeOK, Connections, NEW n \in Server, NEW res \in Dialled, Replace(n, res),
         res.c # NoConn <=> res.st = "connected",
         res.c # NoConn => /\ ~closed /\ conn[res.c] = "open" /\ of[res.c] = n
                           /\ res.c # client[n] /\ res.c \notin closing,
         \A q \in Call, m \in Server :
           \/ hand'[q][m] = hand[q][m] /\ pc'[q] = pc[q] /\ (hand[q][m].c # NoConn => hand[q][m].c # res.c)
           \/ /\ hand'[q][m].c = NoConn /\ hand'[q][m].st = "none"
              /\ hand[q][m].c # NoConn => hand[q][m].c = res.c,
         UNCHANGED <<of, closing, closed, on>>
  PROVE  Connections'
<1>1. /\ client \in [Server -> Conn \cup {NoConn}] /\ status \in [Server -> States]
      /\ conn \in [Conn -> {"unused", "open", "closed"}] /\ of \in [Conn -> Server]
      /\ closing \subseteq Conn /\ res.c \in Conn \cup {NoConn}
  BY Types DEF Dialled
<1>2. /\ client'[n] = res.c /\ status'[n] = res.st
      /\ \A m \in Server \ {n} : client'[m] = client[m] /\ status'[m] = status[m]
      /\ \A k \in Conn : conn'[k] = IF k = client[n] THEN "closed" ELSE conn[k]
  BY <1>1 DEF Replace, ClosedConns
<1>3. \A q \in Call, m \in Server : hand[q][m].c \in Conn \cup {NoConn}
  BY HandTypes
<1>4. NoneLost'
  <2> SUFFICES ASSUME NEW k \in Conn, conn'[k] = "open"
               PROVE  \/ \E m \in Server : client'[m] = k
                      \/ \E q \in Call, m \in Server : hand'[q][m].c = k
                      \/ k \in closing
    BY DEF NoneLost
  <2>1. conn[k] = "open" /\ k # client[n]
    BY <1>2
  <2>2. CASE \E q \in Call, m \in Server : hand[q][m].c = k
    <3> PICK q \in Call, m \in Server : hand[q][m].c = k
      BY <2>2
    <3>1. hand'[q][m].c = k \/ res.c = k
      BY NoConnIsNone
    <3> QED
      BY <1>2, <3>1
  <2>3. CASE \E m \in Server : client[m] = k
    BY <1>2, <2>1, <2>3
  <2> QED
    BY <2>1, <2>2, <2>3 DEF Connections, NoneLost
<1>5. StatusMatchesClient'
  <2> SUFFICES ASSUME ~closed, NEW m \in Server
               PROVE  /\ status'[m] = "connected" <=> client'[m] # NoConn
                      /\ client'[m] # NoConn => conn'[client'[m]] = "open" /\ of[client'[m]] = m
    BY DEF StatusMatchesClient
  <2>1. /\ status[m] = "connected" <=> client[m] # NoConn
        /\ client[m] # NoConn => conn[client[m]] = "open" /\ of[client[m]] = m
        /\ client[n] # NoConn => of[client[n]] = n
    BY DEF Connections, StatusMatchesClient
  <2>2. CASE m = n
    <3>1. res.c # NoConn => conn'[res.c] = "open"
      BY <1>1, <1>2
    <3> QED
      BY <1>2, <2>2, <3>1
  <2>3. CASE m # n
    <3>1. client[m] # NoConn => client[m] # client[n] /\ client[m] \in Conn
      BY <1>1, <2>1, <2>3
    <3>2. client[m] # NoConn => conn'[client[m]] = "open"
      BY <1>2, <2>1, <3>1
    <3> QED
      BY <1>2, <2>1, <2>3, <3>2
  <2> QED
    BY <2>2, <2>3
<1>6. HandsInOrder'
  <2> SUFFICES ASSUME NEW q \in Call, NEW m \in Server PROVE HandInOrder(q, m)'
    BY DEF HandsInOrder
  <2>1. CASE hand'[q][m].c = NoConn /\ hand'[q][m].st = "none"
    BY <2>1 DEF HandInOrder
  <2>2. CASE hand'[q][m] = hand[q][m] /\ pc'[q] = pc[q] /\ (hand[q][m].c # NoConn => hand[q][m].c # res.c)
    <3>1. HandInOrder(q, m)
      BY DEF Connections, HandsInOrder
    <3>2. hand[q][m].c # NoConn => /\ hand[q][m].c \in Conn /\ hand[q][m].c # client[n]
                                   /\ hand[q][m].c # client'[m]
      BY <1>2, <2>2, HandsApart
    <3>3. hand[q][m].c # NoConn => conn'[hand[q][m].c] = "open"
      BY <1>2, <3>1, <3>2 DEF HandInOrder
    <3> QED
      BY <2>2, <3>1, <3>2, <3>3 DEF HandInOrder
  <2> QED
    BY <2>1, <2>2
<1>7. HandsDiffer'
  BY DEF Connections, HandsDiffer
<1>8. ClosedIsEmpty'
  <2>1. closed => \A m \in Server : client'[m] = NoConn
    BY <1>2 DEF Connections, ClosedIsEmpty
  <2>2. \A k \in closing : conn'[k] = "open"
    <3>1. closing # {} => client[n] = NoConn
      BY DEF Connections, ClosedIsEmpty
    <3> QED
      BY <1>1, <1>2, <3>1, NoConnIsNone DEF Connections, ClosedIsEmpty
  <2> QED
    BY <2>1, <2>2 DEF Connections, ClosedIsEmpty
<1> QED
  BY <1>4, <1>5, <1>6, <1>7, <1>8 DEF Connections

(* A goroutine that has nothing in hand ends. *)
LEMMA EmptiedConnections ==
  ASSUME McpTypeOK, Connections, NEW p \in Call, Held(p) = {}, hand' = [hand EXCEPT ![p] = Nothing],
         \A q \in Call \ {p} : pc'[q] = pc[q],
         UNCHANGED <<conn, of, client, status, closing, closed, on>>
  PROVE  Connections'
<1>1. /\ \A m \in Server : hand'[p][m].c = NoConn /\ hand'[p][m].st = "none"
      /\ \A q \in Call \ {p} : hand'[q] = hand[q]
  BY Types, NothingTypes
<1>2. \A m \in Server : hand[p][m].c = NoConn
  BY HandTypes DEF Held
<1>3. \A q \in Call, m \in Server : hand'[q][m].c = hand[q][m].c
  BY <1>1, <1>2
<1>4. NoneLost' /\ HandsDiffer'
  BY <1>3 DEF Connections, NoneLost, HandsDiffer
<1>5. StatusMatchesClient' /\ ClosedIsEmpty'
  BY DEF Connections, StatusMatchesClient, ClosedIsEmpty
<1>6. HandsInOrder'
  <2> SUFFICES ASSUME NEW q \in Call, NEW m \in Server PROVE HandInOrder(q, m)'
    BY DEF HandsInOrder
  <2>1. CASE q = p
    BY <1>1, <2>1 DEF HandInOrder
  <2>2. CASE q # p
    BY <1>1, <2>2 DEF Connections, HandsInOrder, HandInOrder
  <2> QED
    BY <2>1, <2>2
<1> QED
  BY <1>4, <1>5, <1>6 DEF Connections

(* A goroutine that neither connects nor dials has nothing in hand. *)
LEMMA EmptyHand ==
  ASSUME McpTypeOK, Connections, NEW p \in Call, NEW n \in Server, pc[p] \notin {"dialAll", "dialOne"}
  PROVE  hand[p][n].c = NoConn /\ hand[p][n].st = "none"
BY DEF Connections, HandsInOrder, HandInOrder

LEMMA BeginConnections ==
  ASSUME McpTypeOK, Connections, NEW p \in Call, NEW o \in Op, NEW n \in Server, Begin(p, o, n)
  PROVE  Connections'
<1>1. /\ UNCHANGED <<conn, of, client, status, closing, closed>>
      /\ pc[p] = "idle" /\ (once = "fresh" /\ ~closed => pc'[p] = "dialAll")
      /\ \A q \in Call \ {p} : pc'[q] = pc[q] /\ on'[q] = on[q]
  BY Types DEF Begin, Goto, closeVars, connVars, mapVars
<1>2. \A m \in Server : hand[p][m].c = NoConn /\ hand[p][m].st = "none"
  BY <1>1, EmptyHand
<1>3. CASE hand' = hand
  BY <1>1, <1>3, QuietConnections
<1>4. CASE once = "fresh"
  <2>1. /\ \A m \in Server : hand'[p][m].c = NoConn
        /\ \A m \in Server : hand'[p][m].st = "none" \/ (hand'[p][m].st = "todo" /\ pc'[p] = "dialAll")
        /\ \A q \in Call \ {p} : hand'[q] = hand[q]
    <3>1. hand' = [hand EXCEPT ![p] = [m \in Server |->
                     Result(IF config[m].known /\ ~closed THEN "todo" ELSE "none")]]
      BY <1>4 DEF Begin
    <3>2. \A m \in Server : hand'[p][m] = Result(IF config[m].known /\ ~closed THEN "todo" ELSE "none")
      BY <3>1, Types
    <3>3. \A q \in Call \ {p} : hand'[q] = hand[q]
      BY <3>1, Types
    <3> QED
      BY <1>1, <1>4, <3>2, <3>3, ResultTypes DEF States, Dialling
  <2>2. NoneLost'
    BY <1>1, <1>2, <2>1, NoConnIsNone DEF Connections, NoneLost
  <2>3. StatusMatchesClient' /\ ClosedIsEmpty'
    BY <1>1 DEF Connections, StatusMatchesClient, ClosedIsEmpty
  <2>4. HandsInOrder'
    <3> SUFFICES ASSUME NEW q \in Call, NEW m \in Server PROVE HandInOrder(q, m)'
      BY DEF HandsInOrder
    <3>1. CASE q = p
      BY <2>1, <3>1 DEF HandInOrder
    <3>2. CASE q # p
      BY <1>1, <2>1, <3>2 DEF Connections, HandsInOrder, HandInOrder
    <3> QED
      BY <3>1, <3>2
  <2>5. HandsDiffer'
    <3> SUFFICES ASSUME NEW q \in Call, NEW r \in Call, NEW m \in Server, q # r, hand'[q][m].c # NoConn
                 PROVE  hand'[r][m].c # hand'[q][m].c
      BY DEF HandsDiffer
    <3>1. hand[q][m].c # NoConn => hand[r][m].c # hand[q][m].c
      BY DEF Connections, HandsDiffer
    <3> QED
      BY <2>1, <3>1
  <2> QED
    BY <2>2, <2>3, <2>4, <2>5 DEF Connections
<1> QED
  BY <1>3, <1>4 DEF Begin

LEMMA ConnectEachConnections ==
  ASSUME McpTypeOK, Connections, NEW p \in Call, NEW n \in Server, ConnectEach(p, n)
  PROVE  Connections'
<1>1. /\ pc[p] = "dialAll" /\ hand[p][n].c = NoConn
      /\ UNCHANGED <<client, status, closing, closed, on, pc>>
  <2>1. HandInOrder(p, n)
    BY DEF Connections, HandsInOrder
  <2> QED
    BY <2>1 DEF ConnectEach, HandInOrder, closeVars, mapVars
<1>2. CASE Holds(p, n, Result("disabled")) /\ UNCHANGED connVars
  <2>1. /\ Result("disabled") \in Dialled /\ Result("disabled").c = NoConn
        /\ Result("disabled").st = "disabled"
    BY ResultTypes DEF States
  <2>2. /\ conn' = [k \in Conn |-> IF k = Result("disabled").c THEN "open" ELSE conn[k]]
        /\ of' = [k \in Conn |-> IF k = Result("disabled").c THEN n ELSE of[k]]
    BY <1>2, <2>1, Types, NoConnIsNone DEF connVars
  <2> QED
    BY <1>1, <1>2, <2>1, <2>2, HandConnections
<1>3. CASE Dial(p, n, config[n])
  <2> PICK res \in DialResults(n, config[n]) :
        /\ Holds(p, n, res)
        /\ conn' = [k \in Conn |-> IF k = res.c THEN "open" ELSE conn[k]]
        /\ of' = [k \in Conn |-> IF k = res.c THEN n ELSE of[k]]
    BY <1>3 DEF Dial
  <2>1. /\ res \in Dialled /\ res.st \in {"failed", "needs_auth", "open", "hung"}
        /\ res.c # NoConn <=> res.st = "open"
        /\ res.c # NoConn => res.c \in Conn /\ conn[res.c] = "unused"
    BY DialOutcome
  <2> QED
    BY <1>1, <2>1, HandConnections
<1> QED
  BY <1>2, <1>3 DEF ConnectEach

LEMMA DiallingConnections ==
  ASSUME McpTypeOK, Connections, NEW p \in Call, NEW n \in Server,
         ListTools(p, n) \/ Watch(p, n) \/ CloseOwnHangs(p, n) \/ CloseOwn(p, n)
  PROVE  Connections'
<1>1. /\ UNCHANGED <<of, client, status, closing, closed, on, pc>>
      /\ hand[p][n] \in Dialled /\ hand[p][n].c # NoConn /\ hand[p][n].c \in Conn
  <2>1. HandInOrder(p, n)
    BY DEF Connections, HandsInOrder
  <2> QED
    BY <2>1, HandTypes DEF ListTools, Watch, CloseOwnHangs, CloseOwn, HandInOrder, closeVars,
       connVars, mapVars
<1>2. ASSUME NEW res \in Dialled, res.c = hand[p][n].c, res.st \in {"listed", "connected", "hung"},
             Holds(p, n, res), conn' = conn
      PROVE  Connections'
  BY <1>1, <1>2, RestateConnections
<1>3. ASSUME NEW res \in Dialled, res.c = NoConn, res.st \in {"none", "failed", "needs_auth"},
             Holds(p, n, res), ClosedConns({hand[p][n].c})
      PROVE  Connections'
  BY <1>1, <1>3, ReleaseConnections
<1>4. \A st \in {"listed", "connected", "hung"}, v \in Nat :
        /\ [hand[p][n] EXCEPT !.st = st] \in Dialled
        /\ [hand[p][n] EXCEPT !.st = st].c = hand[p][n].c /\ [hand[p][n] EXCEPT !.st = st].st = st
        /\ [hand[p][n] EXCEPT !.st = st, !.v = v] \in Dialled
        /\ [hand[p][n] EXCEPT !.st = st, !.v = v].c = hand[p][n].c
        /\ [hand[p][n] EXCEPT !.st = st, !.v = v].st = st
  BY <1>1 DEF Dialled, States, Dialling
<1>5. \A c, res : res \in Failures(c) \cup {Result("none")} =>
        res \in Dialled /\ res.c = NoConn /\ res.st \in {"none", "failed", "needs_auth"}
  BY ResultTypes DEF Failures, States
<1>6. CASE ListTools(p, n)
  <2>1. CASE /\ Holds(p, n, [hand[p][n] EXCEPT !.st = "listed", !.v = version[hand[p][n].c]])
             /\ UNCHANGED conn
    <3>1. version[hand[p][n].c] \in Nat
      BY <1>1, Types
    <3> QED
      BY <1>2, <1>4, <2>1, <3>1
  <2> QED
    BY <1>3, <1>5, <1>6, <2>1 DEF ListTools
<1>7. CASE Watch(p, n)
  <2>1. Holds(p, n, [hand[p][n] EXCEPT !.st = "connected"]) /\ conn' = conn
    BY <1>7 DEF Watch, connVars
  <2> QED
    BY <1>2, <1>4, <2>1
<1>8. CASE CloseOwnHangs(p, n)
  <2>1. Holds(p, n, [hand[p][n] EXCEPT !.st = "hung"]) /\ conn' = conn
    BY <1>8 DEF CloseOwnHangs, connVars
  <2> QED
    BY <1>2, <1>4, <2>1
<1>9. CASE CloseOwn(p, n)
  BY <1>3, <1>5, <1>9 DEF CloseOwn
<1> QED
  BY <1>6, <1>7, <1>8, <1>9

LEMMA ConnectPublishConnections ==
  ASSUME McpTypeOK, FirstConnect, Connections, NEW p \in Call, ConnectPublish(p)
  PROVE  Connections'
<1>1. /\ pc[p] = "dialAll" /\ hand' = [hand EXCEPT ![p] = Nothing]
      /\ \A q \in Call \ {p} : pc'[q] = pc[q]
      /\ UNCHANGED <<conn, of, closing, closed, on>>
  BY Types DEF ConnectPublish, Goto, closeVars, connVars
<1>2. CASE closed
  BY <1>1, <1>2, EmptiedConnections DEF ConnectPublish, mapVars
<1>3. CASE ~closed
  <2>1. \A n \in Server : status'[n] = hand[p][n].st /\ client'[n] = hand[p][n].c
    BY <1>3 DEF ConnectPublish, PublishAll
  <2>2. /\ \A m \in Server : hand'[p][m].c = NoConn /\ hand'[p][m].st = "none"
        /\ \A q \in Call \ {p} : hand'[q] = hand[q]
    BY <1>1, Types, NothingTypes
  <2>3. \A q \in Call \ {p}, m \in Server : hand[q][m].c = NoConn /\ hand[q][m].st = "none"
    <3>1. \A q \in Call \ {p} : pc[q] \in {"idle", "enter"}
      BY <1>1 DEF FirstConnect
    <3> QED
      BY <3>1, EmptyHand
  <2>4. \A n \in Server : client[n] = NoConn
    BY <1>1 DEF FirstConnect
  <2>5. closing = {}
    BY <1>3 DEF Connections, ClosedIsEmpty
  <2>6. NoneLost'
    <3> SUFFICES ASSUME NEW k \in Conn, conn[k] = "open" PROVE \E m \in Server : client'[m] = k
      BY <1>1 DEF NoneLost
    <3>1. PICK q \in Call, m \in Server : hand[q][m].c = k
      BY <2>4, <2>5, NoConnIsNone DEF Connections, NoneLost
    <3>2. q = p
      BY <2>3, <3>1, NoConnIsNone
    <3> QED
      BY <2>1, <3>1, <3>2
  <2>7. StatusMatchesClient'
    <3> SUFFICES ASSUME NEW m \in Server
                 PROVE  /\ hand[p][m].st = "connected" <=> hand[p][m].c # NoConn
                        /\ hand[p][m].c # NoConn => conn[hand[p][m].c] = "open" /\ of[hand[p][m].c] = m
      BY <1>1, <2>1 DEF StatusMatchesClient
    <3>1. HandInOrder(p, m) /\ hand[p][m].st \notin Dialling
      BY DEF Connections, HandsInOrder, ConnectPublish, Through
    <3> QED
      BY <3>1 DEF HandInOrder, Dialling
  <2>8. \A q \in Call, m \in Server : hand'[q][m].c = NoConn /\ hand'[q][m].st = "none"
    BY <2>2, <2>3
  <2>9. HandsInOrder' /\ HandsDiffer'
    BY <2>8 DEF HandsInOrder, HandInOrder, HandsDiffer
  <2>10. ClosedIsEmpty'
    BY <1>1, <1>3, <2>5 DEF ClosedIsEmpty
  <2> QED
    BY <2>6, <2>7, <2>9, <2>10 DEF Connections
<1> QED
  BY <1>2, <1>3

LEMMA ConnectOneConnections ==
  ASSUME McpTypeOK, Connections, NEW p \in Call, ConnectOne(p)
  PROVE  Connections'
<1>1. /\ pc[p] = "dial" /\ on[p] \in Server
      /\ \A q \in Call \ {p} : pc'[q] = pc[q]
      /\ UNCHANGED <<closing, closed, on>>
  BY Types DEF ConnectOne, Goto, closeVars
<1>2. \A m \in Server : hand[p][m].c = NoConn /\ hand[p][m].st = "none"
  BY <1>1, EmptyHand
<1>3. CASE UNCHANGED <<mapVars, hand, connVars>>
  BY <1>1, <1>3, QuietConnections DEF mapVars, connVars
<1>4. CASE Replace(on[p], Result("disabled")) /\ UNCHANGED <<hand, of>>
  <2>1. /\ Result("disabled") \in Dialled /\ Result("disabled").c = NoConn
        /\ Result("disabled").st = "disabled"
    BY ResultTypes DEF States
  <2> QED
    BY <1>1, <1>2, <1>4, <2>1, ReplaceConnections
<1>5. CASE Goto(p, "dialOne") /\ Dial(p, on[p], cfg[p]) /\ UNCHANGED mapVars
  <2> PICK res \in DialResults(on[p], cfg[p]) :
        /\ Holds(p, on[p], res)
        /\ conn' = [k \in Conn |-> IF k = res.c THEN "open" ELSE conn[k]]
        /\ of' = [k \in Conn |-> IF k = res.c THEN on[p] ELSE of[k]]
    BY <1>5 DEF Dial
  <2>1. pc'[p] = "dialOne" /\ UNCHANGED <<client, status>>
    BY <1>5, Types DEF Goto, mapVars
  <2>2. /\ res \in Dialled /\ res.st \in {"failed", "needs_auth", "open", "hung"}
        /\ res.c # NoConn <=> res.st = "open"
        /\ res.c # NoConn => res.c \in Conn /\ conn[res.c] = "unused"
    BY <1>1, DialOutcome
  <2> QED
    BY <1>1, <1>2, <1>5, <2>1, <2>2, HandConnections
<1> QED
  BY <1>3, <1>4, <1>5 DEF ConnectOne

LEMMA PublishConnections ==
  ASSUME McpTypeOK, Connections, NEW p \in Call, Publish(p)
  PROVE  Connections'
<1>1. /\ pc[p] = "dialOne" /\ on[p] \in Server /\ hand' = [hand EXCEPT ![p] = Nothing]
      /\ \A q \in Call \ {p} : pc'[q] = pc[q]
      /\ UNCHANGED <<of, closing, closed, on>>
  BY Types DEF Publish, Goto, closeVars
<1>2. CASE closed
  BY <1>1, <1>2, EmptiedConnections DEF Publish, mapVars
<1>3. CASE ~closed
  <2> DEFINE res == hand[p][on[p]]
  <2>1. Replace(on[p], res)
    BY <1>3 DEF Publish
  <2>2. res \in Dialled
    BY <1>1, HandTypes
  <2>3. /\ res.c # NoConn <=> res.st = "connected"
        /\ res.c # NoConn => /\ conn[res.c] = "open" /\ of[res.c] = on[p]
                              /\ res.c # client[on[p]] /\ res.c \notin closing
    <3>1. HandInOrder(p, on[p]) /\ hand[p][on[p]].st \notin Dialling
      BY <1>1 DEF Connections, HandsInOrder, Publish, Through
    <3> QED
      BY <3>1 DEF HandInOrder, Dialling
  <2>4. \A m \in Server : /\ hand'[p][m].c = NoConn /\ hand'[p][m].st = "none"
                          /\ hand[p][m].c # NoConn => hand[p][m].c = res.c
    <3>1. hand'[p] = Nothing
      BY <1>1, Types
    <3>2. \A m \in Server : hand[p][m].c # NoConn => m = on[p]
      BY <1>1 DEF Connections, HandsInOrder, HandInOrder
    <3> QED
      BY <3>1, <3>2, NothingTypes
  <2>5. ASSUME NEW q \in Call \ {p}, NEW m \in Server
        PROVE  hand'[q][m] = hand[q][m] /\ (hand[q][m].c # NoConn => hand[q][m].c # res.c)
    <3>1. hand'[q] = hand[q]
      BY <1>1, Types
    <3> QED
      BY <1>1, <3>1, HandsApart
  <2> HIDE DEF res
  <2> QED
    BY <1>1, <1>3, <2>1, <2>2, <2>3, <2>4, <2>5, ReplaceConnections
<1> QED
  BY <1>2, <1>3

LEMMA DisconnectConnections ==
  ASSUME McpTypeOK, Connections, NEW p \in Call, Disconnect(p)
  PROVE  Connections'
<1>1. /\ pc[p] = "ready" /\ on[p] \in Server
      /\ \A q \in Call \ {p} : pc'[q] = pc[q]
      /\ UNCHANGED <<hand, of, closing, closed, on>>
  BY Types DEF Disconnect, Goto, closeVars
<1>2. \A m \in Server : hand[p][m].c = NoConn /\ hand[p][m].st = "none"
  BY <1>1, EmptyHand
<1>3. CASE UNCHANGED <<mapVars, conn>>
  BY <1>1, <1>3, QuietConnections DEF mapVars
<1>4. CASE Replace(on[p], Result("disabled"))
  <2>1. /\ Result("disabled") \in Dialled /\ Result("disabled").c = NoConn
        /\ Result("disabled").st = "disabled"
    BY ResultTypes DEF States
  <2> QED
    BY <1>1, <1>2, <1>4, <2>1, ReplaceConnections
<1> QED
  BY <1>3, <1>4 DEF Disconnect

LEMMA CloseConnections ==
  ASSUME McpTypeOK, Connections, Close
  PROVE  Connections'
<1>1. UNCHANGED <<hand, pc, on, of, conn, status>>
  BY DEF Close, callVars, connVars, mapVars
<1>2. /\ ~closed /\ closed'
      /\ \A n \in Server : client'[n] = NoConn
      /\ closing' = {client[n] : n \in Server} \ {NoConn}
  BY DEF Close
<1>3. closing = {}
  BY <1>2 DEF Connections, ClosedIsEmpty
<1>4. NoneLost'
  <2> SUFFICES ASSUME NEW k \in Conn, conn[k] = "open"
               PROVE  (\E q \in Call, m \in Server : hand[q][m].c = k) \/ k \in closing'
    BY <1>1, <1>2 DEF NoneLost
  <2> QED
    BY <1>2, <1>3, NoConnIsNone DEF Connections, NoneLost
<1>5. StatusMatchesClient' /\ HandsDiffer'
  BY <1>1, <1>2 DEF Connections, StatusMatchesClient, HandsDiffer
<1>6. HandsInOrder'
  <2> SUFFICES ASSUME NEW q \in Call, NEW m \in Server PROVE HandInOrder(q, m)'
    BY DEF HandsInOrder
  <2>1. HandInOrder(q, m)
    BY DEF Connections, HandsInOrder
  <2>2. hand[q][m].c # NoConn => hand[q][m].c \notin closing' /\ hand[q][m].c # client'[m]
    BY <1>2, HandsApart
  <2> QED
    BY <1>1, <2>1, <2>2 DEF HandInOrder
<1>7. ClosedIsEmpty'
  <2>1. \A n \in Server : client[n] # NoConn => conn[client[n]] = "open"
    BY <1>2 DEF Connections, StatusMatchesClient
  <2> QED
    BY <1>1, <1>2, <2>1 DEF ClosedIsEmpty
<1> QED
  BY <1>4, <1>5, <1>6, <1>7 DEF Connections

LEMMA CloseRestConnections ==
  ASSUME McpTypeOK, Connections, NEW k \in Conn, CloseRest(k)
  PROVE  Connections'
<1>1. UNCHANGED <<hand, pc, on, of, status, client, closed>> /\ k \in closing /\ closing \subseteq Conn
  BY Types DEF CloseRest, callVars, mapVars
<1>2. CASE UNCHANGED <<closing, conn>>
  BY <1>1, <1>2, QuietConnections
<1>3. CASE closing' = closing \ {k} /\ ClosedConns({k})
  <2>1. \A j \in Conn : conn'[j] = IF j = k THEN "closed" ELSE conn[j]
    BY <1>3 DEF ClosedConns
  <2>2. closed /\ \A n \in Server : client[n] = NoConn
    BY <1>1 DEF Connections, ClosedIsEmpty
  <2>3. NoneLost'
    <3> SUFFICES ASSUME NEW j \in Conn, conn'[j] = "open"
                 PROVE  (\E q \in Call, m \in Server : hand[q][m].c = j) \/ j \in closing'
      BY <1>1 DEF NoneLost
    <3>1. conn[j] = "open" /\ j # k
      BY <2>1
    <3> QED
      BY <1>3, <2>2, <3>1, NoConnIsNone DEF Connections, NoneLost
  <2>4. StatusMatchesClient' /\ HandsDiffer'
    BY <1>1, <2>2 DEF Connections, StatusMatchesClient, HandsDiffer
  <2>5. ClosedIsEmpty'
    BY <1>1, <1>3, <2>1, <2>2 DEF Connections, ClosedIsEmpty
  <2>6. HandsInOrder'
    <3> SUFFICES ASSUME NEW q \in Call, NEW m \in Server PROVE HandInOrder(q, m)'
      BY DEF HandsInOrder
    <3>1. HandInOrder(q, m)
      BY DEF Connections, HandsInOrder
    <3>2. hand[q][m].c # NoConn => hand[q][m].c \notin closing' /\ conn'[hand[q][m].c] = "open"
      BY <1>1, <1>3, <2>1, HandsApart
    <3> QED
      BY <1>1, <3>1, <3>2 DEF HandInOrder
  <2> QED
    BY <2>3, <2>4, <2>5, <2>6 DEF Connections
<1> QED
  BY <1>2, <1>3 DEF CloseRest

(* The steps that leave every connection where it is. *)
Elsewhere ==
  \/ \E n \in Server : RemoveAuth(n)
  \/ \E p \in Call : CloseLockedHangs(p)
  \/ \E k \in Conn : ToolsChange(k)
  \/ \E r \in refresh : Unheard(r) \/ ListAgain(r) \/ RefreshTools(r)

(* Every step keeps track of the connections. *)
LEMMA StepConnections ==
  ASSUME McpTypeOK, FirstConnect, Connections, [McpNext]_mcpVars
  PROVE  Connections'
<1>1. ASSUME NEW p \in Call, Quiet(p) PROVE Connections'
  <2>1. UNCHANGED <<hand, conn, of, client, status, closing, closed, on>>
    BY <1>1 DEF Quiet, OnceDone, Read, Add, Connect, StartAuth, KeepFlow, FinishAuth, Exchange,
       closeVars, connVars, mapVars
  <2>2. pc[p] \notin {"dialAll", "dialOne"} /\ \A q \in Call \ {p} : pc'[q] = pc[q]
    BY <1>1, Types DEF Quiet, OnceDone, Read, Add, Connect, StartAuth, KeepFlow, FinishAuth, Exchange, Goto
  <2> QED
    BY <2>1, <2>2, QuietConnections
<1>2. CASE Elsewhere \/ UNCHANGED mcpVars
  <2>1. UNCHANGED <<hand, conn, of, client, status, closing, closed, on, pc>>
    BY <1>2 DEF Elsewhere, RemoveAuth, CloseLockedHangs, ToolsChange, Unheard, ListAgain, RefreshTools,
       mcpVars, callVars, closeVars, connVars, mapVars
  <2> QED
    BY <2>1, QuietConnections
<1> QED
  BY <1>1, <1>2, BeginConnections, ConnectEachConnections, DiallingConnections,
     ConnectPublishConnections, ConnectOneConnections, PublishConnections, DisconnectConnections,
     CloseConnections, CloseRestConnections
     DEF McpNext, Step, Dials, Quiet, Elsewhere

-----------------------------------------------------------------------------
(* The first connect comes before everything else. *)
LEMMA StepFirst ==
  ASSUME McpTypeOK, FirstConnect, [McpNext]_mcpVars
  PROVE  FirstConnect'
<1>1. pc \in [Call -> Place] /\ once \in {"fresh", "running", "done"}
  BY Types
<1>2. ASSUME NEW p \in Call, NEW o \in Op, NEW n \in Server, Begin(p, o, n) PROVE FirstConnect'
  BY <1>1, <1>2 DEF Begin, Goto, FirstConnect, closeVars, mapVars
<1>3. ASSUME NEW p \in Call, Quiet(p) PROVE FirstConnect'
  BY <1>1, <1>3 DEF Quiet, OnceDone, Read, Add, Connect, StartAuth, KeepFlow, FinishAuth, Exchange,
     Goto, FirstConnect, closeVars, mapVars
<1>4. ASSUME NEW p \in Call, NEW n \in Server,
             ConnectEach(p, n) \/ ListTools(p, n) \/ Watch(p, n) \/ CloseOwnHangs(p, n) \/ CloseOwn(p, n)
      PROVE  FirstConnect'
  <2>1. UNCHANGED <<pc, once, client, maps, closed>>
    BY <1>4 DEF ConnectEach, ListTools, Watch, CloseOwnHangs, CloseOwn, closeVars, mapVars
  <2> QED
    BY <2>1 DEF FirstConnect
<1>5. ASSUME NEW p \in Call, ConnectPublish(p) PROVE FirstConnect'
  <2>1. /\ once' = "done" /\ (maps' \/ closed') /\ pc' = [pc EXCEPT ![p] = "ready"]
        /\ pc[p] = "dialAll"
    BY <1>5 DEF ConnectPublish, PublishAll, Goto, closeVars
  <2> QED
    BY <1>1, <2>1 DEF FirstConnect
<1>6. ASSUME NEW p \in Call, ConnectOne(p) \/ Publish(p) \/ Disconnect(p) PROVE FirstConnect'
  <2>1. /\ once' = once /\ closed' = closed /\ pc[p] \in {"dial", "dialOne", "ready"}
        /\ maps => maps'
        /\ \E w \in {"done", "dialOne", "panicked"} : pc' = [pc EXCEPT ![p] = w]
    BY <1>6 DEF ConnectOne, Publish, Disconnect, Goto, Replace, closeVars, mapVars
  <2>2. once = "done"
    BY <1>1, <2>1 DEF FirstConnect
  <2> QED
    BY <1>1, <2>1, <2>2 DEF FirstConnect
<1>7. CASE Close
  <2>1. \A n \in Server : client'[n] = NoConn
    BY <1>7 DEF Close
  <2> QED
    BY <1>7, <2>1 DEF Close, FirstConnect, callVars
<1>8. CASE Elsewhere \/ (\E k \in Conn : CloseRest(k)) \/ UNCHANGED mcpVars
  <2>1. UNCHANGED <<pc, once, client, maps, closed>>
    BY <1>8 DEF Elsewhere, RemoveAuth, CloseLockedHangs, ToolsChange, Unheard, ListAgain, RefreshTools,
       CloseRest, mcpVars, callVars, closeVars, mapVars
  <2> QED
    BY <2>1 DEF FirstConnect
<1> QED
  BY <1>2, <1>3, <1>4, <1>5, <1>6, <1>7, <1>8 DEF McpNext, Step, Dials, Quiet, Elsewhere

(* A panic needs a manager without maps, which only Close leaves. *)
LEMMA StepPanics ==
  ASSUME McpTypeOK, FirstConnect, PanicsOnlyWhenClosed, [McpNext]_mcpVars
  PROVE  PanicsOnlyWhenClosed'
<1>1. pc \in [Call -> Place] /\ once \in {"fresh", "running", "done"}
  BY Types
<1> DEFINE Calm == /\ closed => closed'
                   /\ \A q \in Call : pc'[q] = "panicked" => pc[q] = "panicked"
<1>2. ASSUME Calm PROVE PanicsOnlyWhenClosed'
  BY <1>2 DEF PanicsOnlyWhenClosed
<1>3. ASSUME NEW p \in Call, NEW w, w # "panicked", Goto(p, w), closed' = closed PROVE Calm
  BY <1>1, <1>3 DEF Goto
<1>4. ASSUME NEW p \in Call, NEW o \in Op, NEW n \in Server, Begin(p, o, n) PROVE Calm
  <2>1. closed' = closed /\ \E w \in {"ready", "dialAll", "enter"} : Goto(p, w)
    BY <1>4 DEF Begin, closeVars
  <2> QED
    BY <1>3, <2>1
<1>5. ASSUME NEW p \in Call, Quiet(p) PROVE Calm
  <2>1. closed' = closed
    BY <1>5 DEF Quiet, OnceDone, Read, Add, Connect, StartAuth, KeepFlow, FinishAuth, Exchange, closeVars
  <2>2. \E w \in {"ready", "done", "dial", "started", "exchange"} : Goto(p, w)
    BY <1>5 DEF Quiet, OnceDone, Read, Add, Connect, StartAuth, KeepFlow, FinishAuth, Exchange
  <2> QED
    BY <1>3, <2>1, <2>2
<1>6. ASSUME NEW p \in Call, NEW n \in Server,
             ConnectEach(p, n) \/ ListTools(p, n) \/ Watch(p, n) \/ CloseOwnHangs(p, n) \/ CloseOwn(p, n)
      PROVE  Calm
  BY <1>6 DEF ConnectEach, ListTools, Watch, CloseOwnHangs, CloseOwn, closeVars
<1>7. ASSUME NEW p \in Call, ConnectPublish(p) \/ ConnectOne(p) \/ Publish(p) PROVE Calm
  <2>1. closed' = closed /\ \E w \in {"ready", "done", "dialOne"} : Goto(p, w)
    BY <1>7 DEF ConnectPublish, ConnectOne, Publish, closeVars
  <2> QED
    BY <1>3, <2>1
<1>8. ASSUME Elsewhere \/ Close \/ (\E k \in Conn : CloseRest(k)) \/ UNCHANGED mcpVars
      PROVE  Calm
  <2>1. ASSUME Close \/ UNCHANGED mcpVars PROVE Calm
    BY <2>1 DEF Close, mcpVars, callVars, closeVars
  <2>2. CASE Elsewhere
    <3>1. ASSUME NEW r \in refresh, Unheard(r) \/ ListAgain(r) \/ RefreshTools(r)
          PROVE  pc' = pc /\ closed' = closed
      BY <3>1 DEF Unheard, ListAgain, RefreshTools, callVars, closeVars
    <3>2. ASSUME NEW k \in Conn, ToolsChange(k) PROVE pc' = pc /\ closed' = closed
      BY <3>2 DEF ToolsChange, callVars, closeVars
    <3>3. ASSUME NEW p \in Call, CloseLockedHangs(p) PROVE pc' = pc /\ closed' = closed
      BY <3>3 DEF CloseLockedHangs, callVars
    <3>4. ASSUME NEW n \in Server, RemoveAuth(n) PROVE pc' = pc /\ closed' = closed
      BY <3>4 DEF RemoveAuth, callVars, closeVars
    <3>5. pc' = pc /\ closed' = closed
      BY <2>2, <3>1, <3>2, <3>3, <3>4 DEF Elsewhere
    <3> QED
      BY <3>5
  <2>3. CASE \E k \in Conn : CloseRest(k)
    <3>1. pc' = pc /\ closed' = closed
      BY <2>3 DEF CloseRest, callVars
    <3> QED
      BY <3>1
  <2> QED
    BY <1>8, <2>1, <2>2, <2>3
<1>9. ASSUME NEW p \in Call, Disconnect(p) PROVE PanicsOnlyWhenClosed'
  <2>1. once = "done" /\ closed' = closed
    BY <1>1, <1>9 DEF Disconnect, FirstConnect, closeVars
  <2>2. pc' = [pc EXCEPT ![p] = "done"] \/ (~maps /\ pc' = [pc EXCEPT ![p] = "panicked"])
    BY <1>9 DEF Disconnect, Goto
  <2> QED
    BY <1>1, <2>1, <2>2 DEF FirstConnect, PanicsOnlyWhenClosed
<1> HIDE DEF Calm
<1> QED
  BY <1>2, <1>4, <1>5, <1>6, <1>7, <1>8, <1>9 DEF McpNext, Step, Dials, Quiet, Elsewhere

-----------------------------------------------------------------------------
(* The tools offered are those of the connection that is published, and what
   they miss is accounted for. *)
LEMMA StayingTools ==
  ASSUME McpTypeOK, Tools, UNCHANGED <<version, refresh, missed>>, closed => closed',
         closed' \/ UNCHANGED <<client, tools>>,
         \A p \in Call, n \in Server : hand'[p][n].c # NoConn /\ hand'[p][n].st \in {"listed", "connected"} =>
           \/ hand'[p][n].v = version[hand'[p][n].c]
           \/ /\ hand[p][n].c = hand'[p][n].c /\ hand[p][n].st \in {"listed", "connected"}
              /\ hand[p][n].v = hand'[p][n].v
  PROVE  Tools'
<1>1. ToolsOfClient' /\ ListsInOrder'
  BY DEF Tools, ToolsOfClient, ListsInOrder
<1>2. VersionsFollow'
  <2> SUFFICES ASSUME NEW k \in Conn, version[k] # 0, ~Unrefreshed(k)
               PROVE  /\ \A p \in Call, n \in Server :
                           hand'[p][n].c = k /\ hand'[p][n].st \in {"listed", "connected"}
                             => hand'[p][n].v = version[k]
                      /\ \A n \in Server : client'[n] = k => closed' \/ tools'[n].version = version[k]
    BY DEF VersionsFollow, Unrefreshed
  <2>1. /\ \A p \in Call, n \in Server :
             hand[p][n].c = k /\ hand[p][n].st \in {"listed", "connected"} => hand[p][n].v = version[k]
        /\ \A n \in Server : client[n] = k => closed \/ tools[n].version = version[k]
    BY DEF Tools, VersionsFollow
  <2>2. k # NoConn
    BY NoConnIsNone
  <2>3. ASSUME NEW p \in Call, NEW n \in Server, hand'[p][n].c = k,
               hand'[p][n].st \in {"listed", "connected"}
        PROVE  hand'[p][n].v = version[k]
    BY <2>1, <2>2, <2>3
  <2>4. \A n \in Server : client'[n] = k => closed' \/ tools'[n].version = version[k]
    BY <2>1
  <2> QED
    BY <2>3, <2>4
<1> QED
  BY <1>1, <1>2 DEF Tools

(* A hand that only loses what it holds. *)
OnlyLoses == \A p \in Call, n \in Server : hand'[p][n] = hand[p][n] \/ hand'[p][n].c = NoConn

LEMMA HandEmptied ==
  ASSUME McpTypeOK, NEW p \in Call, hand' = [hand EXCEPT ![p] = Nothing]
  PROVE  OnlyLoses
BY Types, NothingTypes DEF OnlyLoses

LEMMA HoldsTools ==
  ASSUME McpTypeOK, Tools, NEW p \in Call, NEW n \in Server, NEW res \in Dialled, Holds(p, n, res),
         \/ res.c = NoConn \/ res.st \in {"open", "hung"} \/ res.v = version[res.c]
         \/ res.c = hand[p][n].c /\ hand[p][n].st = "listed" /\ res.v = hand[p][n].v,
         UNCHANGED <<version, refresh, missed, closed, client, tools>>
  PROVE  Tools'
<1>1. /\ hand'[p][n] = res
      /\ \A q \in Call, m \in Server : (q # p \/ m # n) => hand'[q][m] = hand[q][m]
  BY HoldsTypes
<1>2. ASSUME NEW q \in Call, NEW m \in Server, hand'[q][m].c # NoConn,
             hand'[q][m].st \in {"listed", "connected"}
      PROVE  \/ hand'[q][m].v = version[hand'[q][m].c]
             \/ /\ hand[q][m].c = hand'[q][m].c /\ hand[q][m].st \in {"listed", "connected"}
                /\ hand[q][m].v = hand'[q][m].v
  BY <1>1, <1>2
<1> QED
  BY <1>2, StayingTools

(* What is published was in hand, so that no change of its tools went unnoticed. *)
LEMMA ReplaceTools ==
  ASSUME McpTypeOK, Tools, NEW n \in Server, NEW res \in Dialled, Replace(n, res), OnlyLoses,
         res.c # NoConn => \E p \in Call, m \in Server : hand[p][m] = res /\ res.st = "connected",
         UNCHANGED <<version, refresh, missed, closed>>
  PROVE  Tools'
<1>1. /\ client'[n] = res.c /\ tools'[n] = [by |-> res.c, version |-> res.v]
      /\ \A m \in Server \ {n} : client'[m] = client[m] /\ tools'[m] = tools[m]
  BY Types DEF Replace
<1>2. ToolsOfClient' /\ ListsInOrder'
  BY <1>1 DEF Tools, ToolsOfClient, ListsInOrder
<1>3. VersionsFollow'
  <2> SUFFICES ASSUME NEW k \in Conn, version[k] # 0, ~Unrefreshed(k)
               PROVE  /\ \A p \in Call, m \in Server :
                           hand'[p][m].c = k /\ hand'[p][m].st \in {"listed", "connected"}
                             => hand'[p][m].v = version[k]
                      /\ \A m \in Server : client'[m] = k => closed' \/ tools'[m].version = version[k]
    BY DEF VersionsFollow, Unrefreshed
  <2>1. /\ \A p \in Call, m \in Server :
             hand[p][m].c = k /\ hand[p][m].st \in {"listed", "connected"} => hand[p][m].v = version[k]
        /\ \A m \in Server : client[m] = k => closed \/ tools[m].version = version[k]
    BY DEF Tools, VersionsFollow
  <2>2. k # NoConn
    BY NoConnIsNone
  <2>3. \A p \in Call, m \in Server :
          hand'[p][m].c = k /\ hand'[p][m].st \in {"listed", "connected"} => hand'[p][m].v = version[k]
    BY <2>1, <2>2 DEF OnlyLoses
  <2>4. ASSUME NEW m \in Server, client'[m] = k PROVE closed' \/ tools'[m].version = version[k]
    <3>1. CASE m = n
      <4>1. res.c = k /\ tools'[m].version = res.v
        BY <1>1, <2>4, <3>1
      <4> QED
        BY <2>1, <2>2, <4>1
    <3>2. CASE m # n
      BY <1>1, <2>1, <2>4, <3>2
    <3> QED
      BY <3>1, <3>2
  <2> QED
    BY <2>3, <2>4
<1> QED
  BY <1>2, <1>3 DEF Tools

LEMMA ConnectPublishTools ==
  ASSUME McpTypeOK, Connections, Tools, NEW p \in Call, ConnectPublish(p)
  PROVE  Tools'
<1>1. UNCHANGED <<version, refresh, missed, closed>> /\ OnlyLoses
  BY HandEmptied DEF ConnectPublish, watchVars, closeVars
<1>2. CASE closed
  BY <1>1, <1>2, StayingTools DEF ConnectPublish, mapVars, OnlyLoses
<1>3. CASE ~closed
  <2>1. PublishAll(p)
    BY <1>3 DEF ConnectPublish
  <2>2. ASSUME NEW n \in Server
        PROVE  /\ client'[n] = hand[p][n].c /\ tools'[n].by = client'[n]
               /\ tools'[n].version = hand[p][n].v
    <3>1. client'[n] = hand[p][n].c /\ tools'[n] = [by |-> hand[p][n].c, version |-> hand[p][n].v]
      BY <2>1 DEF PublishAll
    <3> QED
      BY <3>1
  <2>3. ToolsOfClient' /\ ListsInOrder'
    BY <1>1, <2>2 DEF Tools, ToolsOfClient, ListsInOrder
  <2>4. VersionsFollow'
    <3> SUFFICES ASSUME NEW k \in Conn, version[k] # 0, ~Unrefreshed(k)
                 PROVE  /\ \A q \in Call, m \in Server :
                             hand'[q][m].c = k /\ hand'[q][m].st \in {"listed", "connected"}
                               => hand'[q][m].v = version[k]
                        /\ \A m \in Server : client'[m] = k => closed' \/ tools'[m].version = version[k]
      BY <1>1 DEF VersionsFollow, Unrefreshed
    <3>1. \A q \in Call, m \in Server :
            hand[q][m].c = k /\ hand[q][m].st \in {"listed", "connected"} => hand[q][m].v = version[k]
      BY DEF Tools, VersionsFollow
    <3>2. k # NoConn
      BY NoConnIsNone
    <3>3. \A q \in Call, m \in Server :
            hand'[q][m].c = k /\ hand'[q][m].st \in {"listed", "connected"} => hand'[q][m].v = version[k]
      BY <1>1, <3>1, <3>2 DEF OnlyLoses
    <3>4. ASSUME NEW m \in Server, client'[m] = k PROVE tools'[m].version = version[k]
      <4>1. hand[p][m].c = k /\ hand[p][m].st \notin Dialling
        BY <2>2, <3>4 DEF ConnectPublish, Through
      <4>2. hand[p][m].st = "connected"
        BY <3>2, <4>1 DEF Connections, HandsInOrder, HandInOrder, Dialling
      <4> QED
        BY <2>2, <3>1, <4>1, <4>2
    <3> QED
      BY <3>3, <3>4
  <2> QED
    BY <2>3, <2>4 DEF Tools
<1> QED
  BY <1>2, <1>3

LEMMA PublishTools ==
  ASSUME McpTypeOK, Connections, Tools, NEW p \in Call, ConnectOne(p) \/ Publish(p) \/ Disconnect(p)
  PROVE  Tools'
<1>1. UNCHANGED <<version, refresh, missed, closed>> /\ on[p] \in Server
  BY Types DEF ConnectOne, Publish, Disconnect, watchVars, closeVars
<1>2. CASE UNCHANGED <<mapVars, hand>>
  BY <1>1, <1>2, StayingTools DEF mapVars
<1>3. CASE Replace(on[p], Result("disabled")) /\ UNCHANGED hand
  <2>1. Result("disabled") \in Dialled /\ Result("disabled").c = NoConn
    BY ResultTypes DEF States
  <2>2. OnlyLoses
    BY <1>3 DEF OnlyLoses
  <2> QED
    BY <1>1, <1>3, <2>1, <2>2, ReplaceTools
<1>4. CASE Dial(p, on[p], cfg[p]) /\ UNCHANGED mapVars
  <2>1. PICK res \in DialResults(on[p], cfg[p]) : Holds(p, on[p], res)
    BY <1>4 DEF Dial
  <2>2. res \in Dialled /\ (res.c = NoConn \/ res.st = "open")
    BY <1>1, DialOutcome
  <2> QED
    BY <1>1, <1>4, <2>1, <2>2, HoldsTools DEF mapVars
<1>5. CASE Publish(p)
  <2>1. OnlyLoses
    BY <1>5, HandEmptied DEF Publish
  <2>2. CASE closed
    BY <1>1, <1>5, <2>1, <2>2, StayingTools DEF Publish, mapVars, OnlyLoses
  <2>3. CASE ~closed
    <3>1. Replace(on[p], hand[p][on[p]]) /\ hand[p][on[p]] \in Dialled
      BY <1>1, <1>5, <2>3, HandTypes DEF Publish
    <3>2. hand[p][on[p]].c # NoConn => hand[p][on[p]].st = "connected"
      BY <1>1, <1>5 DEF Publish, Through, Connections, HandsInOrder, HandInOrder, Dialling
    <3> QED
      BY <1>1, <2>1, <3>1, <3>2, ReplaceTools
  <2> QED
    BY <2>2, <2>3
<1> QED
  BY <1>2, <1>3, <1>4, <1>5 DEF ConnectOne, Disconnect

LEMMA DiallingTools ==
  ASSUME McpTypeOK, Connections, Tools, NEW p \in Call, NEW n \in Server,
         ConnectEach(p, n) \/ ListTools(p, n) \/ Watch(p, n) \/ CloseOwnHangs(p, n) \/ CloseOwn(p, n)
  PROVE  Tools'
<1>1. UNCHANGED <<version, refresh, missed, closed, client, tools>>
  BY DEF ConnectEach, ListTools, Watch, CloseOwnHangs, CloseOwn, watchVars, closeVars, mapVars
<1>2. hand[p][n] \in Dialled /\ HandInOrder(p, n) /\ version \in [Conn -> Nat]
  BY HandTypes, Types DEF Connections, HandsInOrder
<1>3. \A st \in {"listed", "connected", "hung"}, v \in Nat :
        /\ [hand[p][n] EXCEPT !.st = st] \in Dialled
        /\ [hand[p][n] EXCEPT !.st = st].c = hand[p][n].c /\ [hand[p][n] EXCEPT !.st = st].st = st
        /\ [hand[p][n] EXCEPT !.st = st].v = hand[p][n].v
        /\ [hand[p][n] EXCEPT !.st = st, !.v = v] \in Dialled
        /\ [hand[p][n] EXCEPT !.st = st, !.v = v].c = hand[p][n].c
        /\ [hand[p][n] EXCEPT !.st = st, !.v = v].v = v
  BY <1>2 DEF Dialled, States, Dialling
<1>4. \A c, res : res \in Failures(c) \cup {Result("none"), Result("disabled")} =>
        res \in Dialled /\ res.c = NoConn
  BY ResultTypes DEF Failures, States
<1>5. ASSUME NEW res \in Dialled, Holds(p, n, res), res.c = NoConn PROVE Tools'
  BY <1>1, <1>5, HoldsTools
<1>6. CASE ConnectEach(p, n)
  <2>1. CASE Dial(p, n, config[n])
    <3>1. PICK res \in DialResults(n, config[n]) : Holds(p, n, res)
      BY <2>1 DEF Dial
    <3>2. res \in Dialled /\ (res.c = NoConn \/ res.st = "open")
      BY DialOutcome
    <3> QED
      BY <1>1, <3>1, <3>2, HoldsTools
  <2> QED
    BY <1>4, <1>5, <1>6, <2>1 DEF ConnectEach
<1>7. CASE ListTools(p, n)
  <2>1. CASE Holds(p, n, [hand[p][n] EXCEPT !.st = "listed", !.v = version[hand[p][n].c]])
    <3>1. version[hand[p][n].c] \in Nat
      BY <1>2, <1>7, HandTypes DEF ListTools, HandInOrder
    <3>2. PICK v \in Nat : v = version[hand[p][n].c]
      BY <3>1
    <3>3. PICK res \in Dialled : /\ res = [hand[p][n] EXCEPT !.st = "listed", !.v = v]
                                 /\ res.c = hand[p][n].c /\ res.v = v
      BY <1>3
    <3>4. Holds(p, n, res) /\ res.v = version[res.c]
      BY <2>1, <3>2, <3>3
    <3> QED
      BY <1>1, <3>4, HoldsTools
  <2> QED
    BY <1>4, <1>5, <1>7, <2>1 DEF ListTools
<1>8. CASE Watch(p, n)
  <2>1. Holds(p, n, [hand[p][n] EXCEPT !.st = "connected"]) /\ hand[p][n].st = "listed"
    BY <1>8 DEF Watch
  <2>2. /\ [hand[p][n] EXCEPT !.st = "connected"] \in Dialled
        /\ [hand[p][n] EXCEPT !.st = "connected"].c = hand[p][n].c
        /\ [hand[p][n] EXCEPT !.st = "connected"].v = hand[p][n].v
    BY <1>2, <1>3
  <2> QED
    BY <1>1, <2>1, <2>2, HoldsTools
<1>9. CASE CloseOwnHangs(p, n)
  <2>1. Holds(p, n, [hand[p][n] EXCEPT !.st = "hung"])
    BY <1>9 DEF CloseOwnHangs
  <2>2. /\ [hand[p][n] EXCEPT !.st = "hung"] \in Dialled
        /\ [hand[p][n] EXCEPT !.st = "hung"].st = "hung"
    BY <1>2, <1>3
  <2> QED
    BY <1>1, <2>1, <2>2, HoldsTools
<1>10. CASE CloseOwn(p, n)
  BY <1>4, <1>5, <1>10 DEF CloseOwn
<1> QED
  BY <1>6, <1>7, <1>8, <1>9, <1>10

(* A change of the tools, and what becomes of its notification. *)
LEMMA StillUnrefreshed ==
  ASSUME NEW j \in Conn, Unrefreshed(j), version'[j] = version[j], missed \subseteq missed',
         \A r \in refresh : r.by = j /\ r.change = version[j] =>
           \/ \E s \in refresh' : s.by = r.by /\ s.change = r.change
           \/ <<r.by, r.change>> \in missed'
  PROVE  Unrefreshed(j)'
BY DEF Unrefreshed

LEMMA KeptUnrefreshed ==
  ASSUME Tools, UNCHANGED <<hand, version, closed, client, tools>>, ListsInOrder',
         \A j \in Conn : Unrefreshed(j) => Unrefreshed(j)'
  PROVE  Tools'
<1>1. ToolsOfClient'
  BY DEF Tools, ToolsOfClient
<1>2. VersionsFollow'
  BY DEF Tools, VersionsFollow
<1> QED
  BY <1>1, <1>2 DEF Tools

LEMMA ToolsChangeTools ==
  ASSUME McpTypeOK, Tools, NEW k \in Conn, ToolsChange(k)
  PROVE  Tools'
<1>1. UNCHANGED <<hand, closed, client, tools, missed>>
  BY DEF ToolsChange, callVars, closeVars, mapVars
<1>2. /\ version[k] \in Nat /\ version'[k] = version[k] + 1
      /\ \A j \in Conn \ {k} : version'[j] = version[j]
  BY Types DEF ToolsChange
<1>3. PICK c : /\ refresh' = refresh \cup {c}
               /\ c.by = k /\ c.change = version[k] + 1 /\ c.seen = 0
  <2> DEFINE c == [by |-> k, change |-> version[k] + 1, seen |-> 0]
  <2>1. refresh' = refresh \cup {c} /\ c.by = k /\ c.change = version[k] + 1 /\ c.seen = 0
    BY DEF ToolsChange
  <2> QED
    BY <2>1
<1>4. ToolsOfClient'
  BY <1>1 DEF Tools, ToolsOfClient
<1>5. ListsInOrder'
  <2> SUFFICES ASSUME NEW r \in refresh'
               PROVE  /\ r.change <= version'[r.by] /\ r.seen <= version'[r.by]
                      /\ r.seen # 0 => r.change <= r.seen
    BY DEF ListsInOrder
  <2>1. CASE r \in refresh
    <3>1. /\ r.by \in Conn /\ r.change \in Nat /\ r.seen \in Nat /\ version[r.by] \in Nat
          /\ version'[r.by] \in {version[r.by], version[r.by] + 1}
      BY <1>2, <2>1, Types DEF Change
    <3>2. r.change <= version[r.by] /\ r.seen <= version[r.by] /\ (r.seen # 0 => r.change <= r.seen)
      BY <2>1 DEF Tools, ListsInOrder
    <3> QED
      BY <3>1, <3>2
  <2>2. CASE r = c
    BY <1>2, <1>3, <2>2
  <2> QED
    BY <1>3, <2>1, <2>2
<1>6. VersionsFollow'
  <2> SUFFICES ASSUME NEW j \in Conn, version'[j] # 0, ~Unrefreshed(j)'
               PROVE  /\ \A p \in Call, n \in Server :
                           hand[p][n].c = j /\ hand[p][n].st \in {"listed", "connected"}
                             => hand[p][n].v = version'[j]
                      /\ \A n \in Server : client[n] = j => closed \/ tools[n].version = version'[j]
    BY <1>1 DEF VersionsFollow
  <2>1. j # k
    BY <1>2, <1>3 DEF Unrefreshed
  <2>2. version'[j] = version[j] /\ ~Unrefreshed(j)
    BY <1>1, <1>2, <1>3, <2>1 DEF Unrefreshed
  <2> QED
    BY <2>2 DEF Tools, VersionsFollow
<1> QED
  BY <1>4, <1>5, <1>6 DEF Tools

LEMMA NotifiedTools ==
  ASSUME McpTypeOK, Tools, NEW r \in refresh, Unheard(r) \/ ListAgain(r)
  PROVE  Tools'
<1>1. UNCHANGED <<hand, version, closed, client, tools>>
  BY DEF Unheard, ListAgain, callVars, closeVars, mapVars
<1>2. r \in Change /\ r.by \in Conn /\ version[r.by] \in Nat /\ r.change <= version[r.by]
  BY Types DEF Change, Tools, ListsInOrder
<1>3. CASE refresh' = refresh \ {r} /\ Misses(r)
  <2>1. ListsInOrder'
    BY <1>1, <1>3 DEF Tools, ListsInOrder
  <2>2. \A j \in Conn : Unrefreshed(j) => Unrefreshed(j)'
    BY <1>1, <1>3, StillUnrefreshed DEF Misses
  <2> QED
    BY <1>1, <2>1, <2>2, KeptUnrefreshed
<1>4. CASE refresh' = (refresh \ {r}) \cup {[r EXCEPT !.seen = version[r.by]]} /\ UNCHANGED missed
  <2>1. PICK s : /\ refresh' = (refresh \ {r}) \cup {s}
                 /\ s.by = r.by /\ s.change = r.change /\ s.seen = version[r.by]
    <3>1. /\ [r EXCEPT !.seen = version[r.by]].by = r.by
          /\ [r EXCEPT !.seen = version[r.by]].change = r.change
          /\ [r EXCEPT !.seen = version[r.by]].seen = version[r.by]
      BY <1>2 DEF Change
    <3> QED
      BY <1>4, <3>1
  <2>2. ListsInOrder'
    BY <1>1, <1>2, <2>1 DEF Tools, ListsInOrder
  <2>3. \A j \in Conn : Unrefreshed(j) => Unrefreshed(j)'
    BY <1>1, <1>4, <2>1, StillUnrefreshed
  <2> QED
    BY <1>1, <2>2, <2>3, KeptUnrefreshed
<1> QED
  BY <1>3, <1>4 DEF Unheard, ListAgain

(* An older list that comes late is accounted for by what it undoes. *)
LEMMA RefreshToolsTools ==
  ASSUME McpTypeOK, Connections, Tools, NEW r \in refresh, RefreshTools(r)
  PROVE  Tools'
<1>1. UNCHANGED <<hand, version, closed, client>> /\ refresh' = refresh \ {r}
  BY DEF RefreshTools, callVars, closeVars
<1>2. ListsInOrder'
  BY <1>1 DEF Tools, ListsInOrder
<1>3. CASE Misses(r) /\ UNCHANGED tools
  <2>1. \A j \in Conn : Unrefreshed(j) => Unrefreshed(j)'
    BY <1>1, <1>3, StillUnrefreshed DEF Misses
  <2> QED
    BY <1>1, <1>2, <1>3, <2>1, KeptUnrefreshed
<1>4. ASSUME NEW k \in Conn, NEW n \in Server, k = r.by, n = of[k], ~closed, client[n] = k,
             tools' = [tools EXCEPT ![n] = [by |-> k, version |-> r.seen]],
             missed' = missed \cup {<<k, i>> : i \in r.seen + 1 .. tools[n].version}
      PROVE  Tools'
  <2>1. tools'[n].by = k /\ tools'[n].version = r.seen /\ \A m \in Server \ {n} : tools'[m] = tools[m]
    BY <1>4, Types
  <2>2. ToolsOfClient'
    BY <1>1, <1>4, <2>1 DEF Tools, ToolsOfClient
  <2>3. /\ r.change \in Nat /\ r.seen \in Nat /\ version[k] \in Nat /\ r.seen # 0
        /\ r.change <= r.seen /\ r.seen <= version[k]
    BY <1>4, Types DEF Change, Tools, ListsInOrder, RefreshTools
  <2>4. k # NoConn
    BY NoConnIsNone
  <2>5. VersionsFollow'
    <3> SUFFICES ASSUME NEW j \in Conn, version[j] # 0, ~Unrefreshed(j)'
                 PROVE  /\ \A p \in Call, m \in Server :
                             hand[p][m].c = j /\ hand[p][m].st \in {"listed", "connected"}
                               => hand[p][m].v = version[j]
                        /\ \A m \in Server : client[m] = j => closed \/ tools'[m].version = version[j]
      BY <1>1 DEF VersionsFollow
    <3>1. CASE j # k
      <4>1. ~Unrefreshed(j)
        BY <1>1, <1>4, <3>1 DEF Unrefreshed
      <4>2. \A m \in Server : client[m] = j => tools'[m] = tools[m]
        BY <1>4, <2>1, <3>1
      <4> QED
        BY <4>1, <4>2 DEF Tools, VersionsFollow
    <3>2. CASE j = k
      <4>1. \A m \in Server : client[m] = k => m = n
        BY <1>4, <2>4 DEF Connections, StatusMatchesClient
      <4>2. \A p \in Call, m \in Server : hand[p][m].c # k
        BY <1>4, <2>4 DEF Connections, HandsInOrder, HandInOrder
      <4>3. r.seen = version[k]
        <5> SUFFICES ASSUME r.seen < version[k] PROVE FALSE
          BY <2>3
        <5>1. ~Unrefreshed(k)
          BY <1>1, <1>4, <2>3, <3>2 DEF Unrefreshed
        <5>2. tools[n].version = version[k]
          BY <1>4, <3>2, <5>1 DEF Tools, VersionsFollow
        <5>3. version[k] \in r.seen + 1 .. tools[n].version
          BY <2>3, <5>2
        <5>4. <<k, version[k]>> \in missed'
          BY <1>4, <5>3
        <5> QED
          BY <1>1, <3>2, <5>4 DEF Unrefreshed
      <4> QED
        BY <2>1, <3>2, <4>1, <4>2, <4>3
    <3> QED
      BY <3>1, <3>2
  <2> QED
    BY <1>2, <2>2, <2>5 DEF Tools
<1>5. r.by \in Conn /\ of[r.by] \in Server
  BY Types DEF Change
<1> QED
  BY <1>3, <1>4, <1>5 DEF RefreshTools

LEMMA BeginTools ==
  ASSUME McpTypeOK, Tools, NEW p \in Call, NEW o \in Op, NEW n \in Server, Begin(p, o, n)
  PROVE  Tools'
<1>1. UNCHANGED <<client, tools, closed, version, refresh, missed>>
  BY DEF Begin, closeVars, mapVars, watchVars
<1>2. CASE hand' = hand
  BY <1>1, <1>2, StayingTools
<1>3. CASE hand' = [hand EXCEPT ![p] = [m \in Server |->
             Result(IF config[m].known /\ ~closed THEN "todo" ELSE "none")]]
  <2>1. \A m \in Server : hand'[p][m].c = NoConn
    BY <1>3, Types, ResultTypes DEF States, Dialling
  <2>2. \A q \in Call \ {p} : hand'[q] = hand[q]
    BY <1>3, Types
  <2>3. \A q \in Call, m \in Server : hand'[q][m].c # NoConn => hand'[q][m] = hand[q][m]
    BY <2>1, <2>2
  <2> QED
    BY <1>1, <2>3, StayingTools
<1> QED
  BY <1>2, <1>3 DEF Begin

LEMMA StepTools ==
  ASSUME McpTypeOK, Connections, Tools, [McpNext]_mcpVars
  PROVE  Tools'
<1>1. ASSUME NEW p \in Call, Quiet(p) PROVE Tools'
  <2>1. UNCHANGED <<hand, client, tools, closed, version, refresh, missed>>
    BY <1>1 DEF Quiet, OnceDone, Read, Add, Connect, StartAuth, KeepFlow, FinishAuth, Exchange,
       closeVars, mapVars, watchVars
  <2> QED
    BY <2>1, StayingTools
<1>2. ASSUME \/ \E n \in Server : RemoveAuth(n)
             \/ \E p \in Call : CloseLockedHangs(p)
             \/ \E k \in Conn : CloseRest(k)
             \/ UNCHANGED mcpVars
      PROVE  Tools'
  <2>1. UNCHANGED <<hand, client, tools, closed, version, refresh, missed>>
    BY <1>2 DEF RemoveAuth, CloseLockedHangs, CloseRest, mcpVars, callVars, closeVars, mapVars,
       watchVars
  <2> QED
    BY <2>1, StayingTools
<1>3. CASE Close
  <2>1. UNCHANGED <<hand, version, refresh, missed>> /\ closed'
    BY <1>3 DEF Close, callVars, watchVars
  <2> QED
    BY <2>1, StayingTools
<1> QED
  BY <1>1, <1>2, <1>3, BeginTools, ConnectPublishTools, PublishTools, DiallingTools,
     ToolsChangeTools, NotifiedTools, RefreshToolsTools
     DEF McpNext, Step, Dials, Quiet

(* A list of tools that is behind its server is being refreshed or was missed. *)
LEMMA BehindForAReason == McpTypeOK /\ Tools => StaleForAReason
<1> SUFFICES ASSUME McpTypeOK, Tools, ~closed, NEW n \in Server, client[n] # NoConn,
                    tools[n].version < version[client[n]]
             PROVE  Unrefreshed(client[n])
  BY DEF StaleForAReason, Unrefreshed
<1>1. client[n] \in Conn /\ version[client[n]] \in Nat /\ tools[n].version \in Nat
  BY Types DEF Listing
<1> QED
  BY <1>1 DEF Tools, VersionsFollow

-----------------------------------------------------------------------------
(* Whatever operations, the first connect and Close do to each other, the
   manager's state is in order (manager.go:145-310, service.go:31-266). *)
THEOREM ManagerInvariant == McpSpec => []ManagerInv
<1>1. McpInit => ManagerInv
  <2> SUFFICES ASSUME McpInit PROVE ManagerInv
    OBVIOUS
  <2>1. McpTypeOK
    BY InitTypes
  <2>2. \A p \in Call, n \in Server : hand[p][n].c = NoConn /\ hand[p][n].st = "none"
    BY NothingTypes DEF McpInit
  <2>3. FirstConnect /\ PanicsOnlyWhenClosed
    BY DEF McpInit, FirstConnect, PanicsOnlyWhenClosed
  <2>4. NoneLost /\ StatusMatchesClient /\ ClosedIsEmpty
    BY DEF McpInit, NoneLost, StatusMatchesClient, ClosedIsEmpty
  <2>5. HandsInOrder /\ HandsDiffer
    BY <2>2 DEF HandsInOrder, HandInOrder, HandsDiffer, Dialling
  <2>6. Tools
    BY DEF McpInit, Tools, ToolsOfClient, VersionsFollow, ListsInOrder, NoTools
  <2> QED
    BY <2>1, <2>3, <2>4, <2>5, <2>6 DEF ManagerInv, Connections
<1>2. ManagerInv /\ [McpNext]_mcpVars => ManagerInv'
  <2> SUFFICES ASSUME ManagerInv, [McpNext]_mcpVars PROVE ManagerInv'
    OBVIOUS
  <2>1. McpTypeOK /\ FirstConnect /\ Connections /\ Tools /\ PanicsOnlyWhenClosed
    BY DEF ManagerInv
  <2>2. McpTypeOK'
    <3>1. CASE UNCHANGED mcpVars
      BY <2>1, <3>1 DEF mcpVars, closeVars, mapVars, authVars, callVars, connVars, watchVars, McpTypeOK
    <3>2. CASE McpNext
      BY <2>1, <3>2, QuietTypes, BeginTypes, ConnectEachTypes, DiallingTypes, ConnectPublishTypes,
         ConnectOneTypes, PublishTypes, DisconnectTypes, OtherTypes, ChangeTypes
         DEF McpNext, Step, Dials, Quiet, Connections
    <3> QED
      BY <3>1, <3>2
  <2> QED
    BY <2>1, <2>2, StepConnections, StepTools, StepFirst, StepPanics DEF ManagerInv
<1> QED
  BY <1>1, <1>2, PTL DEF McpSpec

(* No connection, no subprocess, is lost; a server is reported connected exactly
   when the manager holds an open connection to it, and the tools offered are
   those of that connection, for every interleaving of the operations. *)
THEOREM McpInvariant == McpSpec => []McpInv
<1>1. ManagerInv => McpInv
  BY LostOrLeaked DEF ManagerInv, Connections, Tools, McpInv
<1> QED
  BY <1>1, ManagerInvariant, PTL

(* The tools offered are behind the server's only while its latest change is
   being refreshed, or when that refresh came to nothing: nobody was listening
   yet (manager.go:259-269), the connection was not yet published, the listing
   failed (manager.go:293-296), or a list that another handler was given before
   the change came into the cache after it (manager.go:287-308). *)
THEOREM StaleTools == McpSpec => []StaleForAReason
<1>1. ManagerInv => StaleForAReason
  BY BehindForAReason DEF ManagerInv
<1> QED
  BY <1>1, ManagerInvariant, PTL
=============================================================================
