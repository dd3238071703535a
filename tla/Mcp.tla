-------------------------------- MODULE Mcp ---------------------------------
(***************************************************************************)
(* internal/mcp: the manager of one instance's MCP servers.  Every HTTP    *)
(* operation is a goroutine that first waits for the one connect of the    *)
(* configured servers; dials, listings and token exchanges are I/O done    *)
(* without the lock, and their results are published under it.  The start  *)
(* of a connection and its Close have no deadline: either may wait for a   *)
(* server for ever, and closeLocked does so while it holds the lock.       *)
(***************************************************************************)
EXTENDS Integers, FiniteSets

CONSTANTS
  Server,        \* server names
  Call,          \* goroutines, each running one operation
  Deaf,          \* servers whose start or Close may never return
  MaxConn,       \* bound: connections ever dialled
  MaxChanges,    \* bound: changes of the servers' tools
  Configured,    \* what the configuration file may say of the servers
  Addable,       \* the configurations POST /mcp may bring
  Ops            \* Ops[p]: the operations, on which server, that the goroutine p may run

NoConfig == [known |-> FALSE, enabled |-> FALSE, oauth |-> FALSE]
Config == [known : {TRUE}, enabled : BOOLEAN, oauth : BOOLEAN] \cup {NoConfig}
Conn == 1 .. MaxConn
NoConn == 0
Op == {"status", "add", "connect", "disconnect", "start", "finish"}

ASSUME McpAssumption ==
  /\ MaxConn \in Nat /\ MaxChanges \in Nat /\ Server # {} /\ Deaf \subseteq Server
  /\ Configured \subseteq [Server -> Config]
  /\ Addable \subseteq Config \ {NoConfig}
  /\ Ops \in [Call -> SUBSET (Op \X Server)]

VARIABLES
  \* the manager
  config,    \* config[n]: dynamic over servers
  once,      \* the sync.Once: fresh | running | done
  closed,
  locked,    \* a Close under the lock does not return: nobody gets the lock any more
  maps,      \* status, clients, tools and resources are not nil
  status, client, tools,
  pending,   \* servers with an authFlow between StartAuth and FinishAuth
  token,     \* servers with a stored access token
  closing,   \* connections that Close took out and has yet to close
  closeHung, \* one of them does not close, and Close waits for it
  \* the goroutines
  pc, op, on, cfg,
  hand,      \* hand[p][n]: what p has dialled and not yet published
  \* the connections
  conn,      \* conn[k]: unused | open | closed
  of,        \* of[k]: its server
  version,   \* version[k]: how often the server has changed the tools it offers on it
  changes,   \* changes so far, of all servers
  watched,   \* connections with a list_changed handler installed
  refresh,   \* the notifications of changes under way, with the list the handler was given
  missed     \* history: changes <<k, i>> whose refresh came to nothing or was undone

mapVars == <<maps, status, client, tools>>
authVars == <<pending, token>>
callVars == <<pc, op, on, cfg, hand>>
closeVars == <<closed, locked, closing, closeHung>>
connVars == <<conn, of>>
watchVars == <<version, changes, watched, refresh, missed>>
mcpVars == <<config, once, closeVars, mapVars, authVars, callVars, connVars, watchVars>>

Listing == [by : Conn \cup {NoConn}, version : Nat]
NoTools == [by |-> NoConn, version |-> 0]
States == {"none", "connected", "disabled", "failed", "needs_auth"}
Dialling == {"todo", "open", "listed", "hung"}
Dialled == [st : States \cup Dialling, c : Conn \cup {NoConn}, v : Nat]
Result(st) == [st |-> st, c |-> NoConn, v |-> 0]
SomeServer == CHOOSE n \in Server : TRUE
Nothing == [n \in Server |-> Result("none")]
Change == [by : Conn, change : Nat \ {0}, seen : Nat]

McpTypeOK ==
  /\ config \in [Server -> Config]
  /\ once \in {"fresh", "running", "done"} /\ {closed, locked, maps, closeHung} \subseteq BOOLEAN
  /\ status \in [Server -> States] /\ client \in [Server -> Conn \cup {NoConn}]
  /\ tools \in [Server -> Listing]
  /\ pending \subseteq Server /\ token \subseteq Server /\ closing \subseteq Conn
  /\ pc \in [Call -> {"idle", "enter", "dialAll", "ready", "dial", "dialOne", "exchange",
                      "started", "done", "panicked"}]
  /\ op \in [Call -> Op] /\ on \in [Call -> Server] /\ cfg \in [Call -> Config]
  /\ hand \in [Call -> [Server -> Dialled]]
  /\ conn \in [Conn -> {"unused", "open", "closed"}] /\ of \in [Conn -> Server]
  /\ version \in [Conn -> Nat] /\ changes \in Nat /\ watched \subseteq Conn
  /\ refresh \subseteq Change /\ missed \subseteq Conn \X Nat

McpInit ==
  /\ config \in Configured
  /\ once = "fresh" /\ closed = FALSE /\ locked = FALSE /\ maps = FALSE
  /\ status = [n \in Server |-> "none"]
  /\ client = [n \in Server |-> NoConn] /\ tools = [n \in Server |-> NoTools]
  /\ pending = {} /\ token = {} /\ closing = {} /\ closeHung = FALSE
  /\ pc = [p \in Call |-> "idle"]
  /\ op = [p \in Call |-> "status"] /\ on = [p \in Call |-> SomeServer]
  /\ cfg = [p \in Call |-> NoConfig]
  /\ hand = [p \in Call |-> Nothing]
  /\ conn = [k \in Conn |-> "unused"]
  /\ of = [k \in Conn |-> SomeServer]
  /\ version = [k \in Conn |-> 0] /\ changes = 0
  /\ watched = {} /\ refresh = {} /\ missed = {}

Goto(p, where) == pc' = [pc EXCEPT ![p] = where]
Holds(p, n, res) == hand' = [hand EXCEPT ![p][n] = res]
ClosedConns(ks) == conn' = [k \in Conn |-> IF k \in ks THEN "closed" ELSE conn[k]]
Held(p) == {hand[p][n].c : n \in Server} \ {NoConn}

\* every server p has begun to dial has its result
Through(p) == \A n \in Server : hand[p][n].st \notin Dialling

-----------------------------------------------------------------------------
(* What dialErrorStatus makes of an error ... *)
Failures(c) == {Result("failed")} \cup IF c.oauth THEN {Result("needs_auth")} ELSE {}

(* ... and what m.dial, Start and Initialize can come to: an error, which leaves
   nothing open, a connection, for which a server that wants authorization must
   have a token, or, as probeRemote starts without a deadline, nothing. *)
DialResults(n, c) ==
  Failures(c)
    \cup (IF c.oauth /\ n \notin token THEN {}
          ELSE {[st |-> "open", c |-> k, v |-> 0] : k \in
                  {i \in Conn : conn[i] = "unused" /\ \A j \in 1 .. i - 1 : conn[j] # "unused"}})
    \cup (IF n \in Deaf THEN {Result("hung")} ELSE {})

Dial(p, n, c) ==
  \E res \in DialResults(n, c) :
    /\ Holds(p, n, res)
    /\ conn' = [k \in Conn |-> IF k = res.c THEN "open" ELSE conn[k]]
    /\ of' = [k \in Conn |-> IF k = res.c THEN n ELSE of[k]]

(* dialAndList goes on to list the tools, within the deadline; an error closes
   the connection ... *)
ListTools(p, n) ==
  /\ hand[p][n].st = "open"
  /\ \/ /\ Holds(p, n, [hand[p][n] EXCEPT !.st = "listed", !.v = version[hand[p][n].c]])
        /\ UNCHANGED conn
     \/ /\ \E res \in Failures(IF pc[p] = "dialAll" THEN config[n] ELSE cfg[p]) :
             Holds(p, n, res)
        /\ ClosedConns({hand[p][n].c})
  /\ UNCHANGED <<config, once, closeVars, mapVars, authVars, pc, op, on, cfg, of, watchVars>>

(* ... and, after the resources, to install the handler of list_changed. *)
Watch(p, n) ==
  /\ hand[p][n].st = "listed"
  /\ Holds(p, n, [hand[p][n] EXCEPT !.st = "connected"])
  /\ watched' = watched \cup {hand[p][n].c}
  /\ UNCHANGED <<config, once, closeVars, mapVars, authVars, pc, op, on, cfg, connVars,
                 version, changes, refresh, missed>>

(* The Close of a connection that p does not want does not return: of one whose
   tools it could not list, or of one that came after the manager was closed. *)
CloseOwnHangs(p, n) ==
  /\ n \in Deaf /\ hand[p][n].c # NoConn
  /\ hand[p][n].st = "open" \/ (Through(p) /\ closed)
  /\ Holds(p, n, [hand[p][n] EXCEPT !.st = "hung"])
  /\ UNCHANGED <<config, once, closeVars, mapVars, authVars, pc, op, on, cfg, connVars, watchVars>>

-----------------------------------------------------------------------------
(* An HTTP handler calls an operation, which calls connect: the first caller
   runs the once ... *)
Begin(p, o, n) ==
  /\ pc[p] = "idle" /\ <<o, n>> \in Ops[p]
  /\ op' = [op EXCEPT ![p] = o]
  /\ on' = [on EXCEPT ![p] = n]
  /\ IF once = "fresh"
     THEN /\ once' = IF closed THEN "done" ELSE "running"
          /\ Goto(p, IF closed THEN "ready" ELSE "dialAll")
          /\ hand' = [hand EXCEPT ![p] = [m \in Server |->
               Result(IF config[m].known /\ ~closed THEN "todo" ELSE "none")]]
     ELSE Goto(p, "enter") /\ UNCHANGED <<once, hand>>
  /\ UNCHANGED <<config, closeVars, mapVars, authVars, cfg, connVars, watchVars>>

(* ... and the others wait for it. *)
OnceDone(p) ==
  /\ pc[p] = "enter" /\ once = "done"
  /\ Goto(p, "ready")
  /\ UNCHANGED <<config, once, closeVars, mapVars, authVars, op, on, cfg, hand, connVars,
                 watchVars>>

(* connect goes through the servers one after the other, in the order of a map ... *)
ConnectEach(p, n) ==
  /\ pc[p] = "dialAll" /\ hand[p][n].st = "todo"
  /\ \A m \in Server : hand[p][m].st \notin Dialling \ {"todo"}
  /\ \/ /\ ~config[n].enabled
        /\ Holds(p, n, Result("disabled"))
        /\ UNCHANGED connVars
     \/ /\ config[n].enabled
        /\ Dial(p, n, config[n])
  /\ UNCHANGED <<config, once, closeVars, mapVars, authVars, pc, op, on, cfg, watchVars>>

\* the new maps of connect
PublishAll(p) ==
  /\ maps' = TRUE
  /\ status' = [n \in Server |-> hand[p][n].st]
  /\ client' = [n \in Server |-> hand[p][n].c]
  /\ tools' = [n \in Server |-> [by |-> hand[p][n].c, version |-> hand[p][n].v]]

\* mutant: nothing is published when nothing connected
ConnectPublishLazily(p) ==
  /\ pc[p] = "dialAll" /\ Through(p) /\ ~locked
  /\ once' = "done"
  /\ Goto(p, "ready")
  /\ hand' = [hand EXCEPT ![p] = Nothing]
  /\ IF closed \/ Held(p) = {} THEN Held(p) = {} /\ UNCHANGED mapVars ELSE PublishAll(p)
  /\ UNCHANGED <<config, closeVars, authVars, op, on, cfg, connVars, watchVars>>

(* ... and publishes everything, unless Close came first. *)
ConnectPublish(p) ==
  /\ pc[p] = "dialAll" /\ Through(p) /\ ~locked
  /\ once' = "done"
  /\ Goto(p, "ready")
  /\ hand' = [hand EXCEPT ![p] = Nothing]
  /\ \/ closed /\ Held(p) = {} /\ UNCHANGED mapVars
     \/ ~closed /\ PublishAll(p)
  /\ UNCHANGED <<config, closeVars, authVars, op, on, cfg, connVars, watchVars>>

(* On a closed manager connect, and connectOne, first close what they dialled,
   one after the other. *)
CloseOwn(p, n) ==
  /\ pc[p] \in {"dialAll", "dialOne"} /\ Through(p) /\ closed
  /\ hand[p][n].c # NoConn
  /\ ClosedConns({hand[p][n].c})
  /\ Holds(p, n, Result("none"))
  /\ UNCHANGED <<config, once, closeVars, mapVars, authVars, pc, op, on, cfg, of, watchVars>>

-----------------------------------------------------------------------------
(* Status, Tools, HasTool, Resources, Exists: they read under the lock. *)
Read(p) ==
  /\ pc[p] = "ready" /\ op[p] = "status" /\ ~locked
  /\ Goto(p, "done")
  /\ UNCHANGED <<config, once, closeVars, mapVars, authVars, op, on, cfg, hand, connVars,
                 watchVars>>

(* Add overrides the configuration, Connect and FinishAuth use what there is
   and enable it; the first two and the end of the third go on to connectOne. *)
Add(p) ==
  /\ pc[p] = "ready" /\ op[p] = "add" /\ ~locked
  /\ \E c \in Addable :
       /\ config' = [config EXCEPT ![on[p]] = c]
       /\ cfg' = [cfg EXCEPT ![p] = c]
  /\ Goto(p, "dial")
  /\ UNCHANGED <<once, closeVars, mapVars, authVars, op, on, hand, connVars, watchVars>>

Enabled(n) == [config[n] EXCEPT !.enabled = TRUE]

Connect(p) ==
  /\ pc[p] = "ready" /\ op[p] = "connect" /\ ~locked
  /\ IF config[on[p]].known
     THEN Goto(p, "dial") /\ cfg' = [cfg EXCEPT ![p] = Enabled(on[p])]
     ELSE Goto(p, "done") /\ UNCHANGED cfg
  /\ UNCHANGED <<config, once, closeVars, mapVars, authVars, op, on, hand, connVars, watchVars>>

(* StartAuth registers, and keeps the flow once the authorization server has
   answered; a later one replaces it. *)
StartAuth(p) ==
  /\ pc[p] = "ready" /\ op[p] = "start" /\ ~locked
  /\ Goto(p, IF config[on[p]].known /\ config[on[p]].oauth THEN "started" ELSE "done")
  /\ UNCHANGED <<config, once, closeVars, mapVars, authVars, op, on, cfg, hand, connVars,
                 watchVars>>

KeepFlow(p) ==
  /\ pc[p] = "started"
  /\ Goto(p, "done")
  /\ \/ UNCHANGED pending
     \/ ~locked /\ pending' = pending \cup {on[p]}
  /\ UNCHANGED <<config, once, closeVars, mapVars, token, op, on, cfg, hand, connVars, watchVars>>

(* FinishAuth takes the flow that is pending now ... *)
FinishAuth(p) ==
  /\ pc[p] = "ready" /\ op[p] = "finish" /\ ~locked
  /\ IF config[on[p]].known /\ on[p] \in pending
     THEN Goto(p, "exchange") /\ cfg' = [cfg EXCEPT ![p] = Enabled(on[p])]
     ELSE Goto(p, "done") /\ UNCHANGED cfg
  /\ UNCHANGED <<config, once, closeVars, mapVars, authVars, op, on, hand, connVars, watchVars>>

(* ... exchanges the code, and when that succeeds forgets whichever flow is
   pending by then and reconnects with the token. *)
Exchange(p) ==
  /\ pc[p] = "exchange"
  /\ \/ Goto(p, "done") /\ UNCHANGED authVars
     \/ /\ ~locked
        /\ Goto(p, "dial")
        /\ token' = token \cup {on[p]}
        /\ pending' = pending \ {on[p]}
  /\ UNCHANGED <<config, once, closeVars, mapVars, op, on, cfg, hand, connVars, watchVars>>

RemoveAuth(n) ==
  /\ n \in pending \cup token /\ ~locked
  /\ pending' = pending \ {n}
  /\ token' = token \ {n}
  /\ UNCHANGED <<config, once, closeVars, mapVars, callVars, connVars, watchVars>>

\* mutant: the result is published over the connection that is there
ReplaceLeaking(n, res) ==
  /\ maps' = TRUE
  /\ UNCHANGED conn
  /\ client' = [client EXCEPT ![n] = res.c]
  /\ tools' = [tools EXCEPT ![n] = [by |-> res.c, version |-> res.v]]
  /\ status' = [status EXCEPT ![n] = res.st]

(* closeLocked(n), ensureMaps and the new entry of n. *)
Replace(n, res) ==
  /\ maps' = TRUE
  /\ ClosedConns({client[n]})
  /\ client' = [client EXCEPT ![n] = res.c]
  /\ tools' = [tools EXCEPT ![n] = [by |-> res.c, version |-> res.v]]
  /\ status' = [status EXCEPT ![n] = res.st]

(* connectOne: nothing once the manager is closed, a disabled server is
   closed, another one is dialled ... *)
ConnectOne(p) ==
  /\ pc[p] = "dial" /\ ~locked
  /\ \/ closed /\ Goto(p, "done") /\ UNCHANGED <<mapVars, hand, connVars>>
     \/ /\ ~closed /\ ~cfg[p].enabled
        /\ Goto(p, "done")
        /\ Replace(on[p], Result("disabled"))
        /\ UNCHANGED <<hand, of>>
     \/ /\ ~closed /\ cfg[p].enabled
        /\ Goto(p, "dialOne")
        /\ Dial(p, on[p], cfg[p])
        /\ UNCHANGED mapVars
  /\ UNCHANGED <<config, once, closeVars, authVars, op, on, cfg, watchVars>>

\* mutant: a result that comes after Close is published
PublishLate(p) ==
  /\ pc[p] = "dialOne" /\ Through(p) /\ ~locked
  /\ Goto(p, "done")
  /\ hand' = [hand EXCEPT ![p] = Nothing]
  /\ Replace(on[p], hand[p][on[p]])
  /\ UNCHANGED <<config, once, closeVars, authVars, op, on, cfg, of, watchVars>>

\* mutant: a failed reconnect only changes the status
PublishFailureOnly(p) ==
  /\ pc[p] = "dialOne" /\ Through(p) /\ ~locked
  /\ Goto(p, "done")
  /\ hand' = [hand EXCEPT ![p] = Nothing]
  /\ CASE closed -> Held(p) = {} /\ UNCHANGED <<mapVars, conn>>
       [] ~closed /\ Held(p) = {} ->
            /\ status' = [status EXCEPT ![on[p]] = hand[p][on[p]].st]
            /\ UNCHANGED <<maps, client, tools, conn>>
       [] OTHER -> Replace(on[p], hand[p][on[p]])
  /\ UNCHANGED <<config, once, closeVars, authVars, op, on, cfg, of, watchVars>>

(* ... and its result, whatever happened to the server meanwhile, takes the
   place of what is there, unless Close ran. *)
Publish(p) ==
  /\ pc[p] = "dialOne" /\ Through(p) /\ ~locked
  /\ Goto(p, "done")
  /\ hand' = [hand EXCEPT ![p] = Nothing]
  /\ \/ closed /\ Held(p) = {} /\ UNCHANGED <<mapVars, conn>>
     \/ ~closed /\ Replace(on[p], hand[p][on[p]])
  /\ UNCHANGED <<config, once, closeVars, authVars, op, on, cfg, of, watchVars>>

(* Disconnect does not call ensureMaps: without maps, its write panics. *)
Disconnect(p) ==
  /\ pc[p] = "ready" /\ op[p] = "disconnect" /\ ~locked
  /\ CASE ~config[on[p]].known -> Goto(p, "done") /\ UNCHANGED <<mapVars, conn>>
       [] config[on[p]].known /\ ~maps -> Goto(p, "panicked") /\ UNCHANGED <<mapVars, conn>>
       [] OTHER -> Goto(p, "done") /\ Replace(on[p], Result("disabled"))
  /\ UNCHANGED <<config, once, closeVars, authVars, op, on, cfg, hand, of, watchVars>>

(* The Close in closeLocked does not return, and the lock is never released. *)
CloseLockedHangs(p) ==
  /\ on[p] \in Deaf /\ client[on[p]] # NoConn /\ ~closed /\ ~locked
  /\ \/ pc[p] = "dialOne" /\ Through(p)
     \/ pc[p] = "dial" /\ ~cfg[p].enabled
     \/ pc[p] = "ready" /\ op[p] = "disconnect" /\ config[on[p]].known
  /\ locked' = TRUE
  /\ UNCHANGED <<config, once, closed, closing, closeHung, mapVars, authVars, callVars, connVars,
                 watchVars>>

(* Close takes the clients out under the lock, not the tools ... *)
Close ==
  /\ ~closed /\ ~locked
  /\ closed' = TRUE
  /\ closing' = {client[n] : n \in Server} \ {NoConn}
  /\ client' = [n \in Server |-> NoConn]
  /\ UNCHANGED <<config, once, locked, closeHung, maps, status, tools, authVars, callVars,
                 connVars, watchVars>>

(* ... and closes them after it, one after the other. *)
CloseRest(k) ==
  /\ k \in closing /\ ~closeHung
  /\ \/ closing' = closing \ {k} /\ ClosedConns({k}) /\ UNCHANGED closeHung
     \/ of[k] \in Deaf /\ closeHung' = TRUE /\ UNCHANGED <<closing, conn>>
  /\ UNCHANGED <<config, once, closed, locked, mapVars, authVars, callVars, of, watchVars>>

-----------------------------------------------------------------------------
(* A server changes its tools and notifies ... *)
ToolsChange(k) ==
  /\ conn[k] = "open" /\ changes < MaxChanges
  /\ changes' = changes + 1
  /\ version' = [version EXCEPT ![k] = @ + 1]
  /\ refresh' = refresh \cup {[by |-> k, change |-> version[k] + 1, seen |-> 0]}
  /\ UNCHANGED <<config, once, closeVars, mapVars, authVars, callVars, connVars, watched, missed>>

Misses(r) == missed' = missed \cup {<<r.by, r.change>>}

(* ... but nobody hears it before watch has installed the handler. *)
Unheard(r) ==
  /\ r \in refresh /\ r.seen = 0 /\ r.by \notin watched
  /\ refresh' = refresh \ {r}
  /\ Misses(r)
  /\ UNCHANGED <<config, once, closeVars, mapVars, authVars, callVars, connVars, version, changes,
                 watched>>

(* refreshTools, the handler: it lists the tools again, or cannot ... *)
ListAgain(r) ==
  /\ r \in refresh /\ r.seen = 0 /\ r.by \in watched
  /\ \/ /\ conn[r.by] = "open"
        /\ refresh' = (refresh \ {r}) \cup {[r EXCEPT !.seen = version[r.by]]}
        /\ UNCHANGED missed
     \/ /\ refresh' = refresh \ {r}
        /\ Misses(r)
  /\ UNCHANGED <<config, once, closeVars, mapVars, authVars, callVars, connVars, version, changes,
                 watched>>

\* mutant: the listing is cached for the server, whoever it came from
RefreshUnchecked(r) ==
  /\ r \in refresh /\ r.seen # 0 /\ ~locked
  /\ refresh' = refresh \ {r}
  /\ tools' = [tools EXCEPT ![of[r.by]] = [by |-> r.by, version |-> r.seen]]
  /\ UNCHANGED <<config, once, closeVars, maps, status, client, authVars, callVars, connVars,
                 version, changes, watched, missed>>

\* mutant: the event is published and the listing thrown away
RefreshEventOnly(r) ==
  /\ r \in refresh /\ r.seen # 0 /\ ~locked
  /\ refresh' = refresh \ {r}
  /\ missed' = IF ~closed /\ client[of[r.by]] = r.by THEN missed
               ELSE missed \cup {<<r.by, r.change>>}
  /\ UNCHANGED <<config, once, closeVars, mapVars, authVars, callVars, connVars, version, changes,
                 watched>>

(* ... and caches the list if the connection is still, or already, the server's.
   What another handler, which was given a newer list, has cached by then is
   undone. *)
RefreshTools(r) ==
  /\ r \in refresh /\ r.seen # 0 /\ ~locked
  /\ refresh' = refresh \ {r}
  /\ \/ /\ ~closed /\ client[of[r.by]] = r.by
        /\ tools' = [tools EXCEPT ![of[r.by]] = [by |-> r.by, version |-> r.seen]]
        /\ missed' = missed \cup {<<r.by, i>> : i \in r.seen + 1 .. tools[of[r.by]].version}
     \/ /\ closed \/ client[of[r.by]] # r.by
        /\ Misses(r)
        /\ UNCHANGED tools
  /\ UNCHANGED <<config, once, closeVars, maps, status, client, authVars, callVars, connVars,
                 version, changes, watched>>

-----------------------------------------------------------------------------
\* the steps of a goroutine that has connections in its hand
Dials(p) ==
  \/ \E n \in Server : ConnectEach(p, n) \/ ListTools(p, n) \/ Watch(p, n) \/ CloseOwn(p, n)
  \/ ConnectPublish(p) \/ Publish(p)

Step(p) ==
  \/ Dials(p) \/ OnceDone(p)
  \/ Read(p) \/ Add(p) \/ Connect(p) \/ Disconnect(p) \/ StartAuth(p) \/ KeepFlow(p)
  \/ FinishAuth(p) \/ Exchange(p) \/ ConnectOne(p)

McpNext ==
  \/ \E p \in Call : Step(p) \/ CloseLockedHangs(p)
                     \/ \E n \in Server : CloseOwnHangs(p, n) \/ \E o \in Op : Begin(p, o, n)
  \/ \E n \in Server : RemoveAuth(n)
  \/ Close \/ \E k \in Conn : CloseRest(k) \/ ToolsChange(k)
  \/ \E r \in refresh : Unheard(r) \/ ListAgain(r) \/ RefreshTools(r)

(* A goroutine with connections in its hand goes on, and so does Close, until a
   deaf server makes it wait: listings have a deadline, starts and Closes not. *)
McpFairness == WF_mcpVars(\E k \in Conn : CloseRest(k)) /\ \A p \in Call : WF_mcpVars(Dials(p))

McpSpec == McpInit /\ [][McpNext]_mcpVars /\ McpFairness

-----------------------------------------------------------------------------
(* NoConnectionLeaks: an open connection, a subprocess of a local server, is
   published, or in the hands of the goroutine that dialled it, or about to be
   closed by Close: no race of Connect, Add, Disconnect, FinishAuth, the first
   connect and Close loses one. *)
NoConnectionLeaks ==
  \A k \in Conn : conn[k] = "open" =>
    \/ \E n \in Server : client[n] = k
    \/ \E p \in Call : k \in Held(p)
    \/ k \in closing

(* StatusMatchesClient: until Close, a server is reported connected exactly when
   the manager holds a connection to it that is open and its own. *)
StatusMatchesClient ==
  ~closed => \A n \in Server :
    /\ status[n] = "connected" <=> client[n] # NoConn
    /\ client[n] # NoConn => conn[client[n]] = "open" /\ of[client[n]] = n

(* ToolsOfClient: until Close, the tools offered for a server were listed on the
   connection a call would use, though refreshes of a replaced connection may
   come at any time. *)
ToolsOfClient == ~closed => \A n \in Server : tools[n].by = client[n]

(* StaleForAReason: while the tools offered for a server are not what it offers
   now, its latest change is still being refreshed, or that refresh came to
   nothing: the change was notified before watch, or before the connection was
   published, or the new listing failed, or an older list that another handler
   was given earlier came into the cache later. *)
StaleForAReason ==
  ~closed => \A n \in Server :
    client[n] # NoConn /\ tools[n].version < version[client[n]]
      => \/ \E r \in refresh : r.by = client[n] /\ r.change = version[client[n]]
         \/ <<client[n], version[client[n]]>> \in missed

(* PanicsOnlyWhenClosed: Disconnect finds no map to write to only on a manager
   that Close has ended. *)
PanicsOnlyWhenClosed == (\E p \in Call : pc[p] = "panicked") => closed

(* What every operation keeps, whatever the others have in flight. *)
McpInv ==
  /\ McpTypeOK
  /\ NoConnectionLeaks /\ StatusMatchesClient /\ ToolsOfClient /\ PanicsOnlyWhenClosed

\* k waits for its Close behind a server that does not answer
Behind(k) ==
  \/ \E p \in Call : k \in Held(p) /\ \E n \in Server : hand[p][n].st = "hung"
  \/ k \in closing /\ closeHung

(* CloseReleasesAll: after Close every connection is closed in the end and stays
   so, those that were being dialled too, unless the goroutine that has to close
   it waits for a server whose start or Close does not return. *)
CloseReleasesAll == <>[](closed => \A k \in Conn : conn[k] = "open" => Behind(k))
=============================================================================
