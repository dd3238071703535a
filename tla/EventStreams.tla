---------------------------- MODULE EventStreams ----------------------------
(***************************************************************************)
(* internal/server/sse.go, the handlers of GET /event and                  *)
(* GET /global/event, with internal/instance, whose DisposeAll ends the    *)
(* instance streams, and the shutdown sequence of cmd/opcoded.             *)
(*                                                                         *)
(* The k-th instance of directory d is <<d, k>>.  A subscriber of the bus  *)
(* is one HTTP request; its handler goes through                           *)
(*                                                                         *)
(*   counted     ClientConnected raised the client count and the instance  *)
(*               was looked up or created                                  *)
(*   subscribed  the channel is in the map of the bus                      *)
(*   live        server.connected was written, the select loop runs        *)
(*   leaving     the loop was left, the deferred calls run                 *)
(*   closed      unsubscribed, the count lowered, the handler is gone      *)
(***************************************************************************)
EXTENDS Bus, FiniteSets

CONSTANTS
  Directory,       \* project directories
  MaxInstances,    \* bound: instances created for one directory
  InstanceStream,  \* requests of GET /event; the others are of GET /global/event
  Flaky,           \* requests whose client may go away before the daemon does
  Main             \* the producer that shuts the daemon down

ASSUME StreamsAssumption ==
  /\ MaxInstances \in Nat
  /\ Instance = Directory \X (1 .. MaxInstances)
  /\ InstanceStream \subseteq Sub
  /\ Main \in Producer

VARIABLES
  instances,  \* Manager.instances: the number of the cached instance, or 0
  created,    \* created[d]: how many instances d has had
  phase,      \* the shutdown: up | disposing | cancelled
  doomed,     \* instances DisposeAll has yet to dispose
  disposing,  \* the instance it is disposing, in a set of at most one
  torn,       \* instances torn down
  at,         \* at[x]: where the handler of x is
  bus,        \* bus[x]: the bus x is subscribed to
  gone,       \* requests whose client has disconnected
  clients,    \* Global.clients
  from,       \* history: from[x], what its bus had published when x got server.connected
  recv        \* history: recv[x], the events written to x after server.connected

instVars == <<instances, created, phase, doomed, disposing, torn>>
streamVars == <<at, bus, gone, clients, from, recv>>
esVars == <<busVars, instVars, streamVars>>

Handler == {"new", "counted", "subscribed", "live", "leaving", "closed"}

StreamsTypeOK ==
  /\ BusTypeOK
  /\ instances \in [Directory -> 0 .. MaxInstances]
  /\ created \in [Directory -> 0 .. MaxInstances]
  /\ phase \in {"up", "disposing", "cancelled"}
  /\ doomed \subseteq Instance /\ disposing \subseteq Instance /\ torn \subseteq Instance
  /\ at \in [Sub -> Handler]
  /\ bus \in [Sub -> BusName]
  /\ gone \subseteq Sub
  /\ clients \in Nat
  /\ from \in [Sub -> Nat]
  /\ recv \in [Sub -> Seq(Event)]

StreamsInit ==
  /\ BusInit
  /\ instances = [d \in Directory |-> 0]
  /\ created = [d \in Directory |-> 0]
  /\ phase = "up"
  /\ doomed = {} /\ disposing = {} /\ torn = {}
  /\ at = [x \in Sub |-> "new"]
  /\ bus = [x \in Sub |-> Global]
  /\ gone = {}
  /\ clients = 0
  /\ from = [x \in Sub |-> 0]
  /\ recv = [x \in Sub |-> <<>>]

Created == {i \in Instance : i[2] <= created[i[1]]}

-----------------------------------------------------------------------------
(* Manager.Get: the cached instance of d, or a new one that is cached. *)
Get(d) ==
  \/ instances[d] # 0 /\ UNCHANGED <<instances, created>>
  \/ /\ instances[d] = 0
     /\ created[d] < MaxInstances
     /\ created' = [created EXCEPT ![d] = @ + 1]
     /\ instances' = [instances EXCEPT ![d] = created[d] + 1]

(* Any other request for the directory: BusFor, or a handler's own Get. *)
Request(d) ==
  /\ instances[d] = 0
  /\ Get(d)
  /\ UNCHANGED <<busVars, phase, doomed, disposing, torn, streamVars>>

(* The engine and the handlers publish on the bus of an instance they hold,
   which may have been disposed meanwhile. *)
Produce(p, i) ==
  /\ p # Main /\ i \in Created
  /\ Publish(p, i)
  /\ UNCHANGED <<instVars, streamVars>>

Relayed(e) == PublishGlobal(e) /\ UNCHANGED <<instVars, streamVars>>

\* mutant: the map is not emptied
DisposeAllKeeping ==
  /\ phase = "up"
  /\ phase' = "disposing"
  /\ doomed' = {i \in Instance : instances[i[1]] = i[2]}
  /\ UNCHANGED <<busVars, instances, created, disposing, torn, streamVars>>

(* DisposeAll takes the cached instances out of the map under the lock ... *)
DisposeAll ==
  /\ phase = "up"
  /\ phase' = "disposing"
  /\ doomed' = {i \in Instance : instances[i[1]] = i[2]}
  /\ instances' = [d \in Directory |-> 0]
  /\ UNCHANGED <<busVars, created, disposing, torn, streamVars>>

(* ... and then, one after the other, publishes server.instance.disposed ... *)
Dispose(i) ==
  /\ i \in doomed /\ disposing = {}
  /\ Publish(Main, i)
  /\ doomed' = doomed \ {i}
  /\ disposing' = {i}
  /\ UNCHANGED <<instances, created, phase, torn, streamVars>>

(* ... and, once that is out, shuts the instance's PTYs, MCP and LSP servers
   and plugin host down. *)
TearDown ==
  /\ disposing # {}
  /\ \A e \in forward : e.by # Main
  /\ torn' = torn \cup disposing
  /\ disposing' = {}
  /\ UNCHANGED <<busVars, instances, created, phase, doomed, streamVars>>

(* shutdown: cancelBase ends the context of every stream.  Until srv.Shutdown
   closes the listener a request can still arrive and finds it cancelled. *)
CancelBase ==
  /\ phase = "disposing" /\ doomed = {} /\ disposing = {}
  /\ phase' = "cancelled"
  /\ UNCHANGED <<busVars, instances, created, doomed, disposing, torn, streamVars>>

-----------------------------------------------------------------------------
\* mutant: the stream keeps the directory in place of its instance's bus
ArriveByDirectory(x, d) ==
  /\ at[x] = "new"
  /\ clients' = clients + 1
  /\ at' = [at EXCEPT ![x] = "counted"]
  /\ Get(d) /\ bus' = [bus EXCEPT ![x] = d]
  /\ UNCHANGED <<busVars, phase, doomed, disposing, torn, gone, from, recv>>

(* The handler marks a client connected and looks its instance up ... *)
Arrive(x, d) ==
  /\ at[x] = "new"
  /\ clients' = clients + 1
  /\ at' = [at EXCEPT ![x] = "counted"]
  /\ IF x \in InstanceStream
     THEN Get(d) /\ bus' = [bus EXCEPT ![x] = <<d, instances'[d]>>]
     ELSE UNCHANGED <<instances, created, bus>>
  /\ UNCHANGED <<busVars, phase, doomed, disposing, torn, gone, from, recv>>

\* mutant: server.connected is written before the subscription
RegisterLate(x) ==
  /\ \/ /\ at[x] = "counted"
        /\ at' = [at EXCEPT ![x] = "subscribed"]
        /\ UNCHANGED busVars
     \/ /\ at[x] = "live" /\ x \notin subs[bus[x]]
        /\ Subscribe(x, bus[x])
        /\ UNCHANGED at
  /\ UNCHANGED <<instVars, bus, gone, clients, from, recv>>

(* ... and subscribes ... *)
Register(x) ==
  /\ at[x] = "counted"
  /\ Subscribe(x, bus[x])
  /\ at' = [at EXCEPT ![x] = "subscribed"]
  /\ UNCHANGED <<instVars, bus, gone, clients, from, recv>>

(* ... before it writes server.connected, which fails when the client left. *)
Connected(x) ==
  /\ at[x] = "subscribed"
  /\ \/ /\ at' = [at EXCEPT ![x] = "live"]
        /\ from' = [from EXCEPT ![x] = Len(log[bus[x]])]
     \/ /\ x \in gone
        /\ at' = [at EXCEPT ![x] = "leaving"]
        /\ UNCHANGED from
  /\ UNCHANGED <<busVars, instVars, bus, gone, clients, recv>>

\* mutant: the stream stays open after the last event
DeliverOn(x) ==
  /\ at[x] = "live"
  /\ Take(x)
  /\ recv' = [recv EXCEPT ![x] = Append(@, Head(ch[x]))]
  /\ UNCHANGED <<instVars, at, bus, gone, clients, from>>

(* An event is taken from the channel and written; the write fails when the
   client is gone, and an instance stream ends with server.instance.disposed. *)
Deliver(x) ==
  /\ at[x] = "live"
  /\ Take(x)
  /\ \/ /\ recv' = [recv EXCEPT ![x] = Append(@, Head(ch[x]))]
        /\ at' = IF x \in InstanceStream /\ Head(ch[x]).by = Main
                 THEN [at EXCEPT ![x] = "leaving"] ELSE at
     \/ /\ x \in gone
        /\ at' = [at EXCEPT ![x] = "leaving"]
        /\ UNCHANGED recv
  /\ UNCHANGED <<instVars, bus, gone, clients, from>>

\* mutant: the stream's context knows the client only
ClientCtxDone(x) ==
  /\ at[x] = "live"
  /\ x \in gone
  /\ at' = [at EXCEPT ![x] = "leaving"]
  /\ UNCHANGED <<busVars, instVars, bus, gone, clients, from, recv>>

(* streamContext: the client disconnected (a failing heartbeat says the same)
   or the daemon cancelled the base context. *)
CtxDone(x) ==
  /\ at[x] = "live"
  /\ x \in gone \/ phase = "cancelled"
  /\ at' = [at EXCEPT ![x] = "leaving"]
  /\ UNCHANGED <<busVars, instVars, bus, gone, clients, from, recv>>

\* mutant: a handler that leaves early forgets the count
LeaveCounted(x) ==
  /\ at[x] = "leaving"
  /\ Unsubscribe(x, bus[x])
  /\ at' = [at EXCEPT ![x] = "closed"]
  /\ clients' = IF x \in gone THEN clients ELSE clients - 1
  /\ from' = [from EXCEPT ![x] = 0]
  /\ recv' = [recv EXCEPT ![x] = <<>>]
  /\ gone' = gone \ {x}
  /\ bus' = [bus EXCEPT ![x] = Global]
  /\ UNCHANGED instVars

(* The deferred calls: unsubscribe and the decrement of the client count.  The
   history of the stream is forgotten with it. *)
Leave(x) ==
  /\ at[x] = "leaving"
  /\ Unsubscribe(x, bus[x])
  /\ at' = [at EXCEPT ![x] = "closed"]
  /\ clients' = clients - 1
  /\ from' = [from EXCEPT ![x] = 0]
  /\ recv' = [recv EXCEPT ![x] = <<>>]
  /\ gone' = gone \ {x}
  /\ bus' = [bus EXCEPT ![x] = Global]
  /\ UNCHANGED instVars

(* The client of x goes away. *)
Disconnect(x) ==
  /\ x \in Flaky \ gone /\ at[x] \notin {"new", "leaving", "closed"}
  /\ gone' = gone \cup {x}
  /\ UNCHANGED <<busVars, instVars, at, bus, clients, from, recv>>

HandlerStep(x) ==
  Register(x) \/ Connected(x) \/ Deliver(x) \/ CtxDone(x) \/ Leave(x)

MainStep ==
  \/ \E i \in Instance : Dispose(i)
  \/ TearDown \/ CancelBase
  \/ \E e \in forward : Relayed(e)

StreamsNext ==
  \/ \E x \in Sub, d \in Directory : Arrive(x, d)
  \/ \E x \in Sub : HandlerStep(x) \/ Disconnect(x)
  \/ \E d \in Directory : Request(d)
  \/ \E p \in Producer, i \in Instance : Produce(p, i)
  \/ DisposeAll \/ MainStep

StreamsSpec == StreamsInit /\ [][StreamsNext]_esVars

(* The daemon's goroutines are scheduled; clients and producers need not act.
   A step taken over and over would need new events, of which there are
   finitely many, so a loop that is live and cancelled is left. *)
StreamsFairSpec ==
  /\ StreamsSpec
  /\ WF_esVars(MainStep)
  /\ WF_esVars(\E x \in Sub : HandlerStep(x))

-----------------------------------------------------------------------------
(* What x was sent or has waiting, in order. *)
Got(x) == recv[x] \o ch[x]

(* From server.connected on a client is sent every event its bus publishes, but
   for those that met its full channel, in the order of the bus and each once:
   subscribing before server.connected closes the window in which an event is on
   the bus and for nobody (sse.go:78-81, bus.go:57-60). *)
LiveStreamMissesNothing ==
  \A x \in Sub : at[x] = "live" =>
    LET l == log[bus[x]]  got == Got(x) IN
    /\ \A k \in from[x] + 1 .. Len(l) :
         l[k] \notin overflow[x] => \E j \in 1 .. Len(got) : got[j] = l[k]
    /\ \A j \in 1 .. Len(got) : got[j] \notin overflow[x]
    /\ \A j, k \in 1 .. Len(got) : j < k =>
         /\ got[j] # got[k]
         /\ \E m, n \in 1 .. Len(l) : m < n /\ l[m] = got[j] /\ l[n] = got[k]

(* server.instance.disposed is the last thing an instance stream sends, and a
   global stream sends on. *)
DisposedIsLast ==
  \A x \in InstanceStream : \A k \in 1 .. Len(recv[x]) :
    recv[x][k].by = Main => k = Len(recv[x]) /\ at[x] # "live"

(* No instance is lost or shut down twice: it is cached, on DisposeAll's list, in
   its hands, or torn down after its streams were told, and until the shutdown
   a directory has one instance that everybody shares. *)
InstancesAccountedFor ==
  LET Cached == {i \in Instance : instances[i[1]] = i[2]} IN
  /\ Created = Cached \cup doomed \cup disposing \cup torn
  /\ Cached \cap (doomed \cup disposing \cup torn) = {}
  /\ doomed \cap (disposing \cup torn) = {} /\ disposing \cap torn = {}
  /\ \A i \in torn : \E k \in 1 .. Len(log[i]) : log[i][k].by = Main
  /\ phase = "up" => \A d \in Directory : created[d] <= 1

(* The client count the push relay reads is the number of handlers between
   their first and their last deferred call, whichever way they left. *)
ClientsAreHandlers ==
  clients = Cardinality({x \in Sub : at[x] \notin {"new", "closed"}})

(* The buses, the instances and the handlers agree at any time. *)
StreamsInv ==
  /\ StreamsTypeOK
  /\ GlobalKeepsProducerOrder /\ DisposedIsLast
  /\ InstancesAccountedFor /\ ClientsAreHandlers

(* The shutdown ends every stream, also one whose server.instance.disposed met
   a full channel and one that arrived while the instances were disposed, so
   that http.Server.Shutdown can drain (sse.go:14-17): from then on it is always
   only a matter of time until no handler is left. *)
ShutdownEndsStreams ==
  []<>(phase = "up" \/ (phase = "cancelled" /\ \A x \in Sub : at[x] \in {"new", "closed"}))

=============================================================================
