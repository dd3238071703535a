-------------------------------- MODULE Lsp ---------------------------------
(***************************************************************************)
(* internal/lsp: one instance's language servers, and the calls of the lsp *)
(* tool that start them, open a file on them and wait for its diagnostics. *)
(*                                                                         *)
(* A key is a server at a root; a call is one TouchFile of one file that   *)
(* every key matches.  A process is named after the call that spawned it.  *)
(***************************************************************************)
EXTENDS Integers

CONSTANTS
  Key, Call,
  None,       \* no call
  MaxPush,    \* bound: publishDiagnostics notifications per server
  MaxReg      \* bound: changes of the diagnostic registrations per server

ASSUME LspAssumption ==
  None \notin Call /\ Key # {} /\ MaxPush \in Nat /\ MaxReg \in Nat

VARIABLES
  \* Service
  disposed,
  running,    \* running[k]: the call that spawned the published handle, or None
  broken,     \* keys that are never retried
  spawning,   \* spawning[k]: the call that spawns, or None
  so,         \* so[k]: the spawnOnce of k, none | open | ok | err
  proc,       \* proc[p][k]: none | alive | dead | reaped
  killing,    \* <<p, k>> that DisposeAll took out and has yet to kill
  \* TouchFile
  pc, at, todo,
  \* the client of a key
  pull,       \* pull[k]: document pull diagnostics are registered
  pushes,     \* pushes[k]: pushes so far, also the generation of pushSignal
  published,  \* published[k]: the push that was the file's last, 0 for none
  regs,       \* regs[k]: generation of regSignal
  \* WaitForDiagnostics
  started,    \* started[p]: the pushes before it
  pw, sig,    \* the goroutine of waitForFreshPush, and the signal it holds
  rw, rsig    \* the goroutine of waitForRegistrationChange, likewise

serviceVars == <<disposed, running, broken, spawning, so, proc, killing>>
touchVars == <<pc, at, todo>>
clientVars == <<pull, pushes, published, regs>>
waitVars == <<started, pw, sig, rw, rsig>>
lspVars == <<serviceVars, touchVars, clientVars, waitVars>>

Place == {"idle", "ensure", "spawn", "shake", "settle", "failed", "join", "clients", "open",
          "pull", "watch", "done"}
Process == {"none", "alive", "dead", "reaped"}

LspTypeOK ==
  /\ disposed \in BOOLEAN /\ broken \subseteq Key
  /\ running \in [Key -> Call \cup {None}] /\ spawning \in [Key -> Call \cup {None}]
  /\ so \in [Key -> {"none", "open", "ok", "err"}]
  /\ proc \in [Call -> [Key -> Process]]
  /\ killing \subseteq Call \X Key
  /\ pc \in [Call -> Place]
  /\ at \in [Call -> Key] /\ todo \in [Call -> SUBSET Key]
  /\ pull \in [Key -> BOOLEAN] /\ pushes \in [Key -> 0 .. MaxPush]
  /\ published \in [Key -> 0 .. MaxPush] /\ regs \in [Key -> 0 .. MaxReg]
  /\ started \in [Call -> 0 .. MaxPush] /\ sig \in [Call -> 0 .. MaxPush]
  /\ pw \in [Call -> {"off", "read", "blocked", "fresh"}]
  /\ rw \in [Call -> {"off", "read", "blocked"}] /\ rsig \in [Call -> 0 .. MaxReg]

LspInit ==
  /\ disposed = FALSE /\ broken = {} /\ killing = {}
  /\ running = [k \in Key |-> None] /\ spawning = [k \in Key |-> None]
  /\ so = [k \in Key |-> "none"]
  /\ proc = [p \in Call |-> [k \in Key |-> "none"]]
  /\ pc = [p \in Call |-> "idle"] /\ todo = [p \in Call |-> {}]
  /\ at \in [Call -> Key]
  /\ pull = [k \in Key |-> FALSE]
  /\ pushes = [k \in Key |-> 0] /\ published = [k \in Key |-> 0] /\ regs = [k \in Key |-> 0]
  /\ started = [p \in Call |-> 0]
  /\ pw = [p \in Call |-> "off"] /\ sig = [p \in Call |-> 0]
  /\ rw = [p \in Call |-> "off"] /\ rsig = [p \in Call |-> 0]

Goto(p, where) == pc' = [pc EXCEPT ![p] = where]
ToKey(p, k) == at' = [at EXCEPT ![p] = k] /\ todo' = [todo EXCEPT ![p] = @ \ {k}]
Kill(ps) == proc' = [p \in Call |-> [k \in Key |->
                       IF <<p, k>> \in ps THEN "reaped" ELSE proc[p][k]]]

-----------------------------------------------------------------------------
(* TouchFile and EnsureClients: the matching servers, one after another ... *)
Touch(p) ==
  /\ pc[p] = "idle"
  /\ IF disposed THEN Goto(p, "done") /\ UNCHANGED todo
     ELSE Goto(p, "ensure") /\ todo' = [todo EXCEPT ![p] = Key]
  /\ UNCHANGED <<serviceVars, at, clientVars, waitVars>>

\* mutant: a spawn under way is not noticed
EnsureTwice(p, k) ==
  /\ pc[p] = "ensure" /\ k \in todo[p]
  /\ ToKey(p, k)
  /\ IF disposed \/ k \in broken \/ running[k] # None
     THEN UNCHANGED <<pc, spawning, so>>
     ELSE /\ Goto(p, "spawn")
          /\ spawning' = [spawning EXCEPT ![k] = p]
          /\ so' = [so EXCEPT ![k] = "open"]
  /\ UNCHANGED <<disposed, running, broken, proc, killing, clientVars, waitVars>>

\* mutant: a broken server is tried again
EnsureRetrying(p, k) ==
  /\ pc[p] = "ensure" /\ k \in todo[p]
  /\ ToKey(p, k)
  /\ IF disposed \/ running[k] # None
     THEN UNCHANGED <<pc, spawning, so>>
     ELSE IF spawning[k] # None THEN Goto(p, "join") /\ UNCHANGED <<spawning, so>>
     ELSE /\ Goto(p, "spawn")
          /\ spawning' = [spawning EXCEPT ![k] = p]
          /\ so' = [so EXCEPT ![k] = "open"]
  /\ UNCHANGED <<disposed, running, broken, proc, killing, clientVars, waitVars>>

(* ... each by ensureOne: not when disposed, broken or running; join a spawn
   that is under way; otherwise spawn. *)
EnsureOne(p, k) ==
  /\ pc[p] = "ensure" /\ k \in todo[p]
  /\ ToKey(p, k)
  /\ IF disposed \/ k \in broken \/ running[k] # None
     THEN UNCHANGED <<pc, spawning, so>>
     ELSE IF spawning[k] # None THEN Goto(p, "join") /\ UNCHANGED <<spawning, so>>
     ELSE /\ Goto(p, "spawn")
          /\ spawning' = [spawning EXCEPT ![k] = p]
          /\ so' = [so EXCEPT ![k] = "open"]
  /\ UNCHANGED <<disposed, running, broken, proc, killing, clientVars, waitVars>>

Joined(p) ==
  /\ pc[p] = "join" /\ so[at[p]] \in {"ok", "err"}
  /\ Goto(p, "ensure")
  /\ UNCHANGED <<serviceVars, at, todo, clientVars, waitVars>>

(* spawn starts the process, or finds no binary ... *)
Spawn(p) ==
  /\ pc[p] = "spawn"
  /\ \/ Goto(p, "shake") /\ proc' = [proc EXCEPT ![p][at[p]] = "alive"]
     \/ Goto(p, "failed") /\ UNCHANGED proc
  /\ UNCHANGED <<disposed, running, broken, spawning, so, killing, at, todo, clientVars, waitVars>>

\* mutant: a server that does not shake hands is left behind
HandshakeLeaking(p) ==
  /\ pc[p] = "shake"
  /\ Goto(p, "settle") \/ Goto(p, "failed")
  /\ UNCHANGED <<serviceVars, at, todo, clientVars, waitVars>>

(* ... connect runs the handshake, which has a deadline; failed, the process
   is terminated and reaped. *)
Handshake(p) ==
  /\ pc[p] = "shake"
  /\ \/ proc[p][at[p]] = "alive" /\ Goto(p, "settle") /\ UNCHANGED proc
     \/ Goto(p, "failed") /\ Kill({<<p, at[p]>>})
  /\ UNCHANGED <<disposed, running, broken, spawning, so, killing, at, todo, clientVars, waitVars>>

\* mutant: the waiters of a failed spawn are forgotten
SettleSilently(p) ==
  LET k == at[p] IN
  /\ pc[p] \in {"settle", "failed"}
  /\ Goto(p, "ensure")
  /\ spawning' = [spawning EXCEPT ![k] = None]
  /\ CASE pc[p] = "failed" ->
            broken' = broken \cup {k} /\ UNCHANGED <<so, running, proc>>
       [] pc[p] = "settle" /\ disposed ->
            /\ Kill({<<p, k>>})
            /\ so' = [so EXCEPT ![k] = "ok"] /\ UNCHANGED <<broken, running>>
       [] OTHER ->
            /\ running' = [running EXCEPT ![k] = p]
            /\ so' = [so EXCEPT ![k] = "ok"] /\ UNCHANGED <<broken, proc>>
  /\ UNCHANGED <<disposed, killing, at, todo, clientVars, waitVars>>

\* mutant: the handle is published although the service is disposed
SettleLate(p) ==
  LET k == at[p] IN
  /\ pc[p] \in {"settle", "failed"}
  /\ Goto(p, "ensure")
  /\ spawning' = [spawning EXCEPT ![k] = None]
  /\ IF pc[p] = "failed"
     THEN /\ broken' = broken \cup {k}
          /\ so' = [so EXCEPT ![k] = "err"] /\ UNCHANGED running
     ELSE /\ running' = [running EXCEPT ![k] = p]
          /\ so' = [so EXCEPT ![k] = "ok"] /\ UNCHANGED broken
  /\ UNCHANGED <<disposed, proc, killing, at, todo, clientVars, waitVars>>

(* The result, under the lock: broken, or killed when dispose came first (the
   waiters are told it succeeded), or running; then done is closed. *)
Settle(p) ==
  LET k == at[p] IN
  /\ pc[p] \in {"settle", "failed"}
  /\ Goto(p, "ensure")
  /\ spawning' = [spawning EXCEPT ![k] = None]
  /\ CASE pc[p] = "failed" ->
            /\ broken' = broken \cup {k}
            /\ so' = [so EXCEPT ![k] = "err"] /\ UNCHANGED <<running, proc>>
       [] pc[p] = "settle" /\ disposed ->
            /\ Kill({<<p, k>>})
            /\ so' = [so EXCEPT ![k] = "ok"] /\ UNCHANGED <<broken, running>>
       [] OTHER ->
            /\ running' = [running EXCEPT ![k] = p]
            /\ so' = [so EXCEPT ![k] = "ok"] /\ UNCHANGED <<broken, proc>>
  /\ UNCHANGED <<disposed, killing, at, todo, clientVars, waitVars>>

(* DisposeAll empties the map under the lock ... *)
DisposeAll ==
  /\ ~disposed
  /\ disposed' = TRUE
  /\ killing' = {<<running[k], k>> : k \in {j \in Key : running[j] # None}}
  /\ running' = [k \in Key |-> None]
  /\ UNCHANGED <<broken, spawning, so, proc, touchVars, clientVars, waitVars>>

(* ... then terminates and reaps the processes, one by one. *)
KillOne ==
  /\ \E h \in killing : Kill({h}) /\ killing' = killing \ {h}
  /\ UNCHANGED <<disposed, running, broken, spawning, so, touchVars, clientVars, waitVars>>

(* A server dies; nobody notices: its handle stays published. *)
ServerDies(p, k) ==
  /\ proc[p][k] = "alive"
  /\ proc' = [proc EXCEPT ![p][k] = "dead"]
  /\ UNCHANGED <<disposed, running, broken, spawning, so, killing, touchVars, clientVars,
                 waitVars>>

-----------------------------------------------------------------------------
(* clientsForFile: the handles running by now. *)
ClientsForFile(p) ==
  /\ pc[p] = "ensure" /\ todo[p] = {}
  /\ todo' = [todo EXCEPT ![p] = {k \in Key : running[k] # None}]
  /\ Goto(p, "clients")
  /\ UNCHANGED <<serviceVars, at, clientVars, waitVars>>

NextClient(p) ==
  /\ pc[p] = "clients"
  /\ \/ todo[p] = {} /\ Goto(p, "done") /\ UNCHANGED <<at, todo>>
     \/ \E k \in todo[p] : ToKey(p, k) /\ Goto(p, "open")
  /\ UNCHANGED <<serviceVars, clientVars, waitVars>>

(* Open writes to the server or fails; WaitForDiagnostics takes its time. *)
Open(p) ==
  /\ pc[p] = "open"
  /\ \/ Goto(p, "clients") /\ UNCHANGED started
     \/ Goto(p, "pull") /\ started' = [started EXCEPT ![p] = pushes[at[p]]]
  /\ UNCHANGED <<serviceVars, at, todo, clientVars, pw, sig, rw, rsig>>

(* requestDocumentDiagnostics: a server that has registered may answer; if not,
   two goroutines are started to wait for a push and for a registration. *)
Pull(p) ==
  /\ pc[p] = "pull"
  /\ \/ /\ pull[at[p]] /\ Goto(p, "clients")
        /\ UNCHANGED waitVars
     \/ /\ Goto(p, "watch")
        /\ pw' = [pw EXCEPT ![p] = "read"] /\ rw' = [rw EXCEPT ![p] = "read"]
        /\ UNCHANGED <<started, sig, rsig>>
  /\ UNCHANGED <<serviceVars, at, todo, clientVars>>

(* waitForFreshPush reads the last push and the signal under one lock ... *)
ReadPush(p) ==
  /\ pc[p] = "watch" /\ pw[p] = "read"
  /\ IF published[at[p]] > started[p]
     THEN pw' = [pw EXCEPT ![p] = "fresh"] /\ UNCHANGED sig
     ELSE pw' = [pw EXCEPT ![p] = "blocked"] /\ sig' = [sig EXCEPT ![p] = pushes[at[p]]]
  /\ UNCHANGED <<serviceVars, touchVars, clientVars, started, rw, rsig>>

(* ... and reads again when that signal is closed. *)
WakePush(p) ==
  /\ pc[p] = "watch" /\ pw[p] = "blocked" /\ sig[p] # pushes[at[p]]
  /\ pw' = [pw EXCEPT ![p] = "read"]
  /\ UNCHANGED <<serviceVars, touchVars, clientVars, started, sig, rw, rsig>>

(* waitForRegistrationChange holds the signal of the moment it starts. *)
ReadReg(p) ==
  /\ pc[p] = "watch" /\ rw[p] = "read"
  /\ rw' = [rw EXCEPT ![p] = "blocked"]
  /\ rsig' = [rsig EXCEPT ![p] = regs[at[p]]]
  /\ UNCHANGED <<serviceVars, touchVars, clientVars, started, pw, sig>>

(* waitForChange returns on a push that has settled, on the deadline or the
   end of the context, and, to pull again, on a registration. *)
Leaves(p, where) ==
  /\ pc[p] = "watch"
  /\ Goto(p, where)
  /\ pw' = [pw EXCEPT ![p] = "off"] /\ rw' = [rw EXCEPT ![p] = "off"]
  /\ sig' = [sig EXCEPT ![p] = 0] /\ rsig' = [rsig EXCEPT ![p] = 0]
  /\ UNCHANGED <<serviceVars, at, todo, clientVars, started>>

PushSettles(p) == pw[p] = "fresh" /\ Leaves(p, "clients")
RegChanges(p) == rw[p] = "blocked" /\ rsig[p] # regs[at[p]] /\ Leaves(p, "pull")
Deadline(p) == Leaves(p, "clients")

-----------------------------------------------------------------------------
Talks(k) == \E p \in Call :
              proc[p][k] = "alive" /\ (running[k] = p \/ (at[p] = k /\ pc[p] = "settle"))

\* mutant: only the waiters that come later learn of a push
PublishUnsignalled(k, mine) ==
  /\ Talks(k) /\ pushes[k] < MaxPush
  /\ pushes' = pushes
  /\ published' = [published EXCEPT ![k] = IF mine THEN pushes[k] + 1 ELSE @]
  /\ UNCHANGED <<serviceVars, touchVars, pull, regs, waitVars>>

(* onPublishDiagnostics: a push for the file or another one closes the signal. *)
OnPublishDiagnostics(k, mine) ==
  /\ Talks(k) /\ pushes[k] < MaxPush
  /\ pushes' = [pushes EXCEPT ![k] = @ + 1]
  /\ published' = [published EXCEPT ![k] = IF mine THEN pushes[k] + 1 ELSE @]
  /\ UNCHANGED <<serviceVars, touchVars, pull, regs, waitVars>>

(* onRegisterCapability, onUnregisterCapability. *)
OnCapability(k) ==
  /\ Talks(k) /\ regs[k] < MaxReg
  /\ pull' = [pull EXCEPT ![k] = ~@]
  /\ regs' = [regs EXCEPT ![k] = @ + 1]
  /\ UNCHANGED <<serviceVars, touchVars, pushes, published, waitVars>>

Step(p) ==
  \/ (\E k \in Key : EnsureOne(p, k)) \/ Joined(p) \/ Spawn(p) \/ Handshake(p) \/ Settle(p)
  \/ ClientsForFile(p) \/ NextClient(p) \/ Open(p) \/ Pull(p)
  \/ ReadPush(p) \/ WakePush(p) \/ ReadReg(p) \/ PushSettles(p) \/ RegChanges(p)

LspNext ==
  \/ \E p \in Call : Touch(p) \/ Step(p) \/ Deadline(p) \/ \E k \in Key : ServerDies(p, k)
  \/ DisposeAll \/ KillOne
  \/ \E k \in Key : \/ \E mine \in BOOLEAN : OnPublishDiagnostics(k, mine)
                    \/ OnCapability(k)

(* The steps of a call go on, its deadline passes, and DisposeAll goes on: a
   process that is sent SIGTERM is taken to exit, which killGroup waits for. *)
LspFairness ==
  /\ WF_lspVars(KillOne)
  /\ \A p \in Call : WF_lspVars(Step(p)) /\ WF_lspVars(Deadline(p))

LspSpec == LspInit /\ [][LspNext]_lspVars /\ LspFairness

-----------------------------------------------------------------------------
(* OneServerPerKey: however many calls touch files at once, a server has at most
   one process for a root. *)
OneServerPerKey ==
  \A k \in Key, p, q \in Call : proc[p][k] = "alive" /\ proc[q][k] = "alive" => p = q

(* NoProcessLeaks: a live server is published, in the hands of the call that is
   spawning it, or about to be killed by DisposeAll. *)
NoProcessLeaks ==
  \A p \in Call, k \in Key : proc[p][k] = "alive" =>
    \/ running[k] = p
    \/ at[p] = k /\ pc[p] \in {"shake", "settle"}
    \/ <<p, k>> \in killing

(* BrokenIsFinal: a server that failed is not started again, not even by a call
   that was already past its checks when it failed. *)
BrokenIsFinal ==
  \A k \in broken : /\ running[k] = None /\ spawning[k] = None
                    /\ \A p \in Call : proc[p][k] # "alive"

(* NoMissedPush: a call that is blocked on a signal that is still open has not
   been passed over by a push for its file. *)
NoMissedPush ==
  \A p \in Call : pw[p] = "blocked" /\ sig[p] = pushes[at[p]]
                    => published[at[p]] <= started[p]

(* Why they hold.  The entry of spawning belongs to the call that is between
   taking it and settling it; a key is spawned, published, broken or killed by
   DisposeAll one at a time, and only a service that is not disposed publishes;
   the waiting goroutines exist while their call waits. *)
SpawnIsOwned ==
  \A p \in Call, k \in Key :
    spawning[k] = p <=> at[p] = k /\ pc[p] \in {"spawn", "shake", "settle", "failed"}

KeysAreDisjoint ==
  \A k \in Key :
    /\ spawning[k] # None => running[k] = None /\ k \notin broken
    /\ disposed => running[k] = None
    /\ \A p, q \in Call :
         <<p, k>> \in killing =>
           disposed /\ spawning[k] = None /\ (<<q, k>> \in killing => p = q)

WaitersWatch ==
  /\ \A p \in Call : pw[p] # "off" => pc[p] = "watch"
  /\ \A p \in Call : pw[p] = "blocked" => sig[p] <= pushes[at[p]]
  /\ \A k \in Key : published[k] <= pushes[k]

(* What every call, push and dispose keeps. *)
LspInv ==
  /\ LspTypeOK
  /\ OneServerPerKey /\ NoProcessLeaks /\ BrokenIsFinal /\ NoMissedPush
  /\ SpawnIsOwned /\ KeysAreDisjoint /\ WaitersWatch

(* DisposeKillsAll: after DisposeAll no server lives on, also not one that was
   being spawned. *)
DisposeKillsAll ==
  <>[](disposed => \A p \in Call, k \in Key : proc[p][k] # "alive")

(* TouchEnds: every TouchFile returns, joined spawns that fail, servers that die
   and registrations that come and go included. *)
TouchEnds == []<>(\A p \in Call : pc[p] \in {"idle", "done"})
=============================================================================
