----------------------------- MODULE LspProofs ------------------------------
(***************************************************************************)
(* Safety of the language servers of an instance, for any number of        *)
(* servers and of calls that touch files at once.  The invariant has three *)
(* parts that are kept apart: the types, what the service and its spawning *)
(* calls agree on, and what the waiting goroutines know of the pushes.     *)
(***************************************************************************)
EXTENDS Lsp, TLAPS

(* That a server runs once for a root follows from the other parts. *)
Servers == NoProcessLeaks /\ BrokenIsFinal /\ SpawnIsOwned /\ KeysAreDisjoint
Waiters == NoMissedPush /\ WaitersWatch

(* Where a call is that holds an entry of spawning. *)
SpawnPlace == {"spawn", "shake", "settle", "failed"}

(* The service starts without servers and without calls. *)
LEMMA LspInitInv == LspInit => LspInv
<1> SUFFICES ASSUME LspInit PROVE LspInv
  OBVIOUS
<1>1. /\ disposed \in BOOLEAN /\ broken \subseteq Key /\ killing \subseteq Call \X Key
      /\ running \in [Key -> Call \cup {None}] /\ spawning \in [Key -> Call \cup {None}]
      /\ so \in [Key -> {"none", "open", "ok", "err"}]
      /\ proc \in [Call -> [Key -> Process]]
  BY DEF LspInit, Process
<1>2. pc \in [Call -> Place] /\ at \in [Call -> Key] /\ todo \in [Call -> SUBSET Key]
  BY DEF LspInit, Place
<1>3. /\ pull \in [Key -> BOOLEAN] /\ pushes \in [Key -> 0 .. MaxPush]
      /\ published \in [Key -> 0 .. MaxPush] /\ regs \in [Key -> 0 .. MaxReg]
  BY LspAssumption DEF LspInit
<1>4. /\ started \in [Call -> 0 .. MaxPush] /\ sig \in [Call -> 0 .. MaxPush]
      /\ pw \in [Call -> {"off", "read", "blocked", "fresh"}]
      /\ rw \in [Call -> {"off", "read", "blocked"}] /\ rsig \in [Call -> 0 .. MaxReg]
  BY LspAssumption DEF LspInit
<1>5. OneServerPerKey /\ NoProcessLeaks /\ BrokenIsFinal
  BY DEF LspInit, OneServerPerKey, NoProcessLeaks, BrokenIsFinal
<1>6. SpawnIsOwned
  BY LspAssumption DEF LspInit, SpawnIsOwned
<1>7. KeysAreDisjoint
  BY DEF LspInit, KeysAreDisjoint
<1>8. NoMissedPush /\ WaitersWatch
  BY DEF LspInit, NoMissedPush, WaitersWatch
<1> QED
  BY <1>1, <1>2, <1>3, <1>4, <1>5, <1>6, <1>7, <1>8 DEF LspInv, LspTypeOK

-----------------------------------------------------------------------------
(* The steps of a call that start, join or settle servers, or open the file. *)
LEMMA SpawnStepTypes ==
  ASSUME LspTypeOK, NEW p \in Call,
         \/ Touch(p) \/ (\E k \in Key : EnsureOne(p, k)) \/ Joined(p) \/ Spawn(p)
         \/ Handshake(p) \/ Settle(p) \/ ClientsForFile(p) \/ NextClient(p) \/ Open(p)
  PROVE  LspTypeOK'
<1>1. pc \in [Call -> Place] /\ at \in [Call -> Key] /\ todo \in [Call -> SUBSET Key]
  BY DEF LspTypeOK
<1>2. /\ running \in [Key -> Call \cup {None}] /\ spawning \in [Key -> Call \cup {None}]
      /\ so \in [Key -> {"none", "open", "ok", "err"}]
      /\ proc \in [Call -> [Key -> Process]] /\ broken \subseteq Key
      /\ started \in [Call -> 0 .. MaxPush] /\ pushes \in [Key -> 0 .. MaxPush]
  BY DEF LspTypeOK
<1>3. \A w \in Place : Goto(p, w) => pc' \in [Call -> Place]
  BY <1>1 DEF Goto
<1>4. ASSUME NEW k \in Key, ToKey(p, k)
      PROVE  at' \in [Call -> Key] /\ todo' \in [Call -> SUBSET Key]
  BY <1>1, <1>4 DEF ToKey
<1>5. at[p] \in Key
  BY <1>1
<1>6. ASSUME NEW ps, Kill(ps) PROVE proc' \in [Call -> [Key -> Process]]
  BY <1>2, <1>6 DEF Kill, Process
<1> USE DEF serviceVars, clientVars, waitVars
<1>11. CASE Touch(p)
  <2>1. pc' \in [Call -> Place]
    BY <1>1, <1>3, <1>11 DEF Touch, Place
  <2>2. todo' \in [Call -> SUBSET Key]
    BY <1>1, <1>11 DEF Touch
  <2> QED
    BY <1>11, <2>1, <2>2 DEF Touch, LspTypeOK
<1>12. ASSUME NEW k \in Key, EnsureOne(p, k) PROVE LspTypeOK'
  <2>1. pc' \in [Call -> Place]
    BY <1>1, <1>3, <1>12 DEF EnsureOne, Place
  <2>2. spawning' \in [Key -> Call \cup {None}] /\ so' \in [Key -> {"none", "open", "ok", "err"}]
    BY <1>2, <1>12 DEF EnsureOne
  <2>3. at' \in [Call -> Key] /\ todo' \in [Call -> SUBSET Key]
    BY <1>4, <1>12 DEF EnsureOne
  <2> QED
    BY <1>12, <2>1, <2>2, <2>3 DEF EnsureOne, LspTypeOK
<1>13. CASE Joined(p)
  <2>1. pc' \in [Call -> Place]
    BY <1>3, <1>13 DEF Joined, Place
  <2> QED
    BY <1>13, <2>1 DEF Joined, LspTypeOK
<1>14. CASE Spawn(p)
  <2>1. pc' \in [Call -> Place]
    BY <1>3, <1>14 DEF Spawn, Place
  <2>2. proc' \in [Call -> [Key -> Process]]
    <3>1. [proc[p] EXCEPT ![at[p]] = "alive"] \in [Key -> Process]
      BY <1>2, <1>5 DEF Process
    <3>2. UNCHANGED proc \/ proc' = [proc EXCEPT ![p] = [proc[p] EXCEPT ![at[p]] = "alive"]]
      BY <1>14 DEF Spawn
    <3> QED
      BY <1>2, <3>1, <3>2
  <2> QED
    BY <1>14, <2>1, <2>2 DEF Spawn, LspTypeOK
<1>15. CASE Handshake(p)
  <2>1. pc' \in [Call -> Place]
    BY <1>3, <1>15 DEF Handshake, Place
  <2>2. proc' \in [Call -> [Key -> Process]]
    BY <1>2, <1>6, <1>15 DEF Handshake
  <2> QED
    BY <1>15, <2>1, <2>2 DEF Handshake, LspTypeOK
<1>16. CASE Settle(p)
  <2>1. pc' \in [Call -> Place]
    BY <1>3, <1>16 DEF Settle, Place
  <2>2. proc' \in [Call -> [Key -> Process]]
    BY <1>2, <1>6, <1>16 DEF Settle
  <2>3. spawning' \in [Key -> Call \cup {None}]
    BY <1>2, <1>5, <1>16 DEF Settle
  <2>4. running' \in [Key -> Call \cup {None}]
    BY <1>2, <1>5, <1>16 DEF Settle
  <2>5. so' \in [Key -> {"none", "open", "ok", "err"}] /\ broken' \subseteq Key
    BY <1>2, <1>5, <1>16 DEF Settle
  <2> QED
    BY <1>16, <2>1, <2>2, <2>3, <2>4, <2>5 DEF Settle, LspTypeOK
<1>17. CASE ClientsForFile(p)
  <2>1. pc' \in [Call -> Place]
    BY <1>3, <1>17 DEF ClientsForFile, Place
  <2>2. todo' \in [Call -> SUBSET Key]
    BY <1>1, <1>17 DEF ClientsForFile
  <2> QED
    BY <1>17, <2>1, <2>2 DEF ClientsForFile, LspTypeOK
<1>18. CASE NextClient(p)
  <2>1. pc' \in [Call -> Place]
    BY <1>3, <1>18 DEF NextClient, Place
  <2>2. at' \in [Call -> Key] /\ todo' \in [Call -> SUBSET Key]
    BY <1>1, <1>4, <1>18 DEF NextClient
  <2> QED
    BY <1>18, <2>1, <2>2 DEF NextClient, LspTypeOK
<1>19. CASE Open(p)
  <2>1. pc' \in [Call -> Place]
    BY <1>3, <1>19 DEF Open, Place
  <2>2. started' \in [Call -> 0 .. MaxPush]
    BY <1>2, <1>5, <1>19 DEF Open
  <2> QED
    BY <1>19, <2>1, <2>2 DEF Open, LspTypeOK
<1> QED
  BY <1>11, <1>12, <1>13, <1>14, <1>15, <1>16, <1>17, <1>18, <1>19

(* The steps of a call that waits for diagnostics. *)
LEMMA WaitStepTypes ==
  ASSUME LspTypeOK, NEW p \in Call,
         \/ Pull(p) \/ ReadPush(p) \/ WakePush(p) \/ ReadReg(p)
         \/ PushSettles(p) \/ RegChanges(p) \/ Deadline(p)
  PROVE  LspTypeOK'
<1>1. /\ pc \in [Call -> Place] /\ at \in [Call -> Key]
      /\ pushes \in [Key -> 0 .. MaxPush] /\ regs \in [Key -> 0 .. MaxReg]
      /\ sig \in [Call -> 0 .. MaxPush] /\ rsig \in [Call -> 0 .. MaxReg]
      /\ pw \in [Call -> {"off", "read", "blocked", "fresh"}]
      /\ rw \in [Call -> {"off", "read", "blocked"}]
  BY DEF LspTypeOK
<1>2. \A w \in Place : Goto(p, w) => pc' \in [Call -> Place]
  BY <1>1 DEF Goto
<1>3. pushes[at[p]] \in 0 .. MaxPush /\ regs[at[p]] \in 0 .. MaxReg
  BY <1>1
<1> USE DEF serviceVars, touchVars, clientVars, waitVars
<1>4. CASE Pull(p)
  <2>1. pc' \in [Call -> Place]
    BY <1>2, <1>4 DEF Pull, Place
  <2>2. /\ pw' \in [Call -> {"off", "read", "blocked", "fresh"}]
        /\ rw' \in [Call -> {"off", "read", "blocked"}]
    BY <1>1, <1>4 DEF Pull
  <2> QED
    BY <1>4, <2>1, <2>2 DEF Pull, LspTypeOK
<1>5. CASE ReadPush(p)
  <2>1. /\ pw' \in [Call -> {"off", "read", "blocked", "fresh"}]
        /\ sig' \in [Call -> 0 .. MaxPush]
    BY <1>1, <1>3, <1>5 DEF ReadPush
  <2> QED
    BY <1>5, <2>1 DEF ReadPush, LspTypeOK
<1>6. CASE WakePush(p)
  <2>1. pw' \in [Call -> {"off", "read", "blocked", "fresh"}]
    BY <1>1, <1>6 DEF WakePush
  <2> QED
    BY <1>6, <2>1 DEF WakePush, LspTypeOK
<1>7. CASE ReadReg(p)
  <2>1. rw' \in [Call -> {"off", "read", "blocked"}] /\ rsig' \in [Call -> 0 .. MaxReg]
    BY <1>1, <1>3, <1>7 DEF ReadReg
  <2> QED
    BY <1>7, <2>1 DEF ReadReg, LspTypeOK
<1>8. ASSUME NEW w \in Place, Leaves(p, w) PROVE LspTypeOK'
  <2>1. pc' \in [Call -> Place]
    BY <1>2, <1>8 DEF Leaves
  <2>2. /\ pw' \in [Call -> {"off", "read", "blocked", "fresh"}]
        /\ rw' \in [Call -> {"off", "read", "blocked"}]
    BY <1>1, <1>8 DEF Leaves
  <2>3. sig' \in [Call -> 0 .. MaxPush] /\ rsig' \in [Call -> 0 .. MaxReg]
    BY <1>1, <1>8, LspAssumption DEF Leaves
  <2> QED
    BY <1>8, <2>1, <2>2, <2>3 DEF Leaves, LspTypeOK
<1> QED
  BY <1>4, <1>5, <1>6, <1>7, <1>8 DEF PushSettles, RegChanges, Deadline, Place

(* DisposeAll, dying servers and notifications. *)
LEMMA OtherStepTypes ==
  ASSUME LspTypeOK,
         \/ DisposeAll \/ KillOne
         \/ \E p \in Call, k \in Key : ServerDies(p, k)
         \/ \E k \in Key : OnCapability(k) \/ \E mine \in BOOLEAN : OnPublishDiagnostics(k, mine)
  PROVE  LspTypeOK'
<1>1. /\ running \in [Key -> Call \cup {None}] /\ proc \in [Call -> [Key -> Process]]
      /\ killing \subseteq Call \X Key /\ pull \in [Key -> BOOLEAN]
      /\ pushes \in [Key -> 0 .. MaxPush] /\ published \in [Key -> 0 .. MaxPush]
      /\ regs \in [Key -> 0 .. MaxReg]
  BY DEF LspTypeOK
<1> USE DEF serviceVars, touchVars, clientVars, waitVars
<1>2. CASE DisposeAll
  <2>1. killing' \subseteq Call \X Key /\ running' \in [Key -> Call \cup {None}]
    BY <1>1, <1>2 DEF DisposeAll
  <2> QED
    BY <1>2, <2>1 DEF DisposeAll, LspTypeOK
<1>3. CASE KillOne
  <2>1. proc' \in [Call -> [Key -> Process]] /\ killing' \subseteq Call \X Key
    BY <1>1, <1>3 DEF KillOne, Kill, Process
  <2> QED
    BY <1>3, <2>1 DEF KillOne, LspTypeOK
<1>4. ASSUME NEW p \in Call, NEW k \in Key, ServerDies(p, k) PROVE LspTypeOK'
  <2>1. proc' \in [Call -> [Key -> Process]]
    BY <1>1, <1>4 DEF ServerDies, Process
  <2> QED
    BY <1>4, <2>1 DEF ServerDies, LspTypeOK
<1>5. ASSUME NEW k \in Key, OnCapability(k) PROVE LspTypeOK'
  <2>1. pull' \in [Key -> BOOLEAN] /\ regs' \in [Key -> 0 .. MaxReg]
    BY <1>1, <1>5, LspAssumption DEF OnCapability
  <2> QED
    BY <1>5, <2>1 DEF OnCapability, LspTypeOK
<1>6. ASSUME NEW k \in Key, NEW mine \in BOOLEAN, OnPublishDiagnostics(k, mine)
      PROVE  LspTypeOK'
  <2>1. pushes' \in [Key -> 0 .. MaxPush] /\ published' \in [Key -> 0 .. MaxPush]
    BY <1>1, <1>6, LspAssumption DEF OnPublishDiagnostics
  <2> QED
    BY <1>6, <2>1 DEF OnPublishDiagnostics, LspTypeOK
<1> QED
  BY <1>2, <1>3, <1>4, <1>5, <1>6

-----------------------------------------------------------------------------
(* Who has a live process is published, spawning or on DisposeAll's list, and a
   key is in one of these states for one call at a time. *)
LEMMA ServersAreSingle ==
  ASSUME LspTypeOK', Servers'
  PROVE  OneServerPerKey'
<1> SUFFICES ASSUME NEW k \in Key, NEW p \in Call, NEW q \in Call,
                    proc'[p][k] = "alive", proc'[q][k] = "alive"
             PROVE  p = q
  BY DEF OneServerPerKey
<1>1. \A r \in Call : proc'[r][k] = "alive" =>
        running'[k] = r \/ spawning'[k] = r \/ <<r, k>> \in killing'
  BY DEF Servers, NoProcessLeaks, SpawnIsOwned
<1>2. \A r \in Call : <<r, k>> \in killing' => running'[k] = None /\ spawning'[k] = None
  BY DEF Servers, KeysAreDisjoint
<1>3. \A r \in Call : r # None
  BY LspAssumption
<1>4. spawning'[k] # None => running'[k] = None
  BY DEF Servers, KeysAreDisjoint
<1>5. <<p, k>> \in killing' /\ <<q, k>> \in killing' => p = q
  BY DEF Servers, KeysAreDisjoint
<1> QED
  BY <1>1, <1>2, <1>3, <1>4, <1>5

(* A call moves that neither holds nor takes an entry of spawning. *)
LEMMA MoveServers ==
  ASSUME Servers, NEW p \in Call,
         UNCHANGED <<disposed, running, broken, spawning, proc, killing>>,
         pc[p] \notin SpawnPlace, pc'[p] \notin SpawnPlace,
         \A q \in Call \ {p} : pc'[q] = pc[q] /\ at'[q] = at[q]
  PROVE  Servers'
<1>1. NoProcessLeaks'
  BY DEF Servers, NoProcessLeaks, SpawnPlace
<1>2. BrokenIsFinal' /\ KeysAreDisjoint'
  BY DEF Servers, BrokenIsFinal, KeysAreDisjoint
<1>3. SpawnIsOwned'
  BY DEF Servers, SpawnIsOwned, SpawnPlace
<1> QED
  BY <1>1, <1>2, <1>3 DEF Servers

(* ensureOne takes the entry of a key that nobody has (service.go:203-216). *)
LEMMA TakeServers ==
  ASSUME LspTypeOK, Servers, NEW p \in Call, NEW k \in Key, EnsureOne(p, k), pc'[p] = "spawn"
  PROVE  Servers'
<1>0. pc \in [Call -> Place] /\ at \in [Call -> Key] /\ spawning \in [Key -> Call \cup {None}]
  BY DEF LspTypeOK
<1>1. /\ pc[p] = "ensure" /\ ~disposed /\ k \notin broken
      /\ running[k] = None /\ spawning[k] = None
      /\ spawning' = [spawning EXCEPT ![k] = p] /\ pc' = [pc EXCEPT ![p] = "spawn"]
      /\ at' = [at EXCEPT ![p] = k]
      /\ UNCHANGED <<disposed, running, broken, proc, killing>>
  BY <1>0 DEF EnsureOne, Goto, ToKey
<1>2. /\ \A q \in Call \ {p} : pc'[q] = pc[q] /\ at'[q] = at[q]
      /\ at'[p] = k /\ pc'[p] = "spawn"
      /\ spawning'[k] = p /\ \A j \in Key \ {k} : spawning'[j] = spawning[j]
  BY <1>0, <1>1
<1>3. NoProcessLeaks'
  BY <1>1, <1>2 DEF Servers, NoProcessLeaks
<1>4. SpawnIsOwned'
  BY <1>1, <1>2, LspAssumption DEF Servers, SpawnIsOwned
<1>5. BrokenIsFinal'
  BY <1>1, <1>2 DEF Servers, BrokenIsFinal
<1>6. KeysAreDisjoint'
  BY <1>1, <1>2 DEF Servers, KeysAreDisjoint
<1> QED
  BY <1>3, <1>4, <1>5, <1>6 DEF Servers

(* spawn starts a process for the key its call holds. *)
LEMMA SpawnServers ==
  ASSUME LspTypeOK, Servers, NEW p \in Call, Spawn(p)
  PROVE  Servers'
<1> DEFINE k == at[p]
<1>b. broken \subseteq Key
  BY DEF LspTypeOK
<1>0. /\ pc \in [Call -> Place] /\ at \in [Call -> Key] /\ proc \in [Call -> [Key -> Process]]
      /\ k \in Key
  BY DEF LspTypeOK
<1>1. /\ pc[p] = "spawn" /\ pc'[p] \in {"shake", "failed"}
      /\ \A q \in Call \ {p} : pc'[q] = pc[q]
      /\ UNCHANGED <<disposed, running, broken, spawning, killing, at>>
  BY <1>0 DEF Spawn, Goto, touchVars
<1>2. spawning[k] = p /\ k \notin broken
  BY <1>0, <1>1, LspAssumption DEF Servers, SpawnIsOwned, KeysAreDisjoint
<1>3. \A q \in Call, j \in Key :
        proc'[q][j] = "alive" => proc[q][j] = "alive" \/ (q = p /\ j = k /\ pc'[p] = "shake")
  BY <1>0 DEF Spawn, Goto
<1>4. NoProcessLeaks'
  BY <1>0, <1>1, <1>3 DEF Servers, NoProcessLeaks
<1>5. SpawnIsOwned'
  BY <1>1 DEF Servers, SpawnIsOwned
<1>6. BrokenIsFinal'
  BY <1>b, <1>1, <1>2, <1>3 DEF Servers, BrokenIsFinal
<1>7. KeysAreDisjoint'
  BY <1>1 DEF Servers, KeysAreDisjoint
<1> QED
  BY <1>4, <1>5, <1>6, <1>7 DEF Servers

(* A server that does not shake hands is reaped before its call says so. *)
LEMMA HandshakeServers ==
  ASSUME LspTypeOK, Servers, NEW p \in Call, Handshake(p)
  PROVE  Servers'
<1> DEFINE k == at[p]
<1>b. broken \subseteq Key
  BY DEF LspTypeOK
<1>0. pc \in [Call -> Place] /\ k \in Key
  BY DEF LspTypeOK
<1>1. /\ pc[p] = "shake" /\ pc'[p] \in {"settle", "failed"}
      /\ \A q \in Call \ {p} : pc'[q] = pc[q]
      /\ UNCHANGED <<disposed, running, broken, spawning, killing, at>>
  BY <1>0 DEF Handshake, Goto, touchVars
<1>2. \A q \in Call, j \in Key : proc'[q][j] = "alive" => proc[q][j] = "alive"
  BY DEF Handshake, Kill
<1>3. pc'[p] = "failed" => proc'[p][k] # "alive"
  BY <1>0 DEF Handshake, Kill, Goto
<1>4. NoProcessLeaks'
  BY <1>0, <1>1, <1>2, <1>3 DEF Servers, NoProcessLeaks
<1>5. SpawnIsOwned'
  BY <1>1 DEF Servers, SpawnIsOwned
<1>6. BrokenIsFinal'
  BY <1>b, <1>1, <1>2 DEF Servers, BrokenIsFinal
<1>7. KeysAreDisjoint'
  BY <1>1 DEF Servers, KeysAreDisjoint
<1> QED
  BY <1>4, <1>5, <1>6, <1>7 DEF Servers

(* The result is published, killed or recorded, and the entry is given back. *)
LEMMA SettleServers ==
  ASSUME LspTypeOK, Servers, NEW p \in Call, Settle(p)
  PROVE  Servers'
<1> DEFINE k == at[p]
<1>b. broken \subseteq Key
  BY DEF LspTypeOK
<1>0. /\ pc \in [Call -> Place] /\ k \in Key /\ spawning \in [Key -> Call \cup {None}]
      /\ running \in [Key -> Call \cup {None}]
  BY DEF LspTypeOK
<1>1. /\ pc[p] \in {"settle", "failed"} /\ pc'[p] = "ensure"
      /\ \A q \in Call \ {p} : pc'[q] = pc[q]
      /\ spawning'[k] = None /\ \A j \in Key \ {k} : spawning'[j] = spawning[j]
      /\ UNCHANGED <<disposed, killing, at>>
  BY <1>0 DEF Settle, Goto
<1>2. spawning[k] = p /\ k \notin broken /\ running[k] = None
  BY <1>0, <1>1, LspAssumption DEF Servers, SpawnIsOwned, KeysAreDisjoint
<1>3. SpawnIsOwned'
  BY <1>0, <1>1, <1>2, LspAssumption DEF Servers, SpawnIsOwned
<1>4. ASSUME NEW q \in Call, proc[q][k] = "alive" PROVE q = p /\ pc[p] = "settle"
  <2>1. \/ running[k] = q \/ <<q, k>> \in killing
        \/ at[q] = k /\ pc[q] \in {"shake", "settle"}
    BY <1>0, <1>4 DEF Servers, NoProcessLeaks
  <2>2. running[k] # q
    BY <1>2, LspAssumption
  <2>3. <<q, k>> \notin killing
    BY <1>0, <1>2, LspAssumption DEF Servers, KeysAreDisjoint
  <2>4. at[q] = k /\ pc[q] \in {"shake", "settle"} => spawning[k] = q
    BY <1>0 DEF Servers, SpawnIsOwned
  <2> QED
    BY <1>1, <1>2, <2>1, <2>2, <2>3, <2>4
<1>5. CASE pc[p] = "failed"
  <2>1. broken' = broken \cup {k} /\ UNCHANGED <<running, proc>>
    BY <1>5 DEF Settle
  <2>2. NoProcessLeaks'
    BY <1>1, <1>5, <2>1 DEF Servers, NoProcessLeaks
  <2>3. BrokenIsFinal'
    BY <1>b, <1>0, <1>1, <1>2, <1>4, <1>5, <2>1 DEF Servers, BrokenIsFinal
  <2>4. KeysAreDisjoint'
    BY <1>0, <1>1, <1>2, <2>1 DEF Servers, KeysAreDisjoint
  <2> QED
    BY <1>3, <2>2, <2>3, <2>4 DEF Servers
<1>6. CASE pc[p] = "settle" /\ disposed
  <2>1. Kill({<<p, k>>}) /\ UNCHANGED <<broken, running>>
    BY <1>6 DEF Settle
  <2>2. \A q \in Call, j \in Key :
          proc'[q][j] = "alive" => proc[q][j] = "alive" /\ ~(q = p /\ j = k)
    BY <2>1 DEF Kill
  <2>3. NoProcessLeaks'
    BY <1>0, <1>1, <2>1, <2>2 DEF Servers, NoProcessLeaks
  <2>4. BrokenIsFinal'
    BY <1>b, <1>0, <1>1, <1>2, <2>1, <2>2 DEF Servers, BrokenIsFinal
  <2>5. KeysAreDisjoint'
    BY <1>0, <1>1, <2>1 DEF Servers, KeysAreDisjoint
  <2> QED
    BY <1>3, <2>3, <2>4, <2>5 DEF Servers
<1>7. CASE pc[p] = "settle" /\ ~disposed
  <2>1. running' = [running EXCEPT ![k] = p] /\ UNCHANGED <<broken, proc>>
    BY <1>7 DEF Settle
  <2>2. running'[k] = p /\ \A j \in Key \ {k} : running'[j] = running[j]
    BY <1>0, <2>1
  <2>3. NoProcessLeaks'
    BY <1>0, <1>1, <1>2, <1>4, <2>1, <2>2 DEF Servers, NoProcessLeaks
  <2>4. BrokenIsFinal'
    BY <1>b, <1>0, <1>1, <1>2, <2>1, <2>2 DEF Servers, BrokenIsFinal
  <2>5. KeysAreDisjoint'
    BY <1>0, <1>1, <1>2, <1>7, <2>2, <2>1 DEF Servers, KeysAreDisjoint
  <2> QED
    BY <1>3, <2>3, <2>4, <2>5 DEF Servers
<1> QED
  BY <1>1, <1>5, <1>6, <1>7

(* DisposeAll takes over what is published. *)
LEMMA DisposeServers ==
  ASSUME LspTypeOK, Servers, DisposeAll
  PROVE  Servers'
<1>b. broken \subseteq Key
  BY DEF LspTypeOK
<1>0. running \in [Key -> Call \cup {None}]
  BY DEF LspTypeOK
<1>1. /\ disposed' /\ ~disposed /\ UNCHANGED <<broken, spawning, proc, pc, at>>
      /\ \A k \in Key : running'[k] = None
  BY DEF DisposeAll, touchVars
<1>2. \A p \in Call, k \in Key : <<p, k>> \in killing' <=> running[k] = p
  BY <1>0, LspAssumption DEF DisposeAll
<1>3. NoProcessLeaks'
  BY <1>1, <1>2 DEF Servers, NoProcessLeaks, KeysAreDisjoint
<1>4. SpawnIsOwned'
  BY <1>1 DEF Servers, SpawnIsOwned
<1>5. BrokenIsFinal'
  BY <1>b, <1>1 DEF Servers, BrokenIsFinal
<1>6. KeysAreDisjoint'
  BY <1>1, <1>2, LspAssumption DEF Servers, KeysAreDisjoint
<1> QED
  BY <1>3, <1>4, <1>5, <1>6 DEF Servers

(* A process that ends, killed or by itself, is owned by nobody. *)
LEMMA EndServers ==
  ASSUME LspTypeOK, Servers, KillOne \/ \E p \in Call, k \in Key : ServerDies(p, k)
  PROVE  Servers'
<1>b. broken \subseteq Key
  BY DEF LspTypeOK
<1>1. proc \in [Call -> [Key -> Process]]
  BY DEF LspTypeOK
<1>2. UNCHANGED <<disposed, running, broken, spawning, pc, at>> /\ killing' \subseteq killing
  BY DEF KillOne, ServerDies, touchVars
<1>3. \A q \in Call, j \in Key :
        proc'[q][j] = "alive" =>
          proc[q][j] = "alive" /\ (<<q, j>> \in killing => <<q, j>> \in killing')
  <2>1. CASE KillOne
    BY <2>1 DEF KillOne, Kill
  <2>2. ASSUME NEW p \in Call, NEW k \in Key, ServerDies(p, k)
        PROVE  \A q \in Call, j \in Key : proc'[q][j] = "alive" => proc[q][j] = "alive"
    BY <1>1, <2>2 DEF ServerDies
  <2>3. ASSUME NEW p \in Call, NEW k \in Key, ServerDies(p, k) PROVE killing' = killing
    BY <2>3 DEF ServerDies
  <2> QED
    BY <2>1, <2>2, <2>3
<1>4. NoProcessLeaks'
  BY <1>2, <1>3 DEF Servers, NoProcessLeaks
<1>5. SpawnIsOwned'
  BY <1>2 DEF Servers, SpawnIsOwned
<1>6. BrokenIsFinal'
  BY <1>b, <1>2, <1>3 DEF Servers, BrokenIsFinal
<1>7. KeysAreDisjoint'
  BY <1>2 DEF Servers, KeysAreDisjoint
<1> QED
  BY <1>4, <1>5, <1>6, <1>7 DEF Servers

(* What a call does to the servers. *)
LEMMA CallStepServers ==
  ASSUME LspTypeOK, LspTypeOK', Servers, NEW p \in Call, Touch(p) \/ Step(p) \/ Deadline(p)
  PROVE  Servers'
<1>1. pc \in [Call -> Place] /\ at \in [Call -> Key]
  BY DEF LspTypeOK
<1>2. ASSUME pc[p] \notin SpawnPlace, pc'[p] \notin SpawnPlace,
             UNCHANGED <<disposed, running, broken, spawning, proc, killing>>,
             (\E w : pc' = [pc EXCEPT ![p] = w]) \/ UNCHANGED pc,
             (\E k : at' = [at EXCEPT ![p] = k]) \/ UNCHANGED at
      PROVE  Servers'
  <2>1. \A q \in Call \ {p} : pc'[q] = pc[q] /\ at'[q] = at[q]
    BY <1>1, <1>2
  <2> QED
    BY <1>2, <2>1, MoveServers
<1> USE DEF serviceVars, touchVars, clientVars, waitVars, Goto
<1>3. CASE Touch(p)
  BY <1>1, <1>2, <1>3 DEF Touch, SpawnPlace
<1>4. ASSUME NEW k \in Key, EnsureOne(p, k) PROVE Servers'
  <2>1. CASE pc'[p] = "spawn"
    BY <1>4, <2>1, TakeServers
  <2>2. CASE pc'[p] # "spawn"
    <3>1. /\ pc' = [pc EXCEPT ![p] = "join"] \/ UNCHANGED pc
          /\ UNCHANGED <<disposed, running, broken, spawning, proc, killing>>
          /\ pc[p] = "ensure" /\ at' = [at EXCEPT ![p] = k]
      BY <1>1, <1>4, <2>2 DEF EnsureOne, ToKey
    <3> QED
      BY <1>1, <1>2, <3>1 DEF SpawnPlace
  <2> QED
    BY <2>1, <2>2
<1>5. CASE Joined(p) \/ ClientsForFile(p)
  BY <1>1, <1>2, <1>5 DEF Joined, ClientsForFile, SpawnPlace
<1>6. CASE NextClient(p)
  BY <1>1, <1>2, <1>6 DEF NextClient, ToKey, SpawnPlace
<1>7. CASE Open(p) \/ Pull(p)
  BY <1>1, <1>2, <1>7 DEF Open, Pull, SpawnPlace
<1>8. CASE ReadPush(p) \/ WakePush(p) \/ ReadReg(p)
  BY <1>1, <1>2, <1>8 DEF ReadPush, WakePush, ReadReg, SpawnPlace
<1>9. CASE PushSettles(p) \/ RegChanges(p) \/ Deadline(p)
  BY <1>1, <1>2, <1>9 DEF PushSettles, RegChanges, Deadline, Leaves, SpawnPlace
<1> QED
  BY <1>3, <1>4, <1>5, <1>6, <1>7, <1>8, <1>9, SpawnServers, HandshakeServers, SettleServers
     DEF Step

-----------------------------------------------------------------------------
(* A call that does not wait, and does not begin to, moves: no waiter is
   concerned. *)
LEMMA MoveWaiters ==
  ASSUME Waiters, NEW p \in Call, pc[p] # "watch",
         UNCHANGED <<pushes, published, pw, sig>>,
         \A q \in Call \ {p} : pc'[q] = pc[q] /\ at'[q] = at[q] /\ started'[q] = started[q]
  PROVE  Waiters'
<1>1. pw[p] = "off"
  BY DEF Waiters, WaitersWatch
<1>2. NoMissedPush'
  BY <1>1 DEF Waiters, NoMissedPush
<1>3. WaitersWatch'
  BY <1>1 DEF Waiters, WaitersWatch
<1> QED
  BY <1>2, <1>3 DEF Waiters

(* No step before the wait changes what a waiter has seen. *)
LEMMA SpawnStepWaiters ==
  ASSUME LspTypeOK, Waiters, NEW p \in Call,
         \/ Touch(p) \/ (\E k \in Key : EnsureOne(p, k)) \/ Joined(p) \/ Spawn(p)
         \/ Handshake(p) \/ Settle(p) \/ ClientsForFile(p) \/ NextClient(p) \/ Open(p)
  PROVE  Waiters'
<1>1. pc \in [Call -> Place] /\ at \in [Call -> Key] /\ started \in [Call -> 0 .. MaxPush]
  BY DEF LspTypeOK
<1>2. pc[p] # "watch" /\ UNCHANGED <<pushes, published, pw, sig>>
  BY DEF Touch, EnsureOne, Joined, Spawn, Handshake, Settle, ClientsForFile, NextClient, Open,
         clientVars, waitVars
<1>3. (\E w \in Place : Goto(p, w)) \/ UNCHANGED pc
  BY DEF Touch, EnsureOne, Joined, Spawn, Handshake, Settle, ClientsForFile, NextClient, Open,
         Place
<1>4. (\E k : at' = [at EXCEPT ![p] = k]) \/ UNCHANGED at
  <2>1. CASE \E k \in Key : EnsureOne(p, k)
    BY <2>1 DEF EnsureOne, ToKey
  <2>2. CASE NextClient(p)
    BY <2>2 DEF NextClient, ToKey
  <2> QED
    BY <2>1, <2>2 DEF Touch, Joined, Spawn, Handshake, Settle, ClientsForFile, Open, touchVars
<1>5. (\E s : started' = [started EXCEPT ![p] = s]) \/ UNCHANGED started
  BY DEF Touch, EnsureOne, Joined, Spawn, Handshake, Settle, ClientsForFile, NextClient, Open,
         waitVars
<1>6. ASSUME NEW q \in Call \ {p} PROVE pc'[q] = pc[q] /\ at'[q] = at[q] /\ started'[q] = started[q]
  BY <1>1, <1>3, <1>4, <1>5 DEF Goto
<1> QED
  BY <1>2, <1>6, MoveWaiters

(* Reading the last push and the signal under one lock, a waiter blocks only on
   a signal that the next push will close (client.go:560). *)
LEMMA WaitStepWaiters ==
  ASSUME LspTypeOK, Waiters, NEW p \in Call,
         \/ Pull(p) \/ ReadPush(p) \/ WakePush(p) \/ ReadReg(p)
         \/ PushSettles(p) \/ RegChanges(p) \/ Deadline(p)
  PROVE  Waiters'
<1>1. /\ pc \in [Call -> Place] /\ at \in [Call -> Key]
      /\ pushes \in [Key -> 0 .. MaxPush] /\ published \in [Key -> 0 .. MaxPush]
      /\ started \in [Call -> 0 .. MaxPush] /\ sig \in [Call -> 0 .. MaxPush]
      /\ pw \in [Call -> {"off", "read", "blocked", "fresh"}]
  BY DEF LspTypeOK
<1>2. pushes[at[p]] \in Nat /\ published[at[p]] \in Nat /\ started[p] \in Nat
  BY <1>1, LspAssumption
<1>3. UNCHANGED <<at, pushes, published, started>>
  BY DEF Pull, ReadPush, WakePush, ReadReg, PushSettles, RegChanges, Deadline, Leaves,
         touchVars, clientVars, waitVars
<1>4. CASE Pull(p)
  <2>1. \/ pc' = [pc EXCEPT ![p] = "clients"] /\ UNCHANGED <<pw, sig>>
        \/ /\ pc' = [pc EXCEPT ![p] = "watch"] /\ pw' = [pw EXCEPT ![p] = "read"]
           /\ UNCHANGED sig
    BY <1>4 DEF Pull, Goto, waitVars
  <2>2. pc[p] = "pull"
    BY <1>4 DEF Pull
  <2>3. pw[p] = "off"
    BY <2>2 DEF Waiters, WaitersWatch
  <2>4. /\ pw'[p] # "blocked" /\ (pw'[p] # "off" => pc'[p] = "watch")
        /\ \A q \in Call \ {p} : pc'[q] = pc[q] /\ pw'[q] = pw[q] /\ sig'[q] = sig[q]
    BY <1>1, <2>1, <2>3
  <2> QED
    BY <1>3, <2>4 DEF Waiters, NoMissedPush, WaitersWatch
<1>5. CASE ReadPush(p)
  <2>1. /\ pc[p] = "watch" /\ UNCHANGED pc
        /\ \A q \in Call \ {p} : pw'[q] = pw[q] /\ sig'[q] = sig[q]
    BY <1>1, <1>5 DEF ReadPush, touchVars
  <2>2. \/ pw'[p] = "fresh"
        \/ /\ pw'[p] = "blocked" /\ sig'[p] = pushes[at[p]]
           /\ ~(published[at[p]] > started[p])
    BY <1>1, <1>5 DEF ReadPush
  <2> QED
    BY <1>2, <1>3, <2>1, <2>2 DEF Waiters, NoMissedPush, WaitersWatch
<1>6. CASE WakePush(p)
  <2>1. /\ pc[p] = "watch" /\ UNCHANGED <<pc, sig>> /\ pw'[p] = "read"
        /\ \A q \in Call \ {p} : pw'[q] = pw[q]
    BY <1>1, <1>6 DEF WakePush, touchVars
  <2> QED
    BY <1>3, <2>1 DEF Waiters, NoMissedPush, WaitersWatch
<1>7. CASE ReadReg(p)
  <2>1. UNCHANGED <<pc, pw, sig>>
    BY <1>7 DEF ReadReg, touchVars
  <2> QED
    BY <1>3, <2>1 DEF Waiters, NoMissedPush, WaitersWatch
<1>8. ASSUME NEW w \in Place, Leaves(p, w) PROVE Waiters'
  <2>1. /\ pw'[p] = "off"
        /\ \A q \in Call \ {p} : pc'[q] = pc[q] /\ pw'[q] = pw[q] /\ sig'[q] = sig[q]
    BY <1>1, <1>8 DEF Leaves, Goto
  <2> QED
    BY <1>3, <2>1 DEF Waiters, NoMissedPush, WaitersWatch
<1> QED
  BY <1>4, <1>5, <1>6, <1>7, <1>8 DEF PushSettles, RegChanges, Deadline, Place

(* A push closes the signal of everybody who waits for it. *)
LEMMA OtherStepWaiters ==
  ASSUME LspTypeOK, Waiters,
         \/ DisposeAll \/ KillOne
         \/ \E p \in Call, k \in Key : ServerDies(p, k)
         \/ \E k \in Key : OnCapability(k) \/ \E mine \in BOOLEAN : OnPublishDiagnostics(k, mine)
  PROVE  Waiters'
<1>1. CASE UNCHANGED <<pc, at, pushes, published, started, pw, sig>>
  BY <1>1 DEF Waiters, NoMissedPush, WaitersWatch
<1>2. ASSUME NEW k \in Key, NEW mine \in BOOLEAN, OnPublishDiagnostics(k, mine) PROVE Waiters'
  <2>1. /\ pushes \in [Key -> 0 .. MaxPush] /\ published \in [Key -> 0 .. MaxPush]
        /\ sig \in [Call -> 0 .. MaxPush] /\ at \in [Call -> Key]
    BY DEF LspTypeOK
  <2>2. UNCHANGED <<pc, at, started, pw, sig>>
    BY <1>2 DEF OnPublishDiagnostics, touchVars, waitVars
  <2>3. /\ pushes'[k] = pushes[k] + 1 /\ published'[k] \in {published[k], pushes[k] + 1}
        /\ \A j \in Key \ {k} : pushes'[j] = pushes[j] /\ published'[j] = published[j]
    BY <1>2, <2>1 DEF OnPublishDiagnostics
  <2>4. ASSUME NEW j \in Key PROVE pushes[j] \in Nat /\ published[j] \in Nat
    BY <2>1, LspAssumption
  <2>5. ASSUME NEW q \in Call PROVE sig[q] \in Nat /\ at[q] \in Key
    BY <2>1, LspAssumption
  <2>6. WaitersWatch'
    BY <2>2, <2>3, <2>4, <2>5 DEF Waiters, WaitersWatch
  <2>7. ASSUME NEW q \in Call, pw[q] = "blocked", sig[q] = pushes'[at[q]]
        PROVE  published'[at[q]] <= started[q]
    <3>1. at[q] # k
      BY <2>3, <2>4, <2>5, <2>7 DEF Waiters, WaitersWatch
    <3> QED
      BY <2>3, <2>5, <2>7, <3>1 DEF Waiters, NoMissedPush
  <2>8. NoMissedPush'
    BY <2>2, <2>7 DEF NoMissedPush
  <2> QED
    BY <2>6, <2>8 DEF Waiters
<1> QED
  BY <1>1, <1>2 DEF DisposeAll, KillOne, ServerDies, OnCapability, touchVars, clientVars, waitVars

-----------------------------------------------------------------------------
(* A notification concerns no server. *)
LEMMA NotificationServers ==
  ASSUME Servers, NEW k \in Key,
         OnCapability(k) \/ \E mine \in BOOLEAN : OnPublishDiagnostics(k, mine)
  PROVE  Servers'
<1>1. UNCHANGED <<disposed, running, broken, spawning, proc, killing, pc, at>>
  BY DEF OnCapability, OnPublishDiagnostics, serviceVars, touchVars
<1> QED
  BY <1>1 DEF Servers, NoProcessLeaks, BrokenIsFinal, SpawnIsOwned, KeysAreDisjoint

(* However calls, spawns, deaths and the dispose of the service interleave, the
   invariant of the language servers holds (service.go:170-260). *)
THEOREM LspInvariant == LspSpec => []LspInv
<1>1. LspInit => LspInv
  BY LspInitInv
<1>2. LspInv /\ [LspNext]_lspVars => LspInv'
  <2> SUFFICES ASSUME LspInv, [LspNext]_lspVars PROVE LspInv'
    OBVIOUS
  <2>1. LspTypeOK /\ Servers /\ Waiters
    BY DEF LspInv, Servers, Waiters
  <2>2. CASE LspNext
    <3>1. LspTypeOK'
      BY <2>1, <2>2, SpawnStepTypes, WaitStepTypes, OtherStepTypes DEF LspNext, Step
    <3>2. Servers'
      BY <2>1, <2>2, <3>1, CallStepServers, DisposeServers, EndServers, NotificationServers
         DEF LspNext
    <3>3. OneServerPerKey'
      BY <3>1, <3>2, ServersAreSingle
    <3>4. Waiters'
      BY <2>1, <2>2, SpawnStepWaiters, WaitStepWaiters, OtherStepWaiters DEF LspNext, Step
    <3> QED
      BY <3>1, <3>2, <3>3, <3>4 DEF LspInv, Servers, Waiters
  <2>3. CASE UNCHANGED lspVars
    <3>1. LspTypeOK'
      BY <2>1, <2>3 DEF LspTypeOK, lspVars, serviceVars, touchVars, clientVars, waitVars
    <3>2. OneServerPerKey' /\ NoProcessLeaks' /\ BrokenIsFinal' /\ SpawnIsOwned' /\ KeysAreDisjoint'
      BY <2>3 DEF LspInv, OneServerPerKey, NoProcessLeaks, BrokenIsFinal, SpawnIsOwned,
         KeysAreDisjoint, lspVars, serviceVars, touchVars
    <3>3. NoMissedPush' /\ WaitersWatch'
      BY <2>3 DEF LspInv, NoMissedPush, WaitersWatch, lspVars, touchVars, clientVars, waitVars
    <3> QED
      BY <3>1, <3>2, <3>3 DEF LspInv
  <2> QED
    BY <2>2, <2>3
<1> QED
  BY <1>1, <1>2, PTL DEF LspSpec

(* However many calls touch files at once, a server runs once for a root. *)
THEOREM SingleServer == LspSpec => []OneServerPerKey
<1>1. LspInv => OneServerPerKey
  BY DEF LspInv
<1> QED
  BY <1>1, LspInvariant, PTL

(* No process is lost: a live server is published, being spawned, or about to be
   killed by DisposeAll. *)
THEOREM ServersAreOwned == LspSpec => []NoProcessLeaks
<1>1. LspInv => NoProcessLeaks
  BY DEF LspInv
<1> QED
  BY <1>1, LspInvariant, PTL
=============================================================================
