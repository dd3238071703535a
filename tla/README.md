# opcode42: a TLA+ verification of the daemon's core

opcode42 is a Go daemon (`opcoded`) that runs coding agents.  Clients (a terminal
UI, an Android app, the SDKs) send prompts over HTTP and follow the agent over a
server-sent-event stream; the daemon runs the model in a loop, executes the tools
it asks for, asks the user for permission, and keeps the history in SQLite.

This directory models the parts of the daemon in which goroutines meet: the run
lock, the agent loop with its compactions, the turn processor, the tool executor,
the permission and question managers, the buses with the event streams and the
shutdown, the push relay, the terminals, and the MCP and language server managers.

## 1. Inventory

Paths are relative to `src/internal` unless they start elsewhere.

| component | state | operations | what is hard | what makes it correct |
|---|---|---|---|---|
| Run lock, `engine/runstate` | session -> active run; a done channel and a cancel function per run | EnsureRunning, Cancel, Busy, AssertNotBusy | concurrent prompts, a Cancel that uses a run it looked up earlier, status callbacks outside the lock | one run per session, exact slot, interrupts that hit their run, waiters released |
| Agent loop, `engine/engine.go`, `loop.go`, `structured.go` | the session's messages; per run its iteration | Prompt, Loop, Summarize, runLoop | prompts stored while a run reads; ids decide what counts as an answer; aborts; errors at each store | a prompt is shown to the model and answered; one stream per session; runs end |
| Compaction, `engine/compaction.go`, `engine/message/compaction.go` | compaction tasks, summaries and tail anchors in the history | createCompaction, processCompaction, FilterCompacted, selectTail | three writes that belong together; compactions of compacted histories | what is hidden was summarised, unless one of the three writes was lost |
| Turn processor, `engine/processor` | the assistant message, its parts, pending calls | one handler per stream event, executePending, cleanup | a stream that ends anywhere; goroutines per call; the doom-loop ask; writing with a cancelled context | what was streamed is stored; every call has one outcome; abort ends the turn |
| Tool executor, `engine/registry/executor.go` | none of its own | Execute | concurrent calls in the permission gate; an MCP server that goes away | nothing runs without leave |
| Permission manager, `engine/permission` | pending requests, grants per session | Ask, Reply (once, always, reject), List | replies, cascades and aborts race; sends under the lock | no blocked reply, no lost wake-up, grants release what they cover and no more |
| Question manager, `engine/question` | pending questions | Ask, Reply, Reject, List | sends after the unlock; answer against abort | the same |
| Message store, `engine/message/store.go` | rows of messages and parts | Put, Delete, Stream | refuses a cancelled context | reads are in id order |
| Session store and title, `session`, `engine/title.go` | session rows | create, update, delete, SetTitle | a rename while a title is generated; delete against a starting run | the user's title stays |
| Bus and SSE, `bus`, `server/sse.go` | subscribers with buffers, client count | Publish, Subscribe, stream loop | full buffers drop; two buses in two orders | a connected client misses only what met its full channel; every stream ends at the shutdown |
| Instance manager, `instance` | directory -> instance | Get, DisposeAll | requests during shutdown | every instance is disposed |
| PTY, `pty`, `server/pty_ws.go` | output ring, cursor, subscribers, tickets | connect, onData, onExit, Remove, Shutdown, tickets | connect against exit; slow readers; reads, trims and frames that cut a character | replay and live output have no gap and no repetition; no channel is closed twice |
| Push relay, `push` | last disconnect, rate windows, devices | Run, dispatch, allow, Register, PruneToken | time windows against the client count; sends that hang; late verdicts on old tokens | nothing is withheld without a reason; a reconnect is quiet; the bus is drained; a renewed device stays |
| MCP manager, `mcp` | status, client, tools per server; pending OAuth flows | connect, Connect, Disconnect, refresh, CallTool, Close | dials without the lock, late results, refreshes of replaced connections, servers that never answer | no connection is lost; status, client and tools agree |
| LSP service, `lsp` | running, broken, spawning servers | TouchFile, EnsureClients, WaitForDiagnostics, DisposeAll | single flight, dispose during a spawn, signals read before the wait | one process per server and root; no process outlives the service; calls return |
| Plugin bridge, `pluginbridge` | host process, connection, ready flag | Start, Trigger, Stop | disconnect and restart | hooks never block for good |
| Identifiers, `id` | last timestamp, counter | Ascending, Descending | clock read outside the lock; 48-bit field | ids order the history |
| Providers, tools, config, credentials, OAuth, resources, mDNS, worktrees | files, network | | I/O | not modelled |
| Clients (`internal/tui`, `android`), SDKs, generated API, conformance, benchmarks | | | | not modelled |

How they interact: an HTTP handler calls `Engine.Prompt`, which stores the user's
message and enters `RunState.EnsureRunning`; the claimed run's goroutine executes
`runLoop`, which reads the store, starts a turn and hands the provider's stream to
a `Processor`; the processor starts a goroutine per tool call that calls
`Executor.Execute`, which blocks in `Permission.Ask` or `Question.Ask` until another
HTTP handler replies.  `RunState.Cancel` cancels the one context they all share.
Every manager publishes on the instance bus, outside its lock; the bus fills the
channels of the event streams and forwards to the global bus, on which the push relay
listens.  The executor's lookup reads the MCP manager's tools, and the lsp tool calls
the language servers; both exist once for an instance and are closed with it.

`PROJECT.json` lists every component and, under `hazards`, the places in this code
that a test would hardly reach.

## 2. Modules

| module | models | notes |
|---|---|---|
| `RunState` | `engine/runstate/runstate.go` | A `Call` is one EnsureRunning.  A run is named after the call that claimed the slot.  Each lock region, each callback and the closing of the channel is an action. |
| `History` | FilterCompacted, LatestOf, selectTail, pendingCompaction | Pure operators over sequences of messages. |
| `AgentLoop` | Prompt, Summarize, runLoop, processCompaction | Extends `RunState` (the work of a run is the loop) and `History`. Ids are positions in `msgs`. |
| `Deferred` | what both managers promise | Abstract: a request is asked, answered or withdrawn, and over once; who waits gets the one outcome. |
| `Permission` | `engine/permission/manager.go` | Patterns match by a constant relation; rule sets are constants. `IsDeferred` is the refinement. |
| `Question` | `engine/question/question.go` | `QuestionDeferred` is the refinement. |
| `Executor` | `Executor.Execute` and the goroutines of executePending | Composes `Permission` and `Question`: a call names its ask and its inquiry; Abort is the one context they share. |
| `Processor` | `engine/processor` | One turn.  Memory and store are separate: `tool`, `seg`, `message` against `storedTool`, `storedSeg`, `storedMessage`; `updatePart` and `updateMessage` reach the store only while the context is alive, and may fail without the processor learning of it. One slot for the current text, a map for the open reasoning. |
| `Bus` | `bus/bus.go` | Channels are sequences of at most `SubBuffer` events.  `Publish` and `PublishGlobal` are two steps of one producer. |
| `EventStreams` | `server/sse.go`, `instance/instance.go`, the shutdown of `cmd/opcoded` | Extends `Bus`.  A handler is where it stands between raising and lowering the client count; a request may create an instance at any time before the daemon is cancelled. |
| `Relay` | `push/relay.go`, `push/store.go` | A dispatch goroutine reads the devices, the clock, the rate table and sends in four steps.  FCM is the verdict on a token. |
| `Pty` | `pty`, `server/pty_ws.go` | Output is a sequence of UTF-16 units; a character of two units may be cut by a read, a trim or a frame. |
| `Mcp` | `mcp/manager.go`, `mcp/service.go` | An operation is a goroutine; what it has dialled is in `hand` until it is published under the lock. Dial, listing, watch, and the listing and caching of a refresh are steps of their own. |
| `Lsp` | `lsp/service.go`, the waiting of `lsp/client.go` | A call is one TouchFile; closed signal channels are generations (`pushes`, `regs`). |
| `LoopProofs` | | theorems about `RunState`, `History` and `AgentLoop` |
| `ExecutorProofs` | | theorems about `Permission`, `Question`, their refinements of `Deferred`, and `Executor` |
| `StreamsProofs` | | theorems about `Bus` and `EventStreams` |
| `ProcessorProofs`, `RelayProofs`, `PtyProofs`, `McpProofs`, `LspProofs` | | theorems about the module of that name |
| `MCRunState`, `MCAgentLoop`, `MCPermission`, `MCExecutor`, `MCProcessor`, `MCEventStreams`, `MCRelay`, `MCPty`, `MCMcp`, `MCLsp` | | values for the constants |

Conventions.  A step is what the code does between two points where another
goroutine can see it: a region under a mutex, a store call, a channel operation, a
publication.  `\* mutant` definitions are plausible wrong versions of the definition
below them; they are not part of any specification and show that the properties
can fail.

What the data became.  A message is its role, finish, error flag, parent, compaction
part and tail, and, for an assistant message, `view`: the ids whose text the model
was given.  `view` is a history variable, and it is what lets `FreshPromptAnswered`
and `HiddenWasSummarised` say that the model has really seen something.  Text is a
length.  A tool call is its signature (name and input), which is all the doom-loop
guard compares.  The relay's clock is a counter; FromEvent is the set of events it
maps to a notification.  An MCP tool list is the connection it was listed on and its
version at that moment; a file is known to every language server.

Each module gathers its type invariant and the named parts of its invariant in one
conjunction (`RSInv`, `PermInv`, `ExecInv`, `QInv`, `LoopInv`, `StreamsInv`,
`RelayInv`, `PtyInv`, `McpInv`, `LspInv`), which the runs check and the proofs
establish; the parts are commented one by one where they are defined.

## 3. Runs

| run | question | result |
|---|---|---|
| `run_lock` | three prompts, two sessions, any Cancels | holds |
| `loop_prompts` | two calls (prompt or summarize) that overlap in every way, with overflows, compactions and an abort; no deadlock | holds |
| `loop_compaction` | one call in a used session that overflows again and again, with structured turns, an abort, lost writes and missing finishes | holds |
| `permission` | two asks, two sessions, wildcard grants, rules allow / ask / deny; refinement of `Deferred` | holds |
| `tool_gate` | two calls of one turn through gate, MCP, built-ins and question, with an abort | holds |
| `processor` | one turn: four events in any order and repetition, two calls, two parts, the doom-loop guard, lost writes, with and without an executor, abort | holds |
| `event_streams` | one instance stream, one global stream, a producer beside requests and the shutdown, channels of one event | holds |
| `push` | three events of two sessions, a client that comes and goes, a device whose token rotates, sends that hang; no deadlock | holds |
| `pty` | two websockets and a ticket on a session whose output outgrows its ring, exits and is removed | holds |
| `mcp` | two operations on two servers into each other, the first connect, tool changes at any time, servers that never answer, and Close | holds |
| `lsp` | two calls touch a file while its server starts, dies and the service is disposed | holds |
| `lost_prompt` | is every prompt put before the model? | violated |

### The properties

- `RSInv`, `OneRunPerSession`: the slot names exactly the run between claim and clear
  (the code's test "only clear if still ours" can never fail), a joined caller gets
  its own session's finished run, and a session without a run is idle once every
  callback is out.  `CancelHitsItsRun`: a late Cancel ends the run it saw, never its
  successor.
- `InterruptReleasesWaiters`, `RunsEnd`: who waits on a run is released when the run
  is interrupted, and in any case when the loop is over.
- `FreshPromptAnswered`: a prompt that is the newest message when it starts its own
  run is shown to the model and answered, whatever compactions happen on the way.
- `LoopInv` (one stream per session), `NoNewMessageAfterAbort`: the lock's promise at
  the level of the history.
- `HiddenWasSummarised`, `OneSummaryPerTask`: the cut of FilterCompacted agrees with
  the head each summary was given, also for compactions of compacted histories, but for
  tasks that were cut short by a lost write (below).
- `PermInv`: the channels of capacity one never get a second send (the manager sends
  under its lock, so a blocked send would stop the instance); what is pending can be
  answered and who waits is pending or has an answer; what is listed is blocked; an
  "always" leaves nothing pending that it covers; a request that is pending is being
  shown or about to be; no tool passes on another session's grant.
- `QInv`: the same for questions, where the send happens after the unlock.
- `IsDeferred`, `QuestionDeferred`: both managers implement `Deferred`.
- `ExecInv`, `RunsOnlyIfAllowed`, `AbortedCallsEnd`: the composition.
- `TurnIsStored`: of a turn that was not aborted the store has all that memory has, except
  what a write lost, and all is final except a text whose slot was taken.
  `CallsHaveOneOutcome`: which calls a goroutine runs, and what is left of each in the end,
  by the last thing the provider or the guard said of it.  `CompletedStays`: once the
  stream is over nothing replaces a completion.  `QuietAfterReturn`, `AbortEndsTurn`.
- `StreamsInv`: the events of a producer keep their order on the global bus, the
  disposal is the last thing an instance stream sends, every instance is cached, being
  disposed or torn down, once, and the client count is the number of handlers.
  `LiveStreamMissesNothing`: from server.connected on, a stream gets every event of its
  bus in order, except those that met its full channel.  `ShutdownEndsStreams`: also the
  streams that lost their server.instance.disposed, and those that came too late for it.
- `WithheldForAReason`: the relay's grace window, stated over the history of what the
  relay looked at.  `ReconnectIsQuiet`: what the window is for, over the clients
  themselves: no push within it of the disconnect of a client that an event had found.
  `PushesAreSpaced`: a window between the admissions of two pushes of a session, less the
  time the first waited between clock and lock.  `RelayInv`: a token FCM gave up is pruned without taking
  a renewed registration along.  `ConsumerNeverStalls`: a hanging send does not stop
  the drain of the bus.
- `PtyInv`: the ring is the tail of the output, the cursor sent after the replay is
  where live output goes on, no channel is closed twice, a ticket admits one.
  `NoGapNoRepeat`: what a client got is the output from one offset on, unit by unit.
  `RemovedIsReaped`, `DroppedIsLetGo`: no process and no client is forgotten.
- `McpInv`: no open connection is lost between the goroutine that dialled it, the map
  and Close; connected is reported exactly when the manager holds a connection that it
  has not closed (a server that dies by itself is not noticed, and no action); tools
  were listed on the connection a call would use.  `StaleForAReason`: tools older than
  the server's are being refreshed, or the change came before `watch`, or its refresh
  failed, overtook the publication or was overwritten by an older listing.
  `CloseReleasesAll`: also the connections that were being dialled, unless they wait
  behind a server that does not answer.
- `LspInv`: one live process per server and root; every live process is published, in
  the hands of its spawning call, or on DisposeAll's list; a server that failed stays
  failed; a waiter that blocks has not been passed over by a push.  `DisposeKillsAll`,
  `TouchEnds`: no process outlives the service and no call waits for ever.

### What the violation shows, and what the models show besides

`lost_prompt`.  The run reads the history, another prompt stores its message and
joins, then the run draws its assistant's id.  The answer is newer than the prompt
it never saw, `shouldExit` is satisfied and the prompt is never shown to the model.

The properties are stated so that they hold of the code.  Where the code's behaviour
falls short of what its comments or plans suggest, the models have that behaviour,
and the weaker property is the one that is checked:

- `EnsureRunning` frees the slot and publishes idle afterwards (runstate.go:83): a
  second prompt can publish busy before the first run's idle goes out, and clients show
  an idle session in which the agent works.
- `permission.asked` is published when the request is already in the map; replied can
  go out first, and a client keeps a dialog nobody waits for (plans/07-client-mobile.md:502
  has dialogs closed by the event).
- `cleanup` writes the abort of a turn with the context that was cancelled; the store
  refuses and the history keeps a message with running tools, where processor.go:113
  promises one "marked aborted".  `TurnIsStored` is about turns that were not aborted.
- A call enters `pending` before the doom-loop guard asks; a refusal, which
  processor.go:60 says aborts the call, fails the part but leaves it pending, and
  `executePending` runs it: its second outcome replaces the refusal.  A call the
  provider answered and then names again runs too, where processor.go:7-10 says it is not
  re-executed.  `CallsHaveOneOutcome` says exactly when a goroutine runs one.
- No handler checks what a call went through before (tools.go:34-57, 97-111): a tool-error
  after a result turns a completed part into an error, a second result empties the part's
  input (and with it a StructuredOutput answer).  `CompletedStays` therefore begins where
  the stream ends.
- There is one slot for text (processor.go:207-249): a text-start before the end of the
  text before it leaves that one in the store as it was at its start, for good, and its
  deltas are lost (`overwritten` in `TurnIsStored`).
- The processor drops the errors of its writes (emit.go:20-22, 54-56), also those of a
  living context: what was lost stays lost unless the same part is written again
  (`lostTool`, `lostSeg`, `lostMessage`).
- Three writes make a compaction: the summary's finish, the tail anchor on its task, and
  the synthetic prompt.  When the second fails after the first (compaction.go:311-331), or
  a cancel falls between them, the summary has no tail, and FilterCompacted hides for good
  the turns that were to be kept and that nobody summarised.  When the finish is lost
  instead, of which the processor does not learn, the anchor is stored beside a summary
  that is not done: FilterCompacted moves the tail all the same (it asks for no finish
  there), and the next compaction cuts in what was moved.  The model has all of them:
  `cutShort` collects the tasks that hide history in these ways, and `HiddenWasSummarised` excepts what comes before one.
- A second Summarize whose task is stored while the first one's summary is written lies
  between that task and its summary.  FilterCompacted (compaction.go:77) moves it before
  the retained tail, processCompaction summarises only what comes before it, the first
  task itself, and its summary, which has no tail, hides the turns the first summary
  meant to keep.  `loop_compaction` has one call, so that `HiddenWasSummarised` is about the
  tasks one run makes; with `Call <- TwoCalls` TLC shows the overlap within fifteen steps.
  With tasks cut short excepted these are the only ways: `HiddenOnlyIfSummarised` proves
  the invariant, for any number of calls, of every behaviour in which no call is between
  drawing its id and storing its row while a history is compacted.
- relay.go:18-20 and 110-111 count the grace from the last client's disconnect.  The code
  counts it from the first event handled after it: that event is withheld however long
  ago the client left, and a client that came and went between two events gives no grace
  at all.  `WithheldForAReason` is stated as the code counts, `ReconnectIsQuiet` is the half
  of the comment that holds.
- relay.go:13-15 allows one push per session and device in a window.  `allow` reads the
  clock before it takes the lock (relay.go:161-165) and records what it read, so that two
  pushes are closer by the time the first waited for the lock, down to the same instant.
- A client that attaches to a terminal after its exit closed the subscribers
  (connect.go:50) is added to a session that never closes it; `DroppedIsLetGo` is about
  clients that are no longer subscribed.
- `Disconnect` on an MCP manager that Close ended before it ever connected writes to a
  nil map (service.go:75); it is the only case, which is part of `McpInv`.
- An MCP server's tools are listed (manager.go:260), then its resources, then the handler
  of changes is installed (269): a change in between is heard by nobody and the tools
  stay old until the next one.  Two refreshes may cache their listings in the wrong order
  (manager.go:293-302) with the same effect.
- probeRemote starts a transport without a deadline (manager.go:624-631), and `closeLocked`
  and Close call a client's `Close`, which has none, the former with the manager's lock
  held.  One server that does not answer can keep the first connect open, so that every
  operation waits for it, keep the lock, so that every operation stops, or keep the
  connections behind it open at the shutdown (`Behind` in `CloseReleasesAll`).
- An instance created during DisposeAll is disposed by nobody; its streams end with the
  daemon's context, which `ShutdownEndsStreams` covers.  A handler that is blocked in
  a write to a client which stopped reading has no deadline (main.go:225); the model's
  writes end.

### Bounds

Two calls are the least that overlap; three in `run_lock` add a run that starts
while another one's callers still wait.  Calls, asks and turns are made once: every
action concerns one or two of them at a time, and new ones start from the same state
as the first.  `loop_prompts` has four iterations per run, which is a turn that
overflows, its compaction, the turn that goes on and one for a prompt that joined, on an
empty history; its turns overflow or stop.  Failures are in `loop_compaction`, which has
five iterations over three earlier turns (one more than `DefaultTailTurns`, so that a tail
is cut) and so compacts a compacted history.  `MaxSteps` is a parameter of the engine; its exit is
part of the model.  `processor` sets the doom-loop threshold to two, so that two calls
reach the guard, where the code's is three.  Four events let a call be named, refused,
named again and answered, or a text overlap another and go on; two parts are the least
that overlap, one delta tells an empty text from a lost one, and one lost write at a time
is the least that differs from none.  Symmetry is used in `permission` only, whose
properties are invariants and a refinement without fairness.  A run that stops because each call is made
once says so in its configuration; in `loop_prompts` the rest state is an action, so
that every other stop is reported.

The channels of `event_streams`, `push` and `pty` hold one element, so that they are full
as soon as anything waits; two events of each of two producers are enough to lose one,
keep the next and tell the order.  `event_streams` has room for a second instance of its
directory, the one DisposeAll does not see.  `push` has a window of two, a grace of one
and a clock up to two, so that a push may follow another by the time its reader waited:
three events, one more than a window admits, and two sessions,
the least with which a dispatch evicts another's entry; two tokens make one renewal.
`pty` has a ring of three units, frames of two, and four units of output: enough for a
trim, a frame limit and a read each to cut a character of two units, with a client that
asks for all, for the end or for an offset that is no longer there.  `mcp` has three
connections for two servers: one for each and one that replaces another; one goroutine
adds a server or starts an authorization, the other disconnects, connects, finishes the
authorization or reads; two changes of the tools are the least whose refreshes can cross;
one of the servers may never answer (`Deaf`).  `lsp` has two
calls, one of which joins, and two pushes and two registrations, so that a signal can be
one generation late.

### Fairness

- `RSFairSpec`: goroutines that have a step to take are scheduled.  The work of a run
  is fair only once its context is cancelled: the lock itself promises nothing more.
- `AgentLoop!FairSpec`: the daemon's goroutines are scheduled and turns end, i.e. the
  provider, the tools and the users that are asked answer.  The HTTP client has no
  timeout, so this is an assumption; `RunsEnd` is about the loop's own bound.  The
  enabling condition is written out as `CanMove`, because evaluating ENABLED of an
  action that filters the history is beyond TLC.
- `ExecFairSpec`: engine steps are fair; a tool returns once its context is cancelled;
  clients never have to answer.
- `ProcFairSpec`: the processor's own steps are fair; the doom-loop ask and running
  tools return once the context is cancelled.  The provider owes nothing: after a cancel
  `emit` selects anew for each event between it and the context, and cannot pick the event
  for ever, which is the strong fairness of the stream's end.
- `StreamsFairSpec`: handlers and the shutdown go on; clients and producers owe nothing.
- `RelayFairSpec`: the relay's goroutine is scheduled; sends may hang for ever.
- `PtySpec`: the master's read fails once the shell is gone, a removal goes on to its
  kill, and each write to a websocket ends (it has a deadline).
- `McpSpec`: a goroutine with connections in its hand goes on, and so does Close, for
  listings have deadlines; starts and Closes have not, and one of a `Deaf` server may be
  the last step of whoever waits for it.
- `LspSpec`: a call goes on, its deadline passes, and a server that DisposeAll sends
  SIGTERM exits, for which killGroup waits without a limit: an assumption.

## 4. Proofs

All theorems hold for every value of the constants under the named assumptions of the
component modules (no finiteness is assumed unless a module says so).

- `LoopProofs`, the run lock: `RunLockInvariant` (RSSpec => []RSInv), and from it
  `MutualExclusion`, `ExactSlot`, `OwnSessionResult`, `CancelIsTargeted`.
  `OneRunPerSession` is not inductive alone: it needs that the slot names the
  owner (`SlotIsExact`) and that pc and stage of a run go together.
- `LoopProofs`, the agent loop: `LoopInvariant` (Spec => []LoopIndInv), and from it
  `LoopInOrder`, `SummarisedOnce` and `AbortAddsNothing`.  Whatever the loop does to the
  lock is a step of the lock (`LockRefines`): `LoopUsesTheLock` is the refinement, and
  `RSInv` is part of the invariant, so that
  "only one run works" comes from there.  `LoopIndInv` adds that rows refer to rows of
  the history and an answer to an older one (`TypeInv`), that two calls never hold one
  drawn id (`OwnIds`), that only the working run is inside an iteration and streams a
  row that is its own and not finished (`LoopPlace`), and that a task which is being
  summarised has no completed summary (`TaskOpen`).  The last is what makes
  `OneSummaryPerTask` inductive: `Decide` took the task from a filtered history, so the
  proof has to know that FilterCompacted lists every stored row that no task is newer
  than (`FilteredRows`): the newest user message is therefore never hidden (`NewestUser`),
  and neither is a summary of it, so that a task taken for open has none in the whole
  history (`PendingIsOpen`).  The rest of the argument is one description of
  what any loop step may do to a row (`Evolved`, `RunMoves`), shown for each step once
  (`StepMoves`).
- `LoopProofs`, fresh prompts: `FreshIsAnswered`, from `LoopIndInv` with `FreshInv`, the
  progress of a fresh prompt.  Until its run has begun a turn (`Unseen`) no answer
  is newer than the prompt and no newer user message is a task, so the first iteration
  that reads must show it (`UnseenIsRead`); afterwards (`Seen`) a turn has shown it
  and either an answer after it stopped or the run is at work with no error so far
  (`Open`), and `shouldExit` lets the loop out only with a newer answer that stopped
  (`OpenReads`).  Other prompts may be stored, joined and answered in between
  (`StoresStay`, `FreshCallKept`).
- `LoopProofs`, compaction: `HiddenOnlyIfSummarised` and `LoneRunHidesNothing`, from
  `LoopIndInv` with `GivenInv`.  What FilterCompacted hides is older than some compaction's
  cut, its retained tail or its task (`HiddenIsCut`); and everything older than a cut was
  given to a summary that did not fail (`CutsAreGiven`).  For a compaction under way it is
  the head its summary reads, or was given before (`HeadGiven`); it has every
  listed row below the tail because FilterCompacted, which moves rows, lists user rows in
  the order of their ids but for the compaction it puts first (`FilteredOrder`, which
  needs `TailsFollow`; `HeadIsRead`).  Messages that say nothing to the model, those with
  an error and user messages without parts, are given to nobody and may be hidden, and what
  lies before a task that was cut short is excepted (`cutShort`).
  `CompactionUndisturbed` says that, while a history is compacted, no call has drawn an id
  without storing its row; without it a row can appear below
  a cut that no summary was given.  `LoneRunHidesNothing` discharges it for one call,
  which is the case `loop_compaction` checks, for every
  history, step limit and outcome of turns and summaries, with aborts and lost writes.
- `ExecutorProofs`, the permission manager: `PermInvariant`, then `RepliesDoNotBlock`,
  `WakeupsAreNotLost`, `NoNeedlessAsk`, `PassingIsJustified`.  The invariant relates the
  map, the channel and the asker's place: a pending request has an empty channel and an
  asker that has not left.  `GrantsGrow` (grants are only ever added) carries the last
  two.  `PermissionIsDeferred` proves the refinement: each step of the manager is a step
  or a stutter of `Deferred`.  The question manager: the same (`QuestionInvariant`,
  `QuestionIsDeferred`), where the send happens outside the lock and the invariant must
  follow the handler between taking and sending.
- `ProcessorProofs`: `TurnInvariant`, then `UnabortedTurnIsStored`,
  `CallsAreResolvedOnce`, `NothingAfterReturn`.  Until an abort the store is behind
  memory only where a write was lost, a goroutine still has to put its part
  (`ToolsFollow`), or a part is not finalised, which is one the slot or the map holds or
  one whose slot was taken (`SegsFollow`); goroutines live only between executePending and
  wg.Wait (`WorkersInExec`), what Run left is final (`ReturnedIsFinal`), and each call is
  accounted for by what was last said of it (`CallsAccounted`), whatever the provider
  repeats.  `CompletionIsFinal`: after the stream, calls without a result are all that the
  guard, a goroutine or cleanup writes to.
- `ExecutorProofs`, the tool gate: `GateInvariant`, then `GateIsPassed`, `NoOrphanRequests` and
  `ManagersStayDeferred`.  `GateInv` is the two managers' invariants with `GatePassed` (a
  call beyond the gate has an ask that was allowed, or a tool that needs none) and
  `WaitsInPlace` (a manager has a call blocked only where the executor waits for it).
  A step of a manager is one of its own module's steps, so that module's lemmas apply;
  the abort, which ends asks and questions in one step, has a proof of its own.
- `RelayProofs`: `RelayInvariant`, `PushesSpaced`, `WithheldIsJustified` and
  `QuietReconnect`.  That pushes are spaced is not inductive: it needs `RateRemembers`, that the rate table has the time of the last push of
  every device and session whose window has not passed, whatever was evicted, and that
  the times the goroutines have read are past (`DispatchHasTarget`).  That a withheld
  notification has a reason needs the loop's locals to agree with the events handled so
  far: `lastDisconnect` is the time of the first of them after the last that found a
  client (`HistoryInv`); that a reconnect is quiet needs that this time is no earlier than
  the moment that client left.
- `StreamsProofs`: `StreamsInvariant`, then `StreamsAgree` and `LiveStreamsMissNothing`.
  A stream is compared with the whole log of its bus: what it has sent and what waits
  in its channel are events of the log in the log's order, none of them twice, and a live
  stream has every event since its `from` that did not meet its full channel
  (`StreamsDeliver`).  That needs every published event to be new to the log
  (`PublishIsNew`, `RelayedIsNew`), which is the bus's own part of the invariant.  The instances' part says that the
  cached instance of a directory is its newest and that DisposeAll tells an instance's
  streams before it tears it down (`InstancesInv`); the client count is a cardinality and
  rests on the handlers being finitely many.
- `PtyProofs`: `PtyInvariant`, then `SessionsHold` and `ReplayJoinsLive`.  A client's
  received output is what it was shown, what is in its replay and what is in its channel,
  one after the other; it follows the session's output from the client's start, and
  reaches its end while the client is subscribed (`ClientOK`).  The lemmas are about
  the encoding of a frame, which replaces nothing but halves of a cut character
  (`DecodedFaithful`),
  the trim (`RetainKeeps`), the frames, whose concatenation is what was cut up
  (`ChunksFlatten`), and the replay from an offset (`ReplayIsOutput`).
- `McpProofs`: `ManagerInvariant`, then `McpInvariant` and `StaleTools`.  What is published
  is in order because of what is not published yet: a connection just dialled is open,
  is held once, and for its server (`HandsInOrder`, `HandsDiffer`); before the first
  connect is through nothing is published (`FirstConnect`); a closed manager keeps no
  client (`ClosedIsEmpty`); a list, in the hand, in the cache or in a refresh, is not newer than the server's
  (`ListsInOrder`); and of every change after the one listed some refresh is under way or was
  missed (`VersionsFollow`), which is what survives listings that cross.
- `LspProofs`: `LspInvariant`, then `SingleServer` and `ServersAreOwned`.  `OneServerPerKey`
  follows from three parts that are inductive: every process has an owner
  (`NoProcessLeaks`), a spawn in flight belongs to one call (`SpawnIsOwned`), and a key
  that is being spawned is neither published nor broken, and none is published once
  DisposeAll kills (`KeysAreDisjoint`).  The signals of
  the waiters are a separate argument over the generations.

The assumptions say what kind of thing each constant is, and little more: sentinels are
none of the values they stand beside (`None` in `RelayAssumption`), and there is at least one
MCP server name (`McpAssumption`) and one push token.

`AgentLoopAssumption` says that the model is of one session; how many calls there are,
`MaxSteps`, the prior history, the outcomes of turns and the runs an abort may hit are free.

What the history's operators compute is proved where the loop relies on it, by
induction on the length of the history: `NatSetInduction` takes a set in place of the
library's operator parameter.  `StoredNewestFirst` is a recursive function for that
reason, and it is shown to exist before it is used (`NewestExists`).

Only model-checked:

- all liveness (`RunsEnd`, `InterruptReleasesWaiters`, `AbortedCallsEnd`, `AbortEndsTurn`,
  `ConsumerNeverStalls`, `RemovedIsReaped`, `DroppedIsLetGo`, `CloseReleasesAll`,
  `DisposeKillsAll`, `TouchEnds`, `ShutdownEndsStreams`): fairness and ENABLED are out of
  the prover's reach;
- `PromptAnswered`, which the code violates (`lost_prompt`).

`HiddenWasSummarised` is proved, but of an unrestricted session only under
`CompactionUndisturbed`: it does not hold for every value of the constants, and Section 3
has the ways in which the code hides more: a lost write, an abort, a second call.

## 5. Plan

Done: run lock, loop and compaction, permission, question, executor, processor, bus and
event streams, push relay, terminals, MCP manager, language servers.

Next, in this order:

1. Proofs: that a joined prompt's row is in the history of every later read, and
   the safety half of the liveness properties: who waits has somebody who owes it a step.
2. The composition of the executor's lookup with the MCP manager, so that a call meets a
   server that is disconnected between lookup and call.
3. Session store with titles, deletes and the busy check, and identifiers (clock,
   counter, 48-bit field), with which the order of ids that `AgentLoop` takes for
   granted becomes a property.
4. Subagents: two loops, one waiting for the other, and one abort for both.
5. The plugin bridge: host start, ready, disconnect and restart.

## 6. Not modelled

Most lines of the repository are generated code (`internal/api/gen`, the
SDKs), the terminal client's rendering and other clients; they keep no state that more
than one goroutine sees, and no model of them is planned.

In the daemon: providers' wire formats (the processor takes every order of their
events), the tools' effects on files and processes, plugin hooks (they may change inputs
and outputs, not the control that is modelled), tokens and costs (overflow is a choice
at step-finish), titles, prompt resolution, crash and restart of the daemon (a run's
state is in memory only and is gone), the HTTP handlers other than those of the streams
(they call one operation of a manager and write its result), the document sync and the
JSON-RPC transport of the language servers (a write of Open's has no deadline of its own,
client.go:415-454: the model's ends), OAuth discovery and exchange, FCM's HTTP.
`isUnregistered` (fcm.go:158-179) takes any 400 INVALID_ARGUMENT for a dead token, not only
those about it: `Send` assumes, as fcm.go:160 does, that FCM says so of old tokens only.
The terminals' processes are killed, and `pty` never calls `Wait`: `RemovedIsReaped` is about
the kill, not about the process table.
Titles are left out with the session store: `SetTitle` (session.go:256) writes whatever the
row holds, so a title generated from a check made before the model call replaces a rename
in between, where title.go:80 expects a no-op; no run shows it until the plan's third item.
The doom-loop guard is a heuristic over the last parts in order of first sight; it is
modelled as it is and no property judges it.
