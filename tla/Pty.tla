-------------------------------- MODULE Pty ---------------------------------
(***************************************************************************)
(* internal/pty and internal/server/pty_ws.go: one terminal session, its   *)
(* output ring, the websockets attached to it, and the connect tickets.    *)
(*                                                                         *)
(* The shell writes bytes, of which the model keeps "x", a character of    *)
(* one UTF-16 unit, and "a1", "a2", the two halves of the bytes of a       *)
(* character of two units; a read may end between them.  Ring, cursor and  *)
(* replay count units: "x", "hi", "lo", and "?" for U+FFFD.  An absolute   *)
(* offset is the number of units ever produced before it.                  *)
(***************************************************************************)
EXTENDS Integers, Sequences, SequencesExt

CONSTANTS
  Client,        \* websocket connections, each made at most once
  Reads,         \* what one read of the master may return, byte sequences
  Cursors,       \* the ?cursor= a client may pass, after parseCursor
  Ticket,        \* connect tickets, each issued at most once
  BufferLimit,   \* units the ring keeps
  BufferChunk,   \* units of one replay frame
  SubBuffer,     \* frames that wait for one client
  MaxUnits       \* bound: units the shell produces

ASSUME PtyAssumption ==
  /\ {BufferLimit, BufferChunk, SubBuffer, MaxUnits} \subseteq Nat \ {0}
  /\ Reads \subseteq Seq({"x", "a1", "a2"})
  /\ Cursors \subseteq Nat \cup {-1}

Unit == {"x", "hi", "lo", "?"}

VARIABLES
  \* the session
  status, buffer, bufCur, cursor, partial,
  subs,      \* clients in session.subs
  closes,    \* closes[c]: how often the channel of c was closed
  ch,        \* ch[c]: frames in the channel of c
  loop,      \* the goroutine of readLoop: reading | exited | over
  alive,     \* the shell process lives
  ptmx,      \* the master is open
  \* the manager
  listed,    \* the session is in Manager.sessions
  killing,   \* Remove or Shutdown took it out and has yet to kill it
  ticket,    \* ticket[t]: none | valid | gone
  \* the websocket handlers
  at,        \* at[c]: new | admitted | found | replay | live | closed
  initial,   \* initial[c]: frames of the replay not yet written
  \* history
  emitted,   \* the units produced so far
  start,     \* start[c]: the absolute offset its output starts at
  shown,     \* shown[c]: the units written to c
  uses,      \* uses[t]: connections the ticket let in
  meta       \* meta[c]: the cursor its control frame carries, or -1

ringVars == <<buffer, bufCur, cursor, partial, emitted>>
chanVars == <<subs, closes, ch>>
procVars == <<status, loop, alive, ptmx, listed, killing>>
handlerVars == <<at, initial, start, shown, meta>>
ticketVars == <<ticket, uses>>
ptyVars == <<ringVars, chanVars, procVars, ticketVars, handlerVars>>

Text == Seq(Unit)
Stage == {"new", "admitted", "found", "replay", "live", "closed"}

PtyTypeOK ==
  /\ status \in {"running", "exited"} /\ loop \in {"reading", "exited", "over"}
  /\ buffer \in Text /\ bufCur \in Nat /\ cursor \in Nat
  /\ partial \in {<<>>, <<"a1">>}
  /\ subs \subseteq Client /\ closes \in [Client -> Nat]
  /\ ch \in [Client -> Seq(Text)] /\ initial \in [Client -> Seq(Text)]
  /\ {alive, ptmx, listed, killing} \subseteq BOOLEAN
  /\ ticket \in [Ticket -> {"none", "valid", "gone"}]
  /\ at \in [Client -> Stage]
  /\ emitted \in Text
  /\ start \in [Client -> Nat]
  /\ shown \in [Client -> Text]
  /\ uses \in [Ticket -> Nat]
  /\ meta \in [Client -> Nat \cup {-1}]

(* What Create leaves behind. *)
PtyInit ==
  /\ status = "running" /\ loop = "reading"
  /\ buffer = <<>> /\ bufCur = 0 /\ cursor = 0 /\ partial = <<>>
  /\ subs = {} /\ closes = [c \in Client |-> 0]
  /\ ch = [c \in Client |-> <<>>] /\ initial = [c \in Client |-> <<>>]
  /\ alive = TRUE /\ ptmx = TRUE /\ listed = TRUE /\ killing = FALSE
  /\ ticket = [t \in Ticket |-> "none"]
  /\ at = [c \in Client |-> "new"]
  /\ emitted = <<>>
  /\ start = [c \in Client |-> 0]
  /\ shown = [c \in Client |-> <<>>]
  /\ uses = [t \in Ticket |-> 0]
  /\ meta = [c \in Client |-> -1]

-----------------------------------------------------------------------------
\* mutant: the whole read is held back with the character it cuts
HeldAll(data) == IF data # <<>> /\ Last(data) = "a1" THEN data ELSE <<>>

(* splitValidUTF8 holds back a character that is cut at the end of a read ... *)
Held(data) == IF data # <<>> /\ Last(data) = "a1" THEN <<"a1">> ELSE <<>>

(* ... and decodes the rest, invalid bytes as U+FFFD, into UTF-16 units. *)
Units(data) ==
  [k \in 1 .. Len(data) |->
     CASE data[k] = "x" -> "x"
       [] data[k] = "a1" /\ k < Len(data) /\ data[k + 1] = "a2" -> "hi"
       [] data[k] = "a2" /\ k > 1 /\ data[k - 1] = "a1" -> "lo"
       [] OTHER -> "?"]

(* utf16ToString: a surrogate without its other half becomes U+FFFD. *)
Decoded(units) ==
  [k \in 1 .. Len(units) |->
     CASE units[k] = "hi" /\ (k = Len(units) \/ units[k + 1] # "lo") -> "?"
       [] units[k] = "lo" /\ (k = 1 \/ units[k - 1] # "hi") -> "?"
       [] OTHER -> units[k]]

(* The frames of at most BufferChunk units a replay is cut into. *)
Chunks(units) ==
  [k \in 1 .. (Len(units) + BufferChunk - 1) \div BufferChunk |->
     LET first == (k - 1) * BufferChunk + 1
         last == k * BufferChunk
     IN  Decoded(SubSeq(units, first, IF last > Len(units) THEN Len(units) ELSE last))]

(* close(sub.ch) on the channels of cs; a second one would panic. *)
Close(cs) == closes' = [c \in Client |-> IF c \in cs THEN closes[c] + 1 ELSE closes[c]]

Slow(c) == Len(ch[c]) >= SubBuffer

\* mutant: the trim leaves bufCur behind
RetainLagging(units) ==
  LET all == buffer \o units
      excess == IF Len(all) > BufferLimit THEN Len(all) - BufferLimit ELSE 0
  IN  /\ buffer' = SubSeq(all, excess + 1, Len(all))
      /\ bufCur' = bufCur
      /\ cursor' = cursor + Len(units)
      /\ emitted' = emitted \o units

(* The ring takes the units and forgets what is over its limit. *)
Retain(units) ==
  LET all == buffer \o units
      excess == IF Len(all) > BufferLimit THEN Len(all) - BufferLimit ELSE 0
  IN  /\ buffer' = SubSeq(all, excess + 1, Len(all))
      /\ bufCur' = bufCur + excess
      /\ cursor' = cursor + Len(units)
      /\ emitted' = emitted \o units

\* mutant: a frame a slow client has no room for is skipped
FanSkipping(units) ==
  /\ ch' = [c \in Client |-> IF c \in subs /\ ~Slow(c) THEN Append(ch[c], units) ELSE ch[c]]
  /\ UNCHANGED <<subs, closes>>

\* mutant: a slow client is forgotten and its channel left open
FanForgetting(units) ==
  LET slow == {c \in subs : Slow(c)} IN
  /\ ch' = [c \in Client |-> IF c \in subs \ slow THEN Append(ch[c], units) ELSE ch[c]]
  /\ subs' = subs \ slow
  /\ UNCHANGED closes

(* A frame for every subscriber; a slow one is dropped and its channel closed. *)
Fan(units) ==
  LET slow == {c \in subs : Slow(c)} IN
  /\ ch' = [c \in Client |-> IF c \in subs \ slow THEN Append(ch[c], units) ELSE ch[c]]
  /\ subs' = subs \ slow
  /\ Close(slow)

(* readLoop and onData: one read of the master. *)
OnData(raw) ==
  LET data == partial \o raw
      units == Units(SubSeq(data, 1, Len(data) - Len(Held(data))))
  IN
  /\ loop = "reading" /\ ptmx
  /\ Len(emitted) + Len(data) <= MaxUnits
  /\ partial' = Held(data)
  /\ IF units = <<>>
     THEN UNCHANGED <<buffer, bufCur, cursor, emitted, chanVars>>
     ELSE Retain(units) /\ Fan(units)
  /\ UNCHANGED <<procVars, ticketVars, handlerVars>>

(* The read fails, because the shell is gone or the master closed: onExit
   marks the session and closes every channel, under the lock ... *)
OnExit ==
  /\ loop = "reading" /\ (~alive \/ ~ptmx)
  /\ status' = "exited"
  /\ loop' = "exited"
  /\ Close(subs)
  /\ subs' = {}
  /\ UNCHANGED <<ringVars, ch, alive, ptmx, listed, killing, ticketVars, handlerVars>>

(* ... and, after it, closes the master and takes the session off the list. *)
OnExited ==
  /\ loop = "exited"
  /\ loop' = "over"
  /\ ptmx' = FALSE
  /\ listed' = FALSE
  /\ UNCHANGED <<ringVars, chanVars, status, alive, killing, ticketVars, handlerVars>>

(* The shell exits by itself. *)
ShellExits ==
  /\ alive
  /\ alive' = FALSE
  /\ UNCHANGED <<ringVars, chanVars, status, loop, ptmx, listed, killing, ticketVars,
                 handlerVars>>

(* Remove and Shutdown take the session off the list under the lock ... *)
Unlist ==
  /\ listed
  /\ listed' = FALSE
  /\ killing' = TRUE
  /\ UNCHANGED <<ringVars, chanVars, status, loop, alive, ptmx, ticketVars, handlerVars>>

\* mutant: the session is forgotten and left alone
KillNothing ==
  /\ killing
  /\ killing' = FALSE
  /\ UNCHANGED <<ringVars, chanVars, status, loop, alive, ptmx, listed, ticketVars,
                 handlerVars>>

(* ... and kill the process and close the master after it. *)
Kill ==
  /\ killing
  /\ killing' = FALSE
  /\ alive' = FALSE
  /\ ptmx' = FALSE
  /\ UNCHANGED <<ringVars, chanVars, status, loop, listed, ticketVars, handlerVars>>

-----------------------------------------------------------------------------
(* IssueTicket. *)
IssueTicket(t) ==
  /\ ticket[t] = "none"
  /\ ticket' = [ticket EXCEPT ![t] = "valid"]
  /\ UNCHANGED <<ringVars, chanVars, procVars, handlerVars, uses>>

(* ticketTTL passes; whether the entry is purged by the next issue or refused
   for its time, it is good for nothing. *)
TicketExpires(t) ==
  /\ ticket[t] = "valid"
  /\ ticket' = [ticket EXCEPT ![t] = "gone"]
  /\ UNCHANGED <<ringVars, chanVars, procVars, handlerVars, uses>>

\* mutant: a ticket is checked and kept
ConsumeKeeping(t) ==
  /\ ticket[t] = "valid"
  /\ uses' = [uses EXCEPT ![t] = @ + 1]
  /\ UNCHANGED ticket

(* A ticket that matches is burnt. *)
ConsumeTicket(t) ==
  /\ ticket[t] = "valid"
  /\ ticket' = [ticket EXCEPT ![t] = "gone"]
  /\ uses' = [uses EXCEPT ![t] = @ + 1]

(* ptyConnectHandler up to the upgrade: 404, 403, or accepted. *)
Request(c) ==
  /\ at[c] = "new"
  /\ \/ /\ listed
        /\ \/ \E t \in Ticket : ConsumeTicket(t)
           \/ UNCHANGED ticketVars        \* Basic auth
        /\ at' = [at EXCEPT ![c] = "admitted"]
     \/ /\ at' = [at EXCEPT ![c] = "closed"]
        /\ UNCHANGED ticketVars
  /\ UNCHANGED <<ringVars, chanVars, procVars, initial, start, shown, meta>>

(* Connect looks the session up under the manager's lock ... *)
Lookup(c) ==
  /\ at[c] = "admitted"
  /\ at' = [at EXCEPT ![c] = IF listed THEN "found" ELSE "closed"]
  /\ UNCHANGED <<ringVars, chanVars, procVars, ticketVars, initial, start, shown, meta>>

From(cur) == IF cur = -1 THEN cursor ELSE cur

\* mutant: an offset the ring has forgotten replays nothing
ReplayInRing(from) ==
  IF from < cursor /\ from >= bufCur
  THEN SubSeq(buffer, from - bufCur + 1, Len(buffer)) ELSE <<>>

(* What the ring still has of the output from an offset on. *)
Replay(from) ==
  IF from < cursor
  THEN SubSeq(buffer, (IF from > bufCur THEN from - bufCur ELSE 0) + 1, Len(buffer))
  ELSE <<>>

(* ... and session.connect takes the replay and subscribes under the session's
   lock, whatever became of the session meanwhile. *)
Attach(c, cur) ==
  /\ at[c] = "found"
  /\ at' = [at EXCEPT ![c] = "replay"]
  /\ initial' = [initial EXCEPT ![c] = Chunks(Replay(From(cur)))]
  /\ start' = [start EXCEPT ![c] = IF From(cur) >= cursor THEN cursor
                                   ELSE IF From(cur) > bufCur THEN From(cur) ELSE bufCur]
  /\ meta' = [meta EXCEPT ![c] = cursor]
  /\ subs' = subs \cup {c}
  /\ UNCHANGED <<ringVars, closes, ch, procVars, ticketVars, shown>>

(* The replay is written frame by frame ... *)
WriteInitial(c) ==
  /\ at[c] = "replay" /\ initial[c] # <<>>
  /\ shown' = [shown EXCEPT ![c] = @ \o Head(initial[c])]
  /\ initial' = [initial EXCEPT ![c] = Tail(@)]
  /\ UNCHANGED <<ringVars, chanVars, procVars, ticketVars, at, start, meta>>

(* ... and after it the control frame with the cursor. *)
WriteMeta(c) ==
  /\ at[c] = "replay" /\ initial[c] = <<>>
  /\ at' = [at EXCEPT ![c] = "live"]
  /\ UNCHANGED <<ringVars, chanVars, procVars, ticketVars, initial, start, shown, meta>>

(* The writer pump. *)
WriteLive(c) ==
  /\ at[c] = "live" /\ ch[c] # <<>>
  /\ shown' = [shown EXCEPT ![c] = @ \o Head(ch[c])]
  /\ ch' = [ch EXCEPT ![c] = Tail(@)]
  /\ UNCHANGED <<ringVars, subs, closes, procVars, ticketVars, at, initial, start, meta>>

\* mutant: the deferred close does not ask the map
GoneUnguarded(c) ==
  /\ Close({c})
  /\ subs' = subs \ {c}

(* The deferred Conn.Close: the map tells whether the channel is still open. *)
Gone(c) ==
  /\ Close({c} \cap subs)
  /\ subs' = subs \ {c}

(* The handler returns, and with it goes what it held. *)
Returns(c) ==
  /\ Gone(c)
  /\ at' = [at EXCEPT ![c] = "closed"]
  /\ ch' = [ch EXCEPT ![c] = <<>>] /\ initial' = [initial EXCEPT ![c] = <<>>]
  /\ shown' = [shown EXCEPT ![c] = <<>>]
  /\ start' = [start EXCEPT ![c] = 0] /\ meta' = [meta EXCEPT ![c] = -1]
  /\ UNCHANGED <<ringVars, procVars, ticketVars>>

(* A closed channel is drained before it ends the pump. *)
LiveEnds(c) == at[c] = "live" /\ ch[c] = <<>> /\ closes[c] > 0 /\ Returns(c)

(* The client goes, a write fails or times out, or the daemon stops. *)
CtxDone(c) == at[c] \in {"replay", "live"} /\ Returns(c)

Pump(c) == WriteInitial(c) \/ WriteMeta(c) \/ WriteLive(c) \/ LiveEnds(c)

PtyNext ==
  \/ \E raw \in Reads : OnData(raw)
  \/ OnExit \/ OnExited \/ ShellExits \/ Unlist \/ Kill
  \/ \E t \in Ticket : IssueTicket(t) \/ TicketExpires(t)
  \/ \E c \in Client : \/ Request(c) \/ Lookup(c) \/ \E cur \in Cursors : Attach(c, cur)
                       \/ Pump(c) \/ CtxDone(c)

(* The read fails once the shell is gone, a removal goes on to its kill, and a
   handler goes on writing (each write has a deadline).  Clients, tickets and
   the shell itself owe nothing. *)
PtyFairness ==
  /\ WF_ptyVars(OnExit) /\ WF_ptyVars(OnExited) /\ WF_ptyVars(Kill)
  /\ \A c \in Client : WF_ptyVars(Pump(c))

PtySpec == PtyInit /\ [][PtyNext]_ptyVars /\ PtyFairness

-----------------------------------------------------------------------------
Min2(a, b) == IF a < b THEN a ELSE b

(* BufferIsTail: the ring holds the last units of the output, all of them up to
   the limit, and bufCur is the absolute offset of the first: the arithmetic
   every replay rests on, across trims and reads that end inside a character. *)
BufferIsTail ==
  /\ cursor = Len(emitted)
  /\ bufCur + Len(buffer) = cursor
  /\ Len(buffer) = Min2(BufferLimit, Len(emitted))
  /\ buffer = SubSeq(emitted, bufCur + 1, Len(emitted))

(* What is on its way to a client and what it has. *)
Received(c) == shown[c] \o FlattenSeq(initial[c]) \o FlattenSeq(ch[c])

(* NoGapNoRepeat: replay and live output together are the session's output from
   one offset on, unit by unit, without a gap and without a repetition: to the
   end for a client that is subscribed, up to where it was dropped for another.
   Only a half of a surrogate pair may come out as U+FFFD: it does where the other
   half is in another frame, and the property does not say where that is. *)
NoGapNoRepeat ==
  \A c \in Client : at[c] \in {"replay", "live"} =>
    LET got == Received(c) IN
    /\ start[c] + Len(got) <= Len(emitted)
    /\ c \in subs => start[c] + Len(got) = Len(emitted)
    /\ \A k \in 1 .. Len(got) :
         \/ got[k] = emitted[start[c] + k]
         \/ got[k] = "?" /\ emitted[start[c] + k] \in {"hi", "lo"}

(* CursorMatchesReplay: the cursor in the control frame is the offset at which
   the live output goes on, so that a client which counts the units it was sent
   can come back with its count and lose nothing. *)
CursorMatchesReplay ==
  \A c \in Client : at[c] = "replay" =>
    meta[c] = start[c] + Len(shown[c]) + Len(FlattenSeq(initial[c]))

(* SingleClose: onData, onExit and Conn.Close close the same channel, in any
   order; no channel is closed twice and none is sent on after its close. *)
SingleClose ==
  \A c \in Client : closes[c] <= 1 /\ (c \in subs => closes[c] = 0)

(* AdmittedOnce: a ticket lets one connection in, whoever else presents it. *)
AdmittedOnce == \A t \in Ticket : uses[t] <= 1

(* What every connect, read, exit and removal keeps. *)
PtyInv ==
  /\ PtyTypeOK
  /\ BufferIsTail /\ CursorMatchesReplay /\ SingleClose /\ AdmittedOnce

(* RemovedIsReaped: a session off the list, by its exit or by Remove or
   Shutdown, loses its process and its master. *)
RemovedIsReaped == []<>(listed \/ (~alive /\ ~ptmx))

(* DroppedIsLetGo: a client that is no longer subscribed, because it was slow or
   because the session exited, gets what was queued and is disconnected: it
   never waits on a channel nobody closes.  (A client is dropped once, so that
   there is a time at which none is left waiting.) *)
DroppedIsLetGo ==
  []<>(\A c \in Client : at[c] \in {"replay", "live"} => c \in subs)

=============================================================================
