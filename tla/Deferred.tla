------------------------------ MODULE Deferred ------------------------------
(***************************************************************************)
(* What the permission and the question manager promise a tool that asks:  *)
(* a request is opened once, gets at most one answer, and its asker        *)
(* returns with that answer or because its own context was cancelled.      *)
(* This is the "deferred-unblock pattern" both packages describe.          *)
(***************************************************************************)
CONSTANTS
  Ask,     \* the requests
  Answer   \* what a client can answer; neither "none" nor "cancelled"

VARIABLES
  state,   \* state[a]: new | open | answered | over
  answer   \* answer[a]: the answer given, or "none"; when over, what the
           \* asker returned: an answer or "cancelled"

DInit ==
  /\ state = [a \in Ask |-> "new"]
  /\ answer = [a \in Ask |-> "none"]

(* The request is put before the clients. *)
Open(a) ==
  /\ state[a] = "new"
  /\ state' = [state EXCEPT ![a] = "open"]
  /\ UNCHANGED answer

(* The request needs no client: the asker returns at once. *)
Decide(a) ==
  /\ state[a] = "new"
  /\ state' = [state EXCEPT ![a] = "over"]
  /\ \E v \in Answer : answer' = [answer EXCEPT ![a] = v]

(* One reply answers a set of open requests, all alike. *)
Settle(S) ==
  /\ \A a \in S : state[a] = "open"
  /\ \E v \in Answer :
       /\ state' = [a \in Ask |-> IF a \in S THEN "answered" ELSE state[a]]
       /\ answer' = [a \in Ask |-> IF a \in S THEN v ELSE answer[a]]

(* The asker returns the answer. *)
Collect(a) ==
  /\ state[a] = "answered"
  /\ state' = [state EXCEPT ![a] = "over"]
  /\ UNCHANGED answer

(* The asker gives up; an answer already given is lost with it. *)
Abandon(a) ==
  /\ state[a] \in {"open", "answered"}
  /\ state' = [state EXCEPT ![a] = "over"]
  /\ answer' = [answer EXCEPT ![a] = "cancelled"]

DNext ==
  \/ \E a \in Ask : Open(a) \/ Decide(a) \/ Collect(a) \/ Abandon(a)
  \/ \E S \in SUBSET Ask : Settle(S)

DSpec == DInit /\ [][DNext]_<<state, answer>>
=============================================================================
