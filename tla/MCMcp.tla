------------------------------- MODULE MCMcp --------------------------------
(* A server that may not answer and one that wants authorization, or the first *)
(* disabled and the second yet to be added; two concurrent operations and two     *)
(* changes of the tools.                                                       *)
EXTENDS Mcp, TLC

CONSTANTS sse, auth, p1, p2

MCServer == {sse, auth}
MCCall == {p1, p2}
MCDeaf == {sse}
Plain == [known |-> TRUE, enabled |-> TRUE, oauth |-> FALSE]
Guarded == [Plain EXCEPT !.oauth = TRUE]
Off == [Plain EXCEPT !.enabled = FALSE]
MCConfigured == {(sse :> Plain) @@ (auth :> Guarded), (sse :> Off) @@ (auth :> NoConfig)}
MCAddable == {Plain, Off}
MCOps == (p1 :> {<<"add", sse>>, <<"start", auth>>})
           @@ (p2 :> {<<"disconnect", sse>>, <<"connect", sse>>, <<"finish", auth>>, <<"status", sse>>})
=============================================================================
