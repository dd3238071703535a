--------------------------- MODULE MCEventStreams ---------------------------
(* One directory, one instance stream and one global stream over channels of
   one event, and a producer beside the shutdown. *)
EXTENDS EventStreams, TLC

CONSTANTS d1, i1, g1, engine, main, global

MCDirectory == {d1}
MCInstance == {d1} \X (1 .. 2)
MCSub == {i1, g1}
MCInstanceStream == {i1}
MCProducer == {engine, main}
=============================================================================
