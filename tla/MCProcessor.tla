---------------------------- MODULE MCProcessor ----------------------------
(* A turn of four events of the provider: two call ids, called, refused and answered
   in any order and again, alike and calls of the structured answer, so that two of
   them trip a doom-loop guard set to two, where the code's is three; two parts of
   text or reasoning; and a store that fails by itself. *)
EXTENDS Processor, TLC

CONSTANTS k1, k2, answer, r1

TwoCalls == {k1, k2}
MCSig == {answer}
MCStructured == {answer}
MCKey == {r1}
=============================================================================
