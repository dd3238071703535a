------------------------------ MODULE MCRelay -------------------------------
(* Two notifications of two sessions and a third of the first, for one device
   that registers for both sessions. *)
EXTENDS Relay, TLC

CONSTANTS n1, n2, n3, s1, s2, phone

MCNote == {n1, n2, n3}
MCWantedSets == {MCNote, {n2, n3}}
MCSession == {s1, s2}
MCSessionOf == (n1 :> s1) @@ (n2 :> s1) @@ (n3 :> s2)
MCDevice == {phone}
MCFilters == {{s1, s2}}
=============================================================================
