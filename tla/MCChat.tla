------------------------------- MODULE MCChat -------------------------------
(***************************************************************************)
(* Instances of Chat for TLC.                                              *)
(***************************************************************************)
EXTENDS Chat, TLC

CONSTANTS alice, bob, c1, c2, r1, r2, r3, openai, azure

\* Two users; the first has two requests, as from two tabs.
MCUserOf == [r \in Requests |-> IF r = r3 THEN bob ELSE alice]
OneUser == [r \in Requests |-> alice]

MCRegistry == <<openai, azure>>

Symmetric == Permutations({c1, c2})
=============================================================================
