----------------------------- MODULE MCKeyBundles -----------------------------
(***************************************************************************)
(* alice publishes p1 and p2, bob publishes p3; k1 is in p1 and again in   *)
(* p3, k2 in p2.  Every fetch asks for alice's keys, c1 marks k1 and c2 k2.*)
(***************************************************************************)
EXTENDS KeyBundles, TLC

CONSTANTS alice, bob, k1, k2, p1, p2, p3, c1, c2, f1, f2

MCPublisher == [p \in Publications |-> IF p = p3 THEN bob ELSE alice]
MCKeysIn == [p \in Publications |-> IF p = p2 THEN {k2} ELSE {k1}]
MCTarget == [f \in Fetches |-> alice]
MCMarked == [c \in Marks |-> IF c = c1 THEN k1 ELSE k2]
===============================================================================
