---------------------------- MODULE MCUsersService ----------------------------
(***************************************************************************)
(* alice logs in twice and bob once; alice registers a key and edits her   *)
(* profile, and two lookups of alice overlap with all of it.               *)
(***************************************************************************)
EXTENDS UsersService, TLC

CONSTANTS alice, bob, l1, l2, l3, k1, e1, g1, g2

MCLoginUser  == [l \in Logins |-> IF l = l3 THEN bob ELSE alice]
MCRegistrant == [k \in Registrations |-> alice]
MCEditor     == [e \in Edits |-> alice]
MCLookedUp   == [g \in Lookups |-> alice]
===============================================================================
