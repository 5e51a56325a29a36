----------------------------- MODULE MCAuthService -----------------------------
(***************************************************************************)
(* alice logs in twice, perhaps for the first time in both calls, and bob  *)
(* once; three refreshes present whatever has been given out.              *)
(***************************************************************************)
EXTENDS AuthService, TLC

CONSTANTS alice, bob, l1, l2, l3, r1, r2, r3

MCLoginUser == [l \in Logins |-> IF l = l3 THEN bob ELSE alice]
===============================================================================
