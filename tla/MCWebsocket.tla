------------------------------ MODULE MCWebsocket ------------------------------
(***************************************************************************)
(* Alice sends m1 and m2 to bob, bob sends m3 to alice, carol sends m4 to  *)
(* bob; a run takes some of them.                                          *)
(***************************************************************************)
EXTENDS WebsocketInvariants, MailboxRefinement, TLC

CONSTANTS alice, bob, carol, a1, a2, b1, b2, c1, m1, m2, m3, m4, crashes, losses, failures

MCSender   == [m \in Messages |-> IF m = m3 THEN bob ELSE IF m = m4 THEN carol ELSE alice]
MCReceiver == [m \in Messages |-> IF m = m3 THEN alice ELSE bob]
MCOwner    == [s \in Sockets |-> IF s \in {a1, a2} THEN alice ELSE IF s = c1 THEN carol ELSE bob]
MCMaxFaults == ("crash" :> crashes) @@ ("redis" :> losses) @@ ("access" :> failures)
===============================================================================
