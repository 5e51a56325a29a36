------------------------------ MODULE MCPresence ------------------------------
(***************************************************************************)
(* alice connects twice and bob once, alice writes to bob and carol to     *)
(* alice, and the process may stop: any three of these in one behaviour,   *)
(* and the four that make bob miss an announcement for lack of room.       *)
(***************************************************************************)
EXTENDS Presence, TLC

CONSTANTS alice, bob, carol, a1, a2, b1, t1, t2

MCOwner    == [s \in Sockets |-> IF s = b1 THEN bob ELSE alice]
MCQueries  == Sockets \X {"on", "off"}
MCAsker    == [h \in Queries |-> MCOwner[h[1]]]
MCSender   == [t \in Talks |-> IF t = t1 THEN alice ELSE carol]
MCReceiver == [t \in Talks |-> IF t = t1 THEN bob ELSE alice]

\* Connections, messages and crashes of one behaviour, of the six there are in all.
MaxArrivals == 3
Arrivals ==
  Cardinality(open \cup closed) + Cardinality({t \in Talks : talk[t] # "idle"}) + crashes

\* All that happens while alice connects once and bob stays: she has written to bob before
\* carol writes to her, which leaves bob beyond the Limit.
TwoPartners ==
  /\ crashes = 0 /\ a2 \notin open \cup closed /\ b1 \notin closed
  /\ talk[t2] # "idle" => talk[t1] = "done"

FewArrivals == Arrivals <= MaxArrivals \/ TwoPartners
===============================================================================
