--------------------------- MODULE MailboxRefinement ---------------------------
(***************************************************************************)
(* The queue of WebsocketService as a Mailbox.  The mailbox of a user is   *)
(* what getQueuedMessages would return: the Redis list or, when there is   *)
(* none, the rows in the order of their creation, and the message that has *)
(* been pushed and gets its row next.                                      *)
(***************************************************************************)
EXTENDS WebsocketProperties

\* m comes before n in the order of created_at; the message that gets its row next is last.
Before(m, n) == createdAt[m] > 0 /\ (onMsg[n] = "createRow" \/ createdAt[m] < createdAt[n])

Sorted(q) == \A i, j \in DOMAIN q : i < j => q[i] # q[j] /\ ~Before(q[j], q[i])

Orders(set) == {q \in [1..Cardinality(set) -> set] : Elements(q) = set /\ Sorted(q)}

Pick(set) == CHOOSE e \in set : TRUE

\* The messages for u that have a row, and the one that has been pushed and gets its row next.
Unrowed(u) == {m \in Messages : Receiver[m] = u /\ onMsg[m] = "createRow"}
Kept(u)    == RowsFor(u) \cup Unrowed(u)

BoxOf(u) == IF redisQueue[u] # <<>> THEN redisQueue[u] ELSE Pick(Orders(Kept(u)))

\* A delivery to the receiver of m is under way and does not know m.
PassedOver(m) ==
  \E s \in Sockets : Owner[s] = Receiver[m] /\ queued[s] # <<>> /\ m \notin Elements(queued[s])

\* A sender was told QUEUED, the receiver does not have the message, and no delivery would
\* find it or the one under way does not know it: Redis lost the list and got another one
\* that hides the rows.
Hidden == {m \in Messages : /\ onMsg[m] = "QUEUED" /\ m \notin received
                            /\ m \notin Elements(BoxOf(Receiver[m])) \/ PassedOver(m)}

Boxes  == [u \in Users |-> BoxOf(u)]
Intact == faults["redis"] = 0 \/ Hidden = {}

Mail == INSTANCE Mailbox WITH box <- Boxes, intact <- Intact

\* Under SerialSpec both stores together are a mailbox: also when Redis loses its data,
\* as long as nothing is pushed before the list has been restored.
IsMailbox == Mail!Spec
===============================================================================
