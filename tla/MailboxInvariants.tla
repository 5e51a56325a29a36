-------------------------- MODULE MailboxInvariants --------------------------
(***************************************************************************)
(* What the refinement of MailboxRefinement rests on, whatever Redis       *)
(* loses: how lists, rows and the messages a delivery has read are         *)
(* ordered, and that a message missing from them is missed by somebody,    *)
(* so that Hidden names it.  MailboxProofs proves these invariants.        *)
(***************************************************************************)
EXTENDS SerialInvariants, MailboxRefinement

\* A delivery to u has been acknowledged as a whole and is deleting the queue.
BeingCleared(u) == \E s \in Sockets : Owner[s] = u /\ onConn[s] \in Clearance

\* Rows are stamped one after the other.
StampsInv ==
  /\ \A m \in Messages : createdAt[m] <= pgClock
  /\ \A m, n \in Rows : createdAt[m] = createdAt[n] => m = n

\* What was received was acknowledged to onMessage or to a delivery, not in between.
ReceivedInv ==
  \A m \in received : onMsg[m] \in {"getUser", "DELIVERED", "DEVICE_ID_MISMATCH", "QUEUED"}

\* Lists, and what was read from them or from the rows, keep the order of created_at.
OrderInv ==
  /\ \A u \in Users : Sorted(redisQueue[u])
  /\ \A s \in Sockets : Sorted(queued[s])

\* A list holds nothing but what is kept, unless it is about to be deleted.
ListInv == \A u \in Users : Elements(redisQueue[u]) \subseteq Kept(u) \/ BeingCleared(u)

\* q holds all messages kept for u, or lacks one that was queued and not received.
Complete(q, u) ==
  \/ Kept(u) \subseteq Elements(q)
  \/ \E n \in Messages : onMsg[n] = "QUEUED" /\ Receiver[n] = u /\ n \notin received \cup Elements(q)

CompleteInv ==
  /\ \A u \in Users : redisQueue[u] # <<>> => Complete(redisQueue[u], u)
  /\ \A s \in Sockets : queued[s] # <<>> => Complete(queued[s], Owner[s])

\* While a delivery runs, the list of its user is what it has read, or is gone; what it reads
\* has rows, and keeps them until their session has been released.
DeliveryInv ==
  \A s \in Sockets :
    /\ onConn[s] \in {"readRows", "restoreQueue", "clearRows"} => redisQueue[Owner[s]] = <<>>
    /\ onConn[s] \in {"idle", "lookup", "register", "readQueue", "readRows"} => queued[s] = <<>>
    /\ onConn[s] \in {"group", "send", "awaitAck"} \cup Clearance =>
         redisQueue[Owner[s]] \in {<<>>, queued[s]}
    /\ onConn[s] = "restoreQueue" => Elements(queued[s]) = RowsFor(Owner[s])
    /\ onConn[s] \in {"group", "send", "awaitAck"} => Elements(queued[s]) \subseteq Rows
    /\ onConn[s] \in Clearance =>
         \A m \in Elements(queued[s]) : Sender[m] \in todo[s] => m \in Rows

\* The youngest row of a user has not been received, unless the queue is about to be deleted.
YoungestInv ==
  \A u \in Users :
    \/ \A m \in RowsFor(u) \cap received :
         \E n \in RowsFor(u) \ received : createdAt[m] < createdAt[n]
    \/ BeingCleared(u)

KeepingInv ==
  /\ StampsInv /\ ReceivedInv /\ OrderInv /\ ListInv
  /\ CompleteInv /\ DeliveryInv /\ YoungestInv

==============================================================================
