------------------------- MODULE WebsocketInvariants -------------------------
(***************************************************************************)
(* Inductive strengthenings of the safety invariants of                    *)
(* WebsocketProperties.  None of those is inductive by itself: each says   *)
(* something about the end of a handler, and what makes it true is what    *)
(* the handler has established on its way there.  The invariants below add *)
(* that; WebsocketProofs proves them and TLC checks them on instances.     *)
(***************************************************************************)
EXTENDS WebsocketProperties

\* The delivery loop of handleConnection never indexes outside the messages it has read.
PositionInRange ==
  \A s \in Sockets :
    /\ onConn[s] \in {"restoreQueue", "group"} => queued[s] # <<>>
    /\ onConn[s] \in {"send", "awaitAck"} => pos[s] \in 1..Len(queued[s])

TypeInv == TypeOK /\ PositionInRange

\* onMessage leaves the emission towards getUser only when it was acknowledged.
DeliveredInv ==
  \A m \in Messages :
    onMsg[m] \in {"getUser", "DELIVERED", "DEVICE_ID_MISMATCH"} => m \in received

\* Everything before the position of the delivery loop has been received.
WholeDeliveryInv ==
  /\ ClearsAfterWholeDelivery
  /\ \A s \in Sockets :
       onConn[s] \in {"send", "awaitAck"} =>
         \A i \in 1..Len(queued[s]) : i < pos[s] => queued[s][i] \in received

\* The Map, the socket ids handlers have taken from it and the queues all stay with the
\* right user.
ReceiverInv ==
  /\ \A u \in Users : clients[u] # NoSocket => Owner[clients[u]] = u
  /\ \A m \in Messages : msgTo[m] # NoSocket => Owner[msgTo[m]] = Receiver[m]
  /\ \A s \in Sockets : connTo[s] # NoSocket => Owner[connTo[s]] = Owner[s]
  /\ \A u \in Users : \A m \in Elements(redisQueue[u]) : Receiver[m] = u
  /\ \A s \in Sockets : \A m \in Elements(queued[s]) : Receiver[m] = Owner[s]
  /\ \A m \in Messages : onMsg[m] = "awaitAck" => msgTo[m] # NoSocket
  /\ \A s \in Sockets : onConn[s] = "awaitAck" => connTo[s] # NoSocket

\* A message that is queued, or about to be, and has not been received is in the list.
\* A delivery that has read the list knows all of it, except for what was received in the
\* meantime or pushed during the delivery; one that found the list empty restores rows
\* that are of no further use.
RowsQueued == \A m \in Rows : onMsg[m] = "QUEUED"

Settled == received \cup late

QueuedListed ==
  \A m \in Messages :
    onMsg[m] \in {"createRow", "QUEUED"} /\ m \notin Settled
      => m \in Elements(redisQueue[Receiver[m]])

DeliveryKnows(s) ==
  /\ onConn[s] = "readRows" => queued[s] = <<>>
  /\ onConn[s] = "restoreQueue" => Elements(queued[s]) \subseteq Settled
  /\ onConn[s] \in Delivering =>
       Elements(redisQueue[Owner[s]]) \subseteq Elements(queued[s]) \cup Settled

QueuedInv ==
  /\ RowsQueued
  /\ faults["redis"] = 0 => QueuedListed /\ \A s \in Sockets : DeliveryKnows(s)

\* A lock that is about to be restored has a cause, as those in the stores have.
LockInv ==
  /\ LockHasCause
  /\ \A m \in Messages :
       /\ msgLock[m] # NoUser => <<ConversationOf(m), msgLock[m]>> \in Causes
       /\ onMsg[m] = "restoreLock" => msgLock[m] # NoUser

==============================================================================
