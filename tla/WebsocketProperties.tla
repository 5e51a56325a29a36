------------------------- MODULE WebsocketProperties -------------------------
(***************************************************************************)
(* What message delivery promises, and the environments under which the    *)
(* promises are examined.  Spec, of WebsocketService, lets handlers        *)
(* overlap in every way the event loop allows; SerialSpec is the same      *)
(* system when no handler starts while another one runs, the process does  *)
(* not stop and no access fails, which is how the code reads when its      *)
(* comments reason about one call at a time.  Redis may lose data in both. *)
(***************************************************************************)
EXTENDS WebsocketService

Idle == /\ \A m \in Messages : onMsg[m] \notin MsgSteps
        /\ \A s \in Sockets : onConn[s] = "idle"

SerialNext ==
  \/ Idle /\ \E m \in Messages : OnMessage(m)
  \/ Idle /\ \E s \in Sockets : Connect(s)
  \/ \E m \in Messages : MsgProgress(m)
  \/ \E s \in Sockets : ConnProgress(s) \/ Disconnect(s)
  \/ \E u \in Users : Expire(u)
  \/ LoseRedis

SerialSpec == Init /\ [][SerialNext]_vars

(***************************************************************************)
(* Fairness: the event loop runs the continuation of every completed       *)
(* access, accesses complete (a failed one is a fault) and an emission     *)
(* without an answer is resolved by its 3000 ms timeout, so a handler that *)
(* has started keeps going.  Nothing is promised about clients: they need  *)
(* neither send, connect, acknowledge nor disconnect, and an               *)
(* acknowledgement is not what a handler may rely on to go on.             *)
(***************************************************************************)
FairSpec ==
  /\ Spec
  /\ \A m \in Messages : WF_vars(MsgContinues(m))
  /\ \A s \in Sockets : WF_vars(ConnContinues(s))

-------------------------------------------------------------------------------
\* Safety however handlers overlap.

\* A sender is told DELIVERED, or DEVICE_ID_MISMATCH, which is decided after the
\* delivery, only when a client has acknowledged the message.
DeliveredWasReceived ==
  \A m \in Messages :
    onMsg[m] \in {"DELIVERED", "DEVICE_ID_MISMATCH"} => m \in received

\* A message waits for the acknowledgement of a socket of its receiver and of nobody
\* else, although handlers keep socket ids across awaits and messages pass through
\* two stores.
OnlyReceiverGetsMessage ==
  /\ \A m \in Messages : onMsg[m] = "awaitAck" => Owner[msgTo[m]] = Receiver[m]
  /\ \A s \in Sockets :
       onConn[s] = "awaitAck" => Owner[connTo[s]] = Receiver[queued[s][pos[s]]]

\* handleConnection releases sessions and clears queues only after the client has
\* acknowledged every message it had read from the queue.
ClearsAfterWholeDelivery ==
  \A s \in Sockets :
    onConn[s] \in {"unlockRedis", "unlockRow", "clearConversation", "clearList", "clearRows"}
      => Elements(queued[s]) \subseteq received

\* As long as Redis has kept its data, a message whose sender was told QUEUED stays in
\* the Redis list of its receiver until the receiver has acknowledged it; the only
\* exception is a message that was pushed while a delivery to that receiver was
\* under way.
QueuedUntilReceived ==
  faults["redis"] = 0 =>
    \A m \in Messages :
      onMsg[m] = "QUEUED" /\ m \notin received \cup late
        => m \in Elements(redisQueue[Receiver[m]])

\* A lock, in either store, is always held by the sender of a message of that
\* conversation that could not be delivered: no handler locks, or restores a lock,
\* for a message that was delivered or refused.
CannotDeliver == {"lockRow", "pushRedis", "createRow", "QUEUED", "NO_REPLY"}

Causes == {<<ConversationOf(m), Sender[m]>> : m \in {n \in Messages : onMsg[n] \in CannotDeliver}}

LockHasCause ==
  \A c \in Conversations, u \in Users :
    redisLock[c] = u \/ pgLock[c] = u => <<c, u>> \in Causes

-------------------------------------------------------------------------------
\* Safety under SerialSpec: no overlap, no crash, no failing access.

\* As long as Redis has kept its data, while a queued message has not been received both
\* stores hold the lock for its sender: the receiver cannot write into the conversation
\* first.
LockedWhileQueued ==
  faults["redis"] = 0 =>
    \A m \in Messages :
      onMsg[m] = "QUEUED" /\ m \notin received =>
        /\ redisLock[ConversationOf(m)] = Sender[m]
        /\ pgLock[ConversationOf(m)] = Sender[m]

\* Redis has lost a list, and a delivery that knew only the messages of other conversations
\* has deleted the rows of c with clearUserQueue: nobody releases the session of c.
Overlooked(c) ==
  /\ faults["redis"] > 0
  /\ \E m \in received : onMsg[m] = "QUEUED" /\ Receiver[m] \in c /\ ConversationOf(m) # c

\* Between handlers a conversation is locked only if the row of a message is still queued in
\* it, or its rows were overlooked: otherwise SESSION_LOCKED never asks a client to wait for
\* nothing.
NoIdleLock ==
  Idle => \A c \in Conversations :
    redisLock[c] # NoUser \/ pgLock[c] # NoUser =>
      \/ \E m \in Rows : ConversationOf(m) = c
      \/ Overlooked(c)

\* As long as Redis has kept its data, between handlers it holds the same locks and the
\* same queues as PostgreSQL.
StoresAgree ==
  Idle /\ faults["redis"] = 0 =>
    /\ redisLock = pgLock
    /\ \A u \in Users : Elements(redisQueue[u]) = RowsFor(u)

\* Two users never have undelivered rows queued for each other, even when Redis has lost
\* its locks and they must be restored from PostgreSQL.
NoCrossing ==
  \A m, n \in Rows \ received : ConversationOf(m) = ConversationOf(n) => Sender[m] = Sender[n]

\* Redis may lose everything: between handlers, as long as a row that was not received is
\* left, PostgreSQL still has the lock that goes with it.
LockOutlivesRedis ==
  Idle => \A m \in Rows \ received : pgLock[ConversationOf(m)] = Sender[m]

-------------------------------------------------------------------------------
\* Liveness.

\* Every onMessage and every handleConnection that has started comes to an end, whatever
\* the clients do: a client that never answers does not hold a handler up.
HandlersFinish ==
  /\ \A m \in Messages : []<>(onMsg[m] \notin MsgSteps)
  /\ \A s \in Sockets : []<>(onConn[s] = "idle")

\* In this step no client of u leaves a message of a delivery without an answer, or closes a
\* socket while a connection of u is being handled.
Handled(u) == \E s \in Sockets : Owner[s] = u /\ onConn[s] # "idle"

Attentive(u) ==
  \A s \in Sockets : Owner[s] = u =>
    /\ onConn[s] = "awaitAck" => onConn'[s] # "idle"
    /\ Handled(u) /\ conn[s] => conn'[s]

Returns(u) == \E s \in Sockets : Owner[s] = u /\ ~conn[s] /\ conn'[s]

\* A message whose sender was told QUEUED reaches its receiver, whatever happened before, if
\* the receiver connects again and again and from some time on answers and does not hang up
\* during a delivery.
QueuedIsReceived ==
  \A m \in Messages :
    LET u == Receiver[m]
    IN []<><<Returns(u)>>_vars /\ <>[][Attentive(u)]_vars
         => []<>(onMsg[m] # "QUEUED" \/ m \in late \cup received)

-------------------------------------------------------------------------------
\* What the code says of itself and does not keep.

\* websocket.service.ts:113: "Only unlock and clear if ALL messages were delivered".
\* The list message_queue:<user> is deleted only when all of it has been received.
ClearsOnlyDelivered ==
  [][\A u \in Users :
       redisQueue[u] # <<>> /\ redisQueue'[u] = <<>> => Elements(redisQueue[u]) \subseteq received]_vars

\* exceptions.ts:42: "Cannot send message to yourself".  The reply SELF_MESSAGING is
\* given only for a message whose receiver is its sender.
SelfMessagingOnlyToSelf ==
  \A m \in Messages : onMsg[m] = "SELF_MESSAGING" => Sender[m] = Receiver[m]

\* message-queue.service.ts:28: "Write to PostgreSQL (persistent backup)".  The row of a
\* message whose sender was told QUEUED is kept until the receiver has the message.
BackupKeepsQueued ==
  \A m \in Messages : onMsg[m] = "QUEUED" /\ m \notin received => m \in Rows

==============================================================================
