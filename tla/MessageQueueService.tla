------------------------- MODULE MessageQueueService -------------------------
(***************************************************************************)
(* src/message-queue/message-queue.service.ts: the messages waiting for a  *)
(* user, kept twice: in the Redis list message_queue:<user> and as rows of *)
(* the QueuedMessage table in PostgreSQL.  As in SessionService, every     *)
(* store access is an operator of its own and the handlers of              *)
(* WebsocketService put them in the order of the code.                     *)
(*                                                                         *)
(* A row carries its receiver, its conversation and created_at; the first  *)
(* two are functions of the message, created_at is a stamp taken from a    *)
(* clock that ticks with every insertion.                                  *)
(***************************************************************************)
EXTENDS ConnectDomain

VARIABLES
  redisQueue,  \* redisQueue[u]: the list message_queue:u, oldest first
  createdAt,   \* createdAt[m]: created_at of the row of m, 0 when there is none
  pgClock      \* created_at of the latest insertion

queueVars == <<redisQueue, createdAt, pgClock>>

QueueTypeOK ==
  /\ redisQueue \in [Users -> Seq(Messages)]
  /\ createdAt \in [Messages -> Nat]
  /\ pgClock \in Nat

QueueInit ==
  /\ redisQueue = [u \in Users |-> <<>>]
  /\ createdAt = [m \in Messages |-> 0]
  /\ pgClock = 0

Rows == {m \in Messages : createdAt[m] > 0}

RowsFor(u) == {m \in Rows : Receiver[m] = u}          \* where: { receiver_id }

\* orderBy: { created_at: 'asc' }
InCreationOrder(rows) ==
  {q \in [1..Cardinality(rows) -> rows] :
      \A i, j \in 1..Cardinality(rows) : i < j => createdAt[q[i]] < createdAt[q[j]]}

DeleteRows(rows) ==
  createdAt' = [m \in Messages |-> IF m \in rows THEN 0 ELSE createdAt[m]]

\* Mutant: LPUSH, although the list is read from its head.
PushRedisFront(m) ==
  /\ redisQueue' = [redisQueue EXCEPT ![Receiver[m]] = <<m>> \o @]
  /\ UNCHANGED <<createdAt, pgClock>>

\* enqueueMessage: RPUSH (and EXPIRE) first, then the row.
PushRedis(m) ==
  /\ redisQueue' = [redisQueue EXCEPT ![Receiver[m]] = Append(@, m)]
  /\ UNCHANGED <<createdAt, pgClock>>

\* Mutant: the message is kept in Redis only.
CreateRowSkipped(m) == UNCHANGED queueVars

CreateRow(m) ==
  /\ pgClock' = pgClock + 1
  /\ createdAt' = [createdAt EXCEPT ![m] = pgClock + 1]
  /\ UNCHANGED redisQueue

\* getQueuedMessages: rows read after a Redis miss are pushed back, one RPUSH each.
RestoreQueue(u, q) ==
  /\ redisQueue' = [redisQueue EXCEPT ![u] = @ \o q]
  /\ UNCHANGED <<createdAt, pgClock>>

\* clearQueue: every row of the conversation, whichever side it waits for.
ClearConversationRows(c) ==
  /\ DeleteRows({m \in Rows : ConversationOf(m) = c})
  /\ UNCHANGED <<redisQueue, pgClock>>

\* Mutant: a deleted list reads as null and not as an empty list.
ClearUserListNull(u) ==
  /\ redisQueue' = [redisQueue EXCEPT ![u] = NoUser]
  /\ UNCHANGED <<createdAt, pgClock>>

\* clearUserQueue: first the Redis list, then the rows of the receiver.
ClearUserList(u) ==
  /\ redisQueue' = [redisQueue EXCEPT ![u] = <<>>]
  /\ UNCHANGED <<createdAt, pgClock>>

ClearUserRows(u) ==
  /\ DeleteRows(RowsFor(u))
  /\ UNCHANGED <<redisQueue, pgClock>>

\* QUEUE_TTL runs out for a list, or Redis restarts without its data.
ExpireList(u) == ClearUserList(u)

LoseRedisQueues ==
  /\ redisQueue' = [u \in Users |-> <<>>]
  /\ UNCHANGED <<createdAt, pgClock>>

==============================================================================
