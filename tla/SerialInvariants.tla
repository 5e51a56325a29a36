--------------------------- MODULE SerialInvariants ---------------------------
(***************************************************************************)
(* Inductive strengthenings of the invariants of WebsocketProperties that  *)
(* hold under SerialSpec only.  They follow one handler through its        *)
(* accesses: which lock the sender of the message has passed, which locks  *)
(* a delivery has released and which rows it has deleted.  SerialProofs    *)
(* proves them.                                                            *)
(***************************************************************************)
EXTENDS WebsocketInvariants

\* handleConnection after the whole queue has been acknowledged; the part of it that goes
\* from conversation to conversation.
Unlocking == {"unlockRedis", "unlockRow", "clearConversation"}
Clearance == Unlocking \cup {"clearList", "clearRows"}

\* A delivery has released the session of c in Redis only, or in both stores, and has not
\* deleted its rows yet.
HalfUnlocked(c) == \E s \in Sockets : onConn[s] = "unlockRow" /\ Clearing(s) = c
Unlocked(c)     == \E s \in Sockets : onConn[s] = "clearConversation" /\ Clearing(s) = c

\* A handler runs alone.
OneHandler ==
  /\ \A m, n \in Messages : onMsg[m] \in MsgSteps /\ onMsg[n] \in MsgSteps => m = n
  /\ \A s, t \in Sockets : onConn[s] # "idle" /\ onConn[t] # "idle" => s = t
  /\ \A m \in Messages, s \in Sockets : onMsg[m] \notin MsgSteps \/ onConn[s] = "idle"

\* The local sender of onMessage is the sender or undefined, and a message that has got past
\* the first comparison is not addressed to its sender.
PartiesInv ==
  \A m \in Messages :
    /\ msgFrom[m] \in {NoUser, Sender[m]}
    /\ onMsg[m] \notin {"unsent", "SELF_MESSAGING"} => Sender[m] # Receiver[m]

\* What the other invariants take for granted.
SerialBase == TypeInv /\ ReceiverInv /\ WholeDeliveryInv /\ RowsQueued /\ OneHandler /\ PartiesInv

-------------------------------------------------------------------------------
\* Redis has no lock that PostgreSQL has not, except between the two accesses of lockSession.
RedisLockInv ==
  \A c \in Conversations :
    \/ redisLock[c] \in {NoUser, pgLock[c]}
    \/ \E m \in Messages : /\ onMsg[m] = "lockRow" /\ ConversationOf(m) = c
                           /\ redisLock[c] = Sender[m]

\* What onMessage has found out about the lock stays true until it has locked for itself.
PassedInv ==
  \A m \in Messages :
    /\ onMsg[m] = "restoreLock" => msgLock[m] = pgLock[ConversationOf(m)]
    /\ onMsg[m] \in {"emit", "awaitAck", "lockRedis", "lockRow"}
         => pgLock[ConversationOf(m)] \in {NoUser, Sender[m]}
    /\ onMsg[m] \in {"pushRedis", "createRow"} => pgLock[ConversationOf(m)] = Sender[m]

\* A row is under the lock of its sender until a delivery releases the session, and then it
\* is deleted next.  All rows of a conversation have one sender.
RowLockInv ==
  /\ \A m \in Rows : pgLock[ConversationOf(m)] = Sender[m] \/ Unlocked(ConversationOf(m))
  /\ \A m, n \in Rows : ConversationOf(m) = ConversationOf(n) => Sender[m] = Sender[n]

\* The lists hold only messages whose sender was told QUEUED, or is about to be.
ListedInv ==
  /\ \A u \in Users : \A m \in Elements(redisQueue[u]) : onMsg[m] \in {"createRow", "QUEUED"}
  /\ \A s \in Sockets : \A m \in Elements(queued[s]) : onMsg[m] = "QUEUED"

\* A delivery goes through the senders of what it has read, at least one message, and the
\* sessions of those it has left behind are released, each first in Redis.
ReleasedInv ==
  \A s \in Sockets :
    /\ todo[s] \subseteq {Sender[m] : m \in Elements(queued[s])}
    /\ todo[s] # {} <=> onConn[s] \in Unlocking
    /\ onConn[s] \in Clearance =>
         /\ queued[s] # <<>>
         /\ \A m \in Elements(queued[s]) : Sender[m] \notin todo[s] => pgLock[ConversationOf(m)] = NoUser
    /\ onConn[s] = "unlockRow" => redisLock[Clearing(s)] = NoUser
    /\ onConn[s] = "clearConversation" => pgLock[Clearing(s)] = NoUser

LocksInv == RedisLockInv /\ PassedInv /\ RowLockInv /\ ListedInv /\ ReleasedInv

-------------------------------------------------------------------------------
\* As long as Redis has kept its data, the list of a user holds the messages of the user's
\* rows, and the one that gets its row next ...
Pushed(u) == {m \in Messages : Receiver[m] = u /\ onMsg[m] = "createRow"}

SameQueues ==
  \A u \in Users :
    \/ Elements(redisQueue[u]) = RowsFor(u) \cup Pushed(u)
    \/ \E s \in Sockets : Owner[s] = u /\ onConn[s] \in Clearance

\* ... a delivery has read all of that list, and of what it read the rows of the senders it
\* has left behind are deleted ...
SameDelivery ==
  \A s \in Sockets :
    /\ onConn[s] # "restoreQueue"
    /\ onConn[s] \in {"readRows", "clearRows"} => redisQueue[Owner[s]] = <<>>
    /\ onConn[s] \in {"group", "send", "awaitAck"} =>
         Elements(queued[s]) = Elements(redisQueue[Owner[s]])
    /\ onConn[s] \in Clearance =>
         RowsFor(Owner[s]) = {m \in Elements(queued[s]) : Sender[m] \in todo[s]}

\* ... the locks are the same but for the one that is being set or released ...
SameLocks ==
  /\ \A c \in Conversations :
       \/ redisLock[c] = pgLock[c]
       \/ HalfUnlocked(c)
       \/ \E m \in Messages : onMsg[m] = "lockRow" /\ ConversationOf(m) = c
  /\ \A m \in Messages : onMsg[m] = "lockRow" => redisLock[ConversationOf(m)] = Sender[m]

\* ... and a message that was queued and not received has its row.
KeptRows == \A m \in Messages : onMsg[m] = "QUEUED" /\ m \notin received => m \in Rows

IntactInv == faults["redis"] = 0 => SameQueues /\ SameDelivery /\ SameLocks /\ KeptRows

-------------------------------------------------------------------------------
\* A lock is there for a row, or for a message that gets one next, but for the exception
\* that NoIdleLock makes.
LockedForRow ==
  \A c \in Conversations :
    pgLock[c] # NoUser =>
      \/ \E m \in Messages : /\ ConversationOf(m) = c
                             /\ m \in Rows \/ onMsg[m] \in {"pushRedis", "createRow"}
      \/ Overlooked(c)

==============================================================================
