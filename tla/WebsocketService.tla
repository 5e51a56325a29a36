--------------------------- MODULE WebsocketService ---------------------------
(***************************************************************************)
(* src/websocket/websocket.service.ts with the services it calls: message  *)
(* delivery between users, the queue for users who cannot be reached and   *)
(* its delivery when they connect.                                         *)
(*                                                                         *)
(* One Node.js process runs any number of handlers; they interleave at     *)
(* every await.  A handler is a program counter and its local variables:   *)
(* onMessage has one for each message, handleConnection one for each       *)
(* socket; handleDisconnection changes what is modelled here before its    *)
(* first await, so it is a single action.  An action is the access to one  *)
(* store (or to the client) that a handler awaits, together with the       *)
(* synchronous code that runs on its result.  Accesses that change nothing *)
(* kept here (the upsert of the conversation, EXPIRE, SADD, getQueueCount, *)
(* updateConversation, the final "idle" emission and the presence          *)
(* broadcast) add no action of their own: the handler may be delayed       *)
(* between any two actions anyway.                                         *)
(***************************************************************************)
EXTENDS SessionService, MessageQueueService

CONSTANT MaxFaults   \* how many faults of each kind a behaviour may contain

FaultKinds == {"crash", "redis", "access"}

ASSUME FaultsAssumption == MaxFaults \in [FaultKinds -> Nat]

VARIABLES
  conn,      \* conn[s]: is the socket open?
  clients,   \* the Map clients: user -> socket_id, NoSocket when absent
  onMsg,     \* program counter of onMessage, or the reply it gave
  msgFrom,   \* local sender of onMessage: its user id, NoUser when undefined
  msgTo,     \* local receiver of onMessage: its socket_id, NoSocket when undefined
  msgLock,   \* the Session row getSession is writing back to Redis
  onConn,    \* program counter of handleConnection
  queued,    \* local queuedMessages of handleConnection
  pos,       \* index of the queued message being delivered
  connTo,    \* local receiver of handleConnection: its socket_id
  todo,      \* peers of the conversations still to unlock and clear
  received,  \* messages a client acknowledged with { received: true }
  late,      \* history: queued while a delivery to the receiver was under way
  faults     \* faults so far, by kind

msgVars  == <<onMsg, msgFrom, msgTo, msgLock>>
connVars == <<onConn, queued, pos, connTo, todo>>
netVars  == <<conn, clients>>
history  == <<received, late>>
vars == <<sessionVars, queueVars, netVars, msgVars, connVars, history, faults>>

Replies == {"DELIVERED", "QUEUED", "SESSION_LOCKED", "DEVICE_ID_MISMATCH",
            "SELF_MESSAGING", "NO_REPLY"}
MsgSteps == {"readLock", "readLockRow", "restoreLock", "emit", "awaitAck", "getUser",
             "lockRedis", "lockRow", "pushRedis", "createRow"}
\* handleConnection after it has looked at the Redis list and before it is done
Delivering == {"readRows", "restoreQueue", "group", "send", "awaitAck", "unlockRedis",
               "unlockRow", "clearConversation", "clearList"}
ConnSteps == {"lookup", "register", "readQueue", "clearRows"} \cup Delivering

SocketOrNone == Sockets \cup {NoSocket}

MsgTypeOK ==
  /\ onMsg \in [Messages -> {"unsent"} \cup MsgSteps \cup Replies]
  /\ msgFrom \in [Messages -> Holder]
  /\ msgTo \in [Messages -> SocketOrNone]
  /\ msgLock \in [Messages -> Holder]

ConnTypeOK ==
  /\ onConn \in [Sockets -> {"idle"} \cup ConnSteps]
  /\ queued \in [Sockets -> Seq(Messages)]
  /\ pos \in [Sockets -> Nat]
  /\ connTo \in [Sockets -> SocketOrNone]
  /\ todo \in [Sockets -> SUBSET Users]

TypeOK ==
  /\ SessionTypeOK
  /\ QueueTypeOK
  /\ MsgTypeOK
  /\ ConnTypeOK
  /\ conn \in [Sockets -> BOOLEAN]
  /\ clients \in [Users -> SocketOrNone]
  /\ received \subseteq Messages
  /\ late \subseteq Messages
  /\ faults \in [FaultKinds -> Nat]

Init ==
  /\ SessionInit
  /\ QueueInit
  /\ conn = [s \in Sockets |-> FALSE]
  /\ clients = [u \in Users |-> NoSocket]
  /\ onMsg = [m \in Messages |-> "unsent"]
  /\ msgFrom = [m \in Messages |-> NoUser]
  /\ msgTo = [m \in Messages |-> NoSocket]
  /\ msgLock = [m \in Messages |-> NoUser]
  /\ onConn = [s \in Sockets |-> "idle"]
  /\ queued = [s \in Sockets |-> <<>>]
  /\ pos = [s \in Sockets |-> 0]
  /\ connTo = [s \in Sockets |-> NoSocket]
  /\ todo = [s \in Sockets |-> {}]
  /\ received = {}
  /\ late = {}
  /\ faults = [k \in FaultKinds |-> 0]

-------------------------------------------------------------------------------
\* Helpers.

Fault(k) == faults[k] < MaxFaults[k] /\ faults' = [faults EXCEPT ![k] = @ + 1]

Reachable(t) == t # NoSocket /\ conn[t]   \* sockets.sockets.get(target_id) finds it

ClientId(u) == IF clients[u] = NoSocket THEN NoUser ELSE u   \* clients.get(u)?.user.id

GoMsg(m, from, to)  == onMsg[m] = from /\ onMsg' = [onMsg EXCEPT ![m] = to]
GoConn(s, from, to) == onConn[s] = from /\ onConn' = [onConn EXCEPT ![s] = to]

\* onMessage ends with answer; its locals are gone.
Reply(m, answer) ==
  /\ onMsg' = [onMsg EXCEPT ![m] = answer]
  /\ msgFrom' = [msgFrom EXCEPT ![m] = NoUser]
  /\ msgTo' = [msgTo EXCEPT ![m] = NoSocket]
  /\ msgLock' = [msgLock EXCEPT ![m] = NoUser]

\* handleConnection ends; its locals are gone.
EndConn(s) ==
  /\ onConn' = [onConn EXCEPT ![s] = "idle"]
  /\ queued' = [queued EXCEPT ![s] = <<>>]
  /\ pos' = [pos EXCEPT ![s] = 0]
  /\ connTo' = [connTo EXCEPT ![s] = NoSocket]
  /\ todo' = [todo EXCEPT ![s] = {}]

\* A delivery of the queue of u has read the list and has not cleared it yet.
BeingDelivered(u) == \E s \in Sockets : Owner[s] = u /\ onConn[s] \in Delivering

-------------------------------------------------------------------------------
\* onMessage: a user sends m through any of the user's open sockets.

\* sender?.user.id === receiver?.user.id
SameUser(m) == ClientId(Sender[m]) = ClientId(Receiver[m])

OnMessage(m) ==
  /\ onMsg[m] = "unsent"
  /\ \E s \in Sockets : Owner[s] = Sender[m] /\ conn[s]
  /\ \/ /\ SameUser(m)
        /\ Reply(m, "SELF_MESSAGING")
     \/ /\ ~SameUser(m)
        /\ onMsg' = [onMsg EXCEPT ![m] = "readLock"]
        /\ msgFrom' = [msgFrom EXCEPT ![m] = ClientId(Sender[m])]
        /\ msgTo' = [msgTo EXCEPT ![m] = clients[Receiver[m]]]
        /\ UNCHANGED msgLock
  /\ UNCHANGED <<sessionVars, queueVars, netVars, connVars, history, faults>>

\* Mutant: the lock of the other user is not respected.
LockedOutNever(m, holder) == FALSE

\* session && session.locked_by !== sender?.user.id
LockedOut(m, holder) == holder # NoUser /\ holder # msgFrom[m]

\* getSession returned holder: SESSION_LOCKED is thrown, or the message is emitted.
CheckLock(m, holder) ==
  \/ LockedOut(m, holder) /\ Reply(m, "SESSION_LOCKED")
  \/ /\ ~LockedOut(m, holder)
     /\ onMsg' = [onMsg EXCEPT ![m] = "emit"]
     /\ msgLock' = [msgLock EXCEPT ![m] = NoUser]
     /\ UNCHANGED <<msgFrom, msgTo>>

ReadLock(m) ==
  LET holder == redisLock[ConversationOf(m)] IN
  /\ onMsg[m] = "readLock"
  /\ \/ holder # NoUser /\ CheckLock(m, holder)
     \/ /\ holder = NoUser
        /\ GoMsg(m, "readLock", "readLockRow")
        /\ UNCHANGED <<msgFrom, msgTo, msgLock>>
  /\ UNCHANGED <<sessionVars, queueVars, netVars, connVars, history, faults>>

ReadLockRow(m) ==
  LET holder == pgLock[ConversationOf(m)] IN
  /\ GoMsg(m, "readLockRow", IF holder = NoUser THEN "emit" ELSE "restoreLock")
  /\ msgLock' = [msgLock EXCEPT ![m] = holder]
  /\ UNCHANGED <<sessionVars, queueVars, netVars, msgFrom, msgTo, connVars, history, faults>>

RestoreLockOf(m) ==
  /\ onMsg[m] = "restoreLock"
  /\ RestoreLock(ConversationOf(m), msgLock[m])
  /\ CheckLock(m, msgLock[m])
  /\ UNCHANGED <<queueVars, netVars, connVars, history, faults>>

\* An access of getSession fails: it is caught there and reported as "no lock".
ReadLockFails(m) ==
  /\ onMsg[m] \in {"readLock", "readLockRow", "restoreLock"}
  /\ Fault("access")
  /\ onMsg' = [onMsg EXCEPT ![m] = "emit"]
  /\ msgLock' = [msgLock EXCEPT ![m] = NoUser]
  /\ UNCHANGED <<sessionVars, queueVars, netVars, msgFrom, msgTo, connVars, history>>

\* emitToTarget: resolves at once when the socket is gone.
Emit(m) ==
  /\ GoMsg(m, "emit", IF Reachable(msgTo[m]) THEN "awaitAck" ELSE "lockRedis")
  /\ UNCHANGED <<sessionVars, queueVars, netVars, msgFrom, msgTo, msgLock, connVars, history, faults>>

\* The client acknowledges with { received: true } before the timeout.
Acknowledge(m) ==
  /\ Reachable(msgTo[m])
  /\ GoMsg(m, "awaitAck", "getUser")
  /\ received' = received \cup {m}
  /\ UNCHANGED <<sessionVars, queueVars, netVars, msgFrom, msgTo, msgLock, connVars, late, faults>>

\* Mutants: a message without an answer counts as delivered; there is no timeout.
NotAcknowledgedDelivered(m) ==
  /\ GoMsg(m, "awaitAck", "getUser")
  /\ UNCHANGED <<sessionVars, queueVars, netVars, msgFrom, msgTo, msgLock, connVars, history, faults>>

NotAcknowledgedNoTimeout(m) ==
  /\ ~Reachable(msgTo[m])
  /\ GoMsg(m, "awaitAck", "lockRedis")
  /\ UNCHANGED <<sessionVars, queueVars, netVars, msgFrom, msgTo, msgLock, connVars, history, faults>>

\* The 3000 ms run out, or the client answers { received: false }.
NotAcknowledged(m) ==
  /\ GoMsg(m, "awaitAck", "lockRedis")
  /\ UNCHANGED <<sessionVars, queueVars, netVars, msgFrom, msgTo, msgLock, connVars, history, faults>>

\* Which device the sender addressed, and which one getUser knows, is left open.
CheckDevice(m) ==
  /\ onMsg[m] = "getUser"
  /\ \E answer \in {"DELIVERED", "DEVICE_ID_MISMATCH"} : Reply(m, answer)
  /\ UNCHANGED <<sessionVars, queueVars, netVars, connVars, history, faults>>

\* Mutant: the receiver becomes the holder of the lock.
LockSessionRedisForReceiver(m) ==
  /\ GoMsg(m, "lockRedis", "lockRow")
  /\ LockRedis(ConversationOf(m), Receiver[m])
  /\ UNCHANGED <<queueVars, netVars, msgFrom, msgTo, msgLock, connVars, history, faults>>

LockSessionRedis(m) ==
  /\ GoMsg(m, "lockRedis", "lockRow")
  /\ LockRedis(ConversationOf(m), Sender[m])
  /\ UNCHANGED <<queueVars, netVars, msgFrom, msgTo, msgLock, connVars, history, faults>>

LockSessionRow(m) ==
  /\ GoMsg(m, "lockRow", "pushRedis")
  /\ LockRow(ConversationOf(m), Sender[m])
  /\ UNCHANGED <<queueVars, netVars, msgFrom, msgTo, msgLock, connVars, history, faults>>

EnqueueRedis(m) ==
  /\ GoMsg(m, "pushRedis", "createRow")
  /\ PushRedis(m)
  /\ late' = IF BeingDelivered(Receiver[m]) THEN late \cup {m} ELSE late
  /\ UNCHANGED <<sessionVars, netVars, msgFrom, msgTo, msgLock, connVars, received, faults>>

EnqueueRow(m) ==
  /\ onMsg[m] = "createRow"
  /\ CreateRow(m)
  /\ Reply(m, "QUEUED")
  /\ UNCHANGED <<sessionVars, netVars, connVars, history, faults>>

\* The conversation lookup, lockSession, enqueueMessage or getUser throws: onMessage
\* swallows it, no reply.
OnMessageFails(m) ==
  /\ onMsg[m] \in {"readLock", "lockRedis", "lockRow", "pushRedis", "createRow", "getUser"}
  /\ Fault("access")
  /\ Reply(m, "NO_REPLY")
  /\ UNCHANGED <<sessionVars, queueVars, netVars, connVars, history>>

\* What the handler does without the help of a client.
MsgContinues(m) ==
  \/ ReadLock(m) \/ ReadLockRow(m) \/ RestoreLockOf(m)
  \/ Emit(m) \/ NotAcknowledged(m) \/ CheckDevice(m)
  \/ LockSessionRedis(m) \/ LockSessionRow(m) \/ EnqueueRedis(m) \/ EnqueueRow(m)

MsgProgress(m) == MsgContinues(m) \/ Acknowledge(m)

-------------------------------------------------------------------------------
\* handleConnection and handleDisconnection.

\* The identifier s is free for a new connection: nothing refers to an old one.
Unused(s) ==
  /\ ~conn[s] /\ onConn[s] = "idle"
  /\ \A u \in Users : clients[u] # s
  /\ \A m \in Messages : msgTo[m] # s
  /\ \A t \in Sockets : connTo[t] # s

Connect(s) ==
  /\ Unused(s)
  /\ conn' = [conn EXCEPT ![s] = TRUE]
  /\ GoConn(s, "idle", "lookup")
  /\ UNCHANGED <<sessionVars, queueVars, clients, msgVars, queued, pos, connTo, todo, history, faults>>

\* The user row is read; a second connection of a registered user is ignored.
Lookup(s) ==
  /\ GoConn(s, "lookup", IF clients[Owner[s]] = NoSocket THEN "register" ELSE "idle")
  /\ UNCHANGED <<sessionVars, queueVars, netVars, msgVars, queued, pos, connTo, todo, history, faults>>

\* clients.set, after the await of addOnlineUser and without a second look.
Register(s) ==
  /\ GoConn(s, "register", "readQueue")
  /\ clients' = [clients EXCEPT ![Owner[s]] = s]
  /\ UNCHANGED <<sessionVars, queueVars, conn, msgVars, queued, pos, connTo, todo, history, faults>>

\* Mutant: the messages are popped from the list when they are read.
ReadQueuePops(s) ==
  LET list == redisQueue[Owner[s]] IN
  /\ GoConn(s, "readQueue", IF list = <<>> THEN "readRows" ELSE "group")
  /\ queued' = [queued EXCEPT ![s] = list]
  /\ ClearUserList(Owner[s])
  /\ UNCHANGED <<sessionVars, netVars, msgVars, pos, connTo, todo, history, faults>>

ReadQueue(s) ==
  LET list == redisQueue[Owner[s]] IN
  /\ GoConn(s, "readQueue", IF list = <<>> THEN "readRows" ELSE "group")
  /\ queued' = [queued EXCEPT ![s] = list]
  /\ UNCHANGED <<sessionVars, queueVars, netVars, msgVars, pos, connTo, todo, history, faults>>

ReadQueueRows(s) ==
  LET rows == RowsFor(Owner[s]) IN
  /\ GoConn(s, "readRows", IF rows = {} THEN "idle" ELSE "restoreQueue")
  /\ \E q \in InCreationOrder(rows) : queued' = [queued EXCEPT ![s] = q]
  /\ UNCHANGED <<sessionVars, queueVars, netVars, msgVars, pos, connTo, todo, history, faults>>

RestoreQueueOf(s) ==
  /\ GoConn(s, "restoreQueue", "group")
  /\ RestoreQueue(Owner[s], queued[s])
  /\ UNCHANGED <<sessionVars, netVars, msgVars, queued, pos, connTo, todo, history, faults>>

\* An access of getQueuedMessages fails: it is caught there and reported as "none".
ReadQueueFails(s) ==
  /\ onConn[s] \in {"readQueue", "readRows"}
  /\ Fault("access")
  /\ EndConn(s)
  /\ UNCHANGED <<sessionVars, queueVars, netVars, msgVars, history>>

\* pipeline.exec() reports failed commands in its result, which nobody looks at.
RestoreQueueFails(s) ==
  /\ GoConn(s, "restoreQueue", "group")
  /\ Fault("access")
  /\ UNCHANGED <<sessionVars, queueVars, netVars, msgVars, queued, pos, connTo, todo, history>>

\* Mutant: the sender of the first message is looked up in place of the receiver.
GroupSwapped(s) ==
  /\ GoConn(s, "group", "send")
  /\ connTo' = [connTo EXCEPT ![s] = clients[Sender[queued[s][1]]]]
  /\ pos' = [pos EXCEPT ![s] = 1]
  /\ UNCHANGED <<sessionVars, queueVars, netVars, msgVars, queued, todo, history, faults>>

\* The messages are grouped by conversation, then the receiver is looked up.
Group(s) ==
  /\ GoConn(s, "group", "send")
  /\ connTo' = [connTo EXCEPT ![s] = clients[Owner[s]]]
  /\ pos' = [pos EXCEPT ![s] = 1]
  /\ UNCHANGED <<sessionVars, queueVars, netVars, msgVars, queued, todo, history, faults>>

\* sendMessage(message, sender, receiver, true): no lock check, no second queueing.
SendQueued(s) ==
  /\ onConn[s] = "send"
  /\ \/ /\ Reachable(connTo[s])
        /\ GoConn(s, "send", "awaitAck")
        /\ UNCHANGED <<queued, pos, connTo, todo>>
     \/ ~Reachable(connTo[s]) /\ EndConn(s)
  /\ UNCHANGED <<sessionVars, queueVars, netVars, msgVars, history, faults>>

\* Mutant: off by one, the last message is not waited for.
LastOneEarly(s) == pos[s] + 1 >= Len(queued[s])

\* deliveredCount === queuedMessages.length, once the current message is counted
LastOne(s) == pos[s] = Len(queued[s])

AcknowledgeQueued(s) ==
  /\ onConn[s] = "awaitAck" /\ Reachable(connTo[s])
  /\ received' = received \cup {queued[s][pos[s]]}
  /\ pos' = [pos EXCEPT ![s] = @ + 1]
  /\ onConn' = [onConn EXCEPT ![s] = IF LastOne(s) THEN "unlockRedis" ELSE "send"]
  /\ todo' = [todo EXCEPT ![s] =
                IF LastOne(s) THEN {Sender[m] : m \in Elements(queued[s])} ELSE {}]
  /\ UNCHANGED <<sessionVars, queueVars, netVars, msgVars, queued, connTo, late, faults>>

\* Mutant: the list is cleared although the delivery broke off.
QueuedNotAcknowledgedClears(s) ==
  /\ GoConn(s, "awaitAck", "clearList")
  /\ UNCHANGED <<sessionVars, queueVars, netVars, msgVars, queued, pos, connTo, todo, history, faults>>

\* Mutant: the session is released although the delivery broke off.
QueuedNotAcknowledgedUnlocks(s) ==
  /\ onConn[s] = "awaitAck"
  /\ ReleaseRedis(ConversationOf(queued[s][pos[s]]))
  /\ EndConn(s)
  /\ UNCHANGED <<queueVars, netVars, msgVars, history, faults>>

\* No acknowledgement of a queued message: the loop breaks and nothing is cleared.
QueuedNotAcknowledged(s) ==
  /\ onConn[s] = "awaitAck"
  /\ EndConn(s)
  /\ UNCHANGED <<sessionVars, queueVars, netVars, msgVars, history, faults>>

\* Mutant: a message whose delivery threw is counted as delivered.
SendQueuedFailsCounted(s) ==
  /\ Fault("access")
  /\ GoConn(s, "send", IF LastOne(s) THEN "clearList" ELSE "send")
  /\ pos' = [pos EXCEPT ![s] = @ + 1]
  /\ UNCHANGED <<sessionVars, queueVars, netVars, msgVars, queued, connTo, todo, history>>

\* The conversation lookup in sendMessage throws: caught, the loop breaks.
SendQueuedFails(s) ==
  /\ onConn[s] = "send"
  /\ Fault("access")
  /\ EndConn(s)
  /\ UNCHANGED <<sessionVars, queueVars, netVars, msgVars, history>>

\* The conversations of the delivered messages, in the order they first appear.
FirstIndex(s) ==
  CHOOSE i \in DOMAIN queued[s] :
    /\ Sender[queued[s][i]] \in todo[s]
    /\ \A j \in DOMAIN queued[s] : Sender[queued[s][j]] \in todo[s] => i <= j

Peer(s) == Sender[queued[s][FirstIndex(s)]]

Clearing(s) == {Owner[s], Peer(s)}

ReleaseSessionRedis(s) ==
  /\ GoConn(s, "unlockRedis", "unlockRow")
  /\ ReleaseRedis(Clearing(s))
  /\ UNCHANGED <<queueVars, netVars, msgVars, queued, pos, connTo, todo, history, faults>>

ReleaseSessionRow(s) ==
  /\ GoConn(s, "unlockRow", "clearConversation")
  /\ ReleaseRow(Clearing(s))
  /\ UNCHANGED <<queueVars, netVars, msgVars, queued, pos, connTo, todo, history, faults>>

\* Both accesses of releaseSession are caught; a failed DEL skips the row.
ReleaseSessionFails(s) ==
  /\ onConn[s] \in {"unlockRedis", "unlockRow"}
  /\ Fault("access")
  /\ onConn' = [onConn EXCEPT ![s] = "clearConversation"]
  /\ UNCHANGED <<sessionVars, queueVars, netVars, msgVars, queued, pos, connTo, todo, history>>

NextConversation(s) ==
  LET rest == todo[s] \ {Peer(s)} IN
  /\ onConn[s] = "clearConversation"
  /\ onConn' = [onConn EXCEPT ![s] = IF rest = {} THEN "clearList" ELSE "unlockRedis"]
  /\ todo' = [todo EXCEPT ![s] = rest]

ClearQueue(s) ==
  /\ NextConversation(s)
  /\ ClearConversationRows(Clearing(s))
  /\ UNCHANGED <<sessionVars, netVars, msgVars, queued, pos, connTo, history, faults>>

ClearQueueFails(s) ==
  /\ NextConversation(s)
  /\ Fault("access")
  /\ UNCHANGED <<sessionVars, queueVars, netVars, msgVars, queued, pos, connTo, history>>

ClearUserQueueRedis(s) ==
  /\ GoConn(s, "clearList", "clearRows")
  /\ ClearUserList(Owner[s])
  /\ UNCHANGED <<sessionVars, netVars, msgVars, queued, pos, connTo, todo, history, faults>>

ClearUserQueueRows(s) ==
  /\ onConn[s] = "clearRows"
  /\ ClearUserRows(Owner[s])
  /\ EndConn(s)
  /\ UNCHANGED <<sessionVars, netVars, msgVars, history, faults>>

\* clearUserQueue catches; a failed DEL skips the rows.
ClearUserQueueFails(s) ==
  /\ onConn[s] \in {"clearList", "clearRows"}
  /\ Fault("access")
  /\ EndConn(s)
  /\ UNCHANGED <<sessionVars, queueVars, netVars, msgVars, history>>

\* Mutant: the entry is dropped only when the socket that closes is the one it names.
DisconnectOwnEntry(s) ==
  /\ conn[s]
  /\ conn' = [conn EXCEPT ![s] = FALSE]
  /\ clients' = [u \in Users |-> IF clients[u] = s THEN NoSocket ELSE clients[u]]
  /\ UNCHANGED <<sessionVars, queueVars, msgVars, connVars, history, faults>>

\* The entry of the user is dropped, whichever of the user's sockets has closed.
Disconnect(s) ==
  /\ conn[s]
  /\ conn' = [conn EXCEPT ![s] = FALSE]
  /\ clients' = [clients EXCEPT ![Owner[s]] = NoSocket]
  /\ UNCHANGED <<sessionVars, queueVars, msgVars, connVars, history, faults>>

ConnContinues(s) ==
  \/ Lookup(s) \/ Register(s)
  \/ ReadQueue(s) \/ ReadQueueRows(s) \/ RestoreQueueOf(s) \/ Group(s)
  \/ SendQueued(s) \/ QueuedNotAcknowledged(s)
  \/ ReleaseSessionRedis(s) \/ ReleaseSessionRow(s) \/ ClearQueue(s)
  \/ ClearUserQueueRedis(s) \/ ClearUserQueueRows(s)

ConnProgress(s) == ConnContinues(s) \/ AcknowledgeQueued(s)

-------------------------------------------------------------------------------
\* Faults.

\* The process stops and starts again: sockets, handlers and the Map are gone.
\* An access that fails before any try block ends the same way, as an unhandled
\* rejection.
Crash ==
  /\ Fault("crash")
  /\ conn' = [s \in Sockets |-> FALSE]
  /\ clients' = [u \in Users |-> NoSocket]
  /\ onMsg' = [m \in Messages |-> IF onMsg[m] \in MsgSteps THEN "NO_REPLY" ELSE onMsg[m]]
  /\ msgFrom' = [m \in Messages |-> NoUser]
  /\ msgTo' = [m \in Messages |-> NoSocket]
  /\ msgLock' = [m \in Messages |-> NoUser]
  /\ onConn' = [s \in Sockets |-> "idle"]
  /\ queued' = [s \in Sockets |-> <<>>]
  /\ pos' = [s \in Sockets |-> 0]
  /\ connTo' = [s \in Sockets |-> NoSocket]
  /\ todo' = [s \in Sockets |-> {}]
  /\ UNCHANGED <<sessionVars, queueVars, history>>

\* The TTL of a list runs out (locks have none).
Expire(u) ==
  /\ Fault("redis")
  /\ ExpireList(u)
  /\ UNCHANGED <<sessionVars, netVars, msgVars, connVars, history>>

LoseRedis ==
  /\ Fault("redis")
  /\ LoseRedisLocks
  /\ LoseRedisQueues
  /\ UNCHANGED <<netVars, msgVars, connVars, history>>

AccessFails ==
  \/ \E m \in Messages : ReadLockFails(m) \/ OnMessageFails(m)
  \/ \E s \in Sockets :
       \/ ReadQueueFails(s) \/ RestoreQueueFails(s) \/ SendQueuedFails(s)
       \/ ReleaseSessionFails(s) \/ ClearQueueFails(s) \/ ClearUserQueueFails(s)

-------------------------------------------------------------------------------

Next ==
  \/ \E m \in Messages : OnMessage(m) \/ MsgProgress(m)
  \/ \E s \in Sockets : Connect(s) \/ ConnProgress(s) \/ Disconnect(s)
  \/ Crash
  \/ \E u \in Users : Expire(u)
  \/ LoseRedis
  \/ AccessFails

Spec == Init /\ [][Next]_vars

==============================================================================
