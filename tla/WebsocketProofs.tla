--------------------------- MODULE WebsocketProofs ---------------------------
(***************************************************************************)
(* Proofs about WebsocketService: its type invariant and the safety        *)
(* invariants of WebsocketProperties that hold however handlers overlap,   *)
(* for every set of users, sockets and messages and every bound on faults. *)
(***************************************************************************)
EXTENDS WebsocketInvariants, TLAPS, FiniteSetTheorems, SequenceTheorems

-------------------------------------------------------------------------------
\* Facts about the operators.

\* Reading the rows of a user gives a sequence that holds exactly those rows, and it is
\* empty only when there are none.
LEMMA RowsAreSequences ==
  ASSUME NEW rows \in SUBSET Messages, NEW q \in InCreationOrder(rows)
  PROVE  /\ q \in Seq(Messages)
         /\ Elements(q) \subseteq rows
         /\ rows # {} => Len(q) > 0
<1> DEFINE n == Cardinality(rows)
<1>1. n \in Nat /\ (n = 0 => rows = {})
  BY FS_Subset, FS_CardinalityType, FS_EmptySet, MessagesAssumption
<1>2. q \in [1..n -> rows]
  BY DEF InCreationOrder
<1>3. q \in Seq(Messages) /\ Len(q) = n
  BY <1>1, <1>2
<1>4. Elements(q) \subseteq rows
  BY <1>2 DEF Elements
<1> QED
  BY <1>1, <1>3, <1>4

\* The elements of the queues the services build.
LEMMA EmptyQueue == Elements(<<>>) = {}
BY DEF Elements

\* RPUSH adds one message to those of a list.
LEMMA PushedElements ==
  ASSUME NEW q \in Seq(Messages), NEW m \in Messages
  PROVE  Elements(Append(q, m)) = Elements(q) \cup {m}
BY LenProperties, AppendProperties DEF Elements

\* Pushing the restored messages adds them to those of a list.
LEMMA RestoredElements ==
  ASSUME NEW q \in Seq(Messages), NEW r \in Seq(Messages)
  PROVE  Elements(q \o r) = Elements(q) \cup Elements(r)
<1> USE LenProperties, ConcatProperties DEF Elements
<1>1. Elements(q \o r) \subseteq Elements(q) \cup Elements(r)
  OBVIOUS
<1>2. ASSUME NEW i \in 1..Len(q) PROVE q[i] \in Elements(q \o r)
  OBVIOUS
<1>3. ASSUME NEW i \in 1..Len(r) PROVE r[i] \in Elements(q \o r)
  <2>1. i + Len(q) \in 1..Len(q \o r) /\ (q \o r)[i + Len(q)] = r[i]
    OBVIOUS
  <2> QED
    BY <2>1
<1> QED
  BY <1>1, <1>2, <1>3

\* A message read at a position of a queue is one of its messages.
LEMMA ElementAt ==
  ASSUME NEW q \in Seq(Messages), NEW i \in 1..Len(q)
  PROVE  q[i] \in Elements(q)
BY LenProperties DEF Elements

\* Conversations, senders, receivers and owners are what their names say.
LEMMA ConversationTypes ==
  /\ \A m \in Messages : ConversationOf(m) \in Conversations
  /\ \A m \in Messages : Sender[m] \in Users /\ Receiver[m] \in Users
  /\ \A s \in Sockets : Owner[s] \in Users
BY MessagesAssumption, SocketsAssumption DEF Conversations, ConversationOf

-------------------------------------------------------------------------------
\* The steps of a message, of a socket, and the faults of the stores and the process.

MsgStep(m) == OnMessage(m) \/ MsgProgress(m) \/ ReadLockFails(m) \/ OnMessageFails(m)

ConnStep(s) ==
  \/ Connect(s) \/ ConnProgress(s) \/ Disconnect(s)
  \/ ReadQueueFails(s) \/ RestoreQueueFails(s) \/ SendQueuedFails(s)
  \/ ReleaseSessionFails(s) \/ ClearQueueFails(s) \/ ClearUserQueueFails(s)

\* Every step belongs to one message, one socket, the loss of Redis data or a crash.
LEMMA StepCases ==
  ASSUME [Next]_vars
  PROVE  \/ \E m \in Messages : MsgStep(m)
         \/ \E s \in Sockets : ConnStep(s)
         \/ Crash
         \/ \E u \in Users : Expire(u)
         \/ LoseRedis
         \/ UNCHANGED vars
BY DEF Next, AccessFails, MsgStep, ConnStep

\* A step of a message leaves every handleConnection and every other onMessage alone.
LEMMA MsgStepFrame ==
  ASSUME TypeOK, NEW m \in Messages, MsgStep(m)
  PROVE  /\ UNCHANGED <<conn, clients, onConn, queued, pos, connTo, todo>>
         /\ received \subseteq received' /\ late \subseteq late'
         /\ faults'["redis"] = faults["redis"]
         /\ \A n \in Messages \ {m} : /\ onMsg'[n] = onMsg[n] /\ msgTo'[n] = msgTo[n]
                                      /\ msgLock'[n] = msgLock[n] /\ msgFrom'[n] = msgFrom[n]
<1> USE DEF TypeOK, MsgTypeOK, sessionVars, queueVars, netVars, connVars, history, GoMsg, Reply
<1>1. CASE OnMessage(m)
  BY <1>1 DEF OnMessage
<1>2. CASE ReadLock(m) \/ ReadLockRow(m) \/ RestoreLockOf(m)
  BY <1>2 DEF ReadLock, ReadLockRow, RestoreLockOf, CheckLock
<1>3. CASE Emit(m) \/ Acknowledge(m) \/ NotAcknowledged(m) \/ CheckDevice(m)
  BY <1>3 DEF Emit, Acknowledge, NotAcknowledged, CheckDevice
<1>4. CASE LockSessionRedis(m) \/ LockSessionRow(m)
  BY <1>4 DEF LockSessionRedis, LockSessionRow
<1>5. CASE EnqueueRedis(m) \/ EnqueueRow(m)
  BY <1>5 DEF EnqueueRedis, EnqueueRow
<1>6. CASE ReadLockFails(m) \/ OnMessageFails(m)
  BY <1>6 DEF ReadLockFails, OnMessageFails, Fault, FaultKinds
<1> QED
  BY <1>1, <1>2, <1>3, <1>4, <1>5, <1>6 DEF MsgStep, MsgProgress, MsgContinues

\* A step of a socket leaves every onMessage and every other handleConnection alone.
LEMMA ConnStepFrame ==
  ASSUME TypeOK, NEW s \in Sockets, ConnStep(s)
  PROVE  /\ UNCHANGED <<onMsg, msgFrom, msgTo, msgLock, late>>
         /\ received \subseteq received'
         /\ faults'["redis"] = faults["redis"]
         /\ \A t \in Sockets \ {s} : /\ onConn'[t] = onConn[t] /\ queued'[t] = queued[t]
                                     /\ pos'[t] = pos[t] /\ connTo'[t] = connTo[t]
                                     /\ todo'[t] = todo[t]
<1> USE DEF TypeOK, ConnTypeOK, sessionVars, queueVars, netVars, msgVars, connVars, history,
            GoConn, EndConn
<1>1. CASE Connect(s) \/ Lookup(s) \/ Register(s) \/ Disconnect(s)
  BY <1>1 DEF Connect, Lookup, Register, Disconnect
<1>2. CASE ReadQueue(s) \/ RestoreQueueOf(s) \/ Group(s)
  BY <1>2 DEF ReadQueue, RestoreQueueOf, Group
<1>3. CASE ReadQueueRows(s)
  BY <1>3 DEF ReadQueueRows
<1>4. CASE SendQueued(s) \/ QueuedNotAcknowledged(s)
  BY <1>4 DEF SendQueued, QueuedNotAcknowledged
<1>5. CASE AcknowledgeQueued(s)
  BY <1>5 DEF AcknowledgeQueued
<1>6. CASE ReleaseSessionRedis(s) \/ ReleaseSessionRow(s) \/ ClearQueue(s)
  BY <1>6 DEF ReleaseSessionRedis, ReleaseSessionRow, ClearQueue, NextConversation
<1>7. CASE ClearUserQueueRedis(s) \/ ClearUserQueueRows(s)
  BY <1>7 DEF ClearUserQueueRedis, ClearUserQueueRows
<1>8. CASE ReadQueueFails(s) \/ SendQueuedFails(s) \/ ClearUserQueueFails(s)
  BY <1>8 DEF ReadQueueFails, SendQueuedFails, ClearUserQueueFails, Fault, FaultKinds
<1>9. CASE RestoreQueueFails(s) \/ ReleaseSessionFails(s) \/ ClearQueueFails(s)
  BY <1>9 DEF RestoreQueueFails, ReleaseSessionFails, ClearQueueFails, NextConversation,
              Fault, FaultKinds
<1> QED
  BY <1>1, <1>2, <1>3, <1>4, <1>5, <1>6, <1>7, <1>8, <1>9 DEF ConnStep, ConnProgress, ConnContinues

-------------------------------------------------------------------------------
\* Type correctness.

\* The initial values have the right types.
LEMMA TypeInit == Init => TypeOK
BY FaultsAssumption, UsersAssumption
   DEF Init, SessionInit, QueueInit, TypeOK, SessionTypeOK, QueueTypeOK, MsgTypeOK,
       ConnTypeOK, Holder, SocketOrNone

\* A step preserves the types, given that no queue is indexed out of its range.
LEMMA TypeStep == TypeOK /\ PositionInRange /\ [Next]_vars => TypeOK'
<1> SUFFICES ASSUME TypeOK, PositionInRange, [Next]_vars PROVE TypeOK'
  OBVIOUS
<1> USE ConversationTypes
    DEF TypeOK, SessionTypeOK, QueueTypeOK, MsgTypeOK, ConnTypeOK, Holder, SocketOrNone,
        sessionVars, queueVars, netVars, msgVars, connVars, history, GoMsg, GoConn,
        Reply, EndConn
<1>1. ASSUME NEW m \in Messages, OnMessage(m) PROVE TypeOK'
  <2>1. CASE SameUser(m) /\ Reply(m, "SELF_MESSAGING")
    BY <1>1, <2>1 DEF OnMessage, Replies
  <2>2. CASE ~SameUser(m)
    <3>1. ClientId(Sender[m]) \in Users \cup {NoUser}
      BY DEF ClientId
    <3>2. /\ onMsg' = [onMsg EXCEPT ![m] = "readLock"]
          /\ msgFrom' = [msgFrom EXCEPT ![m] = ClientId(Sender[m])]
          /\ msgTo' = [msgTo EXCEPT ![m] = clients[Receiver[m]]]
          /\ UNCHANGED msgLock
          /\ UNCHANGED <<sessionVars, queueVars, netVars, connVars, history, faults>>
      BY <1>1, <2>2 DEF OnMessage
    <3>3. MsgTypeOK'
      BY <3>1, <3>2 DEF MsgSteps
    <3> QED
      BY <3>2, <3>3
  <2> QED
    BY <1>1, <2>1, <2>2 DEF OnMessage
<1>2. ASSUME NEW m \in Messages, ReadLock(m) PROVE TypeOK'
  BY <1>2 DEF ReadLock, CheckLock, MsgSteps, Replies
<1>3. ASSUME NEW m \in Messages, ReadLockRow(m) PROVE TypeOK'
  BY <1>3 DEF ReadLockRow, MsgSteps
<1>4. ASSUME NEW m \in Messages, RestoreLockOf(m) PROVE TypeOK'
  BY <1>4 DEF RestoreLockOf, RestoreLock, CheckLock, MsgSteps, Replies
<1>5. ASSUME NEW m \in Messages, Emit(m) \/ NotAcknowledged(m) PROVE TypeOK'
  BY <1>5 DEF Emit, NotAcknowledged, MsgSteps
<1>6. ASSUME NEW m \in Messages, Acknowledge(m) \/ CheckDevice(m) PROVE TypeOK'
  BY <1>6 DEF Acknowledge, CheckDevice, MsgSteps, Replies
<1>7. ASSUME NEW m \in Messages, LockSessionRedis(m) \/ LockSessionRow(m) PROVE TypeOK'
  BY <1>7 DEF LockSessionRedis, LockSessionRow, LockRedis, LockRow, MsgSteps
<1>8. ASSUME NEW m \in Messages, EnqueueRedis(m) PROVE TypeOK'
  BY <1>8 DEF EnqueueRedis, PushRedis, MsgSteps
<1>9. ASSUME NEW m \in Messages, EnqueueRow(m) PROVE TypeOK'
  BY <1>9 DEF EnqueueRow, CreateRow, Replies
<1>10. ASSUME NEW s \in Sockets, Connect(s) PROVE TypeOK'
  BY <1>10 DEF Connect, ConnSteps
<1>11. ASSUME NEW s \in Sockets, Lookup(s) PROVE TypeOK'
  BY <1>11 DEF Lookup, ConnSteps
<1>12. ASSUME NEW s \in Sockets, Register(s) PROVE TypeOK'
  BY <1>12 DEF Register, ConnSteps
<1>13. ASSUME NEW s \in Sockets, ReadQueue(s) PROVE TypeOK'
  BY <1>13 DEF ReadQueue, ConnSteps, Delivering
<1>14. ASSUME NEW s \in Sockets, ReadQueueRows(s) PROVE TypeOK'
  <2>1. PICK q \in InCreationOrder(RowsFor(Owner[s])) : queued' = [queued EXCEPT ![s] = q]
    BY <1>14 DEF ReadQueueRows
  <2>2. q \in Seq(Messages)
    BY RowsAreSequences DEF RowsFor, Rows
  <2> QED
    BY <1>14, <2>1, <2>2 DEF ReadQueueRows, ConnSteps, Delivering
<1>15. ASSUME NEW s \in Sockets, RestoreQueueOf(s) PROVE TypeOK'
  <2>1. redisQueue[Owner[s]] \o queued[s] \in Seq(Messages)
    OBVIOUS
  <2> QED
    BY <1>15, <2>1 DEF RestoreQueueOf, RestoreQueue, ConnSteps, Delivering
<1>16. ASSUME NEW s \in Sockets, Group(s) PROVE TypeOK'
  BY <1>16 DEF Group, ConnSteps, Delivering
<1>17. ASSUME NEW s \in Sockets, SendQueued(s) PROVE TypeOK'
  <2>1. CASE Reachable(connTo[s])
    BY <1>17, <2>1 DEF SendQueued, ConnSteps, Delivering
  <2>2. CASE ~Reachable(connTo[s])
    <3>1. EndConn(s) /\ UNCHANGED <<sessionVars, queueVars, netVars, msgVars, history, faults>>
      BY <1>17, <2>2 DEF SendQueued
    <3> QED
      BY <3>1
  <2> QED
    BY <2>1, <2>2
<1>18. ASSUME NEW s \in Sockets, AcknowledgeQueued(s) PROVE TypeOK'
  <2>1. ASSUME LastOne(s) PROVE {Sender[m] : m \in Elements(queued[s])} \in SUBSET Users
    BY DEF Elements
  <2>2. queued[s][pos[s]] \in Messages
    <3>1. pos[s] \in 1..Len(queued[s]) /\ queued[s] \in Seq(Messages)
      BY <1>18 DEF AcknowledgeQueued, PositionInRange
    <3> QED
      BY <3>1, ElementOfSeq
  <2> QED
    BY <1>18, <2>1, <2>2 DEF AcknowledgeQueued, ConnSteps, Delivering
<1>19. ASSUME NEW s \in Sockets, QueuedNotAcknowledged(s) PROVE TypeOK'
  BY <1>19 DEF QueuedNotAcknowledged
<1>20. ASSUME NEW s \in Sockets, ReleaseSessionRedis(s) PROVE TypeOK'
  BY <1>20 DEF ReleaseSessionRedis, ReleaseRedis, ConnSteps, Delivering
<1>21. ASSUME NEW s \in Sockets, ReleaseSessionRow(s) PROVE TypeOK'
  BY <1>21 DEF ReleaseSessionRow, ReleaseRow, ConnSteps, Delivering
<1>22. ASSUME NEW s \in Sockets, ClearQueue(s) PROVE TypeOK'
  BY <1>22 DEF ClearQueue, NextConversation, ClearConversationRows, DeleteRows, ConnSteps,
               Delivering
<1>23. ASSUME NEW s \in Sockets, ClearUserQueueRedis(s) PROVE TypeOK'
  BY <1>23 DEF ClearUserQueueRedis, ClearUserList, ConnSteps
<1>24. ASSUME NEW s \in Sockets, ClearUserQueueRows(s) PROVE TypeOK'
  BY <1>24 DEF ClearUserQueueRows, ClearUserRows, DeleteRows
<1>25. ASSUME NEW s \in Sockets, Disconnect(s) PROVE TypeOK'
  BY <1>25 DEF Disconnect
<1>26. CASE Crash
  BY <1>26 DEF Crash, Fault, FaultKinds, Replies
<1>27. ASSUME NEW u \in Users, Expire(u) PROVE TypeOK'
  BY <1>27 DEF Expire, ExpireList, ClearUserList, Fault, FaultKinds
<1>28. CASE LoseRedis
  BY <1>28 DEF LoseRedis, LoseRedisLocks, LoseRedisQueues, Fault, FaultKinds
<1>29. ASSUME NEW m \in Messages, ReadLockFails(m) \/ OnMessageFails(m) PROVE TypeOK'
  <2>1. CASE ReadLockFails(m)
    BY <2>1 DEF ReadLockFails, Fault, FaultKinds, MsgSteps
  <2>2. CASE OnMessageFails(m)
    BY <2>2 DEF OnMessageFails, Fault, FaultKinds, Replies
  <2> QED
    BY <1>29, <2>1, <2>2
<1>30. ASSUME NEW s \in Sockets, ReadQueueFails(s) \/ SendQueuedFails(s) \/ ClearUserQueueFails(s)
       PROVE TypeOK'
  <2>1. /\ faults' = [faults EXCEPT !["access"] = @ + 1] /\ EndConn(s)
        /\ UNCHANGED <<sessionVars, queueVars, netVars, msgVars, history>>
    BY <1>30 DEF ReadQueueFails, SendQueuedFails, ClearUserQueueFails, Fault
  <2> QED
    BY <2>1 DEF FaultKinds
<1>31. ASSUME NEW s \in Sockets, RestoreQueueFails(s) \/ ReleaseSessionFails(s) PROVE TypeOK'
  <2>1. CASE RestoreQueueFails(s)
    BY <2>1 DEF RestoreQueueFails, Fault, FaultKinds, ConnSteps, Delivering
  <2>2. CASE ReleaseSessionFails(s)
    BY <2>2 DEF ReleaseSessionFails, Fault, FaultKinds, ConnSteps, Delivering
  <2> QED
    BY <1>31, <2>1, <2>2
<1>32. ASSUME NEW s \in Sockets, ClearQueueFails(s) PROVE TypeOK'
  BY <1>32 DEF ClearQueueFails, NextConversation, Fault, FaultKinds, ConnSteps, Delivering
<1>33. CASE UNCHANGED vars
  BY <1>33 DEF vars
<1> QED
  BY <1>1, <1>2, <1>3, <1>4, <1>5, <1>6, <1>7, <1>8, <1>9, <1>10, <1>11, <1>12, <1>13,
     <1>14, <1>15, <1>16, <1>17, <1>18, <1>19, <1>20, <1>21, <1>22, <1>23, <1>24, <1>25,
     <1>26, <1>27, <1>28, <1>29, <1>30, <1>31, <1>32, <1>33
     DEF Next, MsgProgress, MsgContinues, ConnProgress, ConnContinues, AccessFails

\* A step keeps the position of every delivery inside the queue it has read.
LEMMA PositionStep == TypeOK /\ PositionInRange /\ [Next]_vars => PositionInRange'
<1> SUFFICES ASSUME TypeOK, PositionInRange, [Next]_vars PROVE PositionInRange'
  OBVIOUS
<1>1. ASSUME NEW m \in Messages, MsgStep(m) PROVE PositionInRange'
  BY <1>1, MsgStepFrame DEF PositionInRange
<1>2. ASSUME NEW s \in Sockets, ConnStep(s) PROVE PositionInRange'
  <2> DEFINE Ok(t) == /\ onConn[t] \in {"restoreQueue", "group"} => queued[t] # <<>>
                      /\ onConn[t] \in {"send", "awaitAck"} => pos[t] \in 1..Len(queued[t])
  <2>1. \A t \in Sockets \ {s} : Ok(t)'
    BY <1>2, ConnStepFrame DEF PositionInRange
  <2> SUFFICES Ok(s)'
    BY <2>1 DEF PositionInRange
  <2> USE DEF TypeOK, ConnTypeOK, PositionInRange, connVars, GoConn, EndConn
  <2>2. CASE Connect(s) \/ Lookup(s) \/ Register(s) \/ Disconnect(s)
    BY <2>2 DEF Connect, Lookup, Register, Disconnect
  <2>3. CASE ReadQueue(s) \/ RestoreQueueOf(s) \/ RestoreQueueFails(s)
    BY <2>3 DEF ReadQueue, RestoreQueueOf, RestoreQueueFails
  <2>4. CASE ReadQueueRows(s)
    <3>1. PICK q \in InCreationOrder(RowsFor(Owner[s])) : queued' = [queued EXCEPT ![s] = q]
      BY <2>4 DEF ReadQueueRows
    <3>2. RowsFor(Owner[s]) # {} => Len(q) > 0
      BY RowsAreSequences DEF RowsFor, Rows
    <3> QED
      BY <2>4, <3>1, <3>2, RowsAreSequences DEF ReadQueueRows
  <2>5. CASE Group(s)
    <3>1. Len(queued[s]) \in Nat \ {0}
      BY <2>5, EmptySeq DEF Group
    <3> QED
      BY <2>5, <3>1 DEF Group
  <2>6. CASE SendQueued(s) \/ QueuedNotAcknowledged(s) \/ SendQueuedFails(s)
    BY <2>6 DEF SendQueued, QueuedNotAcknowledged, SendQueuedFails
  <2>7. CASE AcknowledgeQueued(s)
    BY <2>7 DEF AcknowledgeQueued, LastOne
  <2>8. CASE \/ ReleaseSessionRedis(s) \/ ReleaseSessionRow(s) \/ ReleaseSessionFails(s)
             \/ ClearQueue(s) \/ ClearQueueFails(s) \/ ClearUserQueueRedis(s)
    BY <2>8 DEF ReleaseSessionRedis, ReleaseSessionRow, ReleaseSessionFails, ClearQueue,
                ClearQueueFails, NextConversation, ClearUserQueueRedis
  <2>9. CASE ClearUserQueueRows(s) \/ ReadQueueFails(s) \/ ClearUserQueueFails(s)
    BY <2>9 DEF ClearUserQueueRows, ReadQueueFails, ClearUserQueueFails
  <2> QED
    BY <1>2, <2>2, <2>3, <2>4, <2>5, <2>6, <2>7, <2>8, <2>9 DEF ConnStep, ConnProgress, ConnContinues
<1>3. CASE Crash \/ (\E u \in Users : Expire(u)) \/ LoseRedis \/ UNCHANGED vars
  BY <1>3 DEF Crash, Expire, LoseRedis, vars, connVars, PositionInRange
<1> QED
  BY <1>1, <1>2, <1>3, StepCases

\* The types and the positions are right in every reachable state.
LEMMA TypeInvariant == Spec => []TypeInv
<1>1. Init => TypeInv
  BY TypeInit DEF Init, TypeInv, PositionInRange
<1>2. TypeInv /\ [Next]_vars => TypeInv'
  BY TypeStep, PositionStep DEF TypeInv
<1> QED
  BY <1>1, <1>2, PTL DEF Spec

\* Every variable keeps its type, whatever handlers, clients and faults do.
THEOREM TypeCorrect == Spec => []TypeOK
BY TypeInvariant, PTL DEF TypeInv

-------------------------------------------------------------------------------
\* A sender is told the truth about a delivery.

\* A step that reports a delivery follows an acknowledgement.
LEMMA DeliveredStep == TypeOK /\ DeliveredInv /\ [Next]_vars => DeliveredInv'
<1> SUFFICES ASSUME TypeOK, DeliveredInv, [Next]_vars PROVE DeliveredInv'
  OBVIOUS
<1> USE DEF DeliveredInv
<1>1. ASSUME NEW m \in Messages, MsgStep(m) PROVE DeliveredInv'
  <2>1. \A n \in Messages \ {m} : onMsg'[n] \in {"getUser", "DELIVERED", "DEVICE_ID_MISMATCH"}
                                    => n \in received'
    BY <1>1, MsgStepFrame
  <2> SUFFICES onMsg'[m] \in {"getUser", "DELIVERED", "DEVICE_ID_MISMATCH"} => m \in received'
    BY <2>1
  <2> USE DEF TypeOK, MsgTypeOK, GoMsg, Reply, history
  <2>2. CASE OnMessage(m)
    BY <2>2 DEF OnMessage
  <2>3. CASE ReadLock(m) \/ ReadLockRow(m) \/ RestoreLockOf(m) \/ ReadLockFails(m)
    BY <2>3 DEF ReadLock, ReadLockRow, RestoreLockOf, CheckLock, ReadLockFails
  <2>4. CASE Emit(m) \/ NotAcknowledged(m)
    BY <2>4 DEF Emit, NotAcknowledged
  <2>5. CASE Acknowledge(m) \/ CheckDevice(m)
    BY <2>5 DEF Acknowledge, CheckDevice
  <2>6. CASE LockSessionRedis(m) \/ LockSessionRow(m) \/ EnqueueRedis(m) \/ EnqueueRow(m)
    BY <2>6 DEF LockSessionRedis, LockSessionRow, EnqueueRedis, EnqueueRow
  <2>7. CASE OnMessageFails(m)
    BY <2>7 DEF OnMessageFails
  <2> QED
    BY <1>1, <2>2, <2>3, <2>4, <2>5, <2>6, <2>7 DEF MsgStep, MsgProgress, MsgContinues
<1>2. ASSUME NEW s \in Sockets, ConnStep(s) PROVE DeliveredInv'
  BY <1>2, ConnStepFrame
<1>3. CASE Crash
  BY <1>3 DEF Crash, history, TypeOK, MsgTypeOK
<1>4. CASE (\E u \in Users : Expire(u)) \/ LoseRedis \/ UNCHANGED vars
  BY <1>4 DEF Expire, LoseRedis, vars, msgVars, history
<1> QED
  BY <1>1, <1>2, <1>3, <1>4, StepCases

\* Nobody is told DELIVERED, or refused for the device id after the delivery, unless a
\* client acknowledged the message.
THEOREM DeliveredOnlyIfReceived == Spec => []DeliveredWasReceived
<1>1. Init => DeliveredInv
  BY DEF Init, DeliveredInv
<1>2. TypeInv /\ DeliveredInv /\ [Next]_vars => DeliveredInv'
  BY DeliveredStep DEF TypeInv
<1>3. DeliveredInv => DeliveredWasReceived
  BY DEF DeliveredInv, DeliveredWasReceived
<1> QED
  BY <1>1, <1>2, <1>3, TypeInvariant, PTL DEF Spec

-------------------------------------------------------------------------------
\* Sessions and queues are cleared only behind a whole delivery.

\* A step of a delivery leaves nothing behind its position that was not received.
LEMMA WholeDeliveryStep == TypeInv /\ WholeDeliveryInv /\ [Next]_vars => WholeDeliveryInv'
<1> DEFINE Behind(t) == /\ onConn[t] \in {"unlockRedis", "unlockRow", "clearConversation",
                                          "clearList", "clearRows"}
                             => Elements(queued[t]) \subseteq received
                        /\ onConn[t] \in {"send", "awaitAck"} =>
                             \A i \in 1..Len(queued[t]) : i < pos[t] => queued[t][i] \in received
<1> SUFFICES ASSUME TypeOK, PositionInRange, \A t \in Sockets : Behind(t), [Next]_vars
             PROVE  \A t \in Sockets : Behind(t)'
  BY DEF TypeInv, WholeDeliveryInv, ClearsAfterWholeDelivery
<1>1. ASSUME NEW m \in Messages, MsgStep(m) PROVE \A t \in Sockets : Behind(t)'
  BY <1>1, MsgStepFrame DEF Elements
<1>2. ASSUME NEW s \in Sockets, ConnStep(s) PROVE \A t \in Sockets : Behind(t)'
  <2>1. \A t \in Sockets \ {s} : Behind(t)'
    BY <1>2, ConnStepFrame DEF Elements
  <2> SUFFICES Behind(s)'
    BY <2>1
  <2> USE DEF TypeOK, ConnTypeOK, history, connVars, GoConn, EndConn
  <2>2. CASE Connect(s) \/ Lookup(s) \/ Register(s) \/ ReadQueue(s) \/ RestoreQueueOf(s)
    BY <2>2 DEF Connect, Lookup, Register, ReadQueue, RestoreQueueOf
  <2>3. CASE Disconnect(s)
    BY <2>3 DEF Disconnect, Elements
  <2>4. CASE ReadQueueRows(s)
    BY <2>4 DEF ReadQueueRows
  <2>5. CASE Group(s)
    BY <2>5 DEF Group
  <2>6. CASE SendQueued(s)
    BY <2>6 DEF SendQueued
  <2>7. CASE AcknowledgeQueued(s)
    <3>1. /\ pos[s] \in 1..Len(queued[s])
          /\ \A i \in 1..Len(queued[s]) : i < pos[s] => queued[s][i] \in received
      BY <2>7 DEF AcknowledgeQueued, PositionInRange
    <3>2. /\ received' = received \cup {queued[s][pos[s]]}
          /\ queued' = queued /\ pos'[s] = pos[s] + 1
          /\ onConn'[s] = IF LastOne(s) THEN "unlockRedis" ELSE "send"
      BY <2>7 DEF AcknowledgeQueued
    <3>3. Len(queued[s]) \in Nat /\ DOMAIN queued[s] = 1..Len(queued[s])
      BY LenProperties
    <3>4. \A i \in 1..Len(queued[s]) : i < pos[s] + 1 => queued[s][i] \in received'
      BY <3>1, <3>2
    <3>5. LastOne(s) => Elements(queued[s]) \subseteq received'
      BY <3>1, <3>3, <3>4 DEF LastOne, Elements
    <3> QED
      BY <3>2, <3>4, <3>5
  <2>8. CASE QueuedNotAcknowledged(s) \/ SendQueuedFails(s) \/ ReadQueueFails(s)
    BY <2>8 DEF QueuedNotAcknowledged, SendQueuedFails, ReadQueueFails
  <2>9. CASE \/ ReleaseSessionRedis(s) \/ ReleaseSessionRow(s) \/ ReleaseSessionFails(s)
             \/ ClearQueue(s) \/ ClearQueueFails(s) \/ ClearUserQueueRedis(s)
    BY <2>9 DEF ReleaseSessionRedis, ReleaseSessionRow, ReleaseSessionFails, ClearQueue,
                ClearQueueFails, NextConversation, ClearUserQueueRedis, Elements
  <2>10. CASE ClearUserQueueRows(s) \/ RestoreQueueFails(s) \/ ClearUserQueueFails(s)
    BY <2>10 DEF ClearUserQueueRows, RestoreQueueFails, ClearUserQueueFails
  <2> QED
    BY <1>2, <2>2, <2>3, <2>4, <2>5, <2>6, <2>7, <2>8, <2>9, <2>10 DEF ConnStep, ConnProgress, ConnContinues
<1>3. CASE Crash
  BY <1>3 DEF Crash
<1>4. CASE (\E u \in Users : Expire(u)) \/ LoseRedis \/ UNCHANGED vars
  BY <1>4 DEF Expire, LoseRedis, vars, connVars, history, Elements
<1> QED
  BY <1>1, <1>2, <1>3, <1>4, StepCases

\* handleConnection unlocks and clears only after every message it read was acknowledged.
THEOREM ClearsOnlyAfterWholeDelivery == Spec => []ClearsAfterWholeDelivery
<1>1. Init => WholeDeliveryInv
  BY DEF Init, WholeDeliveryInv, ClearsAfterWholeDelivery
<1>2. TypeInv /\ WholeDeliveryInv /\ [Next]_vars => WholeDeliveryInv'
  BY WholeDeliveryStep
<1>3. WholeDeliveryInv => ClearsAfterWholeDelivery
  BY DEF WholeDeliveryInv
<1> QED
  BY <1>1, <1>2, <1>3, TypeInvariant, PTL DEF Spec

-------------------------------------------------------------------------------
\* Every lock has a cause.

\* A message that could not be delivered stays one: no step takes a cause away.
LEMMA CausesPersist ==
  ASSUME TypeOK, [Next]_vars
  PROVE  Causes \subseteq Causes'
<1>1. ASSUME NEW m \in Messages, MsgStep(m), onMsg[m] \in CannotDeliver
      PROVE  onMsg'[m] \in CannotDeliver
  <2> USE DEF TypeOK, MsgTypeOK, GoMsg, Reply, CannotDeliver
  <2>1. CASE OnMessage(m) \/ ReadLock(m) \/ ReadLockRow(m) \/ RestoreLockOf(m) \/ ReadLockFails(m)
    BY <1>1, <2>1 DEF OnMessage, ReadLock, ReadLockRow, RestoreLockOf, ReadLockFails
  <2>2. CASE Emit(m) \/ NotAcknowledged(m) \/ Acknowledge(m) \/ CheckDevice(m)
    BY <1>1, <2>2 DEF Emit, NotAcknowledged, Acknowledge, CheckDevice
  <2>3. CASE LockSessionRedis(m) \/ LockSessionRow(m) \/ EnqueueRedis(m) \/ EnqueueRow(m)
    BY <2>3 DEF LockSessionRedis, LockSessionRow, EnqueueRedis, EnqueueRow
  <2>4. CASE OnMessageFails(m)
    BY <2>4 DEF OnMessageFails
  <2> QED
    BY <1>1, <2>1, <2>2, <2>3, <2>4 DEF MsgStep, MsgProgress, MsgContinues
<1>2. \A n \in Messages : onMsg[n] \in CannotDeliver => onMsg'[n] \in CannotDeliver
  <2>1. CASE \E m \in Messages : MsgStep(m)
    BY <1>1, <2>1, MsgStepFrame
  <2>2. CASE \E s \in Sockets : ConnStep(s)
    BY <2>2, ConnStepFrame
  <2>3. CASE Crash
    BY <2>3 DEF Crash, CannotDeliver, TypeOK, MsgTypeOK
  <2>4. CASE (\E u1 \in Users : Expire(u1)) \/ LoseRedis \/ UNCHANGED vars
    BY <2>4 DEF Expire, LoseRedis, vars, msgVars
  <2> QED
    BY <2>1, <2>2, <2>3, <2>4, StepCases
<1> QED
  BY <1>2 DEF Causes

\* A step locks, or restores a lock, only for a message that could not be delivered.
LEMMA LockStep == TypeOK /\ LockInv /\ [Next]_vars => LockInv'
<1> SUFFICES ASSUME TypeOK, LockInv, [Next]_vars PROVE LockInv'
  OBVIOUS
<1> DEFINE StoreOk(lock) == \A c \in Conversations, u \in Users : lock[c] = u => <<c, u>> \in Causes'
           CopyOk(n, u) == u # NoUser => <<ConversationOf(n), u>> \in Causes'
<1>1. /\ StoreOk(redisLock) /\ StoreOk(pgLock)
      /\ \A n \in Messages : CopyOk(n, msgLock[n])
  BY CausesPersist DEF LockInv, LockHasCause
<1> SUFFICES /\ StoreOk(redisLock') /\ StoreOk(pgLock')
             /\ \A n \in Messages : /\ CopyOk(n, msgLock'[n])
                                    /\ onMsg'[n] = "restoreLock" => msgLock'[n] # NoUser
  BY DEF LockInv, LockHasCause
<1> USE UsersAssumption, ConversationTypes
    DEF TypeOK, SessionTypeOK, MsgTypeOK, sessionVars, msgVars, GoMsg, Reply
<1>2. ASSUME NEW m \in Messages, MsgStep(m)
      PROVE  /\ StoreOk(redisLock') /\ StoreOk(pgLock')
             /\ \A n \in Messages : /\ CopyOk(n, msgLock'[n])
                                    /\ onMsg'[n] = "restoreLock" => msgLock'[n] # NoUser
  <2>1. \A n \in Messages \ {m} : /\ CopyOk(n, msgLock'[n])
                                  /\ onMsg'[n] = "restoreLock" => msgLock'[n] # NoUser
    BY <1>1, <1>2, MsgStepFrame DEF LockInv
  <2> SUFFICES /\ StoreOk(redisLock') /\ StoreOk(pgLock')
               /\ CopyOk(m, msgLock'[m])
               /\ onMsg'[m] = "restoreLock" => msgLock'[m] # NoUser
    BY <2>1
  <2>2. CASE OnMessage(m) \/ ReadLock(m)
    BY <1>1, <2>2 DEF OnMessage, ReadLock, CheckLock, LockInv
  <2>3. CASE ReadLockRow(m)
    <3>1. CopyOk(m, pgLock[ConversationOf(m)])
      BY <1>1 DEF Holder
    <3> QED
      BY <1>1, <2>3, <3>1 DEF ReadLockRow
  <2>4. CASE RestoreLockOf(m)
    BY <1>1, <2>4 DEF RestoreLockOf, RestoreLock, CheckLock
  <2>5. CASE Emit(m) \/ Acknowledge(m) \/ NotAcknowledged(m) \/ CheckDevice(m)
    BY <1>1, <2>5 DEF Emit, Acknowledge, NotAcknowledged, CheckDevice, LockInv
  <2>6. CASE LockSessionRedis(m) \/ LockSessionRow(m)
    <3>1. <<ConversationOf(m), Sender[m]>> \in Causes'
      BY <2>6 DEF Causes, LockSessionRedis, LockSessionRow, CannotDeliver
    <3> QED
      BY <1>1, <2>6, <3>1
         DEF LockSessionRedis, LockSessionRow, LockRedis, LockRow, LockInv
  <2>7. CASE EnqueueRedis(m) \/ EnqueueRow(m)
    BY <1>1, <2>7 DEF EnqueueRedis, EnqueueRow, LockInv
  <2>8. CASE ReadLockFails(m) \/ OnMessageFails(m)
    BY <1>1, <2>8 DEF ReadLockFails, OnMessageFails
  <2> QED
    BY <1>2, <2>2, <2>3, <2>4, <2>5, <2>6, <2>7, <2>8 DEF MsgStep, MsgProgress, MsgContinues
<1>3. ASSUME NEW s \in Sockets, ConnStep(s)
      PROVE  /\ StoreOk(redisLock') /\ StoreOk(pgLock')
             /\ UNCHANGED <<onMsg, msgLock>>
  <2>1. UNCHANGED <<onMsg, msgLock>>
    BY <1>3, ConnStepFrame
  <2>2. CASE ReleaseSessionRedis(s) \/ ReleaseSessionRow(s)
    BY <1>1, <2>1, <2>2 DEF ReleaseSessionRedis, ReleaseSessionRow, ReleaseRedis, ReleaseRow
  <2>3. CASE UNCHANGED sessionVars
    BY <1>1, <2>1, <2>3
  <2>4. ConnStep(s) => \/ ReleaseSessionRedis(s) \/ ReleaseSessionRow(s)
                       \/ UNCHANGED sessionVars
    BY DEF ConnStep, ConnProgress, ConnContinues, Connect, Lookup, Register, ReadQueue, ReadQueueRows,
           RestoreQueueOf, Group, SendQueued, AcknowledgeQueued, QueuedNotAcknowledged,
           ClearQueue, ClearUserQueueRedis, ClearUserQueueRows, Disconnect, ReadQueueFails,
           RestoreQueueFails, SendQueuedFails, ReleaseSessionFails, ClearQueueFails,
           ClearUserQueueFails
  <2> QED
    BY <1>3, <2>2, <2>3, <2>4
<1>4. CASE Crash
  BY <1>1, <1>4 DEF Crash, MsgSteps
<1>5. CASE LoseRedis
  BY <1>1, <1>5 DEF LoseRedis, LoseRedisLocks, LockInv
<1>6. CASE (\E u \in Users : Expire(u)) \/ UNCHANGED vars
  BY <1>1, <1>6 DEF Expire, vars, LockInv
<1> QED
  BY <1>1, <1>2, <1>3, <1>4, <1>5, <1>6, StepCases DEF LockInv

\* A lock always goes back to a message of its holder that could not be delivered.
THEOREM LocksHaveCauses == Spec => []LockHasCause
<1>1. Init => LockInv
  BY UsersAssumption DEF Init, SessionInit, LockInv, LockHasCause
<1>2. TypeInv /\ LockInv /\ [Next]_vars => LockInv'
  BY LockStep DEF TypeInv
<1>3. LockInv => LockHasCause
  BY DEF LockInv
<1> QED
  BY <1>1, <1>2, <1>3, TypeInvariant, PTL DEF Spec

-------------------------------------------------------------------------------
\* Messages only go to sockets of their receivers.

\* A step keeps the Map, the socket ids taken from it and the queues with their users.
LEMMA ReceiverStep == TypeInv /\ ReceiverInv /\ [Next]_vars => ReceiverInv'
<1> DEFINE MapOk == \A u \in Users : clients[u] # NoSocket => Owner[clients[u]] = u
           QueuesOk == \A u \in Users : \A m \in Elements(redisQueue[u]) : Receiver[m] = u
           MsgOk(m) == /\ msgTo[m] # NoSocket => Owner[msgTo[m]] = Receiver[m]
                       /\ onMsg[m] = "awaitAck" => msgTo[m] # NoSocket
           ConnOk(s) == /\ connTo[s] # NoSocket => Owner[connTo[s]] = Owner[s]
                        /\ \A m \in Elements(queued[s]) : Receiver[m] = Owner[s]
                        /\ onConn[s] = "awaitAck" => connTo[s] # NoSocket
           Inv == /\ MapOk /\ QueuesOk
                  /\ \A m \in Messages : MsgOk(m)
                  /\ \A s \in Sockets : ConnOk(s)
<1> SUFFICES ASSUME TypeOK, Inv, [Next]_vars PROVE Inv'
  BY DEF TypeInv, ReceiverInv
<1> USE ConversationTypes
    DEF TypeOK, QueueTypeOK, MsgTypeOK, ConnTypeOK, queueVars, netVars, msgVars, connVars,
        GoMsg, GoConn, Reply, EndConn
<1>1. ASSUME NEW m \in Messages, MsgStep(m) PROVE Inv'
  <2>1. MapOk' /\ (\A n \in Messages \ {m} : MsgOk(n)') /\ (\A s \in Sockets : ConnOk(s)')
    BY <1>1, MsgStepFrame
  <2> SUFFICES QueuesOk' /\ MsgOk(m)'
    BY <2>1
  <2>2. CASE OnMessage(m)
    BY <2>2 DEF OnMessage
  <2>3. CASE ReadLock(m) \/ ReadLockRow(m) \/ RestoreLockOf(m)
    BY <2>3 DEF ReadLock, ReadLockRow, RestoreLockOf, CheckLock
  <2>4. CASE Emit(m) \/ Acknowledge(m) \/ NotAcknowledged(m) \/ CheckDevice(m)
    BY <2>4 DEF Emit, Acknowledge, NotAcknowledged, CheckDevice, Reachable
  <2>5. CASE LockSessionRedis(m) \/ LockSessionRow(m) \/ EnqueueRow(m)
    BY <2>5 DEF LockSessionRedis, LockSessionRow, EnqueueRow, CreateRow
  <2>6. CASE EnqueueRedis(m)
    <3>1. redisQueue' = [redisQueue EXCEPT ![Receiver[m]] = Append(@, m)] /\ MsgOk(m)'
      BY <2>6 DEF EnqueueRedis, PushRedis
    <3>2. QueuesOk'
      BY <3>1, PushedElements
    <3> QED
      BY <3>1, <3>2
  <2>7. CASE ReadLockFails(m) \/ OnMessageFails(m)
    BY <2>7 DEF ReadLockFails, OnMessageFails
  <2> QED
    BY <1>1, <2>2, <2>3, <2>4, <2>5, <2>6, <2>7 DEF MsgStep, MsgProgress, MsgContinues
<1>2. ASSUME NEW s \in Sockets, ConnStep(s) PROVE Inv'
  <2>1. (\A n \in Messages : MsgOk(n)') /\ (\A t \in Sockets \ {s} : ConnOk(t)')
    BY <1>2, ConnStepFrame
  <2> SUFFICES MapOk' /\ QueuesOk' /\ ConnOk(s)'
    BY <2>1
  <2>2. CASE Connect(s) \/ Lookup(s)
    BY <2>2 DEF Connect, Lookup
  <2>3. CASE Register(s)
    BY <2>3 DEF Register
  <2>4. CASE Disconnect(s)
    BY <2>4 DEF Disconnect
  <2>5. CASE ReadQueue(s)
    BY <2>5 DEF ReadQueue
  <2>6. CASE ReadQueueRows(s)
    <3>1. PICK q \in InCreationOrder(RowsFor(Owner[s])) : queued' = [queued EXCEPT ![s] = q]
      BY <2>6 DEF ReadQueueRows
    <3>2. \A m \in Elements(q) : Receiver[m] = Owner[s]
      <4>1. Elements(q) \subseteq RowsFor(Owner[s])
        BY <3>1, RowsAreSequences DEF RowsFor, Rows
      <4> QED
        BY <4>1 DEF RowsFor
    <3> QED
      BY <2>6, <3>1, <3>2 DEF ReadQueueRows
  <2>7. CASE RestoreQueueOf(s)
    <3> DEFINE u == Owner[s]
    <3>1. redisQueue' = [redisQueue EXCEPT ![u] = @ \o queued[s]]
      BY <2>7 DEF RestoreQueueOf, RestoreQueue
    <3>2. Elements(redisQueue[u] \o queued[s]) = Elements(redisQueue[u]) \cup Elements(queued[s])
      BY RestoredElements
    <3>3. QueuesOk'
      BY <3>1, <3>2
    <3> QED
      BY <2>7, <3>3 DEF RestoreQueueOf
  <2>8. CASE Group(s) \/ SendQueued(s)
    BY <2>8, EmptyQueue DEF Group, SendQueued, Reachable
  <2>9. CASE AcknowledgeQueued(s)
    BY <2>9 DEF AcknowledgeQueued
  <2>10. CASE QueuedNotAcknowledged(s) \/ SendQueuedFails(s) \/ ReadQueueFails(s)
    BY <2>10, EmptyQueue DEF QueuedNotAcknowledged, SendQueuedFails, ReadQueueFails
  <2>11. CASE \/ ReleaseSessionRedis(s) \/ ReleaseSessionRow(s) \/ ReleaseSessionFails(s)
             \/ ClearQueue(s) \/ ClearQueueFails(s) \/ RestoreQueueFails(s)
    <3>1. /\ UNCHANGED <<redisQueue, clients, queued, connTo>>
          /\ onConn'[s] # "awaitAck"
      BY <2>11 DEF ReleaseSessionRedis, ReleaseSessionRow, ReleaseSessionFails, ClearQueue,
                  ClearQueueFails, NextConversation, ClearConversationRows, RestoreQueueFails
    <3> QED
      BY <3>1
  <2>12. CASE ClearUserQueueRedis(s)
    BY <2>12, EmptyQueue DEF ClearUserQueueRedis, ClearUserList
  <2>13. CASE ClearUserQueueRows(s) \/ ClearUserQueueFails(s)
    BY <2>13, EmptyQueue DEF ClearUserQueueRows, ClearUserRows, ClearUserQueueFails
  <2> QED
    BY <1>2, <2>2, <2>3, <2>4, <2>5, <2>6, <2>7, <2>8, <2>9, <2>10, <2>11, <2>12, <2>13
       DEF ConnStep, ConnProgress, ConnContinues
<1>3. CASE Crash
  BY <1>3, EmptyQueue DEF Crash, MsgSteps
<1>4. CASE (\E u \in Users : Expire(u)) \/ LoseRedis
  BY <1>4, EmptyQueue DEF Expire, ExpireList, ClearUserList, LoseRedis, LoseRedisQueues
<1>5. CASE UNCHANGED vars
  BY <1>5 DEF vars, Elements
<1> QED
  BY <1>1, <1>2, <1>3, <1>4, <1>5, StepCases

\* No message waits for the acknowledgement of a socket that is not its receiver's.
THEOREM OnlyToReceiver == Spec => []OnlyReceiverGetsMessage
<1>1. Init => ReceiverInv
  BY EmptyQueue DEF Init, QueueInit, ReceiverInv
<1>2. TypeInv /\ ReceiverInv /\ [Next]_vars => ReceiverInv'
  BY ReceiverStep
<1>3. TypeInv /\ ReceiverInv => OnlyReceiverGetsMessage
  <2> SUFFICES ASSUME TypeInv, ReceiverInv PROVE OnlyReceiverGetsMessage
    OBVIOUS
  <2>1. ASSUME NEW s \in Sockets, onConn[s] = "awaitAck"
        PROVE  queued[s][pos[s]] \in Elements(queued[s])
    BY <2>1, ElementAt DEF TypeInv, TypeOK, ConnTypeOK, PositionInRange
  <2> QED
    BY <2>1 DEF ReceiverInv, OnlyReceiverGetsMessage
<1> QED
  BY <1>1, <1>2, <1>3, TypeInvariant, PTL DEF Spec

-------------------------------------------------------------------------------
\* A queued message stays in the list of its receiver.

\* A reply is final.
LEMMA MsgStepPc ==
  ASSUME TypeOK, NEW m \in Messages, MsgStep(m)
  PROVE  /\ onMsg[m] # "QUEUED"
         /\ onMsg'[m] = "createRow" => EnqueueRedis(m)
         /\ onMsg'[m] = "QUEUED" => EnqueueRow(m)
         /\ EnqueueRedis(m) \/ redisQueue' = redisQueue
         /\ EnqueueRow(m) \/ createdAt' = createdAt
<1> USE DEF TypeOK, MsgTypeOK, queueVars, GoMsg, Reply
<1>1. CASE OnMessage(m) \/ ReadLock(m) \/ ReadLockRow(m) \/ RestoreLockOf(m) \/ ReadLockFails(m)
  BY <1>1 DEF OnMessage, ReadLock, ReadLockRow, RestoreLockOf, ReadLockFails, CheckLock
<1>2. CASE Emit(m) \/ Acknowledge(m) \/ NotAcknowledged(m) \/ CheckDevice(m)
  BY <1>2 DEF Emit, Acknowledge, NotAcknowledged, CheckDevice
<1>3. CASE LockSessionRedis(m) \/ LockSessionRow(m) \/ OnMessageFails(m)
  BY <1>3 DEF LockSessionRedis, LockSessionRow, OnMessageFails
<1>4. CASE EnqueueRedis(m) \/ EnqueueRow(m)
  BY <1>4 DEF EnqueueRedis, EnqueueRow, PushRedis, CreateRow
<1> QED
  BY <1>1, <1>2, <1>3, <1>4 DEF MsgStep, MsgProgress, MsgContinues

\* handleConnection touches the lists in two places and only ever deletes rows.
LEMMA ConnStepQueues ==
  ASSUME TypeOK, NEW s \in Sockets, ConnStep(s)
  PROVE  /\ RestoreQueueOf(s) \/ ClearUserQueueRedis(s) \/ redisQueue' = redisQueue
         /\ Rows' \subseteq Rows
<1> USE DEF TypeOK, QueueTypeOK, queueVars, Rows
<1>1. CASE \/ Connect(s) \/ Lookup(s) \/ Register(s) \/ Disconnect(s) \/ ReadQueue(s)
           \/ ReadQueueRows(s) \/ Group(s) \/ SendQueued(s) \/ AcknowledgeQueued(s)
           \/ QueuedNotAcknowledged(s) \/ ReleaseSessionRedis(s) \/ ReleaseSessionRow(s)
  BY <1>1 DEF Connect, Lookup, Register, Disconnect, ReadQueue, ReadQueueRows, Group,
              SendQueued, AcknowledgeQueued, QueuedNotAcknowledged, ReleaseSessionRedis,
              ReleaseSessionRow
<1>2. CASE RestoreQueueOf(s) \/ ClearUserQueueRedis(s)
  BY <1>2 DEF RestoreQueueOf, RestoreQueue, ClearUserQueueRedis, ClearUserList
<1>3. CASE ClearQueue(s) \/ ClearUserQueueRows(s)
  BY <1>3 DEF ClearQueue, ClearConversationRows, ClearUserQueueRows, ClearUserRows, DeleteRows
<1>4. CASE \/ ReadQueueFails(s) \/ RestoreQueueFails(s) \/ SendQueuedFails(s)
           \/ ReleaseSessionFails(s) \/ ClearQueueFails(s) \/ ClearUserQueueFails(s)
  BY <1>4 DEF ReadQueueFails, RestoreQueueFails, SendQueuedFails, ReleaseSessionFails,
              ClearQueueFails, ClearUserQueueFails
<1> QED
  BY <1>1, <1>2, <1>3, <1>4 DEF ConnStep, ConnProgress, ConnContinues

\* A row is only there for a message whose sender was told QUEUED.
LEMMA RowsStep == TypeOK /\ RowsQueued /\ [Next]_vars => RowsQueued'
<1> SUFFICES ASSUME TypeOK, RowsQueued, [Next]_vars PROVE RowsQueued'
  OBVIOUS
<1>1. ASSUME NEW m \in Messages, MsgStep(m) PROVE RowsQueued'
  <2>1. CASE EnqueueRow(m)
    BY <2>1 DEF EnqueueRow, CreateRow, Reply, RowsQueued, Rows, TypeOK, QueueTypeOK, MsgTypeOK
  <2>2. CASE createdAt' = createdAt
    BY <1>1, <2>2, MsgStepPc, MsgStepFrame DEF RowsQueued, Rows
  <2> QED
    BY <1>1, <2>1, <2>2, MsgStepPc
<1>2. ASSUME NEW s \in Sockets, ConnStep(s) PROVE RowsQueued'
  BY <1>2, ConnStepQueues, ConnStepFrame DEF RowsQueued
<1>3. CASE Crash
  BY <1>3 DEF Crash, RowsQueued, Rows, queueVars, MsgSteps, TypeOK, MsgTypeOK
<1>4. CASE (\E u \in Users : Expire(u)) \/ LoseRedis \/ UNCHANGED vars
  BY <1>4 DEF Expire, ExpireList, ClearUserList, LoseRedis, LoseRedisQueues, vars, msgVars,
              queueVars, RowsQueued, Rows
<1> QED
  BY <1>1, <1>2, <1>3, <1>4, StepCases

\* While Redis keeps its data: what a step of a message does to the list.
LEMMA QueuedMsgStep ==
  ASSUME TypeOK, QueuedListed, \A s \in Sockets : DeliveryKnows(s),
         NEW m \in Messages, MsgStep(m)
  PROVE  QueuedListed' /\ \A s \in Sockets : DeliveryKnows(s)'
<1>1. /\ Settled \subseteq Settled' /\ UNCHANGED <<onConn, queued>>
      /\ \A n \in Messages \ {m} : onMsg'[n] = onMsg[n]
  BY MsgStepFrame DEF Settled
<1>2. CASE EnqueueRedis(m)
  <2> DEFINE u == Receiver[m]
  <2>1. /\ redisQueue' = [redisQueue EXCEPT ![u] = Append(@, m)]
        /\ onMsg' = [onMsg EXCEPT ![m] = "createRow"]
        /\ BeingDelivered(u) => m \in Settled'
    BY <1>2 DEF EnqueueRedis, PushRedis, GoMsg, Settled
  <2>2. Elements(redisQueue'[u]) = Elements(redisQueue[u]) \cup {m}
    BY <2>1, PushedElements, ConversationTypes DEF TypeOK, QueueTypeOK
  <2>3. \A v \in Users \ {u} : redisQueue'[v] = redisQueue[v]
    BY <2>1 DEF TypeOK, QueueTypeOK
  <2>4. QueuedListed'
    BY <1>1, <2>2, <2>3, ConversationTypes DEF QueuedListed
  <2>5. ASSUME NEW s \in Sockets PROVE DeliveryKnows(s)'
    BY <1>1, <2>1, <2>2, <2>3, ConversationTypes DEF DeliveryKnows, BeingDelivered
  <2> QED
    BY <2>4, <2>5
<1>3. CASE redisQueue' = redisQueue
  <2>1. onMsg'[m] \in {"createRow", "QUEUED"} => onMsg[m] \in {"createRow", "QUEUED"} \/ EnqueueRedis(m)
    BY MsgStepPc DEF EnqueueRow
  <2>2. QueuedListed'
    BY <1>1, <1>2, <1>3, <2>1 DEF QueuedListed
  <2> QED
    BY <1>1, <1>3, <2>2 DEF DeliveryKnows
<1> QED
  BY <1>2, <1>3, MsgStepPc

\* While Redis keeps its data: what a step of a socket does to the list.
LEMMA QueuedConnStep ==
  ASSUME TypeOK, ClearsAfterWholeDelivery, RowsQueued,
         QueuedListed, \A s \in Sockets : DeliveryKnows(s),
         NEW s \in Sockets, ConnStep(s)
  PROVE  QueuedListed' /\ \A t \in Sockets : DeliveryKnows(t)'
<1> DEFINE u == Owner[s]
<1>1. /\ Settled \subseteq Settled' /\ onMsg' = onMsg
      /\ \A t \in Sockets \ {s} : onConn'[t] = onConn[t] /\ queued'[t] = queued[t]
  BY ConnStepFrame DEF Settled
<1> USE DEF TypeOK, QueueTypeOK, ConnTypeOK, queueVars, connVars, GoConn, EndConn
<1>2. CASE RestoreQueueOf(s)
  <2>1. /\ redisQueue' = [redisQueue EXCEPT ![u] = @ \o queued[s]]
        /\ onConn' = [onConn EXCEPT ![s] = "group"] /\ queued' = queued
        /\ onConn[s] = "restoreQueue"
    BY <1>2 DEF RestoreQueueOf, RestoreQueue
  <2>2. Elements(redisQueue'[u]) = Elements(redisQueue[u]) \cup Elements(queued[s])
    BY <2>1, RestoredElements, ConversationTypes
  <2>3. \A v \in Users \ {u} : redisQueue'[v] = redisQueue[v]
    BY <2>1
  <2>4. QueuedListed'
    BY <1>1, <2>2, <2>3, ConversationTypes DEF QueuedListed
  <2>5. Elements(queued[s]) \subseteq Settled
    BY <2>1 DEF DeliveryKnows
  <2>6. ASSUME NEW t \in Sockets PROVE DeliveryKnows(t)'
    BY <1>1, <2>1, <2>2, <2>3, <2>5, ConversationTypes DEF DeliveryKnows, Delivering
  <2> QED
    BY <2>4, <2>6
<1>3. CASE ClearUserQueueRedis(s)
  <2>1. /\ redisQueue' = [redisQueue EXCEPT ![u] = <<>>]
        /\ onConn' = [onConn EXCEPT ![s] = "clearRows"]
        /\ onConn[s] = "clearList"
    BY <1>3 DEF ClearUserQueueRedis, ClearUserList
  <2>2. Elements(redisQueue[u]) \subseteq Settled
    <3>1. Elements(queued[s]) \subseteq received
      BY <2>1 DEF ClearsAfterWholeDelivery
    <3> QED
      BY <2>1, <3>1 DEF DeliveryKnows, Delivering, Settled
  <2>3. Elements(redisQueue'[u]) = {} /\ \A v \in Users \ {u} : redisQueue'[v] = redisQueue[v]
    BY <2>1, EmptyQueue, ConversationTypes
  <2>4. QueuedListed'
    BY <1>1, <2>2, <2>3, ConversationTypes DEF QueuedListed
  <2>5. ASSUME NEW t \in Sockets PROVE DeliveryKnows(t)'
    BY <1>1, <2>1, <2>3, ConversationTypes DEF DeliveryKnows, Delivering
  <2> QED
    BY <2>4, <2>5
<1>4. CASE redisQueue' = redisQueue
  <2>1. QueuedListed' /\ \A t \in Sockets \ {s} : DeliveryKnows(t)'
    BY <1>1, <1>4 DEF QueuedListed, DeliveryKnows
  <2> SUFFICES DeliveryKnows(s)'
    BY <2>1
  <2>2. CASE Connect(s) \/ Lookup(s) \/ Register(s)
    BY <2>2 DEF Connect, Lookup, Register, DeliveryKnows, Delivering
  <2>3. CASE Disconnect(s)
    BY <1>1, <1>4, <2>3 DEF Disconnect, DeliveryKnows
  <2>4. CASE ReadQueue(s)
    BY <1>4, <2>4 DEF ReadQueue, DeliveryKnows
  <2>5. CASE ReadQueueRows(s)
    <3>1. PICK q \in InCreationOrder(RowsFor(u)) : queued' = [queued EXCEPT ![s] = q]
      BY <2>5 DEF ReadQueueRows
    <3>2. Elements(redisQueue[u]) \subseteq Settled
      BY <2>5, EmptyQueue DEF ReadQueueRows, DeliveryKnows, Delivering
    <3>3. RowsFor(u) \subseteq Settled
      BY <3>2 DEF RowsFor, Rows, RowsQueued, QueuedListed
    <3>4. Elements(q) \subseteq Settled
      BY <3>1, <3>3, RowsAreSequences DEF RowsFor, Rows
    <3> QED
      BY <1>1, <1>4, <2>5, <3>1, <3>2, <3>4 DEF ReadQueueRows, DeliveryKnows
  <2>6. CASE SendQueued(s)
    BY <1>1, <1>4, <2>6 DEF SendQueued, DeliveryKnows, Delivering
  <2>7. CASE Group(s) \/ AcknowledgeQueued(s) \/ RestoreQueueFails(s)
    BY <1>1, <1>4, <2>7
       DEF Group, AcknowledgeQueued, RestoreQueueFails, DeliveryKnows, Delivering
  <2>8. CASE \/ ReleaseSessionRedis(s) \/ ReleaseSessionRow(s) \/ ReleaseSessionFails(s)
             \/ ClearQueue(s) \/ ClearQueueFails(s)
    BY <1>1, <1>4, <2>8
       DEF ReleaseSessionRedis, ReleaseSessionRow, ReleaseSessionFails, ClearQueue,
           ClearQueueFails, NextConversation, DeliveryKnows, Delivering
  <2>9. CASE QueuedNotAcknowledged(s) \/ SendQueuedFails(s) \/ ReadQueueFails(s)
    BY <2>9 DEF QueuedNotAcknowledged, SendQueuedFails, ReadQueueFails, DeliveryKnows, Delivering
  <2>10. CASE ClearUserQueueRows(s) \/ ClearUserQueueFails(s)
    BY <2>10 DEF ClearUserQueueRows, ClearUserQueueFails, DeliveryKnows, Delivering
  <2> QED
    BY <1>2, <1>3, <2>1, <2>2, <2>3, <2>4, <2>5, <2>6, <2>7, <2>8, <2>9, <2>10
       DEF ConnStep, ConnProgress, ConnContinues
<1> QED
  BY <1>2, <1>3, <1>4, ConnStepQueues

\* A step takes a message off its list only when it was received or pushed during a delivery.
LEMMA QueuedStep == TypeOK /\ ClearsAfterWholeDelivery /\ QueuedInv /\ [Next]_vars => QueuedInv'
<1> SUFFICES ASSUME TypeOK, ClearsAfterWholeDelivery, QueuedInv, [Next]_vars PROVE QueuedInv'
  OBVIOUS
<1> SUFFICES ASSUME faults'["redis"] = 0
             PROVE  QueuedListed' /\ \A s \in Sockets : DeliveryKnows(s)'
  BY RowsStep DEF QueuedInv
<1>1. CASE \E m \in Messages : MsgStep(m)
  BY <1>1, QueuedMsgStep, MsgStepFrame DEF QueuedInv
<1>2. CASE \E s \in Sockets : ConnStep(s)
  BY <1>2, QueuedConnStep, ConnStepFrame DEF QueuedInv
<1>3. CASE Crash
  BY <1>3 DEF Crash, Fault, queueVars, history, QueuedInv, QueuedListed, DeliveryKnows,
              Settled, Delivering, MsgSteps, TypeOK, MsgTypeOK, FaultKinds
<1>4. CASE (\E u \in Users : Expire(u)) \/ LoseRedis
  BY <1>4 DEF Expire, LoseRedis, Fault, FaultKinds, TypeOK
<1>5. CASE UNCHANGED vars
  BY <1>5 DEF vars, queueVars, msgVars, connVars, history, QueuedInv, QueuedListed,
              DeliveryKnows, Settled
<1> QED
  BY <1>1, <1>2, <1>3, <1>4, <1>5, StepCases

\* As long as Redis keeps its data, a message whose sender was told QUEUED is in the list of
\* its receiver until it is received, unless it was pushed into an ongoing delivery.
THEOREM QueuedStaysListed == Spec => []QueuedUntilReceived
<1>1. Init => QueuedInv
  BY DEF Init, QueueInit, QueuedInv, RowsQueued, Rows, QueuedListed, DeliveryKnows, Delivering
<1>2. /\ TypeInv /\ WholeDeliveryInv /\ QueuedInv /\ [Next]_vars => QueuedInv'
  BY QueuedStep DEF TypeInv, WholeDeliveryInv
<1>3. QueuedInv => QueuedUntilReceived
  BY DEF QueuedInv, QueuedListed, Settled, QueuedUntilReceived
<1>4. Spec => []WholeDeliveryInv
  <2>1. Init => WholeDeliveryInv
    BY DEF Init, WholeDeliveryInv, ClearsAfterWholeDelivery
  <2> QED
    BY <2>1, WholeDeliveryStep, TypeInvariant, PTL DEF Spec
<1> QED
  BY <1>1, <1>2, <1>3, <1>4, TypeInvariant, PTL DEF Spec

==============================================================================
