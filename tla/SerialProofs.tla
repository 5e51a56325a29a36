----------------------------- MODULE SerialProofs -----------------------------
(***************************************************************************)
(* Proofs of the invariants of WebsocketProperties that hold under         *)
(* SerialSpec, for every set of users, sockets and messages and every      *)
(* bound on the losses of Redis.                                           *)
(***************************************************************************)
EXTENDS SerialInvariants, WebsocketProofs, WellFoundedInduction

-------------------------------------------------------------------------------
\* Which conversation a delivery clears.

\* A set of positions that is not empty has a least one.
LEMMA LeastIndex ==
  ASSUME NEW T \in SUBSET Nat, T # {}
  PROVE  \E i \in T : \A j \in T : i <= j
<1> DEFINE Below == [i \in T |-> {j \in T : j < i}]
           Belows == {Below[i] : i \in T}
<1>0. \A i \in T : /\ Below[i] \in SUBSET Nat
                   /\ \A j \in Nat : j \in Below[i] <=> j \in T /\ j < i
  OBVIOUS
<1> HIDE DEF Below
<1>1. \A i \in T : Below[i] \in FiniteSubsetsOf(Nat)
  <2> SUFFICES ASSUME NEW i \in T PROVE Below[i] \in FiniteSubsetsOf(Nat)
    OBVIOUS
  <2>1. i \in Nat /\ Below[i] \in SUBSET Nat
    BY <1>0
  <2>2. \A j \in Below[i] : j <= i
    BY <1>0, <2>1
  <2> QED
    BY <2>1, <2>2, FS_BoundedSetOfNaturals DEF FiniteSubsetsOf
<1>2. PICK i \in T : \A j \in T : ~(<<Below[j], Below[i]>> \in StrictSubsetOrdering(Nat))
  <2>1. IsWellFoundedOn(StrictSubsetOrdering(Nat), FiniteSubsetsOf(Nat))
    BY FS_StrictSubsetOrderingWellFounded
  <2>2. Belows \subseteq FiniteSubsetsOf(Nat) /\ Belows # {}
    BY <1>1
  <2>3. \E B \in Belows : \A C \in Belows : ~(<<C, B>> \in StrictSubsetOrdering(Nat))
    <3> HIDE DEF Belows
    <3> QED
      BY <2>1, <2>2, WFMin, Zenon
  <2> QED
    BY <2>3
<1>3. ASSUME NEW j \in T, j < i PROVE FALSE
  <2>1. /\ i \in Nat /\ j \in Nat
        /\ Below[j] \in SUBSET Nat /\ Below[i] \in SUBSET Nat
    BY <1>0
  <2>2. j \in Below[i] /\ j \notin Below[j]
    BY <1>0, <1>3, <2>1
  <2>3. \A k \in Below[j] : k \in Below[i]
    BY <1>0, <1>3, <2>1
  <2>4. <<Below[j], Below[i]>> \in StrictSubsetOrdering(Nat)
    BY <2>1, <2>2, <2>3 DEF StrictSubsetOrdering
  <2> QED
    BY <1>2, <2>4
<1> QED
  BY <1>3

\* While a delivery has conversations to clear, the next one is with a sender of the messages
\* it has read, and one it has still to do.
LEMMA PeerIsNext ==
  ASSUME TypeOK, ReleasedInv, NEW s \in Sockets, todo[s] # {}
  PROVE  /\ Peer(s) \in todo[s] /\ Peer(s) \in Users
         /\ \E m \in Elements(queued[s]) : Sender[m] = Peer(s)
         /\ Clearing(s) \in Conversations
<1> DEFINE T == {i \in DOMAIN queued[s] : Sender[queued[s][i]] \in todo[s]}
<1>1. queued[s] \in Seq(Messages) /\ todo[s] \subseteq Users
  BY DEF TypeOK, ConnTypeOK
<1>2. T \in SUBSET Nat /\ T # {}
  BY <1>1 DEF ReleasedInv, Elements
<1>3. PICK i \in T : \A j \in T : i <= j
  BY <1>2, LeastIndex
<1>4. FirstIndex(s) \in DOMAIN queued[s] /\ Sender[queued[s][FirstIndex(s)]] \in todo[s]
  BY <1>3 DEF FirstIndex
<1>5. Peer(s) \in todo[s] /\ queued[s][FirstIndex(s)] \in Elements(queued[s])
  BY <1>4 DEF Peer, Elements
<1> QED
  BY <1>1, <1>5, ConversationTypes DEF Peer, Clearing, Conversations

-------------------------------------------------------------------------------
\* Steps of a system whose handlers run one at a time.

\* No handler but that of m, or of s, is running.
MsgAlone(m) == /\ \A n \in Messages \ {m} : onMsg[n] \notin MsgSteps
               /\ \A s \in Sockets : onConn[s] = "idle"

ConnAlone(s) == /\ \A m \in Messages : onMsg[m] \notin MsgSteps
                /\ \A t \in Sockets \ {s} : onConn[t] = "idle"

\* A serial step is a step.
LEMMA SerialIsNext == [SerialNext]_vars => [Next]_vars
BY DEF SerialNext, Next

\* onMessage only goes on while it runs, and so does handleConnection.
LEMMA ProgressRuns ==
  /\ \A m \in Messages : MsgProgress(m) => onMsg[m] \in MsgSteps
  /\ \A s \in Sockets : ConnProgress(s) => onConn[s] # "idle"
<1>1. ASSUME NEW m \in Messages, MsgProgress(m) PROVE onMsg[m] \in MsgSteps
  BY <1>1 DEF MsgProgress, MsgContinues, ReadLock, ReadLockRow, RestoreLockOf, Emit,
              NotAcknowledged, CheckDevice, LockSessionRedis, LockSessionRow, EnqueueRedis,
              EnqueueRow, Acknowledge, GoMsg, MsgSteps
<1>2. ASSUME NEW s \in Sockets, ConnProgress(s) PROVE onConn[s] # "idle"
  BY <1>2 DEF ConnProgress, ConnContinues, Lookup, Register, ReadQueue, ReadQueueRows,
              RestoreQueueOf, Group, SendQueued, QueuedNotAcknowledged, ReleaseSessionRedis,
              ReleaseSessionRow, ClearQueue, NextConversation, ClearUserQueueRedis,
              ClearUserQueueRows, AcknowledgeQueued, GoConn
<1> QED
  BY <1>1, <1>2

\* The handler that makes a serial step runs alone.
LEMMA SerialCases ==
  ASSUME OneHandler, [SerialNext]_vars
  PROVE  \/ \E m \in Messages : MsgAlone(m) /\ (OnMessage(m) \/ MsgProgress(m))
         \/ \E s \in Sockets : ConnAlone(s) /\ (Connect(s) \/ ConnProgress(s))
         \/ \E s \in Sockets : Disconnect(s)
         \/ \E u \in Users : Expire(u)
         \/ LoseRedis
         \/ UNCHANGED vars
<1>1. ASSUME NEW m \in Messages, MsgProgress(m) PROVE MsgAlone(m)
  BY <1>1, ProgressRuns DEF OneHandler, MsgAlone
<1>2. ASSUME NEW s \in Sockets, ConnProgress(s) PROVE ConnAlone(s)
  BY <1>2, ProgressRuns DEF OneHandler, ConnAlone
<1>3. Idle => (\A m \in Messages : MsgAlone(m)) /\ (\A s \in Sockets : ConnAlone(s))
  BY DEF Idle, MsgAlone, ConnAlone
<1> QED
  BY <1>1, <1>2, <1>3 DEF SerialNext

\* What a step of onMessage leaves alone.
LEMMA SerialMsgFrame ==
  ASSUME TypeOK, NEW m \in Messages, MsgAlone(m), OnMessage(m) \/ MsgProgress(m)
  PROVE  /\ UNCHANGED <<conn, clients, onConn, queued, pos, connTo, todo, faults>>
         /\ received \subseteq received'
         /\ \A n \in Messages \ {m} : /\ onMsg'[n] = onMsg[n] /\ msgTo'[n] = msgTo[n]
                                      /\ msgLock'[n] = msgLock[n] /\ msgFrom'[n] = msgFrom[n]
                                      /\ onMsg[n] \notin MsgSteps
<1>1. faults' = faults
  BY DEF MsgProgress, MsgContinues, OnMessage, ReadLock, ReadLockRow, RestoreLockOf, Emit,
         NotAcknowledged, CheckDevice, LockSessionRedis, LockSessionRow, EnqueueRedis,
         EnqueueRow, Acknowledge
<1> QED
  BY <1>1, MsgStepFrame DEF MsgStep, MsgAlone

\* What a step of handleConnection leaves alone.
LEMMA SerialConnFrame ==
  ASSUME TypeOK, NEW s \in Sockets, ConnAlone(s), Connect(s) \/ ConnProgress(s)
  PROVE  /\ UNCHANGED <<onMsg, msgFrom, msgTo, msgLock, late, faults>>
         /\ received \subseteq received'
         /\ \A m \in Messages : onMsg[m] \notin MsgSteps
         /\ \A t \in Sockets \ {s} : /\ onConn'[t] = onConn[t] /\ queued'[t] = queued[t]
                                     /\ pos'[t] = pos[t] /\ connTo'[t] = connTo[t]
                                     /\ todo'[t] = todo[t] /\ onConn[t] = "idle"
<1>1. faults' = faults
  BY DEF ConnProgress, ConnContinues, Connect, Lookup, Register, ReadQueue, ReadQueueRows,
         RestoreQueueOf, Group, SendQueued, QueuedNotAcknowledged, ReleaseSessionRedis,
         ReleaseSessionRow, ClearQueue, NextConversation, ClearUserQueueRedis,
         ClearUserQueueRows, AcknowledgeQueued
<1> QED
  BY <1>1, ConnStepFrame DEF ConnStep, ConnAlone

\* Closing a socket leaves the stores and the handlers alone.
LEMMA DisconnectFrame ==
  ASSUME NEW s \in Sockets, Disconnect(s)
  PROVE  UNCHANGED <<sessionVars, queueVars, msgVars, connVars, history, faults>>
BY DEF Disconnect

\* A handler starts only when none is running.
LEMMA OneHandlerStep == TypeOK /\ OneHandler /\ [SerialNext]_vars => OneHandler'
<1> SUFFICES ASSUME TypeOK, OneHandler, [SerialNext]_vars PROVE OneHandler'
  OBVIOUS
<1>1. ASSUME NEW m \in Messages, MsgAlone(m), OnMessage(m) \/ MsgProgress(m) PROVE OneHandler'
  BY <1>1, SerialMsgFrame DEF MsgAlone, OneHandler
<1>2. ASSUME NEW s \in Sockets, ConnAlone(s), Connect(s) \/ ConnProgress(s) PROVE OneHandler'
  BY <1>2, SerialConnFrame DEF ConnAlone, OneHandler
<1>3. ASSUME NEW s \in Sockets, Disconnect(s) PROVE OneHandler'
  BY <1>3, DisconnectFrame DEF msgVars, connVars, OneHandler
<1>4. CASE (\E u \in Users : Expire(u)) \/ LoseRedis \/ UNCHANGED vars
  BY <1>4 DEF Expire, LoseRedis, vars, msgVars, connVars, OneHandler
<1> QED
  BY <1>1, <1>2, <1>3, <1>4, SerialCases

\* The sender a handler remembers is the sender of its message, and a message that is not
\* refused at once is for somebody else.
LEMMA PartiesStep == TypeOK /\ OneHandler /\ PartiesInv /\ [SerialNext]_vars => PartiesInv'
<1> SUFFICES ASSUME TypeOK, OneHandler, PartiesInv, [SerialNext]_vars PROVE PartiesInv'
  OBVIOUS
<1>1. ASSUME NEW m \in Messages, MsgAlone(m), OnMessage(m) \/ MsgProgress(m) PROVE PartiesInv'
  <2>1. \A n \in Messages \ {m} : /\ msgFrom'[n] \in {NoUser, Sender[n]}
                                  /\ onMsg'[n] \notin {"unsent", "SELF_MESSAGING"} => Sender[n] # Receiver[n]
    BY <1>1, SerialMsgFrame DEF PartiesInv
  <2> SUFFICES /\ msgFrom'[m] \in {NoUser, Sender[m]}
               /\ onMsg'[m] \notin {"unsent", "SELF_MESSAGING"} => Sender[m] # Receiver[m]
    BY <2>1 DEF PartiesInv
  <2> USE DEF TypeOK, MsgTypeOK, PartiesInv, GoMsg, Reply
  <2>2. CASE OnMessage(m)
    <3>1. SameUser(m) /\ Reply(m, "SELF_MESSAGING") => msgFrom'[m] = NoUser /\ onMsg'[m] = "SELF_MESSAGING"
      OBVIOUS
    <3>2. ~SameUser(m) => Sender[m] # Receiver[m] /\ ClientId(Sender[m]) \in {NoUser, Sender[m]}
      BY DEF SameUser, ClientId
    <3> QED
      BY <2>2, <3>1, <3>2 DEF OnMessage
  <2>3. CASE MsgProgress(m)
    <3>1. Sender[m] # Receiver[m]
      BY <2>3, ProgressRuns DEF MsgSteps
    <3>2. msgFrom'[m] \in {NoUser, msgFrom[m]}
      BY <2>3 DEF MsgProgress, MsgContinues, ReadLock, ReadLockRow, RestoreLockOf, CheckLock, Emit,
                  NotAcknowledged, CheckDevice, LockSessionRedis, LockSessionRow, EnqueueRedis,
                  EnqueueRow, Acknowledge
    <3> QED
      BY <3>1, <3>2
  <2> QED
    BY <1>1, <2>2, <2>3
<1>2. ASSUME NEW s \in Sockets, ConnAlone(s), Connect(s) \/ ConnProgress(s) PROVE PartiesInv'
  BY <1>2, SerialConnFrame DEF PartiesInv
<1>3. ASSUME NEW s \in Sockets, Disconnect(s) PROVE PartiesInv'
  BY <1>3, DisconnectFrame DEF msgVars, PartiesInv
<1>4. CASE (\E u \in Users : Expire(u)) \/ LoseRedis \/ UNCHANGED vars
  BY <1>4 DEF Expire, LoseRedis, vars, msgVars, PartiesInv
<1> QED
  BY <1>1, <1>2, <1>3, <1>4, SerialCases

\* What the other proofs take for granted holds in every reachable state.
LEMMA SerialBaseInvariant == SerialSpec => []SerialBase
<1>1. Init => SerialBase
  <2> SUFFICES ASSUME Init PROVE SerialBase
    OBVIOUS
  <2>1. TypeInv
    BY TypeInit DEF Init, TypeInv, PositionInRange
  <2>2. ReceiverInv /\ WholeDeliveryInv /\ RowsQueued
    BY EmptyQueue DEF Init, QueueInit, ReceiverInv, WholeDeliveryInv, ClearsAfterWholeDelivery,
                      RowsQueued, Rows
  <2>3. OneHandler /\ PartiesInv
    BY DEF Init, OneHandler, PartiesInv, MsgSteps
  <2> QED
    BY <2>1, <2>2, <2>3 DEF SerialBase
<1>2. SerialBase /\ [SerialNext]_vars => SerialBase'
  BY SerialIsNext, TypeStep, PositionStep, ReceiverStep, WholeDeliveryStep, RowsStep,
     OneHandlerStep, PartiesStep DEF SerialBase, TypeInv
<1> QED
  BY <1>1, <1>2, PTL DEF SerialSpec

-------------------------------------------------------------------------------
\* Only queued messages are in the lists.

\* A step that lists a message is on the way to QUEUED, and a delivery reads only the lists
\* and the rows.
LEMMA ListedStep == SerialBase /\ ListedInv /\ [SerialNext]_vars => ListedInv'
<1> DEFINE Listed(q) == \A n \in Elements(q) : onMsg'[n] \in {"createRow", "QUEUED"}
           Read(q) == \A n \in Elements(q) : onMsg'[n] = "QUEUED"
<1> SUFFICES ASSUME SerialBase, ListedInv, [SerialNext]_vars
             PROVE  /\ \A u \in Users : Listed(redisQueue'[u])
                    /\ \A s \in Sockets : Read(queued'[s])
  BY DEF ListedInv
<1>1. TypeOK
  BY DEF SerialBase, TypeInv
<1>2. redisQueue \in [Users -> Seq(Messages)] /\ queued \in [Sockets -> Seq(Messages)]
  BY <1>1 DEF TypeOK, QueueTypeOK, ConnTypeOK
<1>3. \A q \in Seq(Messages) : Elements(q) \subseteq Messages
  BY DEF Elements
<1>4. ASSUME NEW m \in Messages, MsgAlone(m), OnMessage(m) \/ MsgProgress(m)
      PROVE  /\ \A u \in Users : Listed(redisQueue'[u])
             /\ \A s \in Sockets : Read(queued'[s])
  <2>1. /\ queued' = queued
        /\ \A n \in Messages \ {m} : onMsg'[n] = onMsg[n]
        /\ onMsg[m] # "QUEUED"
    BY <1>1, <1>4, SerialMsgFrame, MsgStepPc DEF MsgStep
  <2>2. \A s \in Sockets : Read(queued'[s])
    BY <1>2, <1>3, <2>1 DEF ListedInv
  <2>3. onMsg[m] = "createRow" => onMsg'[m] = "QUEUED"
    BY <1>1, <1>4 DEF TypeOK, MsgTypeOK, GoMsg, Reply, MsgProgress, MsgContinues, OnMessage, ReadLock,
         ReadLockRow, RestoreLockOf, Emit, NotAcknowledged, CheckDevice, LockSessionRedis,
         LockSessionRow, EnqueueRedis, EnqueueRow, Acknowledge
  <2>4. \A u \in Users : Listed(redisQueue[u])
    BY <1>2, <1>3, <2>1, <2>3 DEF ListedInv
  <2>5. CASE EnqueueRedis(m)
    <3>1. /\ redisQueue' = [redisQueue EXCEPT ![Receiver[m]] = Append(@, m)]
          /\ onMsg'[m] = "createRow"
      BY <1>1, <2>5 DEF EnqueueRedis, PushRedis, GoMsg, TypeOK, MsgTypeOK
    <3>2. Elements(redisQueue'[Receiver[m]]) = Elements(redisQueue[Receiver[m]]) \cup {m}
      BY <1>2, <3>1, PushedElements, ConversationTypes
    <3>3. \A u \in Users \ {Receiver[m]} : redisQueue'[u] = redisQueue[u]
      BY <1>2, <3>1
    <3> QED
      BY <2>2, <2>4, <3>1, <3>2, <3>3
  <2>6. CASE redisQueue' = redisQueue
    BY <2>2, <2>4, <2>6
  <2> QED
    BY <1>1, <1>4, <2>5, <2>6, MsgStepPc DEF MsgStep
<1>5. ASSUME NEW s \in Sockets, ConnAlone(s), Connect(s) \/ ConnProgress(s)
      PROVE  /\ \A u \in Users : Listed(redisQueue'[u])
             /\ \A t \in Sockets : Read(queued'[t])
  <2>1. /\ onMsg' = onMsg /\ \A t \in Sockets \ {s} : queued'[t] = queued[t]
        /\ \A m \in Messages : onMsg[m] \notin MsgSteps
    BY <1>1, <1>5, SerialConnFrame
  <2>2. \A u \in Users : Read(redisQueue[u])
    BY <1>2, <1>3, <2>1 DEF ListedInv, MsgSteps
  <2>3. \A t \in Sockets : Read(queued[t])
    BY <2>1 DEF ListedInv
  <2>4. CASE ReadQueue(s)
    BY <1>2, <2>1, <2>2, <2>3, <2>4, ConversationTypes DEF ReadQueue, queueVars
  <2>5. CASE ReadQueueRows(s)
    <3>1. PICK q \in InCreationOrder(RowsFor(Owner[s])) : queued' = [queued EXCEPT ![s] = q]
      BY <2>5 DEF ReadQueueRows
    <3>2. Elements(q) \subseteq Rows
      BY <3>1, RowsAreSequences DEF RowsFor, Rows
    <3>3. Read(q)
      BY <2>1, <3>2 DEF SerialBase, RowsQueued
    <3> QED
      BY <1>2, <2>1, <2>2, <2>3, <2>5, <3>1, <3>3 DEF ReadQueueRows, queueVars
  <2>6. CASE RestoreQueueOf(s)
    <3>1. /\ redisQueue' = [redisQueue EXCEPT ![Owner[s]] = @ \o queued[s]] /\ queued' = queued
      BY <2>6 DEF RestoreQueueOf, RestoreQueue
    <3>2. Elements(redisQueue'[Owner[s]]) = Elements(redisQueue[Owner[s]]) \cup Elements(queued[s])
      BY <1>2, <3>1, RestoredElements, ConversationTypes
    <3> QED
      BY <1>2, <2>2, <2>3, <3>1, <3>2
  <2>7. CASE ClearUserQueueRedis(s)
    BY <1>2, <2>2, <2>3, <2>7, EmptyQueue DEF ClearUserQueueRedis, ClearUserList
  <2>8. redisQueue' = redisQueue \/ RestoreQueueOf(s) \/ ClearUserQueueRedis(s)
    BY <1>1, <1>5, ConnStepQueues DEF ConnStep
  <2>9. queued'[s] \in {queued[s], <<>>} \/ ReadQueue(s) \/ ReadQueueRows(s)
    BY <1>2, <1>5 DEF ConnProgress, ConnContinues, Connect, Lookup, Register, RestoreQueueOf, Group,
              SendQueued, QueuedNotAcknowledged, ReleaseSessionRedis, ReleaseSessionRow, ClearQueue,
              ClearUserQueueRedis, ClearUserQueueRows, AcknowledgeQueued, EndConn, connVars
  <2> QED
    BY <2>1, <2>2, <2>3, <2>4, <2>5, <2>6, <2>7, <2>8, <2>9, EmptyQueue
<1>6. ASSUME NEW s \in Sockets, Disconnect(s)
      PROVE  /\ \A u \in Users : Listed(redisQueue'[u])
             /\ \A t \in Sockets : Read(queued'[t])
  BY <1>6, DisconnectFrame DEF queueVars, msgVars, connVars, ListedInv
<1>7. CASE (\E u \in Users : Expire(u)) \/ LoseRedis
  BY <1>2, <1>7, EmptyQueue DEF Expire, ExpireList, ClearUserList, LoseRedis, LoseRedisQueues,
                                msgVars, connVars, ListedInv
<1>8. CASE UNCHANGED vars
  BY <1>8 DEF vars, queueVars, msgVars, connVars, ListedInv
<1> QED
  BY <1>4, <1>5, <1>6, <1>7, <1>8, SerialCases DEF SerialBase

-------------------------------------------------------------------------------
\* The locks.

\* The accesses of onMessage that change a lock.
LEMMA MsgLocks ==
  ASSUME TypeOK, NEW m \in Messages, OnMessage(m) \/ MsgProgress(m)
  PROVE  \/ RestoreLockOf(m) \/ LockSessionRedis(m) \/ LockSessionRow(m)
         \/ UNCHANGED sessionVars /\ onMsg[m] # "lockRow" /\ onMsg'[m] # "lockRow"
BY DEF TypeOK, MsgTypeOK, MsgProgress, MsgContinues, OnMessage, ReadLock, ReadLockRow, CheckLock, Emit,
       NotAcknowledged, CheckDevice, EnqueueRedis, EnqueueRow, Acknowledge, GoMsg, Reply

\* The accesses of handleConnection that change a lock.
LEMMA ConnLocks ==
  ASSUME NEW s \in Sockets, Connect(s) \/ ConnProgress(s)
  PROVE  ReleaseSessionRedis(s) \/ ReleaseSessionRow(s) \/ UNCHANGED sessionVars
BY DEF ConnProgress, ConnContinues, Connect, Lookup, Register, ReadQueue, ReadQueueRows, RestoreQueueOf,
       Group, SendQueued, QueuedNotAcknowledged, ClearQueue, ClearUserQueueRedis, ClearUserQueueRows,
       AcknowledgeQueued

\* Redis gets a lock that PostgreSQL has, or the one that PostgreSQL gets next.
LEMMA RedisLockStep == SerialBase /\ LocksInv /\ [SerialNext]_vars => RedisLockInv'
<1> SUFFICES ASSUME SerialBase, LocksInv, [SerialNext]_vars PROVE RedisLockInv'
  OBVIOUS
<1>1. TypeOK /\ OneHandler
  BY DEF SerialBase, TypeInv
<1>2. redisLock \in [Conversations -> Holder] /\ pgLock \in [Conversations -> Holder]
  BY <1>1 DEF TypeOK, SessionTypeOK
<1>3. ASSUME NEW m \in Messages, MsgAlone(m), OnMessage(m) \/ MsgProgress(m) PROVE RedisLockInv'
  <2> DEFINE c == ConversationOf(m)
  <2>1. \A d \in Conversations :
          \/ redisLock[d] \in {NoUser, pgLock[d]}
          \/ onMsg[m] = "lockRow" /\ d = c /\ redisLock[d] = Sender[m]
    BY <1>3 DEF LocksInv, RedisLockInv, MsgAlone, MsgSteps
  <2>2. CASE RestoreLockOf(m)
    <3>1. redisLock' = [redisLock EXCEPT ![c] = msgLock[m]] /\ pgLock' = pgLock
      BY <2>2 DEF RestoreLockOf, RestoreLock
    <3>2. msgLock[m] = pgLock[c] /\ onMsg[m] # "lockRow"
      BY <2>2 DEF RestoreLockOf, LocksInv, PassedInv
    <3> QED
      BY <1>2, <2>1, <3>1, <3>2 DEF RedisLockInv
  <2>3. CASE LockSessionRedis(m)
    <3>1. /\ redisLock' = [redisLock EXCEPT ![c] = Sender[m]] /\ pgLock' = pgLock
          /\ onMsg[m] = "lockRedis" /\ onMsg'[m] = "lockRow"
      BY <1>1, <2>3 DEF LockSessionRedis, LockRedis, GoMsg, TypeOK, MsgTypeOK
    <3> QED
      BY <1>2, <2>1, <3>1 DEF RedisLockInv
  <2>4. CASE LockSessionRow(m)
    <3>1. /\ pgLock' = [pgLock EXCEPT ![c] = Sender[m]] /\ redisLock' = redisLock
          /\ onMsg[m] = "lockRow"
      BY <2>4 DEF LockSessionRow, LockRow, GoMsg
    <3>2. pgLock[c] \in {NoUser, Sender[m]}
      BY <3>1 DEF LocksInv, PassedInv
    <3> QED
      BY <1>2, <2>1, <3>1, <3>2 DEF RedisLockInv
  <2>5. CASE UNCHANGED sessionVars /\ onMsg[m] # "lockRow"
    BY <2>1, <2>5 DEF sessionVars, RedisLockInv
  <2> QED
    BY <1>1, <1>3, <2>2, <2>3, <2>4, <2>5, MsgLocks
<1>4. ASSUME NEW s \in Sockets, ConnAlone(s), Connect(s) \/ ConnProgress(s) PROVE RedisLockInv'
  <2>1. \A d \in Conversations : redisLock[d] \in {NoUser, pgLock[d]}
    BY <1>4 DEF LocksInv, RedisLockInv, ConnAlone, MsgSteps
  <2>2. CASE ReleaseSessionRedis(s)
    BY <1>2, <2>1, <2>2 DEF ReleaseSessionRedis, ReleaseRedis, RedisLockInv
  <2>3. CASE ReleaseSessionRow(s)
    <3>1. redisLock[Clearing(s)] = NoUser
      BY <2>3 DEF ReleaseSessionRow, GoConn, LocksInv, ReleasedInv
    <3> QED
      BY <1>2, <2>1, <2>3, <3>1 DEF ReleaseSessionRow, ReleaseRow, RedisLockInv
  <2>4. CASE UNCHANGED sessionVars
    BY <2>1, <2>4 DEF sessionVars, RedisLockInv
  <2> QED
    BY <1>4, <2>2, <2>3, <2>4, ConnLocks
<1>5. ASSUME NEW s \in Sockets, Disconnect(s) PROVE RedisLockInv'
  BY <1>5, DisconnectFrame DEF sessionVars, msgVars, LocksInv, RedisLockInv
<1>6. CASE LoseRedis
  BY <1>2, <1>6 DEF LoseRedis, LoseRedisLocks, RedisLockInv
<1>7. CASE (\E u \in Users : Expire(u)) \/ UNCHANGED vars
  BY <1>7 DEF Expire, vars, sessionVars, msgVars, LocksInv, RedisLockInv
<1> QED
  BY <1>1, <1>3, <1>4, <1>5, <1>6, <1>7, SerialCases

\* A handler that is let through knows the lock that PostgreSQL has.
LEMMA PassedStep == SerialBase /\ LocksInv /\ [SerialNext]_vars => PassedInv'
<1> DEFINE Passed(n) ==
             /\ onMsg[n] = "restoreLock" => msgLock[n] = pgLock[ConversationOf(n)]
             /\ onMsg[n] \in {"emit", "awaitAck", "lockRedis", "lockRow"}
                  => pgLock[ConversationOf(n)] \in {NoUser, Sender[n]}
             /\ onMsg[n] \in {"pushRedis", "createRow"} => pgLock[ConversationOf(n)] = Sender[n]
<1> SUFFICES ASSUME SerialBase, LocksInv, [SerialNext]_vars PROVE \A n \in Messages : Passed(n)'
  BY DEF PassedInv
<1>1. TypeOK /\ OneHandler /\ PartiesInv /\ \A n \in Messages : Passed(n)
  BY DEF SerialBase, TypeInv, LocksInv, PassedInv
<1>2. /\ pgLock \in [Conversations -> Holder]
      /\ onMsg \in [Messages -> {"unsent"} \cup MsgSteps \cup Replies]
      /\ msgLock \in [Messages -> Holder]
  BY <1>1 DEF TypeOK, SessionTypeOK, MsgTypeOK
<1>3. ASSUME NEW m \in Messages, MsgAlone(m), OnMessage(m) \/ MsgProgress(m)
      PROVE  \A n \in Messages : Passed(n)'
  <2> DEFINE c == ConversationOf(m)
  <2>1. \A n \in Messages \ {m} : Passed(n)'
    BY <1>1, <1>3, SerialMsgFrame DEF MsgSteps
  <2> SUFFICES Passed(m)'
    BY <2>1
  <2>2. msgFrom[m] \in {NoUser, Sender[m]}
    BY <1>1 DEF PartiesInv
  <2>3. ASSUME NEW holder, holder # NoUser, ~LockedOut(m, holder) PROVE holder = Sender[m]
    BY <2>2, <2>3 DEF LockedOut
  <2> USE DEF GoMsg, Reply
  <2>4. CASE OnMessage(m)
    BY <1>2, <2>4 DEF OnMessage
  <2>5. CASE ReadLock(m)
    <3>1. onMsg[m] = "readLock" /\ pgLock' = pgLock
      BY <2>5 DEF ReadLock, sessionVars
    <3>2. redisLock[c] \in {NoUser, pgLock[c]}
      BY <1>3, <3>1, ConversationTypes DEF LocksInv, RedisLockInv, MsgAlone, MsgSteps
    <3>3. onMsg'[m] \in {"readLockRow", "SESSION_LOCKED"} \/ (onMsg'[m] = "emit" /\ pgLock[c] = Sender[m])
      BY <1>2, <2>3, <2>5, <3>2 DEF ReadLock, CheckLock
    <3> QED
      BY <3>1, <3>3
  <2>6. CASE ReadLockRow(m)
    BY <1>2, <2>6 DEF ReadLockRow, sessionVars
  <2>7. CASE RestoreLockOf(m)
    <3>1. msgLock[m] = pgLock[c] /\ pgLock' = pgLock
      BY <1>1, <2>7 DEF RestoreLockOf, RestoreLock
    <3>2. onMsg'[m] = "SESSION_LOCKED" \/ (onMsg'[m] = "emit" /\ msgLock[m] \in {NoUser, Sender[m]})
      BY <1>2, <2>3, <2>7 DEF RestoreLockOf, CheckLock
    <3> QED
      BY <3>1, <3>2
  <2>8. CASE Emit(m) \/ NotAcknowledged(m) \/ LockSessionRedis(m)
    BY <1>1, <1>2, <2>8 DEF Emit, NotAcknowledged, LockSessionRedis, LockRedis, sessionVars
  <2>9. CASE LockSessionRow(m)
    BY <1>2, <2>9, ConversationTypes DEF LockSessionRow, LockRow
  <2>10. CASE EnqueueRedis(m)
    BY <1>1, <1>2, <2>10 DEF EnqueueRedis, sessionVars
  <2>11. CASE EnqueueRow(m) \/ CheckDevice(m) \/ Acknowledge(m)
    BY <1>2, <2>11 DEF EnqueueRow, CheckDevice, Acknowledge
  <2> QED
    BY <1>3, <2>4, <2>5, <2>6, <2>7, <2>8, <2>9, <2>10, <2>11 DEF MsgProgress, MsgContinues
<1>4. ASSUME NEW s \in Sockets, ConnAlone(s), Connect(s) \/ ConnProgress(s)
      PROVE  \A n \in Messages : Passed(n)'
  BY <1>1, <1>4, SerialConnFrame DEF MsgSteps
<1>5. ASSUME NEW s \in Sockets, Disconnect(s) PROVE \A n \in Messages : Passed(n)'
  BY <1>1, <1>5, DisconnectFrame DEF sessionVars, msgVars
<1>6. CASE (\E u \in Users : Expire(u)) \/ LoseRedis \/ UNCHANGED vars
  BY <1>1, <1>6 DEF Expire, LoseRedis, LoseRedisLocks, vars, sessionVars, msgVars
<1> QED
  BY <1>1, <1>3, <1>4, <1>5, <1>6, SerialCases

\* The conversation that is cleared next depends on nothing else.
LEMMA SameClearing ==
  ASSUME NEW s \in Sockets, queued'[s] = queued[s], todo'[s] = todo[s]
  PROVE  Clearing(s)' = Clearing(s)
BY DEF Clearing, Peer, FirstIndex

\* The accesses of onMessage that change a row.
LEMMA MsgRows ==
  ASSUME TypeOK, NEW m \in Messages, OnMessage(m) \/ MsgProgress(m)
  PROVE  \/ EnqueueRow(m) /\ Rows' = Rows \cup {m}
         \/ Rows' = Rows /\ ~EnqueueRow(m)
<1>1. EnqueueRow(m) => Rows' = Rows \cup {m}
  BY DEF EnqueueRow, CreateRow, Rows, TypeOK, QueueTypeOK
<1>2. createdAt' = createdAt => Rows' = Rows
  BY DEF Rows
<1> QED
  BY <1>1, <1>2, MsgStepPc DEF MsgStep

\* The accesses of handleConnection that change a row, and what becomes of a released session.
LEMMA ConnRows ==
  ASSUME TypeOK, NEW s \in Sockets, Connect(s) \/ ConnProgress(s)
  PROVE  /\ \/ ClearQueue(s) /\ Rows' = {m \in Rows : ConversationOf(m) # Clearing(s)}
            \/ ClearUserQueueRows(s) /\ Rows' = Rows \ RowsFor(Owner[s])
            \/ Rows' = Rows /\ ~ClearQueue(s) /\ ~ClearUserQueueRows(s)
         /\ onConn[s] = "clearConversation" => ClearQueue(s)
<1>1. ClearQueue(s) => Rows' = {m \in Rows : ConversationOf(m) # Clearing(s)}
  BY DEF ClearQueue, ClearConversationRows, DeleteRows, Rows, TypeOK, QueueTypeOK
<1>2. ClearUserQueueRows(s) => Rows' = Rows \ RowsFor(Owner[s])
  BY DEF ClearUserQueueRows, ClearUserRows, DeleteRows, RowsFor, Rows, TypeOK, QueueTypeOK
<1>3. createdAt' = createdAt => Rows' = Rows
  BY DEF Rows
<1>4. /\ ClearQueue(s) \/ ClearUserQueueRows(s) \/ createdAt' = createdAt
      /\ onConn[s] = "clearConversation" => ClearQueue(s)
  BY DEF ConnProgress, ConnContinues, Connect, Unused, Lookup, Register, ReadQueue, ReadQueueRows, RestoreQueueOf,
         RestoreQueue, Group, SendQueued, QueuedNotAcknowledged, ReleaseSessionRedis, ReleaseSessionRow,
         ClearUserQueueRedis, ClearUserList, ClearUserQueueRows, AcknowledgeQueued, GoConn, queueVars
<1> QED
  BY <1>1, <1>2, <1>3, <1>4

\* A row is written under the lock of its sender, and it goes as soon as the lock is gone.
LEMMA RowLockStep == SerialBase /\ LocksInv /\ [SerialNext]_vars => RowLockInv'
<1> SUFFICES ASSUME SerialBase, LocksInv, [SerialNext]_vars PROVE RowLockInv'
  OBVIOUS
<1>1. TypeOK /\ OneHandler /\ RowLockInv
  BY DEF SerialBase, TypeInv, LocksInv
<1>2. pgLock \in [Conversations -> Holder] /\ Rows \subseteq Messages
  BY <1>1 DEF TypeOK, SessionTypeOK, Rows
<1>3. ASSUME NEW m \in Messages, MsgAlone(m), OnMessage(m) \/ MsgProgress(m) PROVE RowLockInv'
  <2>1. \A n \in Rows : pgLock[ConversationOf(n)] = Sender[n]
    BY <1>1, <1>3 DEF RowLockInv, Unlocked, MsgAlone
  <2>2. CASE LockSessionRow(m)
    <3>1. /\ pgLock' = [pgLock EXCEPT ![ConversationOf(m)] = Sender[m]] /\ Rows' = Rows
          /\ onMsg[m] = "lockRow"
      BY <2>2 DEF LockSessionRow, LockRow, GoMsg, queueVars, Rows
    <3>2. pgLock[ConversationOf(m)] \in {NoUser, Sender[m]}
      BY <3>1 DEF LocksInv, PassedInv
    <3>3. \A n \in Rows : pgLock'[ConversationOf(n)] = Sender[n]
      BY <1>2, <2>1, <3>1, <3>2, ConversationTypes, UsersAssumption
    <3> QED
      BY <1>1, <3>1, <3>3 DEF RowLockInv
  <2>3. CASE EnqueueRow(m)
    <3>1. pgLock' = pgLock /\ Rows' = Rows \cup {m} /\ onMsg[m] = "createRow"
      BY <1>1, <1>3, <2>3, MsgRows DEF EnqueueRow, sessionVars
    <3>2. pgLock[ConversationOf(m)] = Sender[m]
      BY <3>1 DEF LocksInv, PassedInv
    <3> QED
      BY <2>1, <3>1, <3>2 DEF RowLockInv
  <2>4. CASE pgLock' = pgLock /\ ~EnqueueRow(m)
    BY <1>1, <1>3, <2>1, <2>4, MsgRows DEF RowLockInv
  <2>5. pgLock' = pgLock \/ LockSessionRow(m)
    BY <1>1, <1>3, MsgLocks DEF RestoreLockOf, RestoreLock, LockSessionRedis, LockRedis, sessionVars
  <2>6. EnqueueRow(m) => pgLock' = pgLock
    BY DEF EnqueueRow, sessionVars
  <2> QED
    BY <2>2, <2>3, <2>4, <2>5
<1>4. ASSUME NEW s \in Sockets, ConnAlone(s), Connect(s) \/ ConnProgress(s) PROVE RowLockInv'
  <2>1. \A c : Unlocked(c) => onConn[s] = "clearConversation" /\ c = Clearing(s)
    BY <1>4 DEF Unlocked, ConnAlone
  <2>2. CASE ClearQueue(s)
    <3>1. Rows' = {m \in Rows : ConversationOf(m) # Clearing(s)} /\ pgLock' = pgLock
      BY <1>1, <1>4, <2>2, ConnRows DEF ClearQueue, ClearUserQueueRows, NextConversation, sessionVars
    <3> QED
      BY <1>1, <2>1, <3>1 DEF RowLockInv
  <2>3. CASE ReleaseSessionRow(s)
    <3>1. /\ pgLock' = [pgLock EXCEPT ![Clearing(s)] = NoUser] /\ Rows' = Rows
          /\ onConn[s] # "clearConversation" /\ onConn'[s] = "clearConversation"
          /\ queued' = queued /\ todo' = todo
      BY <1>1, <2>3 DEF ReleaseSessionRow, ReleaseRow, GoConn, queueVars, Rows, TypeOK, ConnTypeOK
    <3>2. \A m \in Messages : ConversationOf(m) = Clearing(s) => Unlocked(ConversationOf(m))'
      BY <3>1, SameClearing DEF Unlocked
    <3>3. ASSUME NEW m \in Rows
          PROVE  pgLock'[ConversationOf(m)] = Sender[m] \/ Unlocked(ConversationOf(m))'
      <4>1. CASE ConversationOf(m) = Clearing(s)
        BY <1>2, <3>2, <4>1
      <4>2. CASE ConversationOf(m) # Clearing(s)
        <5>1. pgLock[ConversationOf(m)] = Sender[m]
          BY <1>1, <2>1, <3>1 DEF RowLockInv
        <5> QED
          BY <1>2, <3>1, <4>2, <5>1, ConversationTypes
      <4> QED
        BY <4>1, <4>2
    <3> QED
      BY <1>1, <3>1, <3>3 DEF RowLockInv
  <2>4. CASE ~ClearQueue(s) /\ pgLock' = pgLock
    <3>1. onConn[s] # "clearConversation" /\ Rows' \subseteq Rows
      BY <1>1, <1>4, <2>4, ConnRows
    <3> QED
      BY <1>1, <2>1, <2>4, <3>1 DEF RowLockInv
  <2> QED
    BY <1>4, <2>2, <2>3, <2>4, ConnLocks DEF ReleaseSessionRedis, ReleaseRedis, sessionVars
<1>5. ASSUME NEW s \in Sockets, Disconnect(s) PROVE RowLockInv'
  BY <1>1, <1>5, DisconnectFrame, SameClearing
  DEF sessionVars, queueVars, connVars, RowLockInv, Rows, Unlocked
<1>6. CASE (\E u \in Users : Expire(u)) \/ LoseRedis \/ UNCHANGED vars
  BY <1>1, <1>6, SameClearing
  DEF Expire, ExpireList, ClearUserList, LoseRedis, LoseRedisLocks, LoseRedisQueues, vars, sessionVars,
      queueVars, connVars, RowLockInv, Rows, Unlocked
<1> QED
  BY <1>1, <1>3, <1>4, <1>5, <1>6, SerialCases

\* What a delivery has read from the sender it clears next belongs to that conversation.
LEMMA PeerConversation ==
  ASSUME ReceiverInv, NEW s \in Sockets, NEW m \in Elements(queued[s]), Sender[m] = Peer(s)
  PROVE  ConversationOf(m) = Clearing(s)
BY DEF ReceiverInv, ConversationOf, Clearing

\* A delivery releases one session after the other, and leaves none of them out.
LEMMA ReleasedStep == SerialBase /\ LocksInv /\ [SerialNext]_vars => ReleasedInv'
<1> DEFINE Ok(t) ==
             /\ todo[t] \subseteq {Sender[m] : m \in Elements(queued[t])}
             /\ todo[t] # {} <=> onConn[t] \in Unlocking
             /\ onConn[t] \in Clearance =>
                  /\ queued[t] # <<>>
                  /\ \A m \in Elements(queued[t]) : Sender[m] \notin todo[t] => pgLock[ConversationOf(m)] = NoUser
             /\ onConn[t] = "unlockRow" => redisLock[Clearing(t)] = NoUser
             /\ onConn[t] = "clearConversation" => pgLock[Clearing(t)] = NoUser
<1> SUFFICES ASSUME SerialBase, LocksInv, [SerialNext]_vars PROVE \A t \in Sockets : Ok(t)'
  BY DEF ReleasedInv
<1>1. /\ TypeOK /\ OneHandler /\ PositionInRange /\ ReceiverInv
      /\ ReleasedInv /\ \A t \in Sockets : Ok(t)
  BY DEF SerialBase, TypeInv, LocksInv, ReleasedInv
<1>2. /\ redisLock \in [Conversations -> Holder] /\ pgLock \in [Conversations -> Holder]
      /\ queued \in [Sockets -> Seq(Messages)] /\ todo \in [Sockets -> SUBSET Users]
      /\ onConn \in [Sockets -> {"idle"} \cup ConnSteps]
  BY <1>1 DEF TypeOK, SessionTypeOK, ConnTypeOK
<1>3. ASSUME NEW m \in Messages, MsgAlone(m), OnMessage(m) \/ MsgProgress(m)
      PROVE  \A t \in Sockets : Ok(t)'
  <2>1. \A t \in Sockets : onConn'[t] = "idle" /\ todo'[t] = {}
    BY <1>1, <1>3, SerialMsgFrame DEF MsgAlone, Unlocking
  <2> QED
    BY <2>1 DEF Clearance, Unlocking
<1>4. ASSUME NEW s \in Sockets, ConnAlone(s), Connect(s) \/ ConnProgress(s)
      PROVE  \A t \in Sockets : Ok(t)'
  <2>1. ASSUME NEW t \in Sockets \ {s} PROVE Ok(t)'
    <3>1. onConn'[t] = "idle" /\ todo'[t] = {}
      BY <1>1, <1>4, SerialConnFrame DEF Unlocking
    <3> QED
      BY <3>1 DEF Clearance, Unlocking
  <2> SUFFICES Ok(s)'
    BY <2>1
  <2> USE DEF Clearance, Unlocking, GoConn, EndConn
  <2>2. CASE onConn'[s] \notin Clearance /\ (todo'[s] = {} \/ (todo' = todo /\ onConn[s] \notin Unlocking))
    BY <1>1, <2>2
  <2>3. CASE AcknowledgeQueued(s)
    <3>1. CASE LastOne(s)
      <4>1. /\ todo'[s] = {Sender[m] : m \in Elements(queued[s])}
            /\ onConn'[s] = "unlockRedis" /\ queued' = queued
            /\ onConn[s] = "awaitAck"
        BY <1>2, <2>3, <3>1 DEF AcknowledgeQueued
      <4>2. queued[s][pos[s]] \in Elements(queued[s]) /\ queued[s] # <<>>
        BY <1>1, <1>2, <4>1, ElementAt, EmptyQueue DEF PositionInRange
      <4> QED
        BY <4>1, <4>2
    <3> QED
      BY <1>2, <2>2, <2>3, <3>1 DEF AcknowledgeQueued
  <2>4. CASE ReleaseSessionRedis(s)
    <3>1. /\ redisLock' = [redisLock EXCEPT ![Clearing(s)] = NoUser] /\ pgLock' = pgLock
          /\ onConn[s] = "unlockRedis" /\ onConn'[s] = "unlockRow"
          /\ queued' = queued /\ todo' = todo
      BY <1>2, <2>4 DEF ReleaseSessionRedis, ReleaseRedis
    <3>2. Clearing(s) \in Conversations /\ Clearing(s)' = Clearing(s)
      BY <1>1, <3>1, PeerIsNext, SameClearing
    <3> QED
      BY <1>1, <1>2, <3>1, <3>2
  <2>5. CASE ReleaseSessionRow(s)
    <3>1. /\ pgLock' = [pgLock EXCEPT ![Clearing(s)] = NoUser] /\ redisLock' = redisLock
          /\ onConn[s] = "unlockRow" /\ onConn'[s] = "clearConversation"
          /\ queued' = queued /\ todo' = todo
      BY <1>2, <2>5 DEF ReleaseSessionRow, ReleaseRow
    <3>2. Clearing(s) \in Conversations /\ Clearing(s)' = Clearing(s)
      BY <1>1, <3>1, PeerIsNext, SameClearing
    <3>3. \A m \in Elements(queued[s]) : Sender[m] \notin todo[s] => pgLock'[ConversationOf(m)] = NoUser
      BY <1>1, <1>2, <3>1, ConversationTypes DEF Elements
    <3>4. pgLock'[Clearing(s)] = NoUser
      BY <1>2, <3>1, <3>2
    <3> QED
      BY <1>1, <3>1, <3>2, <3>3, <3>4
  <2>6. CASE ClearQueue(s)
    <3>1. /\ onConn[s] = "clearConversation" /\ pgLock' = pgLock /\ queued' = queued
          /\ todo'[s] = todo[s] \ {Peer(s)}
          /\ onConn'[s] = IF todo'[s] = {} THEN "clearList" ELSE "unlockRedis"
      BY <1>2, <2>6 DEF ClearQueue, NextConversation, sessionVars
    <3>2. \A m \in Elements(queued[s]) : Sender[m] = Peer(s) => pgLock[ConversationOf(m)] = NoUser
      BY <1>1, <3>1, PeerConversation
    <3> QED
      BY <1>1, <3>1, <3>2
  <2>7. CASE ClearUserQueueRedis(s)
    <3>1. /\ onConn[s] = "clearList" /\ onConn'[s] = "clearRows" /\ pgLock' = pgLock
          /\ queued' = queued /\ todo' = todo
      BY <1>2, <2>7 DEF ClearUserQueueRedis, sessionVars
    <3> QED
      BY <1>1, <3>1
  <2>8. CASE ClearUserQueueRows(s) \/ QueuedNotAcknowledged(s)
    BY <1>2, <2>2, <2>8 DEF ClearUserQueueRows, QueuedNotAcknowledged
  <2>9. CASE Connect(s) \/ Lookup(s) \/ Register(s) \/ ReadQueue(s) \/ ReadQueueRows(s) \/ RestoreQueueOf(s)
    BY <1>2, <2>2, <2>9 DEF Connect, Lookup, Register, ReadQueue, ReadQueueRows, RestoreQueueOf
  <2>10. CASE Group(s) \/ SendQueued(s)
    BY <1>2, <2>2, <2>10 DEF Group, SendQueued
  <2> QED
    BY <1>4, <2>3, <2>4, <2>5, <2>6, <2>7, <2>8, <2>9, <2>10 DEF ConnProgress, ConnContinues
<1>5. ASSUME NEW s \in Sockets, Disconnect(s) PROVE \A t \in Sockets : Ok(t)'
  BY <1>1, <1>5, DisconnectFrame, SameClearing DEF sessionVars, connVars
<1>6. CASE LoseRedis
  <2>1. pgLock' = pgLock /\ UNCHANGED connVars /\ redisLock' = [c \in Conversations |-> NoUser]
    BY <1>6 DEF LoseRedis, LoseRedisLocks
  <2>2. \A t \in Sockets : onConn[t] = "unlockRow" => redisLock'[Clearing(t)] = NoUser
    BY <1>1, <2>1, PeerIsNext DEF Unlocking
  <2> QED
    BY <1>1, <2>1, <2>2, SameClearing DEF connVars
<1>7. CASE (\E u \in Users : Expire(u)) \/ UNCHANGED vars
  BY <1>1, <1>7, SameClearing DEF Expire, vars, sessionVars, connVars
<1> QED
  BY <1>1, <1>3, <1>4, <1>5, <1>6, <1>7, SerialCases

\* The invariants about locks hold in every reachable state.
LEMMA LocksInvariant == SerialSpec => []LocksInv
<1>1. Init => LocksInv
  <2> SUFFICES ASSUME Init PROVE LocksInv
    OBVIOUS
  <2>1. RedisLockInv /\ PassedInv
    BY DEF Init, SessionInit, RedisLockInv, PassedInv
  <2>2. RowLockInv /\ ListedInv /\ ReleasedInv
    BY EmptyQueue DEF Init, QueueInit, RowLockInv, ListedInv, ReleasedInv, Rows, Clearance, Unlocking
  <2> QED
    BY <2>1, <2>2 DEF LocksInv
<1>2. SerialBase /\ LocksInv /\ [SerialNext]_vars => LocksInv'
  BY RedisLockStep, PassedStep, RowLockStep, ListedStep, ReleasedStep DEF LocksInv
<1> QED
  BY <1>1, <1>2, SerialBaseInvariant, PTL DEF SerialSpec

\* Two users never have undelivered rows queued for each other, even when Redis has lost
\* its locks: onMessage finds the lock of a row in one of the stores.
THEOREM QueuesNeverCross == SerialSpec => []NoCrossing
<1>1. LocksInv => NoCrossing
  BY DEF LocksInv, RowLockInv, NoCrossing
<1> QED
  BY <1>1, LocksInvariant, PTL

\* Between handlers PostgreSQL has the lock of every row that was not received, whatever
\* Redis has lost.
THEOREM LocksOutliveRedis == SerialSpec => []LockOutlivesRedis
<1>1. LocksInv => LockOutlivesRedis
  BY DEF LocksInv, RowLockInv, LockOutlivesRedis, Idle, Unlocked
<1> QED
  BY <1>1, LocksInvariant, PTL

-------------------------------------------------------------------------------
\* As long as Redis has kept its data.

\* The rows of the conversation that a delivery clears next are among the messages it has
\* read.
LEMMA ClearingRows ==
  ASSUME SerialBase, LocksInv, SameDelivery,
         NEW s \in Sockets, onConn[s] \in Unlocking,
         NEW m \in Rows, ConversationOf(m) = Clearing(s)
  PROVE  m \in Elements(queued[s]) /\ Receiver[m] = Owner[s] /\ Sender[m] = Peer(s)
<1>1. PICK n \in Elements(queued[s]) : Sender[n] = Peer(s) /\ Sender[n] \in todo[s]
  BY PeerIsNext DEF SerialBase, TypeInv, LocksInv, ReleasedInv
<1>2. n \in RowsFor(Owner[s])
  BY <1>1 DEF SameDelivery, Clearance
<1>3. ConversationOf(n) = Clearing(s)
  BY <1>1, PeerConversation DEF SerialBase
<1>4. Sender[m] = Peer(s)
  BY <1>1, <1>2, <1>3 DEF LocksInv, RowLockInv, RowsFor
<1>5. Sender[m] # Receiver[m]
  BY DEF SerialBase, RowsQueued, PartiesInv, Rows
<1>6. Receiver[m] = Owner[s]
  BY <1>4, <1>5 DEF ConversationOf, Clearing
<1> QED
  BY <1>4, <1>6 DEF SameDelivery, Clearance, RowsFor

\* The accesses of handleConnection after a whole delivery, and what the other ones keep.
LEMMA ClearanceCases ==
  ASSUME TypeOK, NEW s \in Sockets, Connect(s) \/ ConnProgress(s)
  PROVE  \/ /\ onConn[s] \in Clearance
            /\ \/ ReleaseSessionRedis(s) \/ ReleaseSessionRow(s) \/ ClearQueue(s)
               \/ ClearUserQueueRedis(s) \/ ClearUserQueueRows(s)
         \/ /\ onConn[s] \notin Clearance
            /\ Rows' = Rows /\ UNCHANGED sessionVars
            /\ RestoreQueueOf(s) \/ redisQueue' = redisQueue
<1>1. \/ ReleaseSessionRedis(s) \/ ReleaseSessionRow(s) \/ ClearQueue(s)
      \/ ClearUserQueueRedis(s) \/ ClearUserQueueRows(s)
      \/ onConn[s] \notin Clearance
  BY DEF ConnProgress, ConnContinues, Connect, Unused, Lookup, Register, ReadQueue, ReadQueueRows,
         RestoreQueueOf, Group, SendQueued, QueuedNotAcknowledged, AcknowledgeQueued, GoConn,
         Clearance, Unlocking
<1>2. \/ ReleaseSessionRedis(s) \/ ReleaseSessionRow(s) \/ ClearQueue(s)
      \/ ClearUserQueueRedis(s) \/ ClearUserQueueRows(s)
      => onConn[s] \in Clearance
  BY DEF ReleaseSessionRedis, ReleaseSessionRow, ClearQueue, NextConversation, ClearUserQueueRedis,
         ClearUserQueueRows, GoConn, Clearance, Unlocking
<1> QED
  BY <1>1, <1>2, ConnRows, ConnLocks, ConnStepQueues DEF ConnStep

\* A step keeps the lists and the rows together.
LEMMA SameQueuesStep ==
  ASSUME SerialBase, LocksInv, SameQueues, SameDelivery, [SerialNext]_vars,
         ~LoseRedis, \A u \in Users : ~Expire(u)
  PROVE  SameQueues'
<1>1. TypeOK /\ OneHandler
  BY DEF SerialBase, TypeInv
<1>2. redisQueue \in [Users -> Seq(Messages)] /\ Rows \subseteq Messages
  BY <1>1 DEF TypeOK, QueueTypeOK, Rows
<1>3. ASSUME NEW m \in Messages, MsgAlone(m), OnMessage(m) \/ MsgProgress(m) PROVE SameQueues'
  <2> DEFINE Waiting(u) == RowsFor(u) \cup Pushed(u)
  <2>1. \A u \in Users : Elements(redisQueue[u]) = Waiting(u)
    BY <1>3 DEF SameQueues, MsgAlone, Clearance, Unlocking
  <2>2. \A n \in Messages \ {m} : onMsg'[n] = onMsg[n]
    BY <1>1, <1>3, SerialMsgFrame
  <2> SUFFICES ASSUME NEW u \in Users PROVE Elements(redisQueue'[u]) = Waiting(u)'
    BY DEF SameQueues
  <2>3. CASE EnqueueRedis(m)
    <3>1. /\ redisQueue' = [redisQueue EXCEPT ![Receiver[m]] = Append(@, m)]
          /\ onMsg'[m] = "createRow" /\ Rows' = Rows
      BY <1>1, <2>3 DEF EnqueueRedis, PushRedis, GoMsg, TypeOK, MsgTypeOK, Rows
    <3>2. Waiting(u)' = IF u = Receiver[m] THEN Waiting(u) \cup {m} ELSE Waiting(u)
      BY <2>2, <3>1 DEF RowsFor, Pushed
    <3>3. Elements(redisQueue'[u])
            = IF u = Receiver[m] THEN Elements(redisQueue[u]) \cup {m} ELSE Elements(redisQueue[u])
      BY <1>2, <3>1, PushedElements, ConversationTypes
    <3> QED
      BY <2>1, <3>2, <3>3
  <2>4. CASE EnqueueRow(m)
    <3>1. /\ redisQueue' = redisQueue /\ Rows' = Rows \cup {m}
          /\ onMsg[m] = "createRow" /\ onMsg'[m] = "QUEUED"
      BY <1>1, <2>4, <1>3, MsgRows DEF EnqueueRow, CreateRow, Reply, TypeOK, MsgTypeOK
    <3>2. Waiting(u)' = Waiting(u)
      BY <1>2, <2>2, <3>1 DEF RowsFor, Pushed
    <3> QED
      BY <2>1, <3>1, <3>2
  <2>5. CASE ~EnqueueRedis(m) /\ ~EnqueueRow(m)
    <3>1. redisQueue' = redisQueue /\ Rows' = Rows /\ onMsg'[m] # "createRow"
      BY <1>1, <1>3, <2>5, MsgRows, MsgStepPc DEF MsgStep
    <3>2. onMsg[m] # "createRow"
      BY <1>3, <2>5 DEF MsgProgress, MsgContinues, OnMessage, ReadLock, ReadLockRow, RestoreLockOf,
         Emit, NotAcknowledged, CheckDevice, LockSessionRedis, LockSessionRow, Acknowledge, GoMsg
    <3>3. Waiting(u)' = Waiting(u)
      BY <2>2, <3>1, <3>2 DEF RowsFor, Pushed
    <3> QED
      BY <2>1, <3>1, <3>3
  <2> QED
    BY <2>3, <2>4, <2>5
<1>4. ASSUME NEW s \in Sockets, ConnAlone(s), Connect(s) \/ ConnProgress(s) PROVE SameQueues'
  <2>1. \A u \in Users : Pushed(u) = {} /\ Pushed(u)' = {}
    BY <1>1, <1>4, SerialConnFrame DEF Pushed, MsgSteps
  <2>2. \A u \in Users : Elements(redisQueue[u]) = RowsFor(u) \/ (Owner[s] = u /\ onConn[s] \in Clearance)
    <3>1. \A t \in Sockets \ {s} : onConn[t] \notin Clearance
      BY <1>4 DEF ConnAlone, Clearance, Unlocking
    <3> HIDE DEF Clearance
    <3> SUFFICES ASSUME NEW u \in Users
                 PROVE  Elements(redisQueue[u]) = RowsFor(u) \/ (Owner[s] = u /\ onConn[s] \in Clearance)
      OBVIOUS
    <3>2. RowsFor(u) \cup Pushed(u) = RowsFor(u)
      BY <2>1
    <3> QED
      BY <3>1, <3>2 DEF SameQueues
  <2> SUFFICES ASSUME NEW u \in Users
               PROVE  \/ Elements(redisQueue'[u]) = RowsFor(u)'
                      \/ Owner[s] = u /\ onConn'[s] \in Clearance
    BY <2>1 DEF SameQueues
  <2> USE DEF Clearance, Unlocking
  <2>3. CASE onConn[s] \notin Clearance
    <3>1. Rows' = Rows /\ redisQueue' = redisQueue
      BY <1>1, <1>4, <2>3, ClearanceCases DEF RestoreQueueOf, GoConn, SameDelivery
    <3> QED
      BY <2>2, <2>3, <3>1 DEF RowsFor
  <2>4. CASE ReleaseSessionRedis(s) \/ ReleaseSessionRow(s)
    <3>1. redisQueue' = redisQueue /\ Rows' = Rows /\ onConn'[s] \in Clearance
      BY <1>1, <2>4 DEF ReleaseSessionRedis, ReleaseSessionRow, GoConn, queueVars, Rows, TypeOK, ConnTypeOK
    <3> QED
      BY <2>2, <3>1 DEF RowsFor
  <2>5. CASE ClearQueue(s)
    <3>1. /\ redisQueue' = redisQueue /\ Rows' = {m \in Rows : ConversationOf(m) # Clearing(s)}
          /\ onConn[s] \in Unlocking /\ onConn'[s] \in Clearance
      BY <1>1, <1>4, <2>5, ConnRows DEF ClearQueue, ClearConversationRows, NextConversation,
         ClearUserQueueRows, TypeOK, ConnTypeOK
    <3>2. u # Owner[s] => RowsFor(u)' = RowsFor(u)
      BY <3>1, ClearingRows DEF RowsFor
    <3> QED
      BY <2>2, <3>1, <3>2
  <2>6. CASE ClearUserQueueRedis(s)
    <3>1. /\ redisQueue' = [redisQueue EXCEPT ![Owner[s]] = <<>>] /\ Rows' = Rows
          /\ onConn'[s] = "clearRows"
      BY <1>1, <2>6 DEF ClearUserQueueRedis, ClearUserList, GoConn, Rows, TypeOK, ConnTypeOK
    <3> QED
      BY <1>2, <2>2, <3>1 DEF RowsFor
  <2>7. CASE ClearUserQueueRows(s)
    <3>1. /\ redisQueue' = redisQueue /\ Rows' = Rows \ RowsFor(Owner[s])
          /\ redisQueue[Owner[s]] = <<>>
      BY <1>1, <1>4, <2>7, ConnRows DEF ClearUserQueueRows, ClearUserRows, ClearQueue, NextConversation,
         SameDelivery
    <3>2. RowsFor(u)' = IF u = Owner[s] THEN {} ELSE RowsFor(u)
      BY <3>1 DEF RowsFor
    <3> QED
      BY <2>2, <3>1, <3>2, EmptyQueue
  <2> QED
    BY <1>1, <1>4, <2>3, <2>4, <2>5, <2>6, <2>7, ClearanceCases
<1>5. ASSUME NEW s \in Sockets, Disconnect(s) PROVE SameQueues'
  BY <1>5, DisconnectFrame DEF queueVars, msgVars, connVars, SameQueues, RowsFor, Rows, Pushed
<1>6. CASE UNCHANGED vars
  BY <1>6 DEF vars, queueVars, msgVars, connVars, SameQueues, RowsFor, Rows, Pushed
<1> QED
  BY <1>1, <1>3, <1>4, <1>5, <1>6, SerialCases

\* A step of a delivery deletes the rows of the senders it leaves behind, and no others.
LEMMA SameDeliveryStep ==
  ASSUME SerialBase, LocksInv, SameQueues, SameDelivery, [SerialNext]_vars,
         ~LoseRedis, \A u \in Users : ~Expire(u)
  PROVE  SameDelivery'
<1> DEFINE Ok(t) ==
             /\ onConn[t] # "restoreQueue"
             /\ onConn[t] \in {"readRows", "clearRows"} => redisQueue[Owner[t]] = <<>>
             /\ onConn[t] \in {"group", "send", "awaitAck"} =>
                  Elements(queued[t]) = Elements(redisQueue[Owner[t]])
             /\ onConn[t] \in Clearance =>
                  RowsFor(Owner[t]) = {m \in Elements(queued[t]) : Sender[m] \in todo[t]}
<1>1. /\ TypeOK /\ OneHandler /\ ReceiverInv /\ ReleasedInv
      /\ \A t \in Sockets : Ok(t)
  BY DEF SerialBase, TypeInv, LocksInv, SameDelivery
<1>2. /\ redisQueue \in [Users -> Seq(Messages)] /\ Rows \subseteq Messages
      /\ queued \in [Sockets -> Seq(Messages)] /\ todo \in [Sockets -> SUBSET Users]
      /\ onConn \in [Sockets -> {"idle"} \cup ConnSteps]
  BY <1>1 DEF TypeOK, QueueTypeOK, ConnTypeOK, Rows
<1> SUFFICES \A t \in Sockets : Ok(t)'
  BY DEF SameDelivery
<1>3. ASSUME NEW t \in Sockets, onConn'[t] = "idle" PROVE Ok(t)'
  BY <1>3 DEF Clearance, Unlocking
<1>4. ASSUME NEW m \in Messages, MsgAlone(m), OnMessage(m) \/ MsgProgress(m)
      PROVE  \A t \in Sockets : onConn'[t] = "idle"
  BY <1>1, <1>4, SerialMsgFrame DEF MsgAlone
<1>5. ASSUME NEW s \in Sockets, ConnAlone(s), Connect(s) \/ ConnProgress(s)
      PROVE  \A t \in Sockets : Ok(t)'
  <2>1. \A t \in Sockets \ {s} : onConn'[t] = "idle"
    BY <1>1, <1>5, SerialConnFrame
  <2> SUFFICES Ok(s)'
    BY <1>3, <2>1
  <2>2. onConn[s] \notin Clearance => Elements(redisQueue[Owner[s]]) = RowsFor(Owner[s])
    <3>1. /\ Pushed(Owner[s]) = {} /\ Owner[s] \in Users
          /\ \A t \in Sockets \ {s} : onConn[t] \notin Clearance
      BY <1>5, ConversationTypes DEF ConnAlone, Pushed, MsgSteps, Clearance, Unlocking
    <3> QED
      BY <3>1 DEF SameQueues
  <2> USE ConversationTypes DEF Clearance, Unlocking, GoConn, EndConn
  <2>3. CASE Connect(s) \/ Lookup(s) \/ Register(s)
    BY <1>2, <2>3 DEF Connect, Lookup, Register
  <2>4. CASE ReadQueue(s)
    BY <1>2, <2>4 DEF ReadQueue, queueVars
  <2>5. CASE ReadQueueRows(s)
    <3>1. redisQueue[Owner[s]] = <<>> /\ onConn[s] \notin Clearance
      BY <1>1, <2>5 DEF ReadQueueRows
    <3>2. RowsFor(Owner[s]) = {}
      BY <2>2, <3>1, EmptyQueue
    <3> QED
      BY <1>2, <1>3, <2>5, <3>2 DEF ReadQueueRows
  <2>6. CASE RestoreQueueOf(s)
    BY <1>1, <2>6 DEF RestoreQueueOf
  <2>7. CASE Group(s) \/ SendQueued(s)
    BY <1>1, <1>2, <1>3, <2>7 DEF Group, SendQueued, queueVars
  <2>8. CASE QueuedNotAcknowledged(s) \/ ClearUserQueueRows(s)
    BY <1>2, <1>3, <2>8 DEF QueuedNotAcknowledged, ClearUserQueueRows
  <2>9. CASE AcknowledgeQueued(s)
    <3>1. /\ onConn[s] = "awaitAck" /\ queued' = queued /\ redisQueue' = redisQueue
          /\ onConn'[s] = IF LastOne(s) THEN "unlockRedis" ELSE "send"
          /\ LastOne(s) => todo'[s] = {Sender[m] : m \in Elements(queued[s])}
          /\ RowsFor(Owner[s])' = RowsFor(Owner[s])
      BY <1>2, <2>9 DEF AcknowledgeQueued, queueVars, RowsFor, Rows
    <3>2. RowsFor(Owner[s]) = Elements(queued[s])
      BY <1>1, <2>2, <3>1
    <3>3. CASE LastOne(s)
      BY <3>1, <3>2, <3>3
    <3>4. CASE ~LastOne(s)
      BY <1>1, <3>1, <3>4
    <3> QED
      BY <3>3, <3>4
  <2>10. CASE ReleaseSessionRedis(s) \/ ReleaseSessionRow(s)
    <3>1. /\ onConn[s] \in Unlocking /\ onConn'[s] \in {"unlockRow", "clearConversation"}
          /\ queued' = queued /\ todo' = todo
          /\ RowsFor(Owner[s])' = RowsFor(Owner[s])
      BY <1>2, <2>10 DEF ReleaseSessionRedis, ReleaseSessionRow, queueVars, RowsFor, Rows
    <3> QED
      BY <1>1, <3>1
  <2>11. CASE ClearQueue(s)
    <3>1. /\ onConn[s] = "clearConversation" /\ queued' = queued
          /\ onConn'[s] \in {"clearList", "unlockRedis"}
          /\ todo'[s] = todo[s] \ {Peer(s)}
      BY <1>2, <2>11 DEF ClearQueue, NextConversation
    <3>2. Rows' = {m \in Rows : ConversationOf(m) # Clearing(s)}
      BY <1>1, <1>5, <2>11, <3>1, ConnRows DEF ClearUserQueueRows
    <3>3. \A m \in RowsFor(Owner[s]) : ConversationOf(m) = Clearing(s) <=> Sender[m] = Peer(s)
      <4>1. \A m \in RowsFor(Owner[s]) : m \in Elements(queued[s])
        BY <1>1, <3>1
      <4> QED
        BY <1>1, <3>1, <4>1, ClearingRows, PeerConversation DEF RowsFor
    <3>4. RowsFor(Owner[s])' = {m \in RowsFor(Owner[s]) : Sender[m] # Peer(s)}
      BY <3>2, <3>3 DEF RowsFor
    <3> QED
      BY <1>1, <3>1, <3>4
  <2>12. CASE ClearUserQueueRedis(s)
    <3>1. /\ onConn[s] = "clearList" /\ onConn'[s] = "clearRows"
          /\ queued' = queued /\ todo' = todo /\ redisQueue'[Owner[s]] = <<>>
          /\ RowsFor(Owner[s])' = RowsFor(Owner[s])
      BY <1>2, <2>12 DEF ClearUserQueueRedis, ClearUserList, RowsFor, Rows
    <3> QED
      BY <1>1, <3>1
  <2> QED
    BY <1>5, <2>3, <2>4, <2>5, <2>6, <2>7, <2>8, <2>9, <2>10, <2>11, <2>12 DEF ConnProgress, ConnContinues
<1>6. ASSUME NEW s \in Sockets, Disconnect(s) PROVE \A t \in Sockets : Ok(t)'
  BY <1>1, <1>6, DisconnectFrame DEF queueVars, connVars, RowsFor, Rows
<1>7. CASE UNCHANGED vars
  BY <1>1, <1>7 DEF vars, queueVars, connVars, RowsFor, Rows
<1> QED
  BY <1>1, <1>3, <1>4, <1>5, <1>6, <1>7, SerialCases

\* A step leaves the locks of the stores different only where the next access makes them the
\* same again.
LEMMA SameLocksStep ==
  ASSUME SerialBase, LocksInv, SameLocks, [SerialNext]_vars,
         ~LoseRedis, \A u \in Users : ~Expire(u)
  PROVE  SameLocks'
<1>1. TypeOK /\ OneHandler
  BY DEF SerialBase, TypeInv
<1>2. redisLock \in [Conversations -> Holder] /\ pgLock \in [Conversations -> Holder]
  BY <1>1 DEF TypeOK, SessionTypeOK
<1>3. ASSUME NEW m \in Messages, MsgAlone(m), OnMessage(m) \/ MsgProgress(m) PROVE SameLocks'
  <2> DEFINE c == ConversationOf(m)
  <2>1. \A d \in Conversations : redisLock[d] = pgLock[d] \/ (onMsg[m] = "lockRow" /\ d = c)
    BY <1>3 DEF SameLocks, HalfUnlocked, MsgAlone, MsgSteps
  <2>2. \A n \in Messages \ {m} : onMsg'[n] # "lockRow"
    BY <1>1, <1>3, SerialMsgFrame DEF MsgSteps
  <2> SUFFICES /\ \A d \in Conversations : redisLock'[d] = pgLock'[d] \/ (onMsg'[m] = "lockRow" /\ d = c)
               /\ onMsg'[m] = "lockRow" => redisLock'[c] = Sender[m]
    BY <2>2 DEF SameLocks
  <2>3. CASE RestoreLockOf(m)
    <3>1. /\ redisLock' = [redisLock EXCEPT ![c] = msgLock[m]] /\ pgLock' = pgLock
          /\ msgLock[m] = pgLock[c] /\ onMsg[m] = "restoreLock" /\ onMsg'[m] # "lockRow"
      BY <1>1, <2>3 DEF RestoreLockOf, RestoreLock, CheckLock, Reply, LocksInv, PassedInv, TypeOK, MsgTypeOK
    <3> QED
      BY <1>2, <2>1, <3>1
  <2>4. CASE LockSessionRedis(m)
    <3>1. /\ redisLock' = [redisLock EXCEPT ![c] = Sender[m]] /\ pgLock' = pgLock
          /\ onMsg[m] = "lockRedis" /\ onMsg'[m] = "lockRow"
      BY <1>1, <2>4 DEF LockSessionRedis, LockRedis, GoMsg, TypeOK, MsgTypeOK
    <3> QED
      BY <1>2, <2>1, <3>1, ConversationTypes
  <2>5. CASE LockSessionRow(m)
    <3>1. /\ pgLock' = [pgLock EXCEPT ![c] = Sender[m]] /\ redisLock' = redisLock
          /\ redisLock[c] = Sender[m] /\ onMsg'[m] # "lockRow"
      BY <1>1, <2>5 DEF LockSessionRow, LockRow, GoMsg, SameLocks, TypeOK, MsgTypeOK
    <3> QED
      BY <1>2, <2>1, <3>1, ConversationTypes
  <2>6. CASE UNCHANGED sessionVars /\ onMsg[m] # "lockRow" /\ onMsg'[m] # "lockRow"
    BY <2>1, <2>6 DEF sessionVars
  <2> QED
    BY <1>1, <1>3, <2>3, <2>4, <2>5, <2>6, MsgLocks
<1>4. ASSUME NEW s \in Sockets, ConnAlone(s), Connect(s) \/ ConnProgress(s) PROVE SameLocks'
  <2>1. /\ \A m \in Messages : onMsg[m] # "lockRow" /\ onMsg'[m] # "lockRow"
        /\ \A t \in Sockets \ {s} : onConn[t] = "idle"
    BY <1>1, <1>4, SerialConnFrame DEF MsgSteps
  <2>2. \A d \in Conversations : redisLock[d] = pgLock[d] \/ (onConn[s] = "unlockRow" /\ d = Clearing(s))
    BY <2>1 DEF SameLocks, HalfUnlocked
  <2> SUFFICES ASSUME NEW d \in Conversations PROVE redisLock'[d] = pgLock'[d] \/ HalfUnlocked(d)'
    BY <2>1 DEF SameLocks
  <2>3. CASE ReleaseSessionRedis(s)
    <3>1. /\ redisLock' = [redisLock EXCEPT ![Clearing(s)] = NoUser] /\ pgLock' = pgLock
          /\ onConn[s] # "unlockRow" /\ onConn'[s] = "unlockRow" /\ queued' = queued /\ todo' = todo
      BY <1>1, <2>3 DEF ReleaseSessionRedis, ReleaseRedis, GoConn, TypeOK, ConnTypeOK
    <3>2. d = Clearing(s) => HalfUnlocked(d)'
      BY <3>1, SameClearing DEF HalfUnlocked
    <3> QED
      BY <1>2, <2>2, <3>1, <3>2
  <2>4. CASE ReleaseSessionRow(s)
    <3>1. /\ pgLock' = [pgLock EXCEPT ![Clearing(s)] = NoUser] /\ redisLock' = redisLock
          /\ onConn[s] = "unlockRow" /\ redisLock[Clearing(s)] = NoUser
      BY <2>4 DEF ReleaseSessionRow, ReleaseRow, GoConn, LocksInv, ReleasedInv
    <3> QED
      BY <1>2, <2>2, <3>1
  <2>5. CASE UNCHANGED sessionVars /\ ~ReleaseSessionRow(s)
    <3>1. onConn[s] # "unlockRow"
      BY <1>1, <1>4, <2>5, ClearanceCases
      DEF Clearance, Unlocking, ReleaseSessionRedis, GoConn, ClearQueue, NextConversation,
          ClearUserQueueRedis, ClearUserQueueRows
    <3> QED
      BY <2>2, <2>5, <3>1 DEF sessionVars
  <2> QED
    BY <1>4, <2>3, <2>4, <2>5, ConnLocks
<1>5. ASSUME NEW s \in Sockets, Disconnect(s) PROVE SameLocks'
  BY <1>5, DisconnectFrame, SameClearing DEF sessionVars, msgVars, connVars, SameLocks, HalfUnlocked
<1>6. CASE UNCHANGED vars
  BY <1>6, SameClearing DEF vars, sessionVars, msgVars, connVars, SameLocks, HalfUnlocked
<1> QED
  BY <1>1, <1>3, <1>4, <1>5, <1>6, SerialCases

\* A row goes only when its message has been received.
LEMMA KeptRowsStep ==
  ASSUME SerialBase, LocksInv, SameDelivery, KeptRows, [SerialNext]_vars
  PROVE  KeptRows'
<1>1. TypeOK /\ OneHandler /\ ClearsAfterWholeDelivery
  BY DEF SerialBase, TypeInv, WholeDeliveryInv
<1>2. ASSUME NEW m \in Messages, MsgAlone(m), OnMessage(m) \/ MsgProgress(m) PROVE KeptRows'
  <2>1. /\ received \subseteq received' /\ Rows \subseteq Rows'
        /\ \A n \in Messages \ {m} : onMsg'[n] = onMsg[n]
        /\ onMsg'[m] = "QUEUED" => m \in Rows'
    BY <1>1, <1>2, SerialMsgFrame, MsgRows, MsgStepPc DEF MsgStep
  <2> QED
    BY <2>1 DEF KeptRows
<1>3. ASSUME NEW s \in Sockets, ConnAlone(s), Connect(s) \/ ConnProgress(s) PROVE KeptRows'
  <2>1. received \subseteq received' /\ onMsg' = onMsg
    BY <1>1, <1>3, SerialConnFrame
  <2>2. ASSUME NEW m \in Rows, m \notin Rows' PROVE m \in received
    <3>1. CASE ClearQueue(s) /\ Rows' = {n \in Rows : ConversationOf(n) # Clearing(s)}
      <4>1. onConn[s] = "clearConversation" /\ ConversationOf(m) = Clearing(s)
        BY <2>2, <3>1 DEF ClearQueue, NextConversation
      <4>2. m \in Elements(queued[s])
        BY <4>1, ClearingRows DEF Unlocking
      <4> QED
        BY <1>1, <4>1, <4>2 DEF ClearsAfterWholeDelivery
    <3>2. CASE ClearUserQueueRows(s) /\ Rows' = Rows \ RowsFor(Owner[s])
      <4>1. onConn[s] = "clearRows" /\ m \in RowsFor(Owner[s])
        BY <2>2, <3>2 DEF ClearUserQueueRows
      <4>2. m \in Elements(queued[s])
        BY <4>1 DEF SameDelivery, Clearance
      <4> QED
        BY <1>1, <4>1, <4>2 DEF ClearsAfterWholeDelivery
    <3> QED
      BY <1>1, <1>3, <2>2, <3>1, <3>2, ConnRows
  <2> QED
    BY <2>1, <2>2 DEF KeptRows
<1>4. ASSUME NEW s \in Sockets, Disconnect(s) PROVE KeptRows'
  BY <1>4, DisconnectFrame DEF queueVars, msgVars, history, KeptRows, Rows
<1>5. CASE (\E u \in Users : Expire(u)) \/ LoseRedis \/ UNCHANGED vars
  BY <1>5 DEF Expire, ExpireList, ClearUserList, LoseRedis, LoseRedisQueues, vars, queueVars, msgVars,
              history, KeptRows, Rows
<1> QED
  BY <1>1, <1>2, <1>3, <1>4, <1>5, SerialCases

\* What Redis loses is counted.
LEMMA LossesCounted ==
  ASSUME TypeOK, OneHandler, [SerialNext]_vars
  PROVE  /\ faults'["redis"] = 0 => faults["redis"] = 0 /\ ~LoseRedis /\ \A u \in Users : ~Expire(u)
         /\ faults["redis"] > 0 => faults'["redis"] > 0
         /\ faults["redis"] \in Nat /\ faults'["redis"] \in Nat
<1>1. "redis" \in FaultKinds /\ faults["redis"] \in Nat
  BY DEF FaultKinds, TypeOK
<1>2. ASSUME LoseRedis \/ \E u \in Users : Expire(u) PROVE faults'["redis"] = faults["redis"] + 1
  BY <1>1, <1>2 DEF LoseRedis, Expire, Fault, TypeOK
<1>3. \/ faults'["redis"] = faults["redis"]
      \/ LoseRedis \/ \E u \in Users : Expire(u)
  BY SerialCases, SerialMsgFrame, SerialConnFrame, DisconnectFrame DEF vars
<1>4. ASSUME faults'["redis"] = 0 PROVE ~LoseRedis /\ \A u \in Users : ~Expire(u)
  BY <1>1, <1>2, <1>4
<1> QED
  BY <1>1, <1>2, <1>3, <1>4

\* The stores stay together in every reachable state in which Redis has lost nothing.
LEMMA IntactInvariant == SerialSpec => []IntactInv
<1>1. Init => IntactInv
  <2> SUFFICES ASSUME Init PROVE SameQueues /\ SameDelivery /\ SameLocks /\ KeptRows
    BY DEF IntactInv
  <2>1. SameQueues /\ KeptRows
    BY EmptyQueue DEF Init, QueueInit, SameQueues, RowsFor, Rows, Pushed, KeptRows
  <2>2. SameDelivery /\ SameLocks
    BY DEF Init, SessionInit, SameDelivery, SameLocks, Clearance, Unlocking
  <2> QED
    BY <2>1, <2>2
<1>2. SerialBase /\ LocksInv /\ IntactInv /\ [SerialNext]_vars => IntactInv'
  <2> SUFFICES ASSUME SerialBase, LocksInv, IntactInv, [SerialNext]_vars, faults'["redis"] = 0
               PROVE  (SameQueues /\ SameDelivery /\ SameLocks /\ KeptRows)'
    BY DEF IntactInv
  <2>1. /\ SameQueues /\ SameDelivery /\ SameLocks /\ KeptRows
        /\ ~LoseRedis /\ \A u \in Users : ~Expire(u)
    BY LossesCounted DEF IntactInv, SerialBase, TypeInv
  <2> QED
    BY <2>1, SameQueuesStep, SameDeliveryStep, SameLocksStep, KeptRowsStep
<1> QED
  BY <1>1, <1>2, SerialBaseInvariant, LocksInvariant, PTL DEF SerialSpec

\* As long as Redis has kept its data, between handlers the stores hold the same locks and
\* the same queues.
THEOREM StoresStayTogether == SerialSpec => []StoresAgree
<1>1. SerialBase /\ IntactInv => StoresAgree
  <2> SUFFICES ASSUME SerialBase, IntactInv, Idle, faults["redis"] = 0
               PROVE  /\ redisLock = pgLock
                      /\ \A u \in Users : Elements(redisQueue[u]) = RowsFor(u)
    BY DEF StoresAgree
  <2>1. SameQueues /\ SameLocks
    BY DEF IntactInv
  <2>2. /\ \A m \in Messages : onMsg[m] \notin {"lockRow", "createRow"}
        /\ \A s \in Sockets : onConn[s] = "idle"
    BY DEF Idle, MsgSteps
  <2>3. redisLock = pgLock
    BY <2>1, <2>2 DEF SameLocks, HalfUnlocked, SerialBase, TypeInv, TypeOK, SessionTypeOK
  <2>4. ASSUME NEW u \in Users PROVE Elements(redisQueue[u]) = RowsFor(u)
    <3>1. Pushed(u) = {} /\ \A s \in Sockets : onConn[s] \notin Clearance
      BY <2>2 DEF Pushed, Clearance, Unlocking
    <3> QED
      BY <2>1, <3>1 DEF SameQueues
  <2> QED
    BY <2>3, <2>4
<1> QED
  BY <1>1, SerialBaseInvariant, IntactInvariant, PTL

\* As long as Redis has kept its data, the receiver of a queued message cannot write into the
\* conversation before the message has been received: both stores have it locked.
THEOREM QueuedIsLocked == SerialSpec => []LockedWhileQueued
<1>1. SerialBase /\ LocksInv /\ IntactInv => LockedWhileQueued
  <2> SUFFICES ASSUME SerialBase, LocksInv, IntactInv, faults["redis"] = 0,
                      NEW m \in Messages, onMsg[m] = "QUEUED", m \notin received
               PROVE  /\ redisLock[ConversationOf(m)] = Sender[m]
                      /\ pgLock[ConversationOf(m)] = Sender[m]
    BY DEF LockedWhileQueued
  <2> DEFINE c == ConversationOf(m)
  <2>1. SameDelivery /\ SameLocks /\ m \in Rows /\ c \in Conversations
    BY ConversationTypes DEF IntactInv, KeptRows
  <2>2. ASSUME NEW s \in Sockets, onConn[s] \in Unlocking PROVE c # Clearing(s)
    <3>1. c = Clearing(s) => m \in Elements(queued[s])
      BY <2>1, <2>2, ClearingRows
    <3>2. Elements(queued[s]) \subseteq received
      BY <2>2 DEF SerialBase, WholeDeliveryInv, ClearsAfterWholeDelivery, Unlocking
    <3> QED
      BY <3>1, <3>2
  <2>3. ~Unlocked(c) /\ ~HalfUnlocked(c)
    BY <2>2 DEF Unlocked, HalfUnlocked, Unlocking
  <2>4. pgLock[c] = Sender[m]
    BY <2>1, <2>3 DEF LocksInv, RowLockInv
  <2>5. redisLock[c] = pgLock[c] \/ \E n \in Messages : onMsg[n] = "lockRow" /\ ConversationOf(n) = c
    BY <2>1, <2>3 DEF SameLocks
  <2>6. ASSUME NEW n \in Messages, onMsg[n] = "lockRow", ConversationOf(n) = c
        PROVE  redisLock[c] = Sender[m]
    <3>1. redisLock[c] = Sender[n] /\ pgLock[c] \in {NoUser, Sender[n]}
      BY <2>1, <2>6 DEF SameLocks, LocksInv, PassedInv
    <3> QED
      BY <2>4, <3>1, ConversationTypes, UsersAssumption
  <2> QED
    BY <2>4, <2>5, <2>6
<1> QED
  BY <1>1, SerialBaseInvariant, LocksInvariant, IntactInvariant, PTL

-------------------------------------------------------------------------------
\* No lock is left behind.

\* A step that deletes rows takes the lock away first, unless the rows were lost from the list
\* that the delivery has read.
LEMMA LockedForRowStep ==
  SerialBase /\ LocksInv /\ IntactInv /\ LockedForRow /\ [SerialNext]_vars => LockedForRow'
<1> DEFINE Needs(n) == n \in Rows \/ onMsg[n] \in {"pushRedis", "createRow"}
           Needed(c) == \E n \in Messages : ConversationOf(n) = c /\ Needs(n)
<1> SUFFICES ASSUME SerialBase, LocksInv, IntactInv, LockedForRow, [SerialNext]_vars,
                    NEW c \in Conversations, pgLock'[c] # NoUser, ~Overlooked(c)'
             PROVE  Needed(c)'
  BY DEF LockedForRow
<1>1. TypeOK /\ OneHandler
  BY DEF SerialBase, TypeInv
<1>2. pgLock \in [Conversations -> Holder] /\ Rows \subseteq Messages
  BY <1>1 DEF TypeOK, SessionTypeOK, Rows
<1>3. ASSUME received \subseteq received',
             \A n \in Messages : onMsg[n] = "QUEUED" => onMsg'[n] = "QUEUED"
      PROVE  ~Overlooked(c)
  BY <1>1, <1>3, LossesCounted DEF Overlooked, TypeOK
<1>4. ASSUME ~Overlooked(c), pgLock[c] # NoUser PROVE Needed(c)
  BY <1>4 DEF LockedForRow
<1>5. ASSUME NEW m \in Messages, MsgAlone(m), OnMessage(m) \/ MsgProgress(m) PROVE Needed(c)'
  <2>1. /\ \A n \in Messages \ {m} : onMsg'[n] = onMsg[n]
        /\ Rows \subseteq Rows' /\ received \subseteq received' /\ onMsg[m] # "QUEUED"
    BY <1>1, <1>5, SerialMsgFrame, MsgRows, MsgStepPc DEF MsgStep
  <2>2. ~Overlooked(c)
    BY <1>3, <2>1
  <2>3. Needs(m) => Needs(m)'
    <3>1. onMsg[m] = "createRow" => EnqueueRow(m)
      BY <1>5 DEF MsgProgress, MsgContinues, OnMessage, ReadLock, ReadLockRow, RestoreLockOf, Emit,
         NotAcknowledged, CheckDevice, LockSessionRedis, LockSessionRow, EnqueueRedis, Acknowledge, GoMsg
    <3>2. EnqueueRow(m) => m \in Rows'
      BY <1>1, <1>5, MsgRows
    <3>3. onMsg[m] = "pushRedis" => onMsg'[m] = "createRow"
      BY <1>1, <1>5 DEF MsgProgress, MsgContinues, OnMessage, ReadLock, ReadLockRow, RestoreLockOf, Emit,
         NotAcknowledged, CheckDevice, LockSessionRedis, LockSessionRow, EnqueueRedis, EnqueueRow,
         Acknowledge, GoMsg, TypeOK, MsgTypeOK
    <3> QED
      BY <2>1, <3>1, <3>2, <3>3
  <2>4. \A n \in Messages : Needs(n) => Needs(n)'
    BY <2>1, <2>3
  <2>5. CASE LockSessionRow(m) /\ c = ConversationOf(m)
    <3>1. onMsg'[m] = "pushRedis"
      BY <1>1, <2>5 DEF LockSessionRow, GoMsg, TypeOK, MsgTypeOK
    <3> QED
      BY <2>5, <3>1
  <2>6. CASE pgLock'[c] = pgLock[c]
    BY <1>4, <2>2, <2>4, <2>6
  <2> QED
    BY <1>1, <1>2, <1>5, <2>5, <2>6, MsgLocks, ConversationTypes
    DEF RestoreLockOf, RestoreLock, LockSessionRedis, LockRedis, LockSessionRow, LockRow, sessionVars
<1>6. ASSUME NEW s \in Sockets, ConnAlone(s), Connect(s) \/ ConnProgress(s) PROVE Needed(c)'
  <2>1. /\ onMsg' = onMsg /\ received \subseteq received' /\ faults' = faults
        /\ \A n \in Messages : onMsg[n] \notin {"pushRedis", "createRow"}
    BY <1>1, <1>6, SerialConnFrame DEF MsgSteps
  <2>2. pgLock[c] # NoUser
    <3>1. ASSUME ReleaseSessionRow(s) PROVE pgLock[c] # NoUser
      BY <1>2, <3>1 DEF ReleaseSessionRow, ReleaseRow
    <3> QED
      BY <1>6, <3>1, ConnLocks DEF ReleaseSessionRedis, ReleaseRedis, sessionVars
  <2>3. PICK m \in Rows : ConversationOf(m) = c
    BY <1>3, <1>4, <2>1, <2>2
  <2>4. CASE ClearQueue(s) /\ Rows' = {n \in Rows : ConversationOf(n) # Clearing(s)}
    <3>1. onConn[s] = "clearConversation" /\ pgLock' = pgLock
      BY <2>4 DEF ClearQueue, NextConversation, sessionVars
    <3>2. pgLock[Clearing(s)] = NoUser
      BY <3>1 DEF LocksInv, ReleasedInv
    <3> QED
      BY <1>2, <2>2, <2>3, <2>4, <3>2
  <2>5. CASE ClearUserQueueRows(s) /\ Rows' = Rows \ RowsFor(Owner[s])
    <3>1. /\ onConn[s] = "clearRows" /\ todo[s] = {} /\ queued[s] # <<>>
          /\ \A n \in Elements(queued[s]) : pgLock[ConversationOf(n)] = NoUser
      BY <2>5 DEF ClearUserQueueRows, LocksInv, ReleasedInv, Clearance, Unlocking
    <3>2. Len(queued[s]) \in Nat \ {0} /\ queued[s] \in Seq(Messages)
      BY <1>1, <3>1 DEF TypeOK, ConnTypeOK
    <3>3. PICK n \in Elements(queued[s]) : TRUE
      BY <3>2, ElementAt
    <3>4. /\ n \in received /\ onMsg[n] = "QUEUED" /\ Receiver[n] = Owner[s]
          /\ ConversationOf(n) # c
      BY <2>2, <3>1, <3>3
      DEF SerialBase, WholeDeliveryInv, ClearsAfterWholeDelivery, LocksInv, ListedInv, ReceiverInv
    <3>5. CASE Receiver[m] = Owner[s]
      <4>1. faults["redis"] = 0
        BY <1>1, <2>1, <2>3, <3>4, <3>5, LossesCounted DEF Overlooked, ConversationOf
      <4>2. RowsFor(Owner[s]) = {}
        BY <3>1, <4>1 DEF IntactInv, SameDelivery, Clearance
      <4> QED
        BY <2>3, <3>5, <4>2 DEF RowsFor
    <3>6. CASE Receiver[m] # Owner[s]
      BY <1>2, <2>3, <2>5, <3>6 DEF RowsFor
    <3> QED
      BY <3>5, <3>6
  <2>6. CASE Rows' = Rows
    BY <1>2, <2>3, <2>6
  <2> QED
    BY <1>1, <1>6, <2>4, <2>5, <2>6, ConnRows
<1>7. ASSUME NEW s \in Sockets, Disconnect(s) PROVE Needed(c)'
  <2>1. UNCHANGED <<pgLock, createdAt, onMsg, received>>
    BY <1>7, DisconnectFrame DEF sessionVars, queueVars, msgVars, history
  <2> QED
    BY <1>3, <1>4, <2>1 DEF Rows
<1>8. CASE (\E u \in Users : Expire(u)) \/ LoseRedis \/ UNCHANGED vars
  <2>1. UNCHANGED <<pgLock, createdAt, onMsg, received>>
    BY <1>8 DEF Expire, ExpireList, ClearUserList, LoseRedis, LoseRedisLocks, LoseRedisQueues, vars,
                sessionVars, queueVars, msgVars, history
  <2> QED
    BY <1>3, <1>4, <2>1 DEF Rows
<1> QED
  BY <1>1, <1>5, <1>6, <1>7, <1>8, SerialCases

\* Between handlers a conversation is locked, in either store, only if a row is queued in it
\* or its rows were overlooked after Redis had lost a list.
THEOREM NoLockWithoutRow == SerialSpec => []NoIdleLock
<1>1. Init => LockedForRow
  BY DEF Init, SessionInit, LockedForRow
<1>2. SerialBase /\ LocksInv /\ IntactInv /\ LockedForRow /\ [SerialNext]_vars => LockedForRow'
  BY LockedForRowStep
<1>3. LocksInv /\ LockedForRow => NoIdleLock
  BY DEF LocksInv, RedisLockInv, LockedForRow, NoIdleLock, Idle, MsgSteps
<1> QED
  BY <1>1, <1>2, <1>3, SerialBaseInvariant, LocksInvariant, IntactInvariant, PTL DEF SerialSpec
===============================================================================
