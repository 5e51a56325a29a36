---------------------------- MODULE MailboxProofs ----------------------------
(***************************************************************************)
(* WebsocketService implements Mailbox under SerialSpec,                   *)
(* for every set of users, sockets and messages and every bound on the     *)
(* losses of Redis: every step of SerialSpec is one of the mailbox, seen   *)
(* through BoxOf and Hidden, or changes nothing in it.                     *)
(***************************************************************************)
EXTENDS MailboxInvariants, SerialProofs, FunctionTheorems

-------------------------------------------------------------------------------
\* Sequences in the order of created_at.

\* What one sorted sequence holds of another is a subsequence of it, if any two of its
\* messages have an order.
LEMMA SortedSubsequence ==
  ASSUME NEW q \in Seq(Messages), NEW r \in Seq(Messages), Sorted(q), Sorted(r),
         Elements(q) \subseteq Elements(r),
         \A m, n \in Elements(q) : m # n => Before(m, n) \/ Before(n, m)
  PROVE  Mail!Subsequence(q, r)
<1> DEFINE f == [i \in DOMAIN q |-> CHOOSE k \in DOMAIN r : r[k] = q[i]]
<1>1. \A i \in DOMAIN q : f[i] \in DOMAIN r /\ r[f[i]] = q[i]
  <2> SUFFICES ASSUME NEW i \in DOMAIN q PROVE f[i] \in DOMAIN r /\ r[f[i]] = q[i]
    OBVIOUS
  <2>1. \E k \in DOMAIN r : r[k] = q[i]
    BY DEF Elements
  <2> QED
    BY <2>1
<1>2. f \in [DOMAIN q -> DOMAIN r]
  BY <1>1
<1> HIDE DEF f
<1>3. DOMAIN q \subseteq Nat /\ DOMAIN r \subseteq Nat
  OBVIOUS
<1>4. ASSUME NEW i \in DOMAIN q, NEW j \in DOMAIN q, i < j PROVE f[i] < f[j]
  <2>1. q[i] \in Elements(q) /\ q[j] \in Elements(q) /\ q[i] # q[j] /\ ~Before(q[j], q[i])
    BY <1>4 DEF Elements, Sorted
  <2>2. Before(q[i], q[j]) /\ f[i] # f[j]
    BY <1>1, <2>1
  <2>3. ~(f[j] < f[i])
    BY <1>1, <2>2 DEF Sorted
  <2> QED
    BY <1>1, <1>3, <2>2, <2>3
<1> QED
  BY <1>1, <1>2, <1>4 DEF Mail!Subsequence

\* A sequence is what is left of it when nothing is dropped.
LEMMA SubsequenceOfItself ==
  ASSUME NEW q PROVE Mail!Subsequence(q, q)
<1> DEFINE f == [i \in DOMAIN q |-> i]
<1>1. f \in [DOMAIN q -> DOMAIN q] /\ \A i \in DOMAIN q : f[i] = i
  OBVIOUS
<1> HIDE DEF f
<1> QED
  BY <1>1 DEF Mail!Subsequence

\* Two sorted sequences of the same messages are the same.
LEMMA SortedSame ==
  ASSUME NEW q \in Seq(Messages), NEW r \in Seq(Messages), Sorted(q), Sorted(r),
         Elements(q) = Elements(r),
         \A m, n \in Elements(q) : m # n => Before(m, n) \/ Before(n, m)
  PROVE  q = r
<1> DEFINE Differ == {i \in DOMAIN q \cup DOMAIN r : ~(i \in DOMAIN q /\ i \in DOMAIN r /\ q[i] = r[i])}
<1>1. DOMAIN q = 1..Len(q) /\ DOMAIN r = 1..Len(r) /\ Len(q) \in Nat /\ Len(r) \in Nat
  OBVIOUS
<1>2. ASSUME Differ # {} PROVE FALSE
  <2>1. PICK i \in Differ : \A j \in Differ : i <= j
    <3>1. Differ \in SUBSET Nat
      BY <1>1
    <3> HIDE DEF Differ
    <3> QED
      BY <1>2, <3>1, LeastIndex
  <2>2. i \in Nat /\ \A j \in 1..(i-1) : j \in DOMAIN q /\ j \in DOMAIN r /\ q[j] = r[j]
    BY <1>1, <2>1
  <2>3. ASSUME i \in DOMAIN q PROVE i \in DOMAIN r /\ \E k \in DOMAIN r : i < k /\ q[i] = r[k]
    <3>1. PICK k \in DOMAIN r : q[i] = r[k]
      BY <2>3 DEF Elements
    <3>2. ~(k < i)
      <4> SUFFICES ASSUME k < i PROVE FALSE
        OBVIOUS
      <4>1. k \in DOMAIN q /\ q[k] = q[i]
        BY <1>1, <2>2, <3>1
      <4> QED
        BY <2>3, <4>1 DEF Sorted
    <3>3. k # i
      BY <2>1, <2>3, <3>1
    <3> QED
      BY <1>1, <2>2, <3>1, <3>2, <3>3
  <2>4. ASSUME i \in DOMAIN r PROVE i \in DOMAIN q /\ \E k \in DOMAIN q : i < k /\ r[i] = q[k]
    <3>1. PICK k \in DOMAIN q : r[i] = q[k]
      BY <2>4 DEF Elements
    <3>2. ~(k < i)
      <4> SUFFICES ASSUME k < i PROVE FALSE
        OBVIOUS
      <4>1. k \in DOMAIN r /\ r[k] = r[i]
        BY <1>1, <2>2, <3>1
      <4> QED
        BY <2>4, <4>1 DEF Sorted
    <3>3. k # i
      BY <2>1, <2>4, <3>1
    <3> QED
      BY <1>1, <2>2, <3>1, <3>2, <3>3
  <2>5. PICK k \in DOMAIN r, l \in DOMAIN q : i < k /\ q[i] = r[k] /\ i < l /\ r[i] = q[l]
    BY <2>1, <2>3, <2>4
  <2>6. i \in DOMAIN q /\ i \in DOMAIN r
    BY <2>1, <2>3, <2>4
  <2>7. ~Before(q[l], q[i]) /\ q[i] # q[l]
    BY <2>5, <2>6 DEF Sorted
  <2>8. ~Before(r[k], r[i])
    BY <2>5, <2>6 DEF Sorted
  <2>9. q[i] \in Elements(q) /\ q[l] \in Elements(q)
    BY <2>5, <2>6 DEF Elements
  <2> QED
    BY <2>5, <2>7, <2>8, <2>9
<1>3. \A i \in DOMAIN q : i \in DOMAIN r /\ q[i] = r[i]
  BY <1>2
<1>4. \A i \in DOMAIN r : i \in DOMAIN q
  BY <1>2
<1> QED
  BY <1>1, <1>3, <1>4

\* A set of messages that is not empty has one that comes before no other.
LEMMA LastMessage ==
  ASSUME SerialBase, StampsInv, NEW set \in SUBSET Messages, set # {}
  PROVE  \E x \in set : \A y \in set : ~Before(x, y)
<1>1. createdAt \in [Messages -> Nat] /\ pgClock \in Nat
  BY DEF SerialBase, TypeInv, TypeOK, QueueTypeOK
<1>2. CASE \E x \in set : createdAt[x] = 0
  BY <1>2 DEF Before
<1>3. CASE \A x \in set : createdAt[x] # 0
  <2> DEFINE Ages == {pgClock - createdAt[x] : x \in set}
  <2>1. Ages \in SUBSET Nat /\ Ages # {}
    BY <1>1 DEF StampsInv
  <2>2. PICK a \in Ages : \A b \in Ages : a <= b
    <3> HIDE DEF Ages
    <3> QED
      BY <2>1, LeastIndex
  <2>3. PICK x \in set : a = pgClock - createdAt[x]
    BY <2>2
  <2>4. \A y \in set : createdAt[y] <= createdAt[x]
    <3> SUFFICES ASSUME NEW y \in set PROVE createdAt[y] <= createdAt[x]
      OBVIOUS
    <3>1. a <= pgClock - createdAt[y]
      BY <2>2
    <3> QED
      BY <1>1, <2>3, <3>1 DEF StampsInv
  <2>5. \A y \in set : onMsg[y] # "createRow"
    BY <1>1, <1>3 DEF SerialBase, RowsQueued, Rows
  <2> QED
    BY <1>1, <2>4, <2>5 DEF Before
<1> QED
  BY <1>2, <1>3

\* The messages of an order are those of the set, and it is a sequence.
LEMMA OrderOf ==
  ASSUME NEW set \in SUBSET Messages, NEW q \in Orders(set)
  PROVE  q \in Seq(Messages) /\ Elements(q) = set /\ Sorted(q) /\ Len(q) = Cardinality(set)
<1>1. Cardinality(set) \in Nat
  BY FS_Subset, FS_CardinalityType, MessagesAssumption
<1> QED
  BY <1>1 DEF Orders

\* A message that comes before no other may be put last.
LEMMA OrderAppended ==
  ASSUME NEW set \in SUBSET Messages, NEW x \in set, \A y \in set : ~Before(x, y),
         NEW q \in Orders(set \ {x})
  PROVE  Append(q, x) \in Orders(set)
<1>1. /\ IsFiniteSet(set) /\ Cardinality(set) \in Nat
      /\ Cardinality(set \ {x}) = Cardinality(set) - 1
  BY FS_Subset, FS_CardinalityType, FS_RemoveElement, MessagesAssumption
<1>2. /\ q \in Seq(Messages) /\ Elements(q) = set \ {x} /\ Sorted(q)
      /\ Len(q) = Cardinality(set) - 1
  BY <1>1, OrderOf
<1> DEFINE r == Append(q, x)
<1>3. /\ r \in Seq(Messages) /\ Len(r) = Len(q) + 1 /\ r[Len(q) + 1] = x
      /\ \A i \in 1..Len(q) : r[i] = q[i]
      /\ DOMAIN r = 1..(Len(q) + 1) /\ DOMAIN q = 1..Len(q) /\ Len(q) \in Nat
  BY <1>2
<1>4. Elements(r) = set
  <2>1. x \in Messages /\ (set \ {x}) \cup {x} = set
    OBVIOUS
  <2> QED
    BY <1>2, <2>1, PushedElements
<1>5. Sorted(r)
  <2> SUFFICES ASSUME NEW i \in DOMAIN r, NEW j \in DOMAIN r, i < j
               PROVE  r[i] # r[j] /\ ~Before(r[j], r[i])
    BY DEF Sorted
  <2>1. i \in 1..Len(q) /\ r[i] = q[i] /\ q[i] \in set \ {x}
    BY <1>2, <1>3 DEF Elements
  <2>2. CASE j = Len(q) + 1
    BY <1>3, <2>1, <2>2
  <2>3. CASE j # Len(q) + 1
    <3>1. j \in DOMAIN q /\ i \in DOMAIN q /\ r[j] = q[j]
      BY <1>3, <2>1, <2>3
    <3> QED
      BY <1>2, <2>1, <3>1 DEF Sorted
  <2> QED
    BY <2>2, <2>3
<1>6. r \in [1..Cardinality(set) -> set]
  <2>1. DOMAIN r = 1..Cardinality(set)
    BY <1>1, <1>2, <1>3
  <2>2. \A i \in DOMAIN r : r[i] \in set
    BY <1>4 DEF Elements
  <2>3. r \in [1..Len(r) -> Messages]
    BY <1>3, LenProperties
  <2> HIDE DEF r
  <2> QED
    BY <2>1, <2>2, <2>3
<1> QED
  BY <1>4, <1>5, <1>6 DEF Orders

\* Every set of messages can be put in order.
LEMMA OrdersExist ==
  ASSUME SerialBase, StampsInv, NEW set \in SUBSET Messages
  PROVE  Orders(set) # {}
<1> DEFINE Bad == {r \in SUBSET Messages : Orders(r) = {}}
<1>1. ASSUME Bad # {} PROVE FALSE
  <2>1. IsWellFoundedOn(StrictSubsetOrdering(Messages), FiniteSubsetsOf(Messages))
    BY FS_StrictSubsetOrderingWellFounded
  <2>2. Bad \subseteq FiniteSubsetsOf(Messages)
    BY FS_Subset, MessagesAssumption DEF FiniteSubsetsOf
  <2>3. \E b \in Bad : \A c \in Bad : ~(<<c, b>> \in StrictSubsetOrdering(Messages))
    <3> HIDE DEF Bad
    <3> QED
      BY <1>1, <2>1, <2>2, WFMin, Zenon
  <2>4. PICK b \in Bad : \A c \in Bad : ~(<<c, b>> \in StrictSubsetOrdering(Messages))
    BY <2>3
  <2>5. b # {}
    <3>1. <<>> \in Orders({})
      BY FS_EmptySet, EmptyQueue DEF Orders, Sorted
    <3> QED
      BY <3>1
  <2>6. PICK x \in b : \A y \in b : ~Before(x, y)
    BY <2>5, LastMessage
  <2>7. <<b \ {x}, b>> \in StrictSubsetOrdering(Messages)
    BY DEF StrictSubsetOrdering
  <2>8. PICK q \in Orders(b \ {x}) : TRUE
    BY <2>4, <2>7
  <2> QED
    BY <2>6, <2>8, OrderAppended
<1> QED
  BY <1>1

\* Of two messages kept for a user one comes first.
LEMMA KeptHaveOrder ==
  ASSUME SerialBase, StampsInv, NEW u \in Users,
         NEW m \in Kept(u), NEW n \in Kept(u), m # n
  PROVE  Before(m, n) \/ Before(n, m)
<1>1. createdAt \in [Messages -> Nat]
  BY DEF SerialBase, TypeInv, TypeOK, QueueTypeOK
<1>2. ~(onMsg[m] = "createRow" /\ onMsg[n] = "createRow")
  BY DEF SerialBase, OneHandler, Kept, RowsFor, Rows, Unrowed, MsgSteps
<1>3. onMsg[m] = "createRow" \/ m \in Rows
  BY DEF Kept, RowsFor, Unrowed
<1>4. onMsg[n] = "createRow" \/ n \in Rows
  BY DEF Kept, RowsFor, Unrowed
<1> QED
  BY <1>1, <1>2, <1>3, <1>4 DEF Before, StampsInv, Rows

\* getQueuedMessages reads all the rows, each once and in their order.
LEMMA RowsInOrder ==
  ASSUME SerialBase, NEW rows \in SUBSET Rows, NEW q \in InCreationOrder(rows)
  PROVE  q \in Seq(Messages) /\ Elements(q) = rows /\ Sorted(q)
<1> DEFINE n == Cardinality(rows)
<1>1. /\ rows \in SUBSET Messages /\ IsFiniteSet(rows) /\ n \in Nat
      /\ createdAt \in [Messages -> Nat]
  BY FS_Subset, FS_CardinalityType, MessagesAssumption DEF Rows, SerialBase, TypeInv, TypeOK, QueueTypeOK
<1>2. q \in [1..n -> rows] /\ \A i, j \in 1..n : i < j => createdAt[q[i]] < createdAt[q[j]]
  BY DEF InCreationOrder
<1>3. q \in Injection(1..n, rows)
  <2> SUFFICES ASSUME NEW i \in 1..n, NEW j \in 1..n, q[i] = q[j] PROVE i = j
    BY <1>2, Fun_IsInj
  <2> QED
    BY <1>1, <1>2
<1>4. q \in Surjection(1..n, rows)
  BY <1>1, <1>3, FS_Injection, FS_Interval
<1>5. Elements(q) = rows
  BY <1>2, <1>4 DEF Surjection, Elements
<1>6. Sorted(q)
  <2> SUFFICES ASSUME NEW i \in 1..n, NEW j \in 1..n, i < j
               PROVE  q[i] # q[j] /\ ~Before(q[j], q[i])
    BY <1>2 DEF Sorted
  <2>1. createdAt[q[i]] < createdAt[q[j]] /\ q[i] \in Rows /\ q[j] \in Rows
    BY <1>2
  <2> QED
    BY <1>1, <2>1 DEF Before, Rows, SerialBase, RowsQueued
<1> QED
  BY <1>1, <1>2, <1>5, <1>6

-------------------------------------------------------------------------------
\* What steps do to the queues, and to the order.

\* onMessage changes the queues in the two accesses of enqueueMessage.
LEMMA OnMessageCases ==
  ASSUME TypeOK, NEW m \in Messages, MsgAlone(m), OnMessage(m) \/ MsgProgress(m)
  PROVE  /\ UNCHANGED <<onConn, queued, pos, todo, faults>>
         /\ \A s \in Sockets : onConn[s] = "idle"
         /\ \A n \in Messages \ {m} : onMsg'[n] = onMsg[n] /\ onMsg[n] \notin MsgSteps
         /\ onMsg[m] # "QUEUED"
         /\ \/ /\ onMsg[m] = "pushRedis" /\ onMsg'[m] = "createRow"
               /\ redisQueue' = [redisQueue EXCEPT ![Receiver[m]] = Append(@, m)]
               /\ UNCHANGED <<createdAt, pgClock, received>>
            \/ /\ onMsg[m] = "createRow" /\ onMsg'[m] = "QUEUED"
               /\ createdAt' = [createdAt EXCEPT ![m] = pgClock + 1] /\ pgClock' = pgClock + 1
               /\ UNCHANGED <<redisQueue, received>>
            \/ /\ {onMsg[m], onMsg'[m]} \cap {"createRow", "QUEUED"} = {}
               /\ UNCHANGED queueVars
               /\ \/ received' = received
                  \/ onMsg[m] = "awaitAck" /\ onMsg'[m] = "getUser" /\ received' = received \cup {m}
<1> USE DEF TypeOK, MsgTypeOK, GoMsg, Reply, queueVars, history
<1>1. CASE EnqueueRedis(m)
  BY <1>1, SerialMsgFrame DEF EnqueueRedis, PushRedis, MsgAlone
<1>2. CASE EnqueueRow(m)
  BY <1>2, SerialMsgFrame DEF EnqueueRow, CreateRow, MsgAlone
<1>3. CASE OnMessage(m) \/ ReadLock(m) \/ ReadLockRow(m) \/ RestoreLockOf(m)
  <2>1. /\ {onMsg[m], onMsg'[m]} \cap {"createRow", "QUEUED"} = {}
        /\ UNCHANGED queueVars /\ received' = received
    BY <1>3 DEF OnMessage, ReadLock, ReadLockRow, RestoreLockOf, CheckLock
  <2> QED
    BY <2>1, SerialMsgFrame DEF MsgAlone
<1>4. CASE Emit(m) \/ Acknowledge(m) \/ NotAcknowledged(m) \/ CheckDevice(m)
  <2>1. /\ {onMsg[m], onMsg'[m]} \cap {"createRow", "QUEUED"} = {}
        /\ UNCHANGED queueVars
        /\ \/ received' = received
           \/ onMsg[m] = "awaitAck" /\ onMsg'[m] = "getUser" /\ received' = received \cup {m}
    BY <1>4 DEF Emit, Acknowledge, NotAcknowledged, CheckDevice
  <2> QED
    BY <2>1, SerialMsgFrame DEF MsgAlone
<1>5. CASE LockSessionRedis(m) \/ LockSessionRow(m)
  <2>1. /\ {onMsg[m], onMsg'[m]} \cap {"createRow", "QUEUED"} = {}
        /\ UNCHANGED queueVars /\ received' = received
    BY <1>5 DEF LockSessionRedis, LockSessionRow
  <2> QED
    BY <2>1, SerialMsgFrame DEF MsgAlone
<1> QED
  BY <1>1, <1>2, <1>3, <1>4, <1>5 DEF MsgProgress, MsgContinues

\* handleConnection changes the lists in two places, and deletes rows in two.
LEMMA OnConnectionCases ==
  ASSUME TypeOK, NEW s \in Sockets, ConnAlone(s), Connect(s) \/ ConnProgress(s)
  PROVE  /\ UNCHANGED <<onMsg, pgClock, faults>>
         /\ \A m \in Messages : onMsg[m] \notin MsgSteps
         /\ \A t \in Sockets \ {s} : /\ onConn'[t] = onConn[t] /\ queued'[t] = queued[t]
                                     /\ todo'[t] = todo[t] /\ onConn[t] = "idle"
         /\ RestoreQueueOf(s) \/ ClearUserQueueRedis(s) \/ redisQueue' = redisQueue
         /\ ClearQueue(s) \/ ClearUserQueueRows(s) \/ createdAt' = createdAt
         /\ AcknowledgeQueued(s) \/ received' = received
         /\ \A m \in Messages : createdAt'[m] \in {createdAt[m], 0}
<1>1. createdAt \in [Messages -> Nat]
  BY DEF TypeOK, QueueTypeOK
<1>2. /\ pgClock' = pgClock /\ (AcknowledgeQueued(s) \/ received' = received)
      /\ ClearQueue(s) \/ ClearUserQueueRows(s) \/ createdAt' = createdAt
  BY DEF ConnProgress, ConnContinues, Connect, Lookup, Register, ReadQueue, ReadQueueRows,
         RestoreQueueOf, RestoreQueue, Group, SendQueued, QueuedNotAcknowledged, ReleaseSessionRedis,
         ReleaseSessionRow, ClearQueue, ClearConversationRows, ClearUserQueueRedis, ClearUserList,
         ClearUserQueueRows, ClearUserRows, AcknowledgeQueued, queueVars, history
<1>3. ClearQueue(s) \/ ClearUserQueueRows(s) => \A m \in Messages : createdAt'[m] \in {createdAt[m], 0}
  BY DEF ClearQueue, ClearConversationRows, ClearUserQueueRows, ClearUserRows, DeleteRows
<1> QED
  BY <1>2, <1>3, SerialConnFrame, ConnStepQueues DEF ConnStep

\* What Redis loses, and what else may change without a handler.
LEMMA OtherCases ==
  ASSUME \/ \E s \in Sockets : Disconnect(s)
         \/ \E u \in Users : Expire(u)
         \/ LoseRedis
         \/ UNCHANGED vars
  PROVE  /\ UNCHANGED <<createdAt, pgClock, onMsg, onConn, queued, todo, received>>
         /\ \/ redisQueue' = redisQueue
            \/ \E u \in Users : redisQueue' = [redisQueue EXCEPT ![u] = <<>>]
            \/ redisQueue' = [u \in Users |-> <<>>]
BY DisconnectFrame
   DEF Expire, ExpireList, ClearUserList, LoseRedis, LoseRedisQueues, vars, queueVars, msgVars, connVars,
       history

\* A message that has been pushed comes after those that were.
LEMMA PushedOrder ==
  ASSUME SerialBase, NEW m \in Messages, createdAt' = createdAt, onMsg[m] = "pushRedis",
         \A n \in Messages \ {m} : onMsg'[n] = onMsg[n]
  PROVE  /\ \A n \in Messages : ~Before(m, n)'
         /\ \A n, k \in Messages : k # m => (Before(n, k)' <=> Before(n, k))
<1>1. createdAt[m] = 0 /\ createdAt \in [Messages -> Nat]
  BY DEF SerialBase, RowsQueued, Rows, TypeInv, TypeOK, QueueTypeOK
<1> QED
  BY <1>1 DEF Before

\* A message keeps its place when it gets its row.
LEMMA RowOrder ==
  ASSUME SerialBase, StampsInv, NEW m \in Messages, onMsg[m] = "createRow", onMsg'[m] = "QUEUED",
         createdAt' = [createdAt EXCEPT ![m] = pgClock + 1],
         \A n \in Messages \ {m} : onMsg'[n] = onMsg[n] /\ onMsg[n] \notin MsgSteps
  PROVE  \A n, k \in Messages : Before(n, k)' <=> Before(n, k)
<1>1. createdAt[m] = 0 /\ createdAt \in [Messages -> Nat] /\ pgClock \in Nat
  BY DEF SerialBase, RowsQueued, Rows, TypeInv, TypeOK, QueueTypeOK
<1>2. \A n \in Messages : createdAt[n] <= pgClock
  BY DEF StampsInv
<1>3. \A n \in Messages : onMsg[n] = "createRow" <=> n = m
  BY DEF MsgSteps
<1>4. \A n \in Messages : onMsg'[n] # "createRow"
  BY <1>3
<1>5. \A n \in Messages : createdAt'[n] = IF n = m THEN pgClock + 1 ELSE createdAt[n]
  BY <1>1
<1> QED
  BY <1>1, <1>2, <1>3, <1>4, <1>5 DEF Before

\* Rows that stay keep their order.
LEMMA DeletedOrder ==
  ASSUME TypeOK, onMsg' = onMsg, \A m \in Messages : createdAt'[m] \in {createdAt[m], 0}
  PROVE  /\ \A m, n \in Messages : Before(m, n)' => Before(m, n)
         /\ \A m, n \in Rows' : m \in Messages /\ n \in Messages => (Before(m, n)' <=> Before(m, n))
<1>1. createdAt \in [Messages -> Nat]
  BY DEF TypeOK, QueueTypeOK
<1> QED
  BY <1>1 DEF Before, Rows

\* A sequence stays sorted when nothing new comes before anything.
LEMMA SortedStays ==
  ASSUME NEW q \in Seq(Messages), Sorted(q),
         \A m, n \in Elements(q) : Before(m, n)' => Before(m, n)
  PROVE  Sorted(q)'
<1>1. \A i \in DOMAIN q : q[i] \in Elements(q)
  BY DEF Elements
<1> QED
  BY <1>1 DEF Sorted

-------------------------------------------------------------------------------
\* The invariants, one after the other.

\* A new row gets a stamp that is younger than all others.
LEMMA StampsStep == SerialBase /\ StampsInv /\ [SerialNext]_vars => StampsInv'
<1> SUFFICES ASSUME SerialBase, StampsInv, [SerialNext]_vars PROVE StampsInv'
  OBVIOUS
<1>1. TypeOK /\ OneHandler /\ createdAt \in [Messages -> Nat] /\ pgClock \in Nat
  BY DEF SerialBase, TypeInv, TypeOK, QueueTypeOK
<1>2. CASE pgClock' = pgClock /\ \A m \in Messages : createdAt'[m] \in {createdAt[m], 0}
  BY <1>1, <1>2 DEF StampsInv, Rows
<1>3. ASSUME NEW m \in Messages, pgClock' = pgClock + 1, createdAt' = [createdAt EXCEPT ![m] = pgClock + 1]
      PROVE  StampsInv'
  <2>1. \A n \in Messages : createdAt'[n] = IF n = m THEN pgClock + 1 ELSE createdAt[n]
    BY <1>1, <1>3
  <2>2. \A n \in Messages : createdAt[n] \in Nat /\ createdAt[n] <= pgClock
    BY <1>1 DEF StampsInv
  <2> QED
    BY <1>1, <1>3, <2>1, <2>2 DEF StampsInv, Rows
<1>4. ASSUME NEW m \in Messages, MsgAlone(m), OnMessage(m) \/ MsgProgress(m) PROVE StampsInv'
  BY <1>1, <1>2, <1>3, <1>4, OnMessageCases DEF queueVars
<1>5. ASSUME NEW s \in Sockets, ConnAlone(s), Connect(s) \/ ConnProgress(s) PROVE StampsInv'
  BY <1>1, <1>2, <1>5, OnConnectionCases
<1> QED
  BY <1>1, <1>2, <1>4, <1>5, OtherCases, SerialCases

\* What was received stays answered, queued or about to be answered.
LEMMA ReceivedStep == SerialBase /\ LocksInv /\ ReceivedInv /\ [SerialNext]_vars => ReceivedInv'
<1> SUFFICES ASSUME SerialBase, LocksInv, ReceivedInv, [SerialNext]_vars PROVE ReceivedInv'
  OBVIOUS
<1>1. TypeOK /\ OneHandler
  BY DEF SerialBase, TypeInv
<1>2. ASSUME NEW m \in Messages, MsgAlone(m), OnMessage(m) \/ MsgProgress(m) PROVE ReceivedInv'
  <2>1. received \subseteq Messages
    BY <1>1 DEF TypeOK
  <2>2. m \in received => onMsg'[m] \in {"getUser", "DELIVERED", "DEVICE_ID_MISMATCH", "QUEUED"}
    <3>1. ASSUME onMsg[m] \in {"getUser", "DELIVERED", "DEVICE_ID_MISMATCH"}
          PROVE  onMsg'[m] \in {"DELIVERED", "DEVICE_ID_MISMATCH"}
      BY <1>1, <1>2, <3>1 DEF TypeOK, MsgTypeOK, GoMsg, Reply, MsgProgress, MsgContinues, OnMessage, ReadLock,
         ReadLockRow, RestoreLockOf, Emit, NotAcknowledged, CheckDevice, LockSessionRedis,
         LockSessionRow, EnqueueRedis, EnqueueRow, Acknowledge
    <3>2. onMsg[m] # "QUEUED"
      BY <1>1, <1>2, OnMessageCases
    <3> QED
      BY <3>1, <3>2 DEF ReceivedInv
  <2>3. /\ received' \in {received, received \cup {m}}
        /\ received' # received => onMsg'[m] = "getUser"
    BY <1>1, <1>2, OnMessageCases
  <2>4. \A n \in Messages \ {m} : onMsg'[n] = onMsg[n]
    BY <1>1, <1>2, OnMessageCases
  <2> QED
    BY <2>1, <2>2, <2>3, <2>4 DEF ReceivedInv
<1>3. ASSUME NEW s \in Sockets, ConnAlone(s), Connect(s) \/ ConnProgress(s) PROVE ReceivedInv'
  <2>1. onMsg' = onMsg /\ (AcknowledgeQueued(s) \/ received' = received)
    BY <1>1, <1>3, OnConnectionCases
  <2>2. CASE AcknowledgeQueued(s)
    <3>1. received' = received \cup {queued[s][pos[s]]} /\ onConn[s] = "awaitAck"
      BY <2>2 DEF AcknowledgeQueued
    <3>2. queued[s] \in Seq(Messages) /\ pos[s] \in 1..Len(queued[s])
      BY <1>1, <3>1 DEF SerialBase, TypeInv, PositionInRange, TypeOK, ConnTypeOK
    <3>3. onMsg[queued[s][pos[s]]] = "QUEUED"
      BY <3>2, ElementAt DEF LocksInv, ListedInv
    <3> QED
      BY <2>1, <3>1, <3>3 DEF ReceivedInv
  <2>3. CASE received' = received
    BY <2>1, <2>3 DEF ReceivedInv
  <2> QED
    BY <2>1, <2>2, <2>3
<1> QED
  BY <1>1, <1>2, <1>3, OtherCases, SerialCases DEF ReceivedInv

\* Lists only grow at their ends, and deliveries read them in order.
LEMMA OrderStep ==
  SerialBase /\ LocksInv /\ StampsInv /\ OrderInv /\ DeliveryInv /\ [SerialNext]_vars => OrderInv'
<1> SUFFICES ASSUME SerialBase, LocksInv, StampsInv, OrderInv, DeliveryInv, [SerialNext]_vars PROVE OrderInv'
  OBVIOUS
<1>1. TypeOK /\ OneHandler
  BY DEF SerialBase, TypeInv
<1>2. redisQueue \in [Users -> Seq(Messages)] /\ queued \in [Sockets -> Seq(Messages)]
  BY <1>1 DEF TypeOK, QueueTypeOK, ConnTypeOK
<1>3. \A q \in Seq(Messages) : Elements(q) \subseteq Messages
  BY DEF Elements
<1>4. Sorted(<<>>)'
  BY DEF Sorted
<1>5. ASSUME \A m, n \in Messages : Before(m, n)' => Before(m, n)
      PROVE  \A q \in Seq(Messages) : Sorted(q) => Sorted(q)'
  BY <1>3, <1>5, SortedStays
<1>6. ASSUME NEW u \in Users, NEW q, Sorted(q)', redisQueue'[u] = q PROVE Sorted(redisQueue[u])'
  BY <1>6 DEF Sorted, Before
<1>7. ASSUME NEW s \in Sockets, NEW q, Sorted(q)', queued'[s] = q PROVE Sorted(queued[s])'
  BY <1>7 DEF Sorted, Before
<1>8. ASSUME \A m, n \in Messages : Before(m, n)' => Before(m, n)
      PROVE  /\ \A u \in Users : redisQueue'[u] \in {redisQueue[u], <<>>} => Sorted(redisQueue[u])'
             /\ \A s \in Sockets : queued'[s] \in {queued[s], <<>>} => Sorted(queued[s])'
  <2>1. ASSUME NEW u \in Users, redisQueue'[u] \in {redisQueue[u], <<>>} PROVE Sorted(redisQueue[u])'
    <3>1. Sorted(redisQueue[u]) /\ redisQueue[u] \in Seq(Messages)
      BY <1>2 DEF OrderInv
    <3> QED
      BY <1>4, <1>5, <1>8, <1>6, <2>1, <3>1
  <2>2. ASSUME NEW s \in Sockets, queued'[s] \in {queued[s], <<>>} PROVE Sorted(queued[s])'
    <3>1. Sorted(queued[s]) /\ queued[s] \in Seq(Messages)
      BY <1>2 DEF OrderInv
    <3> QED
      BY <1>4, <1>5, <1>8, <1>7, <2>2, <3>1
  <2> QED
    BY <2>1, <2>2
<1>9. ASSUME NEW m \in Messages, MsgAlone(m), OnMessage(m) \/ MsgProgress(m) PROVE OrderInv'
  <2>1. /\ queued' = queued
        /\ \A n \in Messages \ {m} : onMsg'[n] = onMsg[n] /\ onMsg[n] \notin MsgSteps
    BY <1>1, <1>9, OnMessageCases
  <2>2. CASE /\ onMsg[m] = "pushRedis" /\ createdAt' = createdAt
             /\ redisQueue' = [redisQueue EXCEPT ![Receiver[m]] = Append(@, m)]
    <3>1. /\ \A n \in Messages : ~Before(m, n)'
          /\ \A n, k \in Messages : k # m => (Before(n, k)' <=> Before(n, k))
      BY <2>1, <2>2, PushedOrder
    <3>2. ASSUME NEW q \in Seq(Messages), m \notin Elements(q), Sorted(q)
          PROVE  Sorted(q)' /\ Sorted(Append(q, m))'
      <4>1. Sorted(q)'
        BY <1>3, <3>1, <3>2, SortedStays
      <4>2. /\ DOMAIN Append(q, m) = 1..(Len(q) + 1) /\ DOMAIN q = 1..Len(q) /\ Len(q) \in Nat
            /\ \A i \in 1..Len(q) : Append(q, m)[i] = q[i] /\ q[i] \in Elements(q)
            /\ Append(q, m)[Len(q) + 1] = m
        BY <3>2 DEF Elements
      <4>3. ASSUME NEW i \in 1..(Len(q) + 1), NEW j \in 1..(Len(q) + 1), i < j
            PROVE  Append(q, m)[i] # Append(q, m)[j] /\ ~Before(Append(q, m)[j], Append(q, m)[i])'
        <5>1. i \in 1..Len(q) /\ Append(q, m)[i] = q[i] /\ q[i] \in Elements(q) /\ q[i] \in Messages
          BY <1>3, <4>2, <4>3
        <5>2. CASE j = Len(q) + 1
          BY <3>1, <3>2, <4>2, <5>1, <5>2
        <5>3. CASE j # Len(q) + 1
          <6>1. j \in 1..Len(q) /\ Append(q, m)[j] = q[j]
            BY <4>2, <4>3, <5>3
          <6> QED
            BY <4>1, <4>2, <4>3, <5>1, <6>1 DEF Sorted
        <5> QED
          BY <5>2, <5>3
      <4> QED
        BY <4>1, <4>2, <4>3 DEF Sorted
    <3>3. \A u \in Users : m \notin Elements(redisQueue[u])
      BY <2>2 DEF LocksInv, ListedInv
    <3>4. \A s \in Sockets : m \notin Elements(queued[s])
      BY <2>2 DEF LocksInv, ListedInv
    <3>5. ASSUME NEW u \in Users PROVE Sorted(redisQueue[u])'
      <4>1. /\ redisQueue[u] \in Seq(Messages) /\ Sorted(redisQueue[u])
            /\ redisQueue'[u] \in {redisQueue[u], Append(redisQueue[u], m)}
        BY <1>2, <2>2 DEF OrderInv
      <4> QED
        BY <1>6, <3>2, <3>3, <4>1
    <3>6. ASSUME NEW s \in Sockets PROVE Sorted(queued[s])'
      <4>1. queued[s] \in Seq(Messages) /\ Sorted(queued[s]) /\ queued'[s] = queued[s]
        BY <1>2, <2>1 DEF OrderInv
      <4> QED
        BY <1>7, <3>2, <3>4, <4>1
    <3> QED
      BY <3>5, <3>6 DEF OrderInv
  <2>3. CASE /\ onMsg[m] = "createRow" /\ onMsg'[m] = "QUEUED" /\ redisQueue' = redisQueue
             /\ createdAt' = [createdAt EXCEPT ![m] = pgClock + 1]
    <3>1. \A n, k \in Messages : Before(n, k)' => Before(n, k)
      BY <2>1, <2>3, RowOrder
    <3> QED
      BY <1>8, <2>1, <2>3, <3>1 DEF OrderInv
  <2>4. CASE {onMsg[m], onMsg'[m]} \cap {"createRow", "QUEUED"} = {} /\ UNCHANGED queueVars
    <3>1. \A n, k \in Messages : Before(n, k)' => Before(n, k)
      BY <2>1, <2>4 DEF queueVars, Before
    <3> QED
      BY <1>8, <2>1, <2>4, <3>1 DEF queueVars, OrderInv
  <2> QED
    BY <1>1, <1>9, <2>2, <2>3, <2>4, OnMessageCases
<1>10. ASSUME NEW s \in Sockets, ConnAlone(s), Connect(s) \/ ConnProgress(s) PROVE OrderInv'
  <2>1. \A m, n \in Messages : Before(m, n)' => Before(m, n)
    BY <1>1, <1>10, OnConnectionCases, DeletedOrder
  <2>2. ASSUME NEW u \in Users PROVE Sorted(redisQueue[u])'
    <3>1. CASE redisQueue'[u] \in {redisQueue[u], <<>>}
      BY <1>8, <2>1, <3>1
    <3>2. CASE RestoreQueueOf(s) /\ u = Owner[s]
      <4>1. redisQueue' = [redisQueue EXCEPT ![u] = @ \o queued[s]] /\ redisQueue[u] = <<>>
        BY <3>2 DEF RestoreQueueOf, RestoreQueue, GoConn, DeliveryInv
      <4>2. redisQueue'[u] = queued[s] /\ queued[s] \in Seq(Messages) /\ Sorted(queued[s])
        BY <1>2, <4>1 DEF OrderInv
      <4> QED
        BY <1>5, <1>6, <2>1, <4>2
    <3>3. redisQueue'[u] \in {redisQueue[u], <<>>} \/ (RestoreQueueOf(s) /\ u = Owner[s])
      <4>1. RestoreQueueOf(s) \/ ClearUserQueueRedis(s) \/ redisQueue' = redisQueue
        BY <1>1, <1>10, OnConnectionCases
      <4> QED
        BY <1>2, <4>1, ConversationTypes
           DEF RestoreQueueOf, RestoreQueue, ClearUserQueueRedis, ClearUserList
    <3> QED
      BY <3>1, <3>2, <3>3
  <2>3. ASSUME NEW t \in Sockets PROVE Sorted(queued[t])'
    <3>1. t # s => queued'[t] = queued[t]
      BY <1>1, <1>10, OnConnectionCases
    <3>2. CASE queued'[t] \in {queued[t], <<>>}
      BY <1>8, <2>1, <3>2
    <3>3. CASE t = s /\ ReadQueue(s)
      <4>1. queued'[s] = redisQueue[Owner[s]]
        BY <1>2, <3>3 DEF ReadQueue
      <4>2. redisQueue[Owner[s]] \in Seq(Messages) /\ Sorted(redisQueue[Owner[s]])
        BY <1>2, ConversationTypes DEF OrderInv
      <4> QED
        BY <1>5, <1>7, <2>1, <3>3, <4>1, <4>2
    <3>4. CASE t = s /\ ReadQueueRows(s)
      <4>1. PICK q \in InCreationOrder(RowsFor(Owner[s])) : queued'[s] = q
        BY <1>2, <3>4 DEF ReadQueueRows
      <4>2. q \in Seq(Messages) /\ Sorted(q)
        BY RowsInOrder DEF RowsFor
      <4> QED
        BY <1>5, <1>7, <2>1, <3>4, <4>1, <4>2
    <3>5. queued'[s] \in {queued[s], <<>>} \/ ReadQueue(s) \/ ReadQueueRows(s)
      BY <1>2, <1>10 DEF ConnProgress, ConnContinues, Connect, Lookup, Register, RestoreQueueOf, Group,
              SendQueued, QueuedNotAcknowledged, ReleaseSessionRedis, ReleaseSessionRow, ClearQueue,
              ClearUserQueueRedis, ClearUserQueueRows, AcknowledgeQueued, EndConn, connVars
    <3> QED
      BY <3>1, <3>2, <3>3, <3>4, <3>5
  <2> QED
    BY <2>2, <2>3 DEF OrderInv
<1>11. CASE \/ \E s \in Sockets : Disconnect(s)
            \/ \E u \in Users : Expire(u)
            \/ LoseRedis
            \/ UNCHANGED vars
  <2>1. /\ UNCHANGED <<createdAt, onMsg, queued>>
        /\ \A u \in Users : redisQueue'[u] \in {redisQueue[u], <<>>}
    BY <1>2, <1>11, OtherCases
  <2>2. \A m, n \in Messages : Before(m, n)' => Before(m, n)
    BY <2>1 DEF Before
  <2> QED
    BY <1>8, <2>1, <2>2 DEF OrderInv
<1> QED
  BY <1>1, <1>9, <1>10, <1>11, SerialCases

\* What onMessage does to the messages kept for a user.
LEMMA KeptByMessage ==
  ASSUME TypeOK, NEW m \in Messages, MsgAlone(m), OnMessage(m) \/ MsgProgress(m), NEW u \in Users
  PROVE  /\ Kept(u) \subseteq Messages
         /\ onMsg[m] = "pushRedis" /\ onMsg'[m] = "createRow" /\ u = Receiver[m] =>
              Kept(u)' = Kept(u) \cup {m}
         /\ onMsg'[m] # "createRow" \/ u # Receiver[m] => Kept(u)' = Kept(u)
<1>1. createdAt \in [Messages -> Nat] /\ onMsg \in [Messages -> {"unsent"} \cup MsgSteps \cup Replies]
      /\ pgClock \in Nat
  BY DEF TypeOK, QueueTypeOK, MsgTypeOK
<1>2. \A n \in Messages \ {m} : onMsg'[n] = onMsg[n] /\ onMsg[n] # "createRow"
  BY OnMessageCases DEF MsgSteps
<1>3. CASE onMsg[m] = "pushRedis" /\ onMsg'[m] = "createRow" /\ createdAt' = createdAt
  BY <1>1, <1>2, <1>3 DEF Kept, RowsFor, Rows, Unrowed
<1>4. CASE /\ onMsg[m] = "createRow" /\ onMsg'[m] = "QUEUED"
           /\ createdAt' = [createdAt EXCEPT ![m] = pgClock + 1]
  <2>1. \A n \in Messages : createdAt'[n] = IF n = m THEN pgClock + 1 ELSE createdAt[n]
    BY <1>1, <1>4
  <2> QED
    BY <1>1, <1>2, <1>4, <2>1 DEF Kept, RowsFor, Rows, Unrowed
<1>5. CASE {onMsg[m], onMsg'[m]} \cap {"createRow", "QUEUED"} = {} /\ createdAt' = createdAt
  BY <1>1, <1>2, <1>5 DEF Kept, RowsFor, Rows, Unrowed
<1>6. Kept(u) \subseteq Messages
  BY DEF Kept, RowsFor, Rows, Unrowed
<1> QED
  BY <1>3, <1>4, <1>5, <1>6, OnMessageCases DEF queueVars

\* The rows of the conversation that a delivery clears next wait for its user, and come from
\* the peer.
LEMMA ClearingRowsOnly ==
  ASSUME SerialBase, LocksInv, DeliveryInv,
         NEW s \in Sockets, onConn[s] \in Unlocking,
         NEW m \in Rows, ConversationOf(m) = Clearing(s)
  PROVE  Receiver[m] = Owner[s] /\ Sender[m] = Peer(s)

<1>1. PICK n \in Elements(queued[s]) : Sender[n] = Peer(s) /\ Sender[n] \in todo[s]
  BY PeerIsNext DEF SerialBase, TypeInv, LocksInv, ReleasedInv
<1>2. n \in Rows /\ ConversationOf(n) = Clearing(s)
  BY <1>1, PeerConversation DEF DeliveryInv, Clearance, SerialBase
<1>3. Sender[m] = Peer(s)
  BY <1>1, <1>2 DEF LocksInv, RowLockInv
<1>4. Sender[m] # Receiver[m]
  BY DEF SerialBase, RowsQueued, PartiesInv, Rows
<1> QED
  BY <1>3, <1>4 DEF ConversationOf, Clearing

\* What handleConnection does to the messages kept for a user.
LEMMA KeptByConnection ==
  ASSUME SerialBase, LocksInv, DeliveryInv,
         NEW s \in Sockets, ConnAlone(s), Connect(s) \/ ConnProgress(s), NEW u \in Users
  PROVE  /\ Kept(u) = RowsFor(u) /\ Kept(u)' = RowsFor(u)'
         /\ RowsFor(u) \subseteq Rows /\ Rows \subseteq Messages /\ RowsFor(u)' \subseteq RowsFor(u)
         /\ u # Owner[s] \/ onConn[s] \notin {"clearConversation", "clearRows"} =>
              RowsFor(u)' = RowsFor(u)
         /\ u = Owner[s] /\ onConn[s] = "clearConversation" =>
              RowsFor(u)' = {m \in RowsFor(u) : Sender[m] # Peer(s)}
         /\ u = Owner[s] /\ onConn[s] = "clearRows" => RowsFor(u)' = {}
<1>1. TypeOK
  BY DEF SerialBase, TypeInv
<1>2. Unrowed(u) = {} /\ Unrowed(u)' = {}
  BY <1>1, OnConnectionCases DEF Unrowed, MsgSteps
<1>3. Rows \subseteq Messages
  BY DEF Rows
<1>4. /\ \/ ClearQueue(s) /\ Rows' = {m \in Rows : ConversationOf(m) # Clearing(s)}
         \/ ClearUserQueueRows(s) /\ Rows' = Rows \ RowsFor(Owner[s])
         \/ Rows' = Rows /\ ~ClearQueue(s) /\ ~ClearUserQueueRows(s)
      /\ onConn[s] = "clearConversation" => ClearQueue(s)
  BY <1>1, ConnRows
<1>5. /\ onConn[s] = "clearRows" => ClearUserQueueRows(s)
      /\ ClearUserQueueRows(s) => onConn[s] = "clearRows"
      /\ ClearQueue(s) => onConn[s] = "clearConversation"
  BY DEF ConnProgress, ConnContinues, Connect, Unused, Lookup, Register, ReadQueue, ReadQueueRows,
         RestoreQueueOf, Group, SendQueued, QueuedNotAcknowledged, AcknowledgeQueued, GoConn,
         ReleaseSessionRedis, ReleaseSessionRow, ClearQueue, NextConversation, ClearUserQueueRedis,
         ClearUserQueueRows
<1>6. CASE ClearQueue(s) /\ Rows' = {m \in Rows : ConversationOf(m) # Clearing(s)}
  <2>1. onConn[s] \in Unlocking
    BY <1>5, <1>6 DEF Unlocking
  <2>2. \A m \in Rows : ConversationOf(m) = Clearing(s) <=> Receiver[m] = Owner[s] /\ Sender[m] = Peer(s)
    BY <2>1, ClearingRowsOnly DEF ConversationOf, Clearing
  <2> QED
    BY <1>2, <1>3, <1>5, <1>6, <2>2 DEF Kept, RowsFor
<1>7. CASE ClearUserQueueRows(s) /\ Rows' = Rows \ RowsFor(Owner[s])
  BY <1>2, <1>3, <1>5, <1>7 DEF Kept, RowsFor
<1>8. CASE Rows' = Rows /\ ~ClearQueue(s) /\ ~ClearUserQueueRows(s)
  BY <1>2, <1>3, <1>4, <1>5, <1>8 DEF Kept, RowsFor
<1> QED
  BY <1>4, <1>6, <1>7, <1>8

\* Messages are kept for a user before they are listed, and leave the rows after the list.
LEMMA ListStep ==
  SerialBase /\ LocksInv /\ ListInv /\ DeliveryInv /\ [SerialNext]_vars => ListInv'
<1> SUFFICES ASSUME SerialBase, LocksInv, ListInv, DeliveryInv, [SerialNext]_vars,
                    NEW u \in Users
             PROVE  Elements(redisQueue'[u]) \subseteq Kept(u)' \/ BeingCleared(u)'
  BY DEF ListInv
<1>1. TypeOK /\ OneHandler
  BY DEF SerialBase, TypeInv
<1>2. redisQueue \in [Users -> Seq(Messages)] /\ queued \in [Sockets -> Seq(Messages)]
  BY <1>1 DEF TypeOK, QueueTypeOK, ConnTypeOK
<1>3. ASSUME NEW m \in Messages, MsgAlone(m), OnMessage(m) \/ MsgProgress(m)
      PROVE  Elements(redisQueue'[u]) \subseteq Kept(u)'
  <2>1. Elements(redisQueue[u]) \subseteq Kept(u)
    BY <1>1, <1>3, OnMessageCases DEF ListInv, BeingCleared, Clearance, Unlocking
  <2>2. CASE /\ onMsg[m] = "pushRedis" /\ onMsg'[m] = "createRow"
             /\ redisQueue' = [redisQueue EXCEPT ![Receiver[m]] = Append(@, m)]
    <3>1. u = Receiver[m] => Elements(redisQueue'[u]) = Elements(redisQueue[u]) \cup {m}
      BY <1>2, <2>2, PushedElements
    <3>2. u # Receiver[m] => redisQueue'[u] = redisQueue[u]
      BY <1>2, <2>2
    <3> QED
      BY <1>1, <1>3, <2>1, <2>2, <3>1, <3>2, KeptByMessage
  <2>3. CASE redisQueue' = redisQueue /\ onMsg'[m] # "createRow"
    BY <1>1, <1>3, <2>1, <2>3, KeptByMessage
  <2> QED
    BY <1>1, <1>3, <2>2, <2>3, OnMessageCases DEF queueVars
<1>4. ASSUME NEW s \in Sockets, ConnAlone(s), Connect(s) \/ ConnProgress(s)
      PROVE  Elements(redisQueue'[u]) \subseteq Kept(u)' \/ BeingCleared(u)'
  <2>1. CASE u # Owner[s] \/ onConn[s] \notin Clearance
    <3>1. Kept(u)' = Kept(u)
      BY <1>4, <2>1, KeptByConnection DEF Clearance, Unlocking
    <3>2. ~BeingCleared(u)
      BY <1>1, <1>4, <2>1, OnConnectionCases DEF BeingCleared, Clearance, Unlocking
    <3>3. CASE RestoreQueueOf(s) /\ u = Owner[s]
      <4>1. redisQueue' = [redisQueue EXCEPT ![u] = @ \o queued[s]] /\ redisQueue[u] = <<>>
            /\ Elements(queued[s]) = RowsFor(u)
        BY <3>3 DEF RestoreQueueOf, RestoreQueue, GoConn, DeliveryInv
      <4>2. redisQueue'[u] = queued[s]
        BY <1>2, <4>1
      <4> QED
        BY <1>4, <3>1, <4>1, <4>2, KeptByConnection
    <3>4. CASE redisQueue'[u] = redisQueue[u]
      BY <3>1, <3>2, <3>4 DEF ListInv
    <3>5. (RestoreQueueOf(s) /\ u = Owner[s]) \/ redisQueue'[u] = redisQueue[u]
      BY <1>1, <1>2, <1>4, <2>1, OnConnectionCases, ConversationTypes
         DEF RestoreQueueOf, RestoreQueue, ClearUserQueueRedis, ClearUserList, GoConn, Clearance
    <3> QED
      BY <3>3, <3>4, <3>5
  <2>2. CASE u = Owner[s] /\ onConn'[s] \in Clearance
    BY <2>2 DEF BeingCleared
  <2>3. CASE u = Owner[s] /\ onConn[s] \in Clearance /\ onConn'[s] \notin Clearance
    <3>1. ClearUserQueueRows(s)
      BY <1>1, <1>4, <2>3, ClearanceCases
         DEF Clearance, Unlocking, ReleaseSessionRedis, ReleaseSessionRow, ClearQueue, NextConversation,
             ClearUserQueueRedis, GoConn, TypeOK, ConnTypeOK
    <3>2. redisQueue'[u] = <<>>
      BY <2>3, <3>1 DEF ClearUserQueueRows, ClearUserRows, DeliveryInv
    <3> QED
      BY <3>2, EmptyQueue
  <2> QED
    BY <2>1, <2>2, <2>3
<1>5. CASE \/ \E s \in Sockets : Disconnect(s)
           \/ \E v \in Users : Expire(v)
           \/ LoseRedis
           \/ UNCHANGED vars
  <2>1. UNCHANGED <<createdAt, onMsg, onConn>> /\ redisQueue'[u] \in {redisQueue[u], <<>>}
    BY <1>2, <1>5, OtherCases
  <2>2. Kept(u)' = Kept(u) /\ (BeingCleared(u)' <=> BeingCleared(u))
    BY <2>1 DEF Kept, RowsFor, Rows, Unrowed, BeingCleared
  <2> QED
    BY <2>1, <2>2, EmptyQueue DEF ListInv
<1> QED
  BY <1>1, <1>3, <1>4, <1>5, SerialCases

\* What is missing from a list or from what a delivery has read stays missed: a delivery that
\* hands over a message knows it, and while there are rows and no list one of them waits.
LEMMA CompleteStep ==
  SerialBase /\ LocksInv /\ KeepingInv /\ [SerialNext]_vars => CompleteInv'
<1> DEFINE Whole(q, u) ==
             \/ Kept(u)' \subseteq Elements(q)
             \/ \E n \in Messages : /\ onMsg'[n] = "QUEUED" /\ Receiver[n] = u
                                    /\ n \notin received' \cup Elements(q)
<1> SUFFICES ASSUME SerialBase, LocksInv, KeepingInv, [SerialNext]_vars
             PROVE  /\ \A u \in Users : redisQueue'[u] # <<>> => Whole(redisQueue'[u], u)
                    /\ \A s \in Sockets : queued'[s] # <<>> => Whole(queued'[s], Owner[s])
  BY DEF CompleteInv, Complete
<1>1. TypeOK /\ OneHandler /\ CompleteInv /\ DeliveryInv
  BY DEF SerialBase, TypeInv, KeepingInv
<1>2. redisQueue \in [Users -> Seq(Messages)] /\ queued \in [Sockets -> Seq(Messages)]
  BY <1>1 DEF TypeOK, QueueTypeOK, ConnTypeOK
<1>3. ASSUME NEW q, NEW u \in Users, Complete(q, u), Kept(u)' \subseteq Kept(u),
             \A n \in Messages : onMsg[n] = "QUEUED" /\ n \notin received \cup Elements(q) =>
                                   onMsg'[n] = "QUEUED" /\ n \notin received'
      PROVE  Whole(q, u)
  BY <1>3 DEF Complete
<1>4. ASSUME NEW m \in Messages, MsgAlone(m), OnMessage(m) \/ MsgProgress(m)
      PROVE  /\ \A u \in Users : redisQueue'[u] # <<>> => Whole(redisQueue'[u], u)
             /\ \A s \in Sockets : queued'[s] = <<>>
  <2>1. /\ \A s \in Sockets : onConn[s] = "idle" /\ queued'[s] = queued[s]
        /\ \A n \in Messages \ {m} : onMsg'[n] = onMsg[n] /\ onMsg[n] # "createRow"
        /\ onMsg[m] # "QUEUED"
    BY <1>1, <1>4, OnMessageCases DEF MsgSteps
  <2>2. \A s \in Sockets : queued'[s] = <<>>
    BY <1>1, <2>1 DEF DeliveryInv
  <2>3. ASSUME NEW u \in Users, redisQueue'[u] # <<>> PROVE Whole(redisQueue'[u], u)
    <3>1. CASE redisQueue'[u] = redisQueue[u]
      <4>1. Complete(redisQueue[u], u)
        BY <1>1, <2>3, <3>1 DEF CompleteInv
      <4>2. CASE Kept(u)' \subseteq Kept(u)
        <5>1. \A n \in Messages : onMsg[n] = "QUEUED" /\ n \notin received =>
                                     onMsg'[n] = "QUEUED" /\ n \notin received'
          BY <1>1, <1>4, <2>1, OnMessageCases
        <5> QED
          BY <1>3, <3>1, <4>1, <4>2, <5>1
      <4>3. Kept(u)' \subseteq Kept(u)
        <5>1. onMsg'[m] # "createRow" \/ u # Receiver[m]
          <6>1. Append(redisQueue[u], m) # redisQueue[u]
            <7>1. redisQueue[u] \in Seq(Messages)
              BY <1>2
            <7>2. Len(Append(redisQueue[u], m)) = Len(redisQueue[u]) + 1 /\ Len(redisQueue[u]) \in Nat
              BY <7>1
            <7> QED
              BY <7>2
          <6> QED
            BY <1>1, <1>2, <1>4, <3>1, <6>1, OnMessageCases
        <5> QED
          BY <1>1, <1>4, <5>1, KeptByMessage
      <4> QED
        BY <4>2, <4>3
    <3>2. CASE /\ onMsg[m] = "pushRedis" /\ onMsg'[m] = "createRow" /\ received' = received
               /\ u = Receiver[m] /\ redisQueue'[u] = Append(redisQueue[u], m)
      <4>1. /\ Kept(u)' = Kept(u) \cup {m} /\ Elements(redisQueue'[u]) = Elements(redisQueue[u]) \cup {m}
            /\ \A n \in Messages : onMsg[n] = "QUEUED" => onMsg'[n] = "QUEUED" /\ n # m
        BY <1>1, <1>2, <1>4, <2>1, <3>2, KeptByMessage, PushedElements
      <4>2. CASE redisQueue[u] # <<>>
        <5>1. Complete(redisQueue[u], u)
          BY <1>1, <4>2 DEF CompleteInv
        <5> QED
          BY <3>2, <4>1, <5>1 DEF Complete
      <4>3. CASE redisQueue[u] = <<>> /\ RowsFor(u) = {}
        <5>1. Kept(u) = {}
          BY <2>1, <3>2, <4>3 DEF Kept, Unrowed
        <5> QED
          BY <4>1, <5>1
      <4>4. CASE redisQueue[u] = <<>> /\ RowsFor(u) # {}
        <5>1. PICK n \in RowsFor(u) : n \notin received
          BY <2>1, <4>4 DEF KeepingInv, YoungestInv, BeingCleared, Clearance, Unlocking
        <5>2. n \in Messages /\ Receiver[n] = u /\ onMsg[n] = "QUEUED"
          BY DEF RowsFor, Rows, SerialBase, RowsQueued
        <5> QED
          BY <3>2, <4>1, <4>4, <5>1, <5>2, EmptyQueue
      <4> QED
        BY <4>2, <4>3, <4>4
    <3> QED
      BY <1>1, <1>2, <1>4, <3>1, <3>2, OnMessageCases DEF queueVars
  <2> QED
    BY <2>2, <2>3
<1>5. ASSUME NEW s \in Sockets, ConnAlone(s), Connect(s) \/ ConnProgress(s)
      PROVE  /\ \A u \in Users : redisQueue'[u] # <<>> => Whole(redisQueue'[u], u)
             /\ \A t \in Sockets : queued'[t] # <<>> => Whole(queued'[t], Owner[t])
  <2> DEFINE o == Owner[s]
  <2>1. /\ onMsg' = onMsg /\ o \in Users
        /\ \A u \in Users : Kept(u)' \subseteq Kept(u) /\ Kept(u) = RowsFor(u)
        /\ \A t \in Sockets \ {s} : queued'[t] = <<>>
    BY <1>1, <1>5, OnConnectionCases, KeptByConnection, ConversationTypes DEF DeliveryInv
  <2>2. ASSUME NEW n \in received' \ received
        PROVE  Receiver[n] = o /\ n \in Elements(queued[s])
               /\ redisQueue[o] \in {<<>>, queued[s]}
    <3>1. AcknowledgeQueued(s)
      BY <1>1, <1>5, OnConnectionCases
    <3>2. n = queued[s][pos[s]] /\ onConn[s] = "awaitAck"
      BY <3>1 DEF AcknowledgeQueued
    <3>3. pos[s] \in 1..Len(queued[s])
      BY <3>2 DEF SerialBase, TypeInv, PositionInRange
    <3>4. n \in Elements(queued[s])
      BY <1>2, <3>2, <3>3, ElementAt
    <3> QED
      BY <1>1, <3>2, <3>4 DEF SerialBase, ReceiverInv, DeliveryInv
  <2>3. ASSUME NEW u \in Users, redisQueue[u] # <<>> PROVE Whole(redisQueue[u], u)
    <3>1. Complete(redisQueue[u], u)
      BY <1>1, <2>3 DEF CompleteInv
    <3> QED
      BY <2>1, <2>2, <2>3, <3>1 DEF Complete
  <2>4. queued[s] # <<>> => Whole(queued[s], o)
    <3> SUFFICES ASSUME queued[s] # <<>> PROVE Whole(queued[s], o)
      OBVIOUS
    <3>1. Complete(queued[s], o)
      BY <1>1 DEF CompleteInv
    <3> QED
      BY <2>1, <2>2, <3>1 DEF Complete
  <2>5. ASSUME NEW u \in Users, redisQueue'[u] # <<>> PROVE Whole(redisQueue'[u], u)
    <3>1. CASE redisQueue'[u] = redisQueue[u]
      BY <2>3, <2>5, <3>1
    <3>2. CASE RestoreQueueOf(s) /\ u = o
      <4>1. redisQueue' = [redisQueue EXCEPT ![u] = @ \o queued[s]] /\ redisQueue[u] = <<>>
            /\ Elements(queued[s]) = RowsFor(u)
        BY <1>1, <3>2 DEF RestoreQueueOf, RestoreQueue, GoConn, DeliveryInv
      <4>2. redisQueue'[u] = queued[s]
        BY <1>2, <4>1
      <4> QED
        BY <2>1, <4>1, <4>2
    <3>3. (RestoreQueueOf(s) /\ u = o) \/ redisQueue'[u] = redisQueue[u] \/ redisQueue'[u] = <<>>
      BY <1>1, <1>2, <1>5, OnConnectionCases, ConversationTypes
         DEF RestoreQueueOf, RestoreQueue, ClearUserQueueRedis, ClearUserList
    <3> QED
      BY <2>5, <3>1, <3>2, <3>3
  <2>6. queued'[s] # <<>> => Whole(queued'[s], o)
    <3> SUFFICES ASSUME queued'[s] # <<>> PROVE Whole(queued'[s], o)
      OBVIOUS
    <3>1. CASE queued'[s] = queued[s]
      BY <2>4, <3>1
    <3>2. CASE ReadQueue(s)
      <4>1. queued'[s] = redisQueue[o]
        BY <1>2, <3>2 DEF ReadQueue
      <4> QED
        BY <2>1, <2>3, <4>1
    <3>3. CASE ReadQueueRows(s)
      <4>1. PICK q \in InCreationOrder(RowsFor(o)) : queued'[s] = q
        BY <1>2, <3>3 DEF ReadQueueRows
      <4>2. Elements(q) = RowsFor(o)
        BY RowsInOrder DEF RowsFor
      <4> QED
        BY <2>1, <4>1, <4>2
    <3>4. queued'[s] \in {queued[s], <<>>} \/ ReadQueue(s) \/ ReadQueueRows(s)
      BY <1>2, <1>5 DEF ConnProgress, ConnContinues, Connect, Lookup, Register, RestoreQueueOf, Group,
              SendQueued, QueuedNotAcknowledged, ReleaseSessionRedis, ReleaseSessionRow, ClearQueue,
              ClearUserQueueRedis, ClearUserQueueRows, AcknowledgeQueued, EndConn, connVars
    <3> QED
      BY <3>1, <3>2, <3>3, <3>4
  <2> QED
    BY <2>1, <2>5, <2>6
<1>6. CASE \/ \E s \in Sockets : Disconnect(s)
           \/ \E v \in Users : Expire(v)
           \/ LoseRedis
           \/ UNCHANGED vars
  <2>1. /\ UNCHANGED <<createdAt, onMsg, queued, received>>
        /\ \A u \in Users : redisQueue'[u] \in {redisQueue[u], <<>>}
    BY <1>2, <1>6, OtherCases
  <2>2. \A u \in Users : Kept(u)' = Kept(u)
    BY <2>1 DEF Kept, RowsFor, Rows, Unrowed
  <2>3. \A q : \A u \in Users : Complete(q, u) => Whole(q, u)
    BY <1>3, <2>1, <2>2
  <2> QED
    BY <1>1, <2>1, <2>3, ConversationTypes DEF CompleteInv
<1> QED
  BY <1>1, <1>4, <1>5, <1>6, SerialCases

\* A delivery keeps what it has read, and its list is not touched by others.
LEMMA DeliveryStep ==
  SerialBase /\ LocksInv /\ KeepingInv /\ [SerialNext]_vars => DeliveryInv'
<1> DEFINE Ok(t) ==
             /\ onConn[t] \in {"readRows", "restoreQueue", "clearRows"} => redisQueue[Owner[t]] = <<>>
             /\ onConn[t] \in {"idle", "lookup", "register", "readQueue", "readRows"} => queued[t] = <<>>
             /\ onConn[t] \in {"group", "send", "awaitAck"} \cup Clearance =>
                  redisQueue[Owner[t]] \in {<<>>, queued[t]}
             /\ onConn[t] = "restoreQueue" => Elements(queued[t]) = RowsFor(Owner[t])
             /\ onConn[t] \in {"group", "send", "awaitAck"} => Elements(queued[t]) \subseteq Rows
             /\ onConn[t] \in Clearance =>
                  \A m \in Elements(queued[t]) : Sender[m] \in todo[t] => m \in Rows
<1> SUFFICES ASSUME SerialBase, LocksInv, KeepingInv, [SerialNext]_vars
             PROVE  \A t \in Sockets : Ok(t)'
  BY DEF DeliveryInv
<1>1. TypeOK /\ OneHandler /\ DeliveryInv /\ \A t \in Sockets : Ok(t)
  BY DEF SerialBase, TypeInv, KeepingInv, DeliveryInv
<1>2. /\ redisQueue \in [Users -> Seq(Messages)] /\ queued \in [Sockets -> Seq(Messages)]
      /\ onConn \in [Sockets -> {"idle"} \cup ConnSteps] /\ todo \in [Sockets -> SUBSET Users]
  BY <1>1 DEF TypeOK, QueueTypeOK, ConnTypeOK
<1>3. ASSUME NEW t \in Sockets, onConn'[t] = "idle", queued'[t] = <<>> PROVE Ok(t)'
  BY <1>3 DEF Clearance, Unlocking
<1>4. ASSUME NEW m \in Messages, MsgAlone(m), OnMessage(m) \/ MsgProgress(m)
      PROVE  \A t \in Sockets : Ok(t)'
  <2>1. \A t \in Sockets : onConn'[t] = "idle" /\ queued'[t] = <<>>
    BY <1>1, <1>4, OnMessageCases
  <2> QED
    BY <1>3, <2>1
<1>5. ASSUME NEW s \in Sockets, ConnAlone(s), Connect(s) \/ ConnProgress(s)
      PROVE  \A t \in Sockets : Ok(t)'
  <2> DEFINE o == Owner[s]
  <2>1. ASSUME NEW t \in Sockets \ {s} PROVE Ok(t)'
    <3>1. onConn'[t] = "idle" /\ queued'[t] = <<>>
      BY <1>1, <1>5, OnConnectionCases
    <3> QED
      BY <1>3, <3>1
  <2>2. o \in Users /\ Kept(o) = RowsFor(o) /\ RowsFor(o) \subseteq Rows /\ Ok(s)
    BY <1>1, <1>5, KeptByConnection, ConversationTypes
  <2> SUFFICES Ok(s)'
    BY <2>1
  <2>3. CASE onConn'[s] \in {"lookup", "register", "readQueue", "idle"} /\ queued'[s] = <<>>
    BY <2>3 DEF Clearance, Unlocking
  <2>4. CASE ReadQueue(s)
    <3>1. /\ queued'[s] = redisQueue[o] /\ redisQueue' = redisQueue /\ Rows' = Rows
          /\ onConn'[s] = IF redisQueue[o] = <<>> THEN "readRows" ELSE "group"
          /\ onConn[s] = "readQueue"
      BY <1>2, <2>4 DEF ReadQueue, GoConn, queueVars, Rows
    <3>2. Elements(redisQueue[o]) \subseteq Rows
      <4>1. ~BeingCleared(o)
        BY <1>5, <3>1 DEF BeingCleared, ConnAlone, Clearance, Unlocking
      <4> QED
        BY <2>2, <4>1 DEF KeepingInv, ListInv
    <3> QED
      BY <3>1, <3>2 DEF Clearance, Unlocking
  <2>5. CASE ReadQueueRows(s)
    <3>1. PICK q \in InCreationOrder(RowsFor(o)) : queued'[s] = q
      BY <1>2, <2>5 DEF ReadQueueRows
    <3>2. /\ redisQueue' = redisQueue /\ Rows' = Rows /\ RowsFor(o)' = RowsFor(o)
          /\ onConn'[s] = IF RowsFor(o) = {} THEN "idle" ELSE "restoreQueue"
          /\ redisQueue[o] = <<>>
      BY <1>2, <2>2, <2>5 DEF ReadQueueRows, GoConn, queueVars, Rows, RowsFor
    <3>3. q \in Seq(Messages) /\ Elements(q) = RowsFor(o)
      BY RowsInOrder DEF RowsFor
    <3>4. RowsFor(o) = {} => q = <<>>
      <4>1. RowsFor(o) = {} => DOMAIN q = {}
        BY <3>3 DEF Elements
      <4> QED
        BY <3>3, <4>1
    <3> QED
      BY <3>1, <3>2, <3>3, <3>4 DEF Clearance, Unlocking
  <2>6. CASE RestoreQueueOf(s)
    <3>1. /\ redisQueue' = [redisQueue EXCEPT ![o] = @ \o queued[s]] /\ redisQueue[o] = <<>>
          /\ Elements(queued[s]) = RowsFor(o) /\ queued' = queued /\ Rows' = Rows
          /\ onConn'[s] = "group"
      BY <1>2, <2>2, <2>6 DEF RestoreQueueOf, RestoreQueue, GoConn, Rows
    <3>2. redisQueue'[o] = queued[s]
      BY <1>2, <2>2, <3>1
    <3> QED
      BY <2>2, <3>1, <3>2 DEF Clearance, Unlocking
  <2>7. CASE Group(s) \/ (SendQueued(s) /\ onConn'[s] = "awaitAck")
    <3>1. /\ redisQueue' = redisQueue /\ queued' = queued /\ Rows' = Rows
          /\ onConn[s] \in {"group", "send"} /\ onConn'[s] \in {"send", "awaitAck"}
      BY <1>2, <2>7 DEF Group, SendQueued, GoConn, EndConn, queueVars, Rows
    <3> QED
      BY <2>2, <3>1 DEF Clearance, Unlocking
  <2>8. CASE AcknowledgeQueued(s)
    <3>1. /\ redisQueue' = redisQueue /\ queued' = queued /\ Rows' = Rows
          /\ onConn[s] = "awaitAck" /\ onConn'[s] \in {"send", "unlockRedis"}
      BY <1>2, <2>8 DEF AcknowledgeQueued, queueVars, Rows
    <3> QED
      BY <2>2, <3>1 DEF Clearance, Unlocking
  <2>9. CASE ReleaseSessionRedis(s) \/ ReleaseSessionRow(s)
    <3>1. /\ redisQueue' = redisQueue /\ queued' = queued /\ Rows' = Rows /\ todo' = todo
          /\ onConn[s] \in Unlocking /\ onConn'[s] \in {"unlockRow", "clearConversation"}
      BY <1>2, <2>9 DEF ReleaseSessionRedis, ReleaseSessionRow, GoConn, queueVars, Rows, Unlocking
    <3> QED
      BY <2>2, <3>1 DEF Clearance, Unlocking
  <2>10. CASE ClearQueue(s)
    <3>1. /\ redisQueue' = redisQueue /\ queued' = queued /\ todo'[s] = todo[s] \ {Peer(s)}
          /\ onConn[s] = "clearConversation" /\ onConn'[s] \in {"unlockRedis", "clearList"}
      BY <1>2, <2>10 DEF ClearQueue, NextConversation, ClearConversationRows
    <3>2. RowsFor(o)' = {m \in RowsFor(o) : Sender[m] # Peer(s)}
      BY <1>1, <1>5, <2>2, <3>1, KeptByConnection
    <3>3. \A m \in Elements(queued[s]) : Receiver[m] = o
      BY DEF SerialBase, ReceiverInv
    <3>4. \A m \in Elements(queued[s]) : Sender[m] \in todo'[s] => m \in Rows'
      BY <2>2, <3>1, <3>2, <3>3 DEF RowsFor, Clearance, Unlocking
    <3> QED
      BY <2>2, <3>1, <3>4 DEF Clearance, Unlocking
  <2>11. CASE ClearUserQueueRedis(s)
    <3>1. /\ redisQueue'[o] = <<>> /\ queued' = queued /\ todo' = todo
          /\ onConn[s] = "clearList" /\ onConn'[s] = "clearRows"
      BY <1>2, <2>2, <2>11 DEF ClearUserQueueRedis, ClearUserList, GoConn
    <3>2. todo[s] = {}
      BY <3>1 DEF LocksInv, ReleasedInv, Unlocking
    <3> QED
      BY <2>2, <3>1, <3>2 DEF Clearance, Unlocking
  <2>12. \/ onConn'[s] \in {"lookup", "register", "readQueue", "idle"} /\ queued'[s] = <<>>
         \/ ReadQueue(s) \/ ReadQueueRows(s) \/ RestoreQueueOf(s)
         \/ Group(s) \/ (SendQueued(s) /\ onConn'[s] = "awaitAck") \/ AcknowledgeQueued(s)
         \/ ReleaseSessionRedis(s) \/ ReleaseSessionRow(s) \/ ClearQueue(s) \/ ClearUserQueueRedis(s)
    BY <1>2, <1>5, <2>2 DEF ConnProgress, ConnContinues, Connect, Lookup, Register, SendQueued,
       QueuedNotAcknowledged, ClearUserQueueRows, EndConn, GoConn
  <2> QED
    BY <2>3, <2>4, <2>5, <2>6, <2>7, <2>8, <2>9, <2>10, <2>11, <2>12
<1>6. CASE \/ \E s \in Sockets : Disconnect(s)
           \/ \E v \in Users : Expire(v)
           \/ LoseRedis
           \/ UNCHANGED vars
  <2>1. /\ UNCHANGED <<createdAt, onConn, queued, todo>>
        /\ \A u \in Users : redisQueue'[u] \in {redisQueue[u], <<>>}
    BY <1>2, <1>6, OtherCases
  <2>2. Rows' = Rows /\ \A u \in Users : RowsFor(u)' = RowsFor(u)
    BY <2>1 DEF RowsFor, Rows
  <2> QED
    BY <1>1, <2>1, <2>2, ConversationTypes
<1> QED
  BY <1>1, <1>4, <1>5, <1>6, SerialCases

\* A delivery hands over the oldest row first, and all that it has read before any row goes.
LEMMA YoungestStep ==
  SerialBase /\ LocksInv /\ KeepingInv /\ [SerialNext]_vars => YoungestInv'
<1> DEFINE Youngest(u) ==
             \A m \in RowsFor(u) \cap received :
               \E n \in RowsFor(u) \ received : createdAt[m] < createdAt[n]
<1> SUFFICES ASSUME SerialBase, LocksInv, KeepingInv, [SerialNext]_vars, NEW u \in Users
             PROVE  Youngest(u)' \/ BeingCleared(u)'
  BY DEF YoungestInv
<1>1. TypeOK /\ OneHandler /\ DeliveryInv /\ (Youngest(u) \/ BeingCleared(u))
  BY DEF SerialBase, TypeInv, KeepingInv, YoungestInv
<1>2. /\ createdAt \in [Messages -> Nat] /\ queued \in [Sockets -> Seq(Messages)]
      /\ onConn \in [Sockets -> {"idle"} \cup ConnSteps] /\ pgClock \in Nat
      /\ \A m \in Rows : createdAt[m] \in Nat
  BY <1>1 DEF TypeOK, QueueTypeOK, ConnTypeOK, Rows
<1>3. RowsFor(u) \subseteq Rows /\ Rows \subseteq Messages
  BY DEF RowsFor, Rows
<1>4. ASSUME NEW m \in Messages, MsgAlone(m), OnMessage(m) \/ MsgProgress(m)
      PROVE  Youngest(u)'
  <2>1. Youngest(u)
    BY <1>1, <1>4, OnMessageCases DEF BeingCleared, Clearance, Unlocking
  <2>2. CASE /\ onMsg[m] = "createRow" /\ received' = received
             /\ createdAt' = [createdAt EXCEPT ![m] = pgClock + 1]
    <3>1. m \notin received /\ m \notin Rows
      BY <2>2 DEF KeepingInv, ReceivedInv, SerialBase, RowsQueued
    <3>2. /\ RowsFor(u)' \subseteq RowsFor(u) \cup {m} /\ RowsFor(u) \subseteq RowsFor(u)'
          /\ \A n \in RowsFor(u) : createdAt'[n] = createdAt[n]
      BY <1>2, <2>2, <3>1 DEF RowsFor, Rows
    <3> QED
      BY <2>1, <2>2, <3>1, <3>2
  <2>3. CASE createdAt' = createdAt /\ onMsg[m] # "QUEUED" /\ received' \in {received, received \cup {m}}
    <3>1. RowsFor(u)' = RowsFor(u) /\ m \notin RowsFor(u)
      BY <1>3, <2>3 DEF RowsFor, Rows, SerialBase, RowsQueued
    <3> QED
      BY <2>1, <2>3, <3>1
  <2> QED
    BY <1>1, <1>4, <2>2, <2>3, OnMessageCases DEF queueVars
<1>5. ASSUME NEW s \in Sockets, ConnAlone(s), Connect(s) \/ ConnProgress(s)
      PROVE  Youngest(u)' \/ BeingCleared(u)'
  <2>1. u # Owner[s] \/ onConn[s] \notin Clearance => Youngest(u)
    BY <1>1, <1>5, OnConnectionCases DEF BeingCleared, Clearance, Unlocking
  <2>2. /\ RowsFor(u)' \subseteq RowsFor(u)
        /\ u # Owner[s] \/ onConn[s] \notin Clearance => RowsFor(u)' = RowsFor(u)
        /\ u = Owner[s] /\ onConn[s] = "clearRows" => RowsFor(u)' = {}
    BY <1>1, <1>5, KeptByConnection DEF Clearance, Unlocking
  <2>3. \A m \in RowsFor(u)' : createdAt'[m] = createdAt[m]
    <3>1. \A m \in RowsFor(u)' : m \in Messages /\ createdAt'[m] # 0
      BY <1>3, <2>2 DEF RowsFor, Rows
    <3> QED
      BY <1>1, <1>5, <3>1, OnConnectionCases
  <2>4. CASE (u # Owner[s] \/ onConn[s] \notin Clearance) /\ received' = received
    BY <2>1, <2>2, <2>3, <2>4
  <2>5. CASE u = Owner[s] /\ onConn[s] \in Clearance
    <3>1. onConn'[s] \in Clearance \/ onConn[s] = "clearRows"
      BY <1>1, <1>2, <1>5, <2>5, ClearanceCases
         DEF Clearance, Unlocking, ReleaseSessionRedis, ReleaseSessionRow, ClearQueue, NextConversation,
             ClearUserQueueRedis, ClearUserQueueRows, GoConn
    <3> QED
      BY <2>2, <2>5, <3>1 DEF BeingCleared
  <2>6. CASE AcknowledgeQueued(s)
    <3> DEFINE x == queued[s][pos[s]]
               y == queued[s][Len(queued[s])]
    <3>1. /\ onConn[s] = "awaitAck" /\ received' = received \cup {x}
          /\ onConn'[s] = IF LastOne(s) THEN "unlockRedis" ELSE "send"
      BY <1>2, <2>6 DEF AcknowledgeQueued
    <3>2. onConn[s] \notin Clearance
      BY <3>1 DEF Clearance, Unlocking
    <3>3. pos[s] \in 1..Len(queued[s]) /\ Len(queued[s]) \in 1..Len(queued[s])
      BY <1>2, <3>1 DEF SerialBase, TypeInv, PositionInRange
    <3>4. /\ x \in Elements(queued[s]) /\ y \in Elements(queued[s])
          /\ Receiver[x] = Owner[s] /\ Receiver[y] = Owner[s] /\ x \in Rows /\ y \in Rows
      BY <1>1, <1>2, <3>1, <3>3, ElementAt DEF DeliveryInv, SerialBase, ReceiverInv
    <3>5. CASE u # Owner[s]
      <4>1. x \notin RowsFor(u)
        BY <3>4, <3>5 DEF RowsFor
      <4> QED
        BY <2>1, <2>2, <2>3, <3>1, <3>5, <4>1
    <3>6. CASE u = Owner[s] /\ LastOne(s)
      BY <3>1, <3>6 DEF BeingCleared, Clearance, Unlocking
    <3>7. CASE u = Owner[s] /\ ~LastOne(s)
      <4>1. createdAt[x] < createdAt[y]
        <5>1. pos[s] < Len(queued[s])
          BY <1>2, <3>3, <3>7 DEF LastOne
        <5>2. x # y /\ ~Before(y, x)
          BY <1>2, <3>3, <5>1 DEF KeepingInv, OrderInv, Sorted
        <5> QED
          BY <1>2, <3>4, <5>2 DEF KeepingInv, StampsInv, Before, Rows
      <4>2. x \in RowsFor(u) /\ y \in RowsFor(u)
        BY <3>4, <3>7 DEF RowsFor
      <4>3. PICK z \in RowsFor(u) \ received : createdAt[x] < createdAt[z]
        <5>1. CASE y \notin received
          BY <4>1, <4>2, <5>1
        <5>2. CASE y \in received
          <6>1. PICK z \in RowsFor(u) \ received : createdAt[y] < createdAt[z]
            BY <2>1, <3>2, <4>2, <5>2
          <6>2. createdAt[x] \in Nat /\ createdAt[y] \in Nat /\ createdAt[z] \in Nat
            BY <1>2, <1>3, <4>2
          <6> QED
            BY <4>1, <6>1, <6>2
        <5> QED
          BY <5>1, <5>2
      <4>4. z # x
        BY <1>2, <1>3, <4>2, <4>3
      <4>5. ASSUME NEW m \in RowsFor(u), m \in received'
            PROVE  \E n \in RowsFor(u) \ received' : createdAt[m] < createdAt[n]
        <5>1. CASE m = x
          BY <3>1, <4>3, <4>4, <5>1
        <5>2. CASE m # x
          <6>1. PICK n \in RowsFor(u) \ received : createdAt[m] < createdAt[n]
            BY <2>1, <3>1, <3>2, <4>5, <5>2
          <6>2. CASE n # x
            BY <3>1, <6>1, <6>2
          <6>3. CASE n = x
            <7>1. createdAt[m] \in Nat /\ createdAt[x] \in Nat /\ createdAt[z] \in Nat
              BY <1>2, <1>3, <4>2
            <7>2. createdAt[m] < createdAt[z]
              BY <4>3, <6>1, <6>3, <7>1
            <7> QED
              BY <3>1, <4>3, <4>4, <7>2
          <6> QED
            BY <6>2, <6>3
        <5> QED
          BY <5>1, <5>2
      <4>6. RowsFor(u)' = RowsFor(u)
        BY <2>2, <3>2
      <4> QED
        BY <2>3, <4>5, <4>6
    <3> QED
      BY <3>5, <3>6, <3>7
  <2> QED
    BY <1>1, <1>5, <2>4, <2>5, <2>6, OnConnectionCases
<1>6. CASE \/ \E s \in Sockets : Disconnect(s)
           \/ \E v \in Users : Expire(v)
           \/ LoseRedis
           \/ UNCHANGED vars
  <2>1. UNCHANGED <<createdAt, onConn, received>>
    BY <1>6, OtherCases
  <2> QED
    BY <1>1, <2>1 DEF RowsFor, Rows, BeingCleared
<1> QED
  BY <1>1, <1>4, <1>5, <1>6, SerialCases

\* The invariants of this module hold whatever Redis loses.
LEMMA KeepingInvariant == SerialSpec => []KeepingInv
<1>1. Init => KeepingInv
  <2> SUFFICES ASSUME Init PROVE KeepingInv
    OBVIOUS
  <2>1. StampsInv /\ ReceivedInv /\ CompleteInv /\ YoungestInv
    BY DEF Init, QueueInit, StampsInv, ReceivedInv, CompleteInv, YoungestInv, RowsFor, Rows
  <2>2. OrderInv /\ ListInv /\ DeliveryInv
    BY EmptyQueue DEF Init, QueueInit, OrderInv, Sorted, ListInv, DeliveryInv, Clearance, Unlocking
  <2> QED
    BY <2>1, <2>2 DEF KeepingInv
<1>2. SerialBase /\ LocksInv /\ KeepingInv /\ [SerialNext]_vars => KeepingInv'
  BY StampsStep, ReceivedStep, OrderStep, ListStep, CompleteStep, DeliveryStep, YoungestStep
     DEF KeepingInv
<1> QED
  BY <1>1, <1>2, SerialBaseInvariant, LocksInvariant, PTL DEF SerialSpec

-------------------------------------------------------------------------------
\* The mailbox of a user.

\* What is proved of every state.
KeptSafe == SerialBase /\ LocksInv /\ KeepingInv

\* A mailbox is a list, or all that is kept for the user, in order.
BoxesInOrder ==
  \A u \in Users : /\ BoxOf(u) \in Seq(Messages)
                   /\ Sorted(BoxOf(u))
                   /\ redisQueue[u] # <<>> => BoxOf(u) = redisQueue[u]
                   /\ redisQueue[u] = <<>> => Elements(BoxOf(u)) = Kept(u)

\* The mailboxes are lists, or all that is kept, in order.
LEMMA BoxInOrder == KeptSafe => BoxesInOrder
<1> SUFFICES ASSUME KeptSafe, NEW u \in Users
             PROVE  /\ BoxOf(u) \in Seq(Messages) /\ Sorted(BoxOf(u))
                    /\ redisQueue[u] # <<>> => BoxOf(u) = redisQueue[u]
                    /\ redisQueue[u] = <<>> => Elements(BoxOf(u)) = Kept(u)
  BY DEF BoxesInOrder
<1>1. redisQueue[u] \in Seq(Messages) /\ Sorted(redisQueue[u]) /\ StampsInv
  BY DEF KeptSafe, SerialBase, TypeInv, TypeOK, QueueTypeOK, KeepingInv, OrderInv
<1>2. Kept(u) \in SUBSET Messages
  BY DEF Kept, RowsFor, Rows, Unrowed
<1>3. PICK q \in Orders(Kept(u)) : Pick(Orders(Kept(u))) = q
  <2>1. Orders(Kept(u)) # {}
    BY <1>1, <1>2, OrdersExist DEF KeptSafe
  <2> QED
    BY <2>1 DEF Pick
<1>4. q \in Seq(Messages) /\ Elements(q) = Kept(u) /\ Sorted(q)
  BY <1>2, OrderOf
<1>5. CASE redisQueue[u] # <<>>
  BY <1>1, <1>5 DEF BoxOf
<1>6. CASE redisQueue[u] = <<>>
  <2>1. BoxOf(u) = q
    BY <1>3, <1>6 DEF BoxOf
  <2> QED
    BY <1>4, <1>6, <2>1
<1> QED
  BY <1>5, <1>6

\* So are they after a step.
LEMMA BoxInOrderNext == KeptSafe' => BoxesInOrder'
BY BoxInOrder, PTL

\* When there is no list any more, the mailbox is what is left of it.
LEMMA BoxFollows ==
  ASSUME KeptSafe, KeptSafe', NEW u \in Users, redisQueue'[u] = <<>>,
         Kept(u)' \subseteq Kept(u), Kept(u)' \subseteq Elements(BoxOf(u)),
         \A m, n \in Kept(u)' : Before(m, n) => Before(m, n)'
  PROVE  /\ Elements(BoxOf(u)') = Kept(u)'
         /\ Mail!Subsequence(BoxOf(u)', BoxOf(u))
         /\ Elements(BoxOf(u)) = Kept(u)' => BoxOf(u)' = BoxOf(u)
<1>1. BoxOf(u) \in Seq(Messages) /\ Sorted(BoxOf(u))
  BY BoxInOrder DEF BoxesInOrder
<1>2. BoxOf(u)' \in Seq(Messages) /\ Sorted(BoxOf(u))' /\ Elements(BoxOf(u)') = Kept(u)'
  BY BoxInOrderNext DEF BoxesInOrder, Elements
<1>3. PICK r : r = BoxOf(u)'
  OBVIOUS
<1>4. Sorted(r)
  <2> SUFFICES ASSUME NEW i \in DOMAIN r, NEW j \in DOMAIN r, i < j
               PROVE  r[i] # r[j] /\ ~Before(r[j], r[i])
    BY DEF Sorted
  <2>1. r[i] # r[j] /\ ~Before(r[j], r[i])'
    BY <1>2, <1>3 DEF Sorted, Before
  <2>2. r[i] \in Kept(u)' /\ r[j] \in Kept(u)'
    BY <1>2, <1>3 DEF Elements
  <2> QED
    BY <2>1, <2>2
<1>5. \A m, n \in Kept(u) : m # n => Before(m, n) \/ Before(n, m)
  BY KeptHaveOrder DEF KeptSafe, KeepingInv
<1>6. Mail!Subsequence(r, BoxOf(u))
  BY <1>1, <1>2, <1>3, <1>4, <1>5, SortedSubsequence
<1>7. Elements(BoxOf(u)) = Kept(u)' => r = BoxOf(u)
  BY <1>1, <1>2, <1>3, <1>4, <1>5, SortedSame
<1> QED
  BY <1>2, <1>3, <1>6, <1>7

\* A mailbox of which nothing changes stays the same.
LEMMA SameBox ==
  ASSUME KeptSafe, KeptSafe', NEW u \in Users, redisQueue'[u] = redisQueue[u],
         Kept(u)' = Kept(u), \A m, n \in Kept(u) : Before(m, n) => Before(m, n)'
  PROVE  BoxOf(u)' = BoxOf(u)
<1>1. CASE redisQueue[u] # <<>>
  BY <1>1, BoxInOrder, BoxInOrderNext DEF BoxesInOrder
<1>2. CASE redisQueue[u] = <<>>
  <2>1. Elements(BoxOf(u)) = Kept(u)
    BY <1>2, BoxInOrder DEF BoxesInOrder
  <2> QED
    BY <1>2, <2>1, BoxFollows
<1> QED
  BY <1>1, <1>2

\* As long as Redis has kept its data nothing is hidden.
LEMMA NothingHidden ==
  ASSUME KeptSafe, IntactInv, Intact PROVE Hidden = {}
<1> SUFFICES ASSUME faults["redis"] = 0, NEW m \in Messages, onMsg[m] = "QUEUED", m \notin received,
                    m \notin Elements(BoxOf(Receiver[m])) \/ PassedOver(m)
             PROVE  FALSE
  BY DEF Intact, Hidden
<1> DEFINE u == Receiver[m]
<1>1. SameQueues /\ SameDelivery /\ m \in RowsFor(u) /\ u \in Users
  BY ConversationTypes DEF IntactInv, KeptRows, RowsFor
<1>2. \A s \in Sockets : Owner[s] = u => onConn[s] \notin Clearance
  <2> SUFFICES ASSUME NEW s \in Sockets, Owner[s] = u, onConn[s] \in Clearance PROVE FALSE
    OBVIOUS
  <2>1. m \in Elements(queued[s])
    BY <1>1 DEF SameDelivery
  <2>2. Elements(queued[s]) \subseteq received
    BY DEF KeptSafe, SerialBase, WholeDeliveryInv, ClearsAfterWholeDelivery, Clearance, Unlocking
  <2> QED
    BY <2>1, <2>2
<1>3. m \in Elements(redisQueue[u])
  BY <1>1, <1>2 DEF SameQueues
<1>4. m \in Elements(BoxOf(u))
  BY <1>1, <1>3, BoxInOrder, EmptyQueue DEF BoxesInOrder
<1>5. PICK s \in Sockets : Owner[s] = u /\ queued[s] # <<>> /\ m \notin Elements(queued[s])
  BY <1>4 DEF PassedOver
<1>6. onConn[s] \in {"group", "send", "awaitAck"}
  BY <1>1, <1>2, <1>5
     DEF KeptSafe, KeepingInv, DeliveryInv, SameDelivery, SerialBase, TypeInv, TypeOK, ConnTypeOK,
         ConnSteps, Delivering, Clearance, Unlocking
<1> QED
  BY <1>1, <1>3, <1>5, <1>6 DEF SameDelivery

\* While nothing is hidden a list, or the rows of a user, are dropped only when what is left
\* is still in the mailbox, and nothing that waits.
LEMMA BoxForgets ==
  ASSUME KeptSafe, KeptSafe', Hidden = {}, NEW u \in Users,
         redisQueue'[u] \in {redisQueue[u], <<>>},
         Kept(u)' \subseteq Kept(u), Kept(u)' = Kept(u) \/ BeingCleared(u),
         \A m, n \in Kept(u)' : Before(m, n) => Before(m, n)'
  PROVE  /\ Mail!Subsequence(BoxOf(u)', BoxOf(u))
         /\ Elements(BoxOf(u)) \ received \subseteq Elements(BoxOf(u)')
<1>1. BoxesInOrder /\ BoxesInOrder'
  BY BoxInOrder, BoxInOrderNext
<1>2. CASE redisQueue'[u] = redisQueue[u] /\ redisQueue[u] # <<>>
  BY <1>1, <1>2, SubsequenceOfItself DEF BoxesInOrder
<1>3. CASE redisQueue'[u] = <<>>
  <2>1. Kept(u) \subseteq Messages /\ \A m \in Kept(u) : Receiver[m] = u
    BY DEF Kept, RowsFor, Rows, Unrowed
  <2>2. Kept(u) \subseteq Elements(BoxOf(u))
    <3>1. CASE redisQueue[u] = <<>>
      BY <1>1, <3>1 DEF BoxesInOrder
    <3>2. CASE redisQueue[u] # <<>>
      <4>1. BoxOf(u) = redisQueue[u] /\ Complete(redisQueue[u], u)
        BY <1>1, <3>2 DEF BoxesInOrder, KeptSafe, KeepingInv, CompleteInv
      <4> QED
        BY <4>1 DEF Complete, Hidden
    <3> QED
      BY <3>1, <3>2
  <2>3. /\ Elements(BoxOf(u)') = Kept(u)'
        /\ Mail!Subsequence(BoxOf(u)', BoxOf(u))
    BY <1>3, <2>2, BoxFollows
  <2>4. Elements(BoxOf(u)) \ received \subseteq Kept(u)'
    <3>1. ASSUME NEW s \in Sockets, Owner[s] = u, onConn[s] \in Clearance
          PROVE  Elements(BoxOf(u)) \subseteq received
      <4>1. Elements(queued[s]) \subseteq received /\ queued[s] # <<>>
        BY <3>1 DEF KeptSafe, SerialBase, WholeDeliveryInv, ClearsAfterWholeDelivery, LocksInv,
                    ReleasedInv, Clearance, Unlocking
      <4>2. CASE redisQueue[u] # <<>>
        BY <1>1, <3>1, <4>1, <4>2 DEF BoxesInOrder, KeptSafe, KeepingInv, DeliveryInv
      <4>3. CASE redisQueue[u] = <<>>
        <5>1. Elements(BoxOf(u)) = Kept(u)
          BY <1>1, <4>3 DEF BoxesInOrder
        <5>2. \A m \in Kept(u) : onMsg[m] = "QUEUED"
          <6>1. \A m \in Messages : onMsg[m] # "createRow"
            BY <3>1 DEF KeptSafe, SerialBase, OneHandler, MsgSteps, Clearance, Unlocking
          <6> QED
            BY <6>1 DEF Kept, RowsFor, Unrowed, KeptSafe, SerialBase, RowsQueued
        <5>3. \A m \in Kept(u) : m \notin received => m \in Elements(queued[s])
          BY <2>1, <3>1, <4>1, <5>2 DEF Hidden, PassedOver
        <5> QED
          BY <4>1, <5>1, <5>3
      <4> QED
        BY <4>2, <4>3
    <3>2. CASE BeingCleared(u)
      BY <3>1, <3>2 DEF BeingCleared
    <3>3. CASE ~BeingCleared(u)
      <4>1. Elements(redisQueue[u]) \subseteq Kept(u)
        BY <3>3 DEF KeptSafe, KeepingInv, ListInv
      <4>2. Elements(BoxOf(u)) \subseteq Kept(u)
        BY <1>1, <4>1 DEF BoxesInOrder
      <4> QED
        BY <3>3, <4>2
    <3> QED
      BY <3>2, <3>3
  <2> QED
    BY <2>3, <2>4
<1> QED
  BY <1>2, <1>3

\* A message that onMessage emits or pushes is not in a mailbox yet, and nothing waits for its
\* sender from its receiver.
LEMMA WritesWhenAllowed ==
  ASSUME KeptSafe, NEW m \in Messages, MsgAlone(m), onMsg[m] \in {"awaitAck", "pushRedis"}
  PROVE  /\ m \notin received \cup Elements(BoxOf(Receiver[m]))
         /\ \A n \in Elements(BoxOf(Sender[m])) \ received : Sender[n] # Receiver[m]
<1>1. /\ \A n \in Messages : onMsg[n] # "createRow" /\ \A s \in Sockets : onConn[s] = "idle"
      /\ Sender[m] \in Users /\ Receiver[m] \in Users
  BY ConversationTypes DEF MsgAlone, MsgSteps
<1>2. ASSUME NEW u \in Users, NEW n \in Elements(BoxOf(u))
      PROVE  n \in Rows /\ Receiver[n] = u /\ onMsg[n] = "QUEUED"
  <2>1. Kept(u) = RowsFor(u)
    BY <1>1 DEF Kept, Unrowed
  <2>2. Elements(BoxOf(u)) \subseteq Kept(u)
    <3>1. ~BeingCleared(u)
      BY <1>1 DEF BeingCleared, Clearance, Unlocking
    <3>2. Elements(redisQueue[u]) \subseteq Kept(u)
      BY <3>1 DEF KeptSafe, KeepingInv, ListInv
    <3> QED
      BY <3>2, BoxInOrder DEF BoxesInOrder
  <2> QED
    BY <1>2, <2>1, <2>2 DEF RowsFor, KeptSafe, SerialBase, RowsQueued
<1>3. m \notin received \cup Elements(BoxOf(Receiver[m]))
  BY <1>1, <1>2 DEF KeptSafe, KeepingInv, ReceivedInv
<1>4. ASSUME NEW n \in Elements(BoxOf(Sender[m])), Sender[n] = Receiver[m] PROVE FALSE
  <2>1. n \in Rows /\ ConversationOf(n) = ConversationOf(m)
    BY <1>1, <1>2, <1>4 DEF ConversationOf
  <2>2. pgLock[ConversationOf(m)] = Sender[n]
    BY <1>1, <2>1 DEF KeptSafe, LocksInv, RowLockInv, Unlocked
  <2>3. pgLock[ConversationOf(m)] \in {NoUser, Sender[m]}
    BY DEF KeptSafe, LocksInv, PassedInv
  <2>4. Sender[m] # Receiver[m] /\ Receiver[m] # NoUser
    BY <1>1, UsersAssumption DEF KeptSafe, SerialBase, PartiesInv
  <2> QED
    BY <1>4, <2>2, <2>3, <2>4
<1> QED
  BY <1>3, <1>4

-------------------------------------------------------------------------------
\* Every step is one of the mailbox.

\* onMessage changes a mailbox when it pushes, and nothing when the message gets its row.
LEMMA MessageBoxes ==
  ASSUME KeptSafe, KeptSafe', NEW m \in Messages, MsgAlone(m), OnMessage(m) \/ MsgProgress(m),
         NEW u \in Users
  PROVE  \/ BoxOf(u)' = BoxOf(u)
         \/ /\ u = Receiver[m] /\ onMsg[m] = "pushRedis" /\ onMsg'[m] = "createRow"
            /\ redisQueue'[u] = Append(redisQueue[u], m)
<1>1. TypeOK /\ SerialBase /\ StampsInv /\ redisQueue \in [Users -> Seq(Messages)]
  BY DEF KeptSafe, SerialBase, TypeInv, TypeOK, QueueTypeOK, KeepingInv
<1>2. \A n \in Messages \ {m} : onMsg'[n] = onMsg[n] /\ onMsg[n] \notin MsgSteps
  BY <1>1, OnMessageCases
<1>3. CASE onMsg[m] = "pushRedis" /\ onMsg'[m] = "createRow" /\ createdAt' = createdAt
           /\ redisQueue' = [redisQueue EXCEPT ![Receiver[m]] = Append(@, m)]
  <2>1. CASE u = Receiver[m]
    BY <1>1, <1>3, <2>1
  <2>2. CASE u # Receiver[m]
    <3>1. redisQueue'[u] = redisQueue[u] /\ Kept(u)' = Kept(u) /\ Kept(u) \subseteq Messages
      BY <1>1, <1>3, <2>2, KeptByMessage
    <3>2. m \notin Kept(u)
      BY <2>2 DEF Kept, RowsFor, Unrowed
    <3>3. \A n, k \in Messages : k # m => (Before(n, k)' <=> Before(n, k))
      BY <1>1, <1>2, <1>3, PushedOrder
    <3> QED
      BY <3>1, <3>2, <3>3, SameBox
  <2> QED
    BY <2>1, <2>2
<1>4. CASE /\ onMsg[m] = "createRow" /\ onMsg'[m] = "QUEUED" /\ redisQueue' = redisQueue
           /\ createdAt' = [createdAt EXCEPT ![m] = pgClock + 1]
  <2>1. \A n, k \in Messages : Before(n, k)' <=> Before(n, k)
    BY <1>1, <1>2, <1>4, RowOrder
  <2>2. Kept(u)' = Kept(u) /\ Kept(u) \subseteq Messages
    BY <1>1, <1>4, KeptByMessage
  <2> QED
    BY <1>4, <2>1, <2>2, SameBox
<1>5. CASE {onMsg[m], onMsg'[m]} \cap {"createRow", "QUEUED"} = {} /\ UNCHANGED queueVars
  <2>1. \A n, k \in Messages : Before(n, k)' <=> Before(n, k)
    BY <1>2, <1>5 DEF queueVars, Before
  <2>2. Kept(u)' = Kept(u) /\ Kept(u) \subseteq Messages
    BY <1>1, <1>5, KeptByMessage
  <2> QED
    BY <1>5, <2>1, <2>2, SameBox DEF queueVars
<1> QED
  BY <1>1, <1>3, <1>4, <1>5, OnMessageCases

\* A message is pushed behind all that is kept, unless that hides rows.
LEMMA PushedBox ==
  ASSUME KeptSafe, KeptSafe', IntactInv, Hidden = {}, Intact',
         NEW m \in Messages, MsgAlone(m), OnMessage(m) \/ MsgProgress(m),
         onMsg[m] = "pushRedis", onMsg'[m] = "createRow",
         redisQueue'[Receiver[m]] = Append(redisQueue[Receiver[m]], m)
  PROVE  BoxOf(Receiver[m])' = Append(BoxOf(Receiver[m]), m)
<1> DEFINE u == Receiver[m]
<1>1. /\ TypeOK /\ redisQueue[u] \in Seq(Messages) /\ u \in Users
      /\ BoxesInOrder /\ BoxesInOrder' /\ YoungestInv
  BY ConversationTypes, BoxInOrder, BoxInOrderNext
     DEF KeptSafe, SerialBase, TypeInv, TypeOK, QueueTypeOK, KeepingInv
<1>2. /\ received' = received /\ faults' = faults
      /\ \A n \in Messages : onMsg[n] = "QUEUED" => onMsg'[n] = "QUEUED" /\ n # m
      /\ \A s \in Sockets : onConn[s] = "idle"
      /\ \A n \in Messages : onMsg[n] # "createRow"
  BY <1>1, OnMessageCases DEF MsgSteps
<1>3. redisQueue'[u] # <<>> /\ BoxOf(u)' = redisQueue'[u]
  <2>1. Append(redisQueue[u], m) # <<>>
    BY <1>1
  <2> QED
    BY <1>1, <2>1 DEF BoxesInOrder
<1>4. CASE redisQueue[u] # <<>>
  BY <1>1, <1>3, <1>4 DEF BoxesInOrder
<1>5. CASE redisQueue[u] = <<>>
  <2>1. Elements(redisQueue'[u]) = {m}
    BY <1>1, <1>5, PushedElements, EmptyQueue
  <2>2. RowsFor(u) = {}
    <3>1. CASE faults["redis"] = 0
      BY <1>1, <1>2, <1>5, <3>1, EmptyQueue DEF IntactInv, SameQueues, Clearance, Unlocking
    <3>2. CASE Hidden' = {}
      <4>1. ASSUME NEW n \in RowsFor(u), n \notin received PROVE FALSE
        <5>1. n \in Messages /\ onMsg[n] = "QUEUED" /\ Receiver[n] = u
          BY <4>1 DEF RowsFor, Rows, KeptSafe, SerialBase, RowsQueued
        <5>2. n \notin Elements(BoxOf(Receiver[n])')
          BY <1>2, <1>3, <2>1, <5>1
        <5>3. n \in Hidden'
          BY <1>2, <4>1, <5>1, <5>2 DEF Hidden, Elements
        <5> QED
          BY <3>2, <5>3
      <4>2. ~BeingCleared(u)
        BY <1>2 DEF BeingCleared, Clearance, Unlocking
      <4> QED
        BY <1>1, <4>1, <4>2 DEF YoungestInv
    <3> QED
      BY <1>2, <3>1, <3>2 DEF Intact
  <2>3. BoxOf(u) = <<>>
    <3>1. Elements(BoxOf(u)) = {} /\ BoxOf(u) \in Seq(Messages)
      BY <1>1, <1>2, <1>5, <2>2 DEF BoxesInOrder, Kept, Unrowed
    <3>2. DOMAIN BoxOf(u) = {}
      BY <3>1 DEF Elements
    <3> QED
      BY <3>1, <3>2
  <2> QED
    BY <1>3, <1>5, <2>3
<1> QED
  BY <1>4, <1>5

\* handleConnection changes no mailbox but that of its user, and that only when it clears it.
LEMMA ConnectionBoxes ==
  ASSUME KeptSafe, KeptSafe', NEW s \in Sockets, ConnAlone(s), Connect(s) \/ ConnProgress(s),
         NEW u \in Users
  PROVE  /\ u # Owner[s] \/ RestoreQueueOf(s) \/ AcknowledgeQueued(s) => BoxOf(u)' = BoxOf(u)
         /\ ~RestoreQueueOf(s) /\ Hidden = {} =>
              /\ Mail!Subsequence(BoxOf(u)', BoxOf(u))
              /\ Elements(BoxOf(u)) \ received \subseteq Elements(BoxOf(u)')
<1>1. /\ TypeOK /\ SerialBase /\ LocksInv /\ StampsInv /\ DeliveryInv /\ OrderInv
      /\ redisQueue \in [Users -> Seq(Messages)] /\ queued \in [Sockets -> Seq(Messages)]
  BY DEF KeptSafe, SerialBase, TypeInv, TypeOK, QueueTypeOK, ConnTypeOK, KeepingInv
<1>2. /\ Kept(u) = RowsFor(u) /\ Kept(u)' = RowsFor(u)' /\ Kept(u)' \subseteq Kept(u)
      /\ u # Owner[s] \/ onConn[s] \notin {"clearConversation", "clearRows"} => Kept(u)' = Kept(u)
      /\ RowsFor(u)' \subseteq Messages
  BY <1>1, KeptByConnection
<1>3. \A m, n \in Kept(u)' : Before(m, n)' <=> Before(m, n)
  <2>1. \A m \in RowsFor(u)' : m \in Rows'
    BY DEF RowsFor
  <2> QED
    BY <1>1, <1>2, <2>1, OnConnectionCases, DeletedOrder
<1>4. CASE RestoreQueueOf(s) /\ u = Owner[s]
  <2>1. /\ redisQueue' = [redisQueue EXCEPT ![u] = @ \o queued[s]] /\ redisQueue[u] = <<>>
        /\ Elements(queued[s]) = RowsFor(u) /\ onConn[s] = "restoreQueue"
    BY <1>1, <1>4 DEF RestoreQueueOf, RestoreQueue, GoConn, DeliveryInv
  <2>2. redisQueue'[u] = queued[s] /\ queued[s] # <<>>
    BY <1>1, <2>1 DEF SerialBase, TypeInv, PositionInRange
  <2>3. /\ BoxOf(u) \in Seq(Messages) /\ Sorted(BoxOf(u)) /\ Elements(BoxOf(u)) = Kept(u)
        /\ BoxOf(u)' = queued[s]
    BY <2>1, <2>2, BoxInOrder, BoxInOrderNext DEF BoxesInOrder
  <2>4. queued[s] = BoxOf(u)
    <3>1. \A m, n \in Kept(u) : m # n => Before(m, n) \/ Before(n, m)
      BY <1>1, KeptHaveOrder
    <3>2. Sorted(queued[s]) /\ queued[s] \in Seq(Messages) /\ Elements(queued[s]) = Kept(u)
      BY <1>1, <1>2, <2>1 DEF OrderInv
    <3> QED
      BY <2>3, <3>1, <3>2, SortedSame
  <2> QED
    BY <1>4, <2>3, <2>4
<1>5. CASE ~(RestoreQueueOf(s) /\ u = Owner[s])
  <2>1. redisQueue'[u] \in {redisQueue[u], <<>>}
    BY <1>1, <1>5, OnConnectionCases, ConversationTypes
       DEF RestoreQueueOf, RestoreQueue, ClearUserQueueRedis, ClearUserList
  <2>2. u # Owner[s] \/ AcknowledgeQueued(s) => redisQueue'[u] = redisQueue[u] /\ Kept(u)' = Kept(u)
    <3>1. u # Owner[s] => redisQueue'[u] = redisQueue[u]
      BY <1>1, <1>5, OnConnectionCases, ConversationTypes
         DEF RestoreQueueOf, RestoreQueue, ClearUserQueueRedis, ClearUserList
    <3>2. AcknowledgeQueued(s) => redisQueue'[u] = redisQueue[u] /\ onConn[s] = "awaitAck"
      BY DEF AcknowledgeQueued, queueVars
    <3> QED
      BY <1>2, <3>1, <3>2
  <2>3. u # Owner[s] \/ AcknowledgeQueued(s) => BoxOf(u)' = BoxOf(u)
    BY <1>3, <2>2, SameBox
  <2>4. Kept(u)' = Kept(u) \/ BeingCleared(u)
    BY <1>2 DEF BeingCleared, Clearance, Unlocking
  <2>5. ~RestoreQueueOf(s) /\ Hidden = {} =>
              /\ Mail!Subsequence(BoxOf(u)', BoxOf(u))
              /\ Elements(BoxOf(u)) \ received \subseteq Elements(BoxOf(u)')
    BY <1>2, <1>3, <2>1, <2>4, BoxForgets
  <2>6. RestoreQueueOf(s) => u # Owner[s]
    BY <1>5
  <2> QED
    BY <2>3, <2>5, <2>6
<1> QED
  BY <1>4, <1>5

\* A delivery hands over the oldest message that waits.
LEMMA HandsOverOldest ==
  ASSUME KeptSafe, Hidden = {}, NEW s \in Sockets, onConn[s] = "awaitAck",
         queued[s][pos[s]] \notin received
  PROVE  \E i \in DOMAIN BoxOf(Owner[s]) :
           /\ BoxOf(Owner[s])[i] = queued[s][pos[s]]
           /\ \A j \in 1..(i - 1) : BoxOf(Owner[s])[j] \in received
<1> DEFINE o == Owner[s]
           x == queued[s][pos[s]]
           q == BoxOf(o)
<1>1. /\ queued[s] \in Seq(Messages) /\ Sorted(queued[s]) /\ o \in Users /\ BoxesInOrder
      /\ SerialBase /\ StampsInv /\ DeliveryInv
  BY ConversationTypes, BoxInOrder
     DEF KeptSafe, SerialBase, TypeInv, TypeOK, ConnTypeOK, KeepingInv, OrderInv
<1>2. /\ pos[s] \in 1..Len(queued[s])
      /\ \A k \in 1..Len(queued[s]) : k < pos[s] => queued[s][k] \in received
  BY <1>1 DEF SerialBase, TypeInv, PositionInRange, WholeDeliveryInv
<1>3. x \in Elements(queued[s]) /\ queued[s] # <<>> /\ DOMAIN queued[s] = 1..Len(queued[s])
      /\ Len(queued[s]) \in Nat
  BY <1>1, <1>2, ElementAt
<1>4. redisQueue[o] \in {<<>>, queued[s]}
  BY <1>1 DEF DeliveryInv
<1>5. CASE redisQueue[o] = queued[s]
  <2>1. q = queued[s]
    BY <1>1, <1>3, <1>5 DEF BoxesInOrder
  <2> QED
    BY <1>2, <1>3, <2>1
<1>6. CASE redisQueue[o] = <<>>
  <2>1. q \in Seq(Messages) /\ Sorted(q) /\ Elements(q) = Kept(o)
    BY <1>1, <1>6 DEF BoxesInOrder
  <2>2. /\ \A n \in Messages : onMsg[n] # "createRow"
        /\ \A n \in Kept(o) : n \in Messages /\ Receiver[n] = o /\ onMsg[n] = "QUEUED"
    <3>1. \A n \in Messages : onMsg[n] # "createRow"
      BY <1>1 DEF SerialBase, OneHandler, MsgSteps
    <3> QED
      BY <1>1, <3>1 DEF Kept, Unrowed, RowsFor, Rows, SerialBase, RowsQueued
  <2>3. x \in Kept(o)
    BY <1>1, <1>3 DEF DeliveryInv, SerialBase, ReceiverInv, Kept, RowsFor
  <2>4. PICK i \in DOMAIN q : q[i] = x
    BY <2>1, <2>3 DEF Elements
  <2>5. ASSUME NEW j \in 1..(i - 1), q[j] \notin received PROVE FALSE
    <3> DEFINE y == q[j]
    <3>1. j \in DOMAIN q /\ j < i /\ y \in Elements(q)
      BY <2>1, <2>4 DEF Elements
    <3>2. y # x /\ ~Before(x, y)
      BY <2>1, <2>4, <3>1 DEF Sorted
    <3>3. Before(y, x)
      BY <1>1, <2>1, <2>3, <3>1, <3>2, KeptHaveOrder
    <3>4. y \in Elements(queued[s])
      BY <1>3, <2>1, <2>2, <2>5, <3>1 DEF Hidden, PassedOver
    <3>5. PICK k \in DOMAIN queued[s] : queued[s][k] = y
      BY <3>4 DEF Elements
    <3>6. ~(k < pos[s])
      BY <1>2, <1>3, <2>5, <3>5
    <3>7. k # pos[s]
      BY <3>2, <3>5
    <3>8. pos[s] < k
      BY <1>2, <1>3, <3>5, <3>6, <3>7
    <3> QED
      BY <1>1, <1>2, <1>3, <3>3, <3>5, <3>8 DEF Sorted
  <2> QED
    BY <2>4, <2>5
<1> QED
  BY <1>4, <1>5, <1>6

\* What Redis loses, and a socket that closes, takes nothing from a mailbox that waits.
LEMMA OtherBoxes ==
  ASSUME KeptSafe, KeptSafe', NEW u \in Users, Hidden = {},
         \/ \E s \in Sockets : Disconnect(s)
         \/ \E v \in Users : Expire(v)
         \/ LoseRedis
         \/ UNCHANGED vars
  PROVE  /\ Mail!Subsequence(BoxOf(u)', BoxOf(u))
         /\ Elements(BoxOf(u)) \ received \subseteq Elements(BoxOf(u)')
<1>1. redisQueue \in [Users -> Seq(Messages)]
  BY DEF KeptSafe, SerialBase, TypeInv, TypeOK, QueueTypeOK
<1>2. UNCHANGED <<createdAt, onMsg>> /\ redisQueue'[u] \in {redisQueue[u], <<>>}
  BY <1>1, OtherCases
<1>3. Kept(u)' = Kept(u)
  BY <1>2 DEF Kept, RowsFor, Rows, Unrowed
<1>4. \A m, n \in Kept(u)' : Before(m, n) => Before(m, n)'
  BY <1>2 DEF Before
<1> QED
  BY <1>2, <1>3, <1>4, BoxForgets

\* What was received stays received, and mailboxes stay mailboxes.
LEMMA MailboxTypes ==
  ASSUME KeptSafe, KeptSafe', [SerialNext]_vars
  PROVE  received \subseteq received' /\ Boxes \in [Users -> Seq(Messages)]
         /\ Boxes' \in [Users -> Seq(Messages)]
<1>1. TypeOK /\ OneHandler
  BY DEF KeptSafe, SerialBase, TypeInv
<1>2. received \subseteq received'
  BY <1>1, SerialCases, SerialMsgFrame, SerialConnFrame, OtherCases
<1>3. Boxes \in [Users -> Seq(Messages)]
  BY BoxInOrder DEF BoxesInOrder, Boxes
<1>4. Boxes' \in [Users -> Seq(Messages)]
  BY BoxInOrderNext DEF BoxesInOrder, Boxes
<1> QED
  BY <1>2, <1>3, <1>4

\* A step between two states in which every message is accounted for.
LEMMA IntactStep ==
  ASSUME KeptSafe, KeptSafe', IntactInv, Intact, Intact', [SerialNext]_vars
  PROVE  Mail!Next \/ UNCHANGED Mail!mailVars
<1>1. TypeOK /\ OneHandler /\ Hidden = {} /\ (Intact' <=> Intact)
  BY NothingHidden DEF KeptSafe, SerialBase, TypeInv
<1>2. Intact' = Intact
  BY <1>1 DEF Intact
<1>3. /\ Boxes \in [Users -> Seq(Messages)] /\ Boxes' \in [Users -> Seq(Messages)]
      /\ \A u \in Users : Boxes[u] = BoxOf(u) /\ Boxes'[u] = BoxOf(u)'
  BY MailboxTypes DEF Boxes
<1>4. \A q : Mail!Elements(q) = Elements(q)
  BY DEF Mail!Elements, Elements
<1>5. ASSUME received' = received,
             \A u \in Users : /\ Mail!Subsequence(BoxOf(u)', BoxOf(u))
                              /\ Elements(BoxOf(u)) \ received \subseteq Elements(BoxOf(u)')
      PROVE  Mail!Forget
  BY <1>2, <1>3, <1>4, <1>5 DEF Mail!Forget, Mail!Waiting
<1>6. ASSUME received' = received, \A u \in Users : BoxOf(u)' = BoxOf(u) PROVE Mail!Forget
  BY <1>5, <1>6, SubsequenceOfItself DEF Elements
<1>7. ASSUME NEW m \in Messages, MsgAlone(m), OnMessage(m) \/ MsgProgress(m) PROVE Mail!Next
  <2> DEFINE r == Receiver[m]
  <2>1. \A u \in Users : \/ BoxOf(u)' = BoxOf(u)
                         \/ /\ u = r /\ onMsg[m] = "pushRedis" /\ onMsg'[m] = "createRow"
                            /\ redisQueue'[u] = Append(redisQueue[u], m)
    BY <1>7, MessageBoxes
  <2>2. r \in Users /\ Sender[m] \in Users
    BY ConversationTypes
  <2>3. onMsg[m] \in {"awaitAck", "pushRedis"} =>
          m \notin received \cup Elements(Boxes[r]) /\ Mail!MayWrite(m)
    BY <1>3, <1>4, <1>7, <2>2, WritesWhenAllowed DEF Mail!MayWrite, Mail!Waiting
  <2>4. CASE \E u \in Users : BoxOf(u)' # BoxOf(u)
    <3>1. /\ onMsg[m] = "pushRedis" /\ onMsg'[m] = "createRow"
          /\ redisQueue'[r] = Append(redisQueue[r], m)
      BY <2>1, <2>4
    <3>2. BoxOf(r)' = Append(BoxOf(r), m) /\ received' = received
      BY <1>1, <1>7, <3>1, PushedBox, OnMessageCases
    <3>3. \A u \in Users : Boxes'[u] = IF u = r THEN Append(Boxes[r], m) ELSE Boxes[u]
      BY <1>3, <2>1, <3>2
    <3>4. Boxes' = [Boxes EXCEPT ![r] = Append(@, m)]
      BY <1>3, <2>2, <3>3
    <3> QED
      BY <1>2, <1>4, <2>3, <3>1, <3>2, <3>4 DEF Mail!Next, Mail!Accept
  <2>5. CASE \A u \in Users : BoxOf(u)' = BoxOf(u)
    <3>1. CASE received' = received
      BY <1>6, <2>5, <3>1 DEF Mail!Next
    <3>2. CASE onMsg[m] = "awaitAck" /\ received' = received \cup {m}
      <4>1. Boxes' = Boxes
        BY <1>3, <2>5
      <4> QED
        BY <1>2, <1>4, <2>3, <3>2, <4>1 DEF Mail!Next, Mail!Deliver
    <3> QED
      BY <1>1, <1>7, <3>1, <3>2, OnMessageCases
  <2> QED
    BY <2>4, <2>5
<1>8. ASSUME NEW s \in Sockets, ConnAlone(s), Connect(s) \/ ConnProgress(s) PROVE Mail!Next
  <2> DEFINE o == Owner[s]
  <2>1. \A u \in Users :
          /\ u # o \/ RestoreQueueOf(s) \/ AcknowledgeQueued(s) => BoxOf(u)' = BoxOf(u)
          /\ ~RestoreQueueOf(s) => /\ Mail!Subsequence(BoxOf(u)', BoxOf(u))
                                   /\ Elements(BoxOf(u)) \ received \subseteq Elements(BoxOf(u)')
    BY <1>1, <1>8, ConnectionBoxes
  <2>2. CASE received' = received /\ RestoreQueueOf(s)
    BY <1>6, <2>1, <2>2 DEF Mail!Next
  <2>3. CASE received' = received /\ ~RestoreQueueOf(s)
    BY <1>5, <2>1, <2>3 DEF Mail!Next
  <2>4. CASE AcknowledgeQueued(s) /\ received' # received
    <3>1. /\ received' = received \cup {queued[s][pos[s]]} /\ onConn[s] = "awaitAck"
          /\ queued[s][pos[s]] \notin received
      BY <2>4 DEF AcknowledgeQueued
    <3>2. PICK i \in DOMAIN BoxOf(o) : /\ BoxOf(o)[i] = queued[s][pos[s]]
                                       /\ \A j \in 1..(i - 1) : BoxOf(o)[j] \in received
      BY <1>1, <3>1, HandsOverOldest
    <3>3. Boxes' = Boxes /\ o \in Users
      BY <1>3, <2>1, <2>4, ConversationTypes
    <3> QED
      BY <1>2, <1>3, <3>1, <3>2, <3>3 DEF Mail!Next, Mail!HandOver
  <2> QED
    BY <1>1, <1>8, <2>2, <2>3, <2>4, OnConnectionCases
<1>9. CASE \/ \E s \in Sockets : Disconnect(s)
           \/ \E v \in Users : Expire(v)
           \/ LoseRedis
           \/ UNCHANGED vars
  <2>1. received' = received
    BY <1>9, OtherCases
  <2>2. \A u \in Users : /\ Mail!Subsequence(BoxOf(u)', BoxOf(u))
                         /\ Elements(BoxOf(u)) \ received \subseteq Elements(BoxOf(u)')
    BY <1>1, <1>9, OtherBoxes
  <2> QED
    BY <1>5, <2>1, <2>2 DEF Mail!Next
<1> QED
  BY <1>1, <1>7, <1>8, <1>9, SerialCases

\* Every step is one of the mailbox, whatever Redis loses.
LEMMA MailboxStep ==
  KeptSafe /\ KeptSafe' /\ IntactInv /\ [SerialNext]_vars => [Mail!Next]_(Mail!mailVars)
<1> SUFFICES ASSUME KeptSafe, KeptSafe', IntactInv, [SerialNext]_vars
             PROVE  Mail!Next \/ UNCHANGED Mail!mailVars
  OBVIOUS
<1>1. CASE Intact /\ Intact'
  BY <1>1, IntactStep
<1>2. CASE ~Intact \/ ~Intact'
  BY <1>2, MailboxTypes DEF Mail!Next, Mail!Lose
<1> QED
  BY <1>1, <1>2

\* Under SerialSpec the two stores are a mailbox: a message is accepted behind
\* those that are kept, only while nothing waits in the other direction, and handed over
\* before those that came after it, and what is forgotten was received; unless Redis has
\* lost a list and got another one that hides rows, and only until they are seen again.
THEOREM ImplementsMailbox == SerialSpec => IsMailbox
<1>1. KeptSafe /\ Init => Mail!Init
  <2> SUFFICES ASSUME KeptSafe, Init PROVE Mail!Init
    OBVIOUS
  <2>1. Intact
    BY DEF Init, Intact, FaultKinds
  <2>2. Intact = TRUE
    BY <2>1 DEF Intact
  <2>3. ASSUME NEW u \in Users PROVE BoxOf(u) = <<>>
    <3>1. Kept(u) = {} /\ redisQueue[u] = <<>>
      BY DEF Init, QueueInit, Kept, RowsFor, Rows, Unrowed
    <3>2. Elements(BoxOf(u)) = {} /\ BoxOf(u) \in Seq(Messages)
      BY <3>1, BoxInOrder DEF BoxesInOrder
    <3>3. DOMAIN BoxOf(u) = {}
      BY <3>2 DEF Elements
    <3> QED
      BY <3>2, <3>3
  <2>4. Boxes = [u \in Users |-> <<>>] /\ received = {}
    BY <2>3 DEF Init, Boxes
  <2> QED
    BY <2>2, <2>4 DEF Mail!Init
<1>2. SerialSpec => []KeptSafe
  BY SerialBaseInvariant, LocksInvariant, KeepingInvariant, PTL DEF KeptSafe
<1> QED
  BY <1>1, <1>2, MailboxStep, IntactInvariant, PTL DEF SerialSpec, IsMailbox, Mail!Spec

\* As long as Redis has kept its data, a message that was accepted and not received is in the
\* mailbox of its receiver and known to every delivery to the receiver that has read the queue.
THEOREM NothingIsHidden == SerialSpec => [](faults["redis"] = 0 => Hidden = {})
<1>1. KeptSafe /\ IntactInv => (faults["redis"] = 0 => Hidden = {})
  BY NothingHidden DEF Intact
<1>2. SerialSpec => []KeptSafe
  BY SerialBaseInvariant, LocksInvariant, KeepingInvariant, PTL DEF KeptSafe
<1> QED
  BY <1>1, <1>2, IntactInvariant, PTL
===============================================================================
