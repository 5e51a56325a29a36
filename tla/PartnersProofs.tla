----------------------------- MODULE PartnersProofs -----------------------------
(***************************************************************************)
(* Proofs about the lists of partners in Presence, for any number of       *)
(* users, sockets, messages and crashes: every variable keeps its type,    *)
(* whether somebody is online is told to partners only, and what they were *)
(* told is so.                                                             *)
(***************************************************************************)
EXTENDS PresenceProofs, SequenceTheorems, FiniteSetTheorems

-------------------------------------------------------------------------------
\* Sequences of users.

\* ToFront puts a user before the others and loses nobody.
LEMMA ToFrontKeeps ==
  ASSUME NEW seq \in Seq(Users), NEW u \in Users
  PROVE  /\ ToFront(seq, u) \in Seq(Users)
         /\ ToSet(seq) \cup {u} \subseteq ToSet(ToFront(seq, u))
<1>1. \A r \in Seq(Users) : /\ <<u>> \o r \in Seq(Users)
                            /\ ToSet(<<u>> \o r) = {u} \cup ToSet(r)
  <2> SUFFICES ASSUME NEW r \in Seq(Users)
               PROVE  /\ <<u>> \o r \in Seq(Users)
                      /\ ToSet(<<u>> \o r) = {u} \cup ToSet(r)
    OBVIOUS
  <2>1. /\ <<u>> \o r \in Seq(Users) /\ Len(<<u>> \o r) = Len(r) + 1 /\ Len(r) \in Nat
        /\ (<<u>> \o r)[1] = u /\ \A i \in 1..Len(r) : (<<u>> \o r)[i + 1] = r[i]
        /\ DOMAIN (<<u>> \o r) = 1..Len(r)+1 /\ DOMAIN r = 1..Len(r)
    OBVIOUS
  <2>2. \A i \in 1..Len(r)+1 : i = 1 \/ (i - 1 \in 1..Len(r) /\ (<<u>> \o r)[i] = r[i - 1])
    BY <2>1
  <2>3. \A i \in 1..Len(r) : i + 1 \in 1..Len(r)+1
    BY <2>1
  <2> DEFINE q == <<u>> \o r
  <2> HIDE DEF q
  <2>4. ToSet(q) \subseteq {u} \cup ToSet(r)
    BY <2>1, <2>2 DEF ToSet, q
  <2>5. u \in ToSet(q)
    BY <2>1 DEF ToSet, q
  <2>6. ASSUME NEW i \in 1..Len(r) PROVE r[i] \in ToSet(q)
    <3>1. i + 1 \in DOMAIN q /\ q[i + 1] = r[i]
      BY <2>1, <2>3 DEF q
    <3> QED
      BY <3>1 DEF ToSet
  <2>7. ToSet(r) \subseteq ToSet(q)
    BY <2>1, <2>6 DEF ToSet
  <2> QED
    BY <2>1, <2>4, <2>5, <2>7 DEF q
<1>2. CASE u \notin ToSet(seq)
  BY <1>1, <1>2 DEF ToFront
<1>3. CASE u \in ToSet(seq)
  <2> DEFINE n == CHOOSE i \in DOMAIN seq : seq[i] = u
             left == SubSeq(seq, 1, n - 1)
             right == SubSeq(seq, n + 1, Len(seq))
  <2>1. n \in 1..Len(seq) /\ seq[n] = u /\ Len(seq) \in Nat
    BY <1>3 DEF ToSet
  <2> HIDE DEF n
  <2>2. /\ left \in Seq(Users) /\ Len(left) = n - 1
        /\ \A i \in 1..n-1 : left[i] = seq[i]
    BY <2>1
  <2>3. /\ right \in Seq(Users) /\ Len(right) = Len(seq) - n
        /\ \A i \in 1..Len(seq)-n : right[i] = seq[n + i]
    BY <2>1
  <2> HIDE DEF left, right
  <2>4. left \o right \in Seq(Users)
    BY <2>2, <2>3
  <2>5. ASSUME NEW i \in 1..Len(seq), i # n PROVE seq[i] \in ToSet(left \o right)
    <3>1. CASE i < n
      <4>1. i \in 1..Len(left) /\ i \in DOMAIN (left \o right) /\ (left \o right)[i] = left[i]
        BY <2>1, <2>2, <2>3, <3>1
      <4> QED
        BY <2>1, <2>2, <4>1 DEF ToSet
    <3>2. CASE i > n
      <4>1. i - n \in 1..Len(right) /\ seq[i] = right[i - n]
        BY <2>1, <2>3, <3>2
      <4>2. i - 1 \in DOMAIN (left \o right) /\ (left \o right)[i - 1] = right[i - n]
        BY <2>1, <2>2, <2>3, <3>2, <4>1
      <4> QED
        BY <4>1, <4>2 DEF ToSet
    <3> QED
      BY <2>1, <2>5, <3>1, <3>2
  <2>6. ToFront(seq, u) = <<u>> \o (left \o right)
    BY <1>3 DEF ToFront, RemoveAt, n, left, right
  <2>7. \A v \in ToSet(seq) : v = u \/ v \in ToSet(left \o right)
    BY <2>1, <2>5 DEF ToSet
  <2> QED
    BY <1>1, <2>4, <2>6, <2>7
<1> QED
  BY <1>2, <1>3

\* What findMany takes is a part of the conversations of the user.
LEMMA TopOfPartners ==
  ASSUME recent \in [Users -> Seq(Users)], NEW u \in Users
  PROVE  Top(u) \subseteq PartnersOf(u) /\ PartnersOf(u) \subseteq Users
<1>1. recent[u] \in Seq(Users) /\ Len(recent[u]) \in Nat /\ Limit \in Nat
  BY LimitAssumption
<1> DEFINE k == IF Len(recent[u]) < Limit THEN Len(recent[u]) ELSE Limit
<1>2. k \in 0..Len(recent[u])
  BY <1>1
<1>3. /\ Len(SubSeq(recent[u], 1, k)) = k
      /\ \A i \in 1..k : SubSeq(recent[u], 1, k)[i] = recent[u][i] /\ i \in 1..Len(recent[u])
      /\ DOMAIN SubSeq(recent[u], 1, k) = 1..k
  BY <1>1, <1>2
<1> QED
  BY <1>1, <1>3 DEF Top, PartnersOf, ToSet

\* A stamp keeps the conversations of every user, and so does every other step.
LEMMA ConversationsStay ==
  ASSUME recent \in [Users -> Seq(Users)], [Next]_vars
  PROVE  /\ recent' \in [Users -> Seq(Users)]
         /\ \A u \in Users : PartnersOf(u) \subseteq PartnersOf(u)'
<1>1. CASE \E t \in Talks : Stamp(t)
  <2>1. PICK t \in Talks : Stamp(t)
    BY <1>1
  <2>2. ASSUME NEW u \in Users
        PROVE  /\ recent'[u] \in Seq(Users)
               /\ ToSet(recent[u]) \subseteq ToSet(recent'[u])
    <3>1. recent'[u] \in {recent[u], ToFront(recent[u], Receiver[t]), ToFront(recent[u], Sender[t])}
      BY <2>1 DEF Stamp
    <3>2. /\ ToFront(recent[u], Receiver[t]) \in Seq(Users)
          /\ ToSet(recent[u]) \subseteq ToSet(ToFront(recent[u], Receiver[t]))
          /\ ToFront(recent[u], Sender[t]) \in Seq(Users)
          /\ ToSet(recent[u]) \subseteq ToSet(ToFront(recent[u], Sender[t]))
      BY TalkFacts, ToFrontKeeps
    <3> QED
      BY <3>1, <3>2
  <2>3. recent' = [u \in Users |-> recent'[u]]
    BY <2>1 DEF Stamp
  <2> QED
    BY <2>2, <2>3 DEF PartnersOf
<1>2. CASE recent' = recent
  BY <1>2 DEF PartnersOf
<1>3. recent' = recent \/ \E t \in Talks : Stamp(t)
  BY PartnersStepCases
  DEF OpenConversation, Refused, UpdateConversation, DropSender, DropReceiver, DropFails, ListExists,
      ReadMembers, FindPartners, DeleteList, AddList, ExpireList, ListExpires, Emit, GoBroadcast, Crash,
      convVars
<1> QED
  BY <1>1, <1>2, <1>3

-------------------------------------------------------------------------------
\* The initial state has the types: nobody has talked, nothing is cached or under way.
LEMMA TypeInit == Init => TypeOK
BY HandlerFacts, CrashesAssumption
   DEF Init, ConversationInit, TypeOK, ConversationTypeOK, Statuses, Caching

\* A step preserves the types of what ConversationService keeps.
LEMMA ConversationTypeStep == ConversationTypeOK /\ [Next]_vars => ConversationTypeOK'
<1> SUFFICES ASSUME ConversationTypeOK, [Next]_vars PROVE ConversationTypeOK'
  OBVIOUS
<1>0. recent' \in [Users -> Seq(Users)]
  BY ConversationsStay DEF ConversationTypeOK
<1> USE <1>0, HandlerFacts, TalkFacts, QueriesAssumption
    DEF ConversationTypeOK, Caching, GoTalk, GoAsk, Pair, Invalidate
<1>1. ASSUME NEW t \in Talks, OpenConversation(t) \/ Refused(t) \/ UpdateConversation(t)
      PROVE  ConversationTypeOK'
  BY <1>1 DEF OpenConversation, Refused, UpdateConversation
<1>2. ASSUME NEW t \in Talks, DropSender(t) \/ DropReceiver(t) \/ DropFails(t) PROVE ConversationTypeOK'
  BY <1>2 DEF DropSender, DropReceiver, DropFails
<1>3. ASSUME NEW q \in Queries, ListExists(q) \/ DeleteList(q) \/ AddList(q) \/ ExpireList(q)
      PROVE  ConversationTypeOK'
  <2>1. CASE ListExists(q)
    BY <2>1 DEF ListExists
  <2>2. CASE DeleteList(q)
    BY <2>2 DEF DeleteList
  <2>3. CASE AddList(q)
    BY <2>3 DEF AddList
  <2>4. CASE ExpireList(q)
    BY <2>4 DEF ExpireList
  <2> QED
    BY <1>3, <2>1, <2>2, <2>3, <2>4
<1>4. ASSUME NEW q \in Queries, ReadMembers(q) PROVE ConversationTypeOK'
  <2>1. PICK part \in SUBSET Users : /\ partners' = [partners EXCEPT ![q] = part]
                                     /\ missed' = [missed EXCEPT ![Asker[q]] = LeftOut(Asker[q], part)]
    BY <1>4 DEF ReadMembers, kSubset
  <2>2. LeftOut(Asker[q], part) \subseteq Users
    BY DEF LeftOut
  <2> QED
    BY <1>4, <2>1, <2>2 DEF ReadMembers
<1>5. ASSUME NEW q \in Queries, FindPartners(q) PROVE ConversationTypeOK'
  <2>1. Top(Asker[q]) \subseteq Users
    BY TopOfPartners
  <2> QED
    BY <1>5, <2>1 DEF FindPartners
<1>6. ASSUME NEW u \in Users, ListExpires(u) PROVE ConversationTypeOK'
  BY <1>6 DEF ListExpires
<1>7. ASSUME NEW h \in Handlers, Emit(h) PROVE ConversationTypeOK'
  BY <1>7 DEF Emit
<1>8. ASSUME NEW h \in Handlers, NEW pc \in {"register", "idle"}, GoBroadcast(h, pc)
      PROVE  ConversationTypeOK'
  BY <1>8 DEF GoBroadcast
<1>9. CASE Crash
  BY <1>9 DEF Crash
<1>10. CASE UNCHANGED convVars
  BY <1>10 DEF convVars
<1> QED
  BY <1>1, <1>2, <1>3, <1>4, <1>5, <1>6, <1>7, <1>8, <1>9, <1>10, PartnersStepCases

\* A step changes what sockets were told by announcing, closing one or stopping only.
LEMMA ToldChanges ==
  ASSUME [Next]_vars
  PROVE  \/ told' = told
         \/ \E s \in Sockets : Disconnect(s)
         \/ \E h \in Handlers : Emit(h)
         \/ Crash
BY PresenceStepCases DEF Connect, AddOnlineUser, Register, presenceVars

LEMMA ToldTypeStep ==
  ASSUME told \in [Users -> [Sockets -> Statuses]], [Next]_vars
  PROVE  told' \in [Users -> [Sockets -> Statuses]]
<1>1. ASSUME NEW s \in Sockets, Disconnect(s) PROVE told' \in [Users -> [Sockets -> Statuses]]
  BY <1>1 DEF Disconnect, Close, Statuses
<1>2. ASSUME NEW h \in Handlers, Emit(h) PROVE told' \in [Users -> [Sockets -> Statuses]]
  <2>1. h[2] \in Statuses
    BY DEF Handlers, Statuses
  <2> QED
    BY <1>2, <2>1 DEF Emit, Tell
<1>3. CASE Crash
  BY <1>3 DEF Crash, Statuses
<1> QED
  BY <1>1, <1>2, <1>3, ToldChanges

\* A step preserves the types of what the handlers keep.
LEMMA PresenceTypeStep == TypeOK /\ [Next]_vars => TypeOK'
<1> SUFFICES ASSUME TypeOK, [Next]_vars PROVE TypeOK'
  OBVIOUS
<1> DEFINE Rest == /\ closed \subseteq Sockets /\ online \subseteq Users
                   /\ crashes \in 0..MaxCrashes
                   /\ crossed \subseteq Users /\ disturbed \subseteq Users /\ hasty \subseteq Sockets
<1>1. ConversationTypeOK'
  BY ConversationTypeStep DEF TypeOK
<1>2. HandlerType /\ HandlerType'
  BY HandlerTypeStep, CrashesAssumption DEF TypeOK, HandlerType
<1>3. Rest'
  <2> USE HandlerFacts, CrashesAssumption DEF TypeOK, Marked
  <2>1. ASSUME NEW s \in Sockets, Connect(s) \/ AddOnlineUser(s) \/ Register(s) PROVE Rest'
    BY <2>1 DEF Connect, AddOnlineUser, Register
  <2>2. ASSUME NEW s \in Sockets, Disconnect(s) PROVE Rest'
    BY <2>2 DEF Disconnect, Close
  <2>3. ASSUME NEW h \in Handlers, Emit(h) PROVE Rest'
    BY <2>3 DEF Emit
  <2>4. CASE Crash
    BY <2>4 DEF Crash
  <2>5. CASE UNCHANGED presenceVars
    BY <2>5 DEF presenceVars
  <2> QED
    BY <2>1, <2>2, <2>3, <2>4, <2>5, PresenceStepCases
<1>4. told' \in [Users -> [Sockets -> Statuses]]
  BY ToldTypeStep DEF TypeOK
<1> QED
  BY <1>1, <1>2, <1>3, <1>4 DEF TypeOK, HandlerType

\* Every variable keeps its type, whatever handlers, messages and crashes do.
THEOREM TypeCorrect == Spec => []TypeOK
BY TypeInit, PresenceTypeStep, PTL DEF Spec

-------------------------------------------------------------------------------
\* Who is told.

\* The lists in the cache and in the hands of the queries hold partners only: stale lists
\* lack some, but a conversation is never deleted.
ListsOfPartners ==
  /\ \A u \in Users : cache[u] \subseteq PartnersOf(u)
  /\ \A q \in Queries : partners[q] \subseteq PartnersOf(Asker[q])

\* A step puts only partners into a list.
LEMMA ListsStep == TypeOK /\ ListsOfPartners /\ [Next]_vars => ListsOfPartners'
<1> SUFFICES ASSUME TypeOK, ListsOfPartners, [Next]_vars PROVE ListsOfPartners'
  OBVIOUS
<1>1. /\ \A u \in Users : PartnersOf(u) \subseteq PartnersOf(u)'
      /\ \A u \in Users : Top(u) \subseteq PartnersOf(u)
  BY ConversationsStay, TopOfPartners DEF TypeOK, ConversationTypeOK
<1>2. /\ cache \in [Users -> SUBSET Users] /\ partners \in [Queries -> SUBSET Users]
      /\ \A q \in Queries : Asker[q] \in Users
  BY QueriesAssumption DEF TypeOK, ConversationTypeOK
<1>3. ASSUME \A u \in Users : cache'[u] \subseteq PartnersOf(u),
             \A q \in Queries : partners'[q] \subseteq PartnersOf(Asker[q])
      PROVE  ListsOfPartners'
  BY <1>1, <1>2, <1>3 DEF ListsOfPartners
<1> USE <1>2, TalkFacts, HandlerFacts DEF ListsOfPartners
<1>4. ASSUME NEW t \in Talks, OpenConversation(t) \/ Refused(t) \/ UpdateConversation(t) \/ DropFails(t)
      PROVE  ListsOfPartners'
  BY <1>3, <1>4 DEF OpenConversation, Refused, UpdateConversation, DropFails
<1>5. ASSUME NEW t \in Talks, DropSender(t) \/ DropReceiver(t) PROVE ListsOfPartners'
  BY <1>3, <1>5 DEF DropSender, DropReceiver, Invalidate
<1>6. ASSUME NEW q \in Queries, ListExists(q) \/ DeleteList(q) \/ AddList(q) \/ ExpireList(q)
      PROVE  ListsOfPartners'
  BY <1>3, <1>6 DEF ListExists, DeleteList, AddList, ExpireList
<1>7. ASSUME NEW q \in Queries, ReadMembers(q) PROVE ListsOfPartners'
  <2>1. PICK part \in SUBSET cache[Asker[q]] : partners' = [partners EXCEPT ![q] = part]
    BY <1>7 DEF ReadMembers, kSubset
  <2> QED
    BY <1>3, <1>7, <2>1 DEF ReadMembers
<1>8. ASSUME NEW q \in Queries, FindPartners(q) PROVE ListsOfPartners'
  BY <1>1, <1>3, <1>8 DEF FindPartners
<1>9. ASSUME NEW u \in Users, ListExpires(u) PROVE ListsOfPartners'
  BY <1>3, <1>9 DEF ListExpires
<1>10. ASSUME NEW h \in Handlers, Emit(h) PROVE ListsOfPartners'
  BY <1>3, <1>10 DEF Emit
<1>11. ASSUME NEW h \in Handlers, NEW pc \in {"register", "idle"}, GoBroadcast(h, pc)
       PROVE  ListsOfPartners'
  BY <1>3, <1>11 DEF GoBroadcast
<1>12. CASE Crash \/ UNCHANGED convVars
  BY <1>3, <1>12 DEF Crash, convVars
<1> QED
  BY <1>4, <1>5, <1>6, <1>7, <1>8, <1>9, <1>10, <1>11, <1>12, PartnersStepCases

\* An announcement goes to the entries of partners, and an entry is a socket of its user.
LEMMA ReachedArePartners ==
  ASSUME TypeOK, GhostInv, ListsOfPartners, NEW h \in Handlers, NEW s \in Reached(h)
  PROVE  Owner[s] \in partners[h] /\ Owner[s] \in PartnersOf(Asker[h])
<1>1. PICK p \in partners[h] : s = clients[p] /\ s \in open
  BY DEF Reached
<1>2. p \in Users /\ p \in PartnersOf(Asker[h]) /\ s # NoSocket
  BY <1>1, HandlerFacts DEF TypeOK, ConversationTypeOK, ListsOfPartners
<1> QED
  BY <1>1, <1>2 DEF GhostInv, EntryOfOwner, Registered

LEMMA ToldToPartnersStep ==
  TypeOK /\ GhostInv /\ ListsOfPartners /\ PresenceToPartnersOnly /\ [Next]_vars
    => PresenceToPartnersOnly'
<1> SUFFICES ASSUME TypeOK, GhostInv, ListsOfPartners, PresenceToPartnersOnly, [Next]_vars,
                    NEW u \in Users, NEW s \in Sockets, told'[u][s] # "nothing"
             PROVE  Owner[s] \in PartnersOf(u)'
  BY DEF PresenceToPartnersOnly
<1>1. PartnersOf(u) \subseteq PartnersOf(u)'
  BY ConversationsStay DEF TypeOK, ConversationTypeOK
<1>2. CASE told'[u][s] = told[u][s]
  BY <1>1, <1>2 DEF PresenceToPartnersOnly
<1>3. ASSUME NEW h \in Handlers, Emit(h), told'[u][s] # told[u][s] PROVE Owner[s] \in PartnersOf(u)'
  <2>1. u = Asker[h] /\ s \in Reached(h)
    BY <1>3 DEF Emit, Tell, TypeOK
  <2> QED
    BY <1>1, <2>1, ReachedArePartners
<1>4. ASSUME NEW z \in Sockets, Disconnect(z) PROVE told'[u][s] = told[u][s]
  BY <1>4 DEF Disconnect, Close, TypeOK
<1>5. ~Crash
  BY DEF Crash
<1> QED
  BY <1>2, <1>3, <1>4, <1>5, ToldChanges

\* Whether somebody is online is told only to users with a conversation with them.
THEOREM OnlyPartnersAreTold == Spec => []PresenceToPartnersOnly
<1>1. Init => GhostInv /\ ListsOfPartners /\ PresenceToPartnersOnly
  <2> SUFFICES ASSUME Init PROVE GhostInv /\ ListsOfPartners /\ PresenceToPartnersOnly
    OBVIOUS
  <2>1. GhostInv
    BY HandlerFacts DEF Init, GhostInv, NoGhost, EntryOfOwner, RegisteringSocket, Registered
  <2>2. ListsOfPartners /\ PresenceToPartnersOnly
    BY QueriesAssumption DEF Init, ConversationInit, ListsOfPartners, PresenceToPartnersOnly
  <2> QED
    BY <2>1, <2>2
<1>2. TypeOK => HandlerType
  BY CrashesAssumption DEF TypeOK, HandlerType
<1>3. /\ TypeOK /\ GhostInv /\ ListsOfPartners /\ PresenceToPartnersOnly /\ [Next]_vars
         => (GhostInv /\ ListsOfPartners /\ PresenceToPartnersOnly)'
  BY <1>2, GhostStep, ListsStep, ToldToPartnersStep
<1> QED
  BY <1>1, <1>3, TypeCorrect, PTL DEF Spec

-------------------------------------------------------------------------------
\* What they were told is so.

\* findMany has a limit, so that slice takes all of an undisturbed list.
LEMMA TopFits ==
  ASSUME recent \in [Users -> Seq(Users)], NEW u \in Users
  PROVE  Cardinality(Top(u)) <= Limit
<1>1. recent[u] \in Seq(Users) /\ Len(recent[u]) \in Nat /\ Limit \in Nat
  BY LimitAssumption
<1> DEFINE k == IF Len(recent[u]) < Limit THEN Len(recent[u]) ELSE Limit
           top == SubSeq(recent[u], 1, k)
<1>2. k \in 0..Len(recent[u]) /\ k <= Limit
  BY <1>1
<1>3. top \in Seq(Users) /\ DOMAIN top = 1..k
  BY <1>1, <1>2
<1>4. Top(u) = {top[i] : i \in 1..k}
  BY <1>3 DEF Top, ToSet
<1> HIDE DEF k, top
<1>5. k \in Nat
  BY <1>1, <1>2
<1>6. [i \in 1..k |-> top[i]] \in Surjection(1..k, Top(u))
  BY <1>4 DEF Surjection
<1>7. Cardinality(Top(u)) <= k
  BY <1>5, <1>6, FS_SurjCardinalityBound DEF ExistsSurjection
<1>8. IsFiniteSet(Top(u)) /\ Cardinality(Top(u)) \in Nat
  BY <1>5, <1>6, FS_Surjection, FS_Interval, FS_CardinalityType
<1> QED
  BY <1>1, <1>2, <1>5, <1>7, <1>8

\* A query runs while its handler broadcasts.
AsksInBroadcast == \A h \in Handlers : ask[h] \notin {"idle", "done"} => handler[h] = "broadcast"

\* What a handler will announce is so, and it is the only one of its user to announce.
AnnounceTruth ==
  \A u \in Users \ crossed : \A h \in OfUser(u) : handler[h] = "broadcast" =>
    /\ Registered(u) <=> h[2] = "on"
    /\ \A g \in OfUser(u) : handler[g] = "broadcast" => g = h

\* The answer to a query names all who were not left out.
Answering == {"del", "sadd", "expire", "answered"}

AnswerKnowsAll ==
  \A u \in Users \ crossed : \A h \in OfUser(u) :
    ask[h] \in Answering => Users \ missed[u] \subseteq partners[h]

\* Only sockets that are open, and have been an entry of clients, were told anything.
ToldSockets ==
  /\ \A u \in Users : Registered(u) => handler[<<clients[u], "on">>] \in {"broadcast", "done"}
  /\ \A s \in Sockets : s \notin open \/ handler[<<s, "on">>] \in {"idle", "find", "register"} =>
       \A u \in Users : told[u][s] = "nothing"

ToldInv == AsksInBroadcast /\ AnnounceTruth /\ AnswerKnowsAll /\ ToldSockets /\ LastToldTrue

\* What the next lemmas need of TypeOK.
ToldType ==
  /\ clients \in [Users -> Sockets \cup {NoSocket}]
  /\ handler \in [Handlers -> {"idle", "find", "register", "broadcast", "done"}]
  /\ DOMAIN ask = Handlers /\ ask = [h \in Handlers |-> ask[h]]
  /\ DOMAIN partners = Handlers /\ partners = [h \in Handlers |-> partners[h]]
  /\ DOMAIN missed = Users /\ missed = [u \in Users |-> missed[u]]

LEMMA ToldTypes == TypeOK => ToldType
BY HandlerFacts DEF TypeOK, ConversationTypeOK, ToldType

\* The counters of handlers and queries go together.
LEMMA AsksStep ==
  ASSUME ToldType, AsksInBroadcast, [Next]_vars
  PROVE  AsksInBroadcast'
<1> USE HandlerFacts DEF ToldType, AsksInBroadcast
<1>1. ASSUME NEW s \in Sockets, Connect(s) \/ AddOnlineUser(s) PROVE AsksInBroadcast'
  BY <1>1 DEF Connect, AddOnlineUser, GoHandler, convVars
<1>2. ASSUME NEW s \in Sockets, Register(s) PROVE AsksInBroadcast'
  BY <1>2 DEF Register, GoBroadcast, GoHandler
<1>3. ASSUME NEW s \in Sockets, Disconnect(s) PROVE AsksInBroadcast'
  BY <1>3 DEF Disconnect, GoBroadcast, GoHandler, convVars
<1>4. ASSUME NEW h \in Handlers, Emit(h) PROVE AsksInBroadcast'
  BY <1>4 DEF Emit, GoHandler
<1>5. CASE Crash
  BY <1>5 DEF Crash
<1>6. CASE UNCHANGED vars
  BY <1>6 DEF vars, convVars, presenceVars
<1>7. CASE ConversationNext /\ UNCHANGED presenceVars
  <2>1. ASSUME NEW h \in Handlers, ask'[h] # ask[h] PROVE ask[h] \notin {"idle", "done"}
    BY <1>7, <2>1
    DEF ConversationNext, OpenConversation, Refused, UpdateConversation, DropSender, DropReceiver,
        DropFails, ListExists, ReadMembers, FindPartners, DeleteList, AddList, ExpireList,
        ListExpires, GoAsk
  <2>2. handler' = handler
    BY <1>7 DEF presenceVars
  <2> QED
    BY <2>1, <2>2
<1> QED
  BY <1>1, <1>2, <1>3, <1>4, <1>5, <1>6, <1>7 DEF Next

\* A user who comes or goes is announced by one handler, or has crossed.
LEMMA AnnounceTruthStep ==
  ASSUME ToldType, AnnounceTruth, [Next]_vars
  PROVE  AnnounceTruth'
<1> USE HandlerFacts DEF ToldType, AnnounceTruth, Registered, OfUser
<1>1. ASSUME NEW s \in Sockets, Connect(s) PROVE AnnounceTruth'
  BY <1>1 DEF Connect, GoHandler
<1>2. ASSUME NEW s \in Sockets, AddOnlineUser(s) PROVE AnnounceTruth'
  BY <1>2 DEF AddOnlineUser, GoHandler
<1>3. ASSUME NEW s \in Sockets, NEW h \in Handlers, h[1] = s,
             handler' = [handler EXCEPT ![h] = "broadcast"],
             crossed' = Marked(crossed, Owner[s], Announcing(Owner[s])),
             NEW z \in Sockets \cup {NoSocket}, clients' = [clients EXCEPT ![Owner[s]] = z],
             z # NoSocket <=> h[2] = "on"
      PROVE  AnnounceTruth'
  <2>1. ASSUME NEW u \in Users \ crossed', u # Owner[s], NEW g \in OfUser(u), handler'[g] = "broadcast"
        PROVE  /\ Registered(u)' <=> g[2] = "on"
               /\ \A f \in OfUser(u) : handler'[f] = "broadcast" => f = g
    <3>1. u \notin crossed /\ clients'[u] = clients[u]
      BY <1>3, <2>1 DEF Marked
    <3>2. \A f \in OfUser(u) : handler'[f] = handler[f]
      BY <1>3, <2>1
    <3> QED
      BY <2>1, <3>1, <3>2
  <2>2. ASSUME Owner[s] \notin crossed', NEW g \in OfUser(Owner[s]), handler'[g] = "broadcast"
        PROVE  /\ Registered(Owner[s])' <=> g[2] = "on"
               /\ \A f \in OfUser(Owner[s]) : handler'[f] = "broadcast" => f = g
    <3>1. \A f \in OfUser(Owner[s]) : handler[f] # "broadcast"
      BY <1>3, <2>2 DEF Marked, Announcing
    <3>2. \A f \in OfUser(Owner[s]) : handler'[f] = "broadcast" => f = h
      BY <1>3, <3>1
    <3>3. Registered(Owner[s])' <=> h[2] = "on"
      BY <1>3
    <3> QED
      BY <2>2, <3>2, <3>3
  <2> QED
    BY <2>1, <2>2
<1>4. ASSUME NEW s \in Sockets, Register(s) PROVE AnnounceTruth'
  <2> DEFINE h == <<s, "on">>
  <2>1. h \in Handlers /\ h[1] = s /\ h[2] = "on"
    BY HandlerPairs
  <2>2. /\ handler' = [handler EXCEPT ![h] = "broadcast"]
        /\ crossed' = Marked(crossed, Owner[s], Announcing(Owner[s]))
        /\ clients' = [clients EXCEPT ![Owner[s]] = s]
    BY <1>4 DEF Register, GoBroadcast, GoHandler
  <2>3. s \in Sockets \cup {NoSocket} /\ s # NoSocket
    BY <1>4
  <2> HIDE DEF h
  <2> HIDE DEF AnnounceTruth, ToldType, Registered, OfUser
  <2> QED
    BY <1>3, <2>1, <2>2, <2>3
<1>5. ASSUME NEW s \in Sockets, Disconnect(s), Registered(Owner[s]) PROVE AnnounceTruth'
  BY <1>3, <1>5, HandlerPairs DEF Disconnect, GoBroadcast, GoHandler
<1>6. ASSUME NEW s \in Sockets, Disconnect(s), ~Registered(Owner[s]) PROVE AnnounceTruth'
  BY <1>6 DEF Disconnect, GoHandler
<1>7. ASSUME NEW h \in Handlers, Emit(h) PROVE AnnounceTruth'
  BY <1>7 DEF Emit, GoHandler
<1>8. CASE Crash
  BY <1>8 DEF Crash
<1>9. CASE UNCHANGED presenceVars
  BY <1>9 DEF presenceVars
<1> QED
  BY <1>1, <1>2, <1>4, <1>5, <1>6, <1>7, <1>8, <1>9, PresenceStepCases

\* What sockets know goes with their handlers and entries.
LEMMA ToldSocketsStep ==
  ASSUME TypeOK, GhostInv, ToldSockets, [Next]_vars
  PROVE  ToldSockets'
<1> USE HandlerFacts DEF ToldSockets, Registered
<1>0. HandlerType /\ told \in [Users -> [Sockets -> Statuses]]
  BY CrashesAssumption DEF TypeOK, HandlerType
<1> USE <1>0 DEF HandlerType
<1>1. ASSUME NEW s \in Sockets, Connect(s) PROVE ToldSockets'
  BY <1>1 DEF Connect, GoHandler
<1>2. ASSUME NEW s \in Sockets, AddOnlineUser(s) PROVE ToldSockets'
  <2>1. /\ UNCHANGED <<clients, open, told>>
        /\ handler[<<s, "on">>] = "find"
        /\ \/ handler' = [handler EXCEPT ![<<s, "on">>] = "done"]
           \/ handler' = [handler EXCEPT ![<<s, "on">>] = "register"]
    BY <1>2 DEF AddOnlineUser, GoHandler
  <2>2. ASSUME NEW u \in Users, Registered(u)'
        PROVE  handler'[<<clients'[u], "on">>] \in {"broadcast", "done"}
    <3> DEFINE g == <<clients[u], "on">>
    <3>0. clients'[u] = clients[u] /\ clients[u] # NoSocket /\ clients[u] \in Sockets
      BY <2>1, <2>2
    <3>1. g \in Handlers /\ handler[g] \in {"broadcast", "done"}
      BY <3>0
    <3>2. g # <<s, "on">>
      BY <2>1, <3>1
    <3>3. handler'[g] = handler[g]
      BY <2>1, <3>1, <3>2
    <3> QED
      BY <2>1, <3>1, <3>3
  <2>3. \A z \in Sockets :
           handler'[<<z, "on">>] \in {"idle", "find", "register"}
             => handler[<<z, "on">>] \in {"idle", "find", "register"}
    BY <2>1
  <2> QED
    BY <2>1, <2>2, <2>3
<1>3. ASSUME NEW s \in Sockets, Register(s) PROVE ToldSockets'
  BY <1>3 DEF Register, GoBroadcast, GoHandler
<1>4. ASSUME NEW s \in Sockets, Disconnect(s) PROVE ToldSockets'
  <2>1. /\ open' = open \ {s}
        /\ told' = [u \in Users |-> [told[u] EXCEPT ![s] = "nothing"]]
        /\ \A u \in Users : clients'[u] \in {clients[u], NoSocket}
        /\ \A z \in Sockets : handler'[<<z, "on">>] = handler[<<z, "on">>]
    BY <1>4 DEF Disconnect, Close, GoBroadcast, GoHandler
  <2>2. \A u \in Users, z \in Sockets : told'[u][z] = IF z = s THEN "nothing" ELSE told[u][z]
    BY <2>1
  <2>3. \A u \in Users : Registered(u)' => handler'[<<clients'[u], "on">>] \in {"broadcast", "done"}
    BY <2>1
  <2>4. ASSUME NEW z \in Sockets, z \notin open' \/ handler'[<<z, "on">>] \in {"idle", "find", "register"},
               NEW u \in Users
        PROVE  told'[u][z] = "nothing"
    BY <2>1, <2>2, <2>4
  <2> QED
    BY <2>3, <2>4
<1>5. ASSUME NEW h \in Handlers, Emit(h) PROVE ToldSockets'
  <2>1. /\ clients' = clients /\ open' = open
        /\ handler' = [handler EXCEPT ![h] = "done"] /\ handler[h] = "broadcast"
    BY <1>5 DEF Emit, GoHandler
  <2>2. \A u \in Users, z \in Sockets : z \notin Reached(h) => told'[u][z] = told[u][z]
    BY <1>5 DEF Emit, Tell
  <2>3. ASSUME NEW z \in Reached(h)
        PROVE  z \in open /\ handler[<<z, "on">>] \in {"broadcast", "done"}
    <3>1. PICK p \in partners[h] : z = clients[p] /\ z \in open
      BY DEF Reached
    <3>2. p \in Users /\ Registered(p)
      BY <3>1 DEF TypeOK, ConversationTypeOK
    <3> QED
      BY <3>1, <3>2
  <2> QED
    BY <2>1, <2>2, <2>3
<1>6. CASE Crash
  BY <1>6 DEF Crash
<1>7. CASE UNCHANGED presenceVars
  BY <1>7 DEF presenceVars
<1> QED
  BY <1>1, <1>2, <1>3, <1>4, <1>5, <1>6, <1>7, PresenceStepCases

\* An answer names those who were not left out.
LEMMA AnswerStep ==
  ASSUME TypeOK, PartnersFresh, AsksInBroadcast, AnnounceTruth, AnswerKnowsAll, [Next]_vars
  PROVE  AnswerKnowsAll'
<1> USE HandlerFacts DEF AnswerKnowsAll, OfUser
<1>0. ToldType
  BY ToldTypes
<1>1. ASSUME NEW q \in Handlers, NEW answer,
             ask[q] \notin {"idle", "done"},
             \A g \in Handlers \ {q} : ask'[g] = ask[g] /\ partners'[g] = partners[g],
             partners'[q] = answer, Users \ missed'[Asker[q]] \subseteq answer,
             \A u \in Users \ {Asker[q]} : missed'[u] = missed[u],
             UNCHANGED presenceVars
      PROVE  AnswerKnowsAll'
  <2> SUFFICES ASSUME NEW u \in Users \ crossed, NEW h \in OfUser(u), ask'[h] \in Answering
               PROVE  Users \ missed'[u] \subseteq partners'[h]
    BY <1>1 DEF presenceVars
  <2>1. CASE u # Asker[q]
    BY <1>1, <2>1
  <2>2. CASE h = q
    BY <1>1, <2>2
  <2>3. CASE u = Asker[q] /\ h # q
    <3>1. ask[h] \in Answering /\ ask[h] \notin {"idle", "done"}
      BY <1>1, <2>3 DEF Answering
    <3>2. handler[h] = "broadcast" /\ handler[q] = "broadcast"
      BY <1>1, <3>1 DEF AsksInBroadcast
    <3> QED
      BY <2>3, <3>2 DEF AnnounceTruth
  <2> QED
    BY <2>1, <2>2, <2>3
<1>2. ASSUME NEW q \in Handlers, ReadMembers(q), UNCHANGED presenceVars PROVE AnswerKnowsAll'
  <2> DEFINE u == Asker[q]
  <2>1. PICK part \in SUBSET cache[u] :
             /\ Cardinality(cache[u]) <= Limit => part = cache[u]
             /\ partners' = [partners EXCEPT ![q] = part]
             /\ missed' = [missed EXCEPT ![u] = LeftOut(u, part)]
    BY <1>2 DEF ReadMembers, kSubset
  <2>2. Users \ LeftOut(u, part) \subseteq part
    <3>1. CASE cache[u] = {} \/ u \in stale \/ Pending(u)
      BY <3>1 DEF LeftOut
    <3>2. CASE ~(cache[u] = {} \/ u \in stale \/ Pending(u))
      <4>1. cache[u] = Top(u)
        BY <3>2 DEF PartnersFresh
      <4>2. part = Top(u)
        BY <2>1, <4>1, TopFits DEF TypeOK, ConversationTypeOK
      <4> QED
        BY <3>2, <4>2 DEF LeftOut
    <3> QED
      BY <3>1, <3>2
  <2>3. /\ partners'[q] = part /\ missed'[u] = LeftOut(u, part)
        /\ \A g \in Handlers \ {q} : partners'[g] = partners[g]
        /\ \A v \in Users \ {u} : missed'[v] = missed[v]
    BY <1>0, <2>1 DEF ToldType
  <2>4. ask[q] = "members" /\ \A g \in Handlers \ {q} : ask'[g] = ask[g]
    BY <1>0, <1>2 DEF ReadMembers, GoAsk, ToldType
  <2> QED
    BY <1>1, <1>2, <2>2, <2>3, <2>4
<1>3. ASSUME NEW q \in Handlers, FindPartners(q), UNCHANGED presenceVars PROVE AnswerKnowsAll'
  <2>1. /\ partners'[q] = Top(Asker[q]) /\ missed'[Asker[q]] = Users \ Top(Asker[q])
        /\ \A g \in Handlers \ {q} : partners'[g] = partners[g] /\ ask'[g] = ask[g]
        /\ \A v \in Users \ {Asker[q]} : missed'[v] = missed[v]
        /\ ask[q] = "find"
    BY <1>0, <1>3 DEF FindPartners, GoAsk, ToldType
  <2> QED
    BY <1>1, <1>3, <2>1
<1>4. ASSUME missed' = missed, crossed' = crossed,
             \A h \in Handlers : ask'[h] \in Answering =>
                                   ask[h] \in Answering /\ partners'[h] = partners[h]
      PROVE  AnswerKnowsAll'
  BY <1>4
<1>5. ASSUME NEW s \in Sockets, Connect(s) \/ AddOnlineUser(s) PROVE AnswerKnowsAll'
  BY <1>4, <1>5 DEF Connect, AddOnlineUser, convVars
<1>6. ASSUME NEW s \in Sockets, NEW h \in Handlers, NEW pc, h[1] = s, GoBroadcast(h, pc),
             crossed' = Marked(crossed, Owner[s], Announcing(Owner[s]))
      PROVE  AnswerKnowsAll'
  <2>1. /\ missed' = missed /\ partners' = partners
        /\ ask'[h] = "exists" /\ \A g \in Handlers \ {h} : ask'[g] = ask[g]
    BY <1>0, <1>6 DEF GoBroadcast, ToldType
  <2> SUFFICES ASSUME NEW u \in Users \ crossed', NEW g \in OfUser(u), ask'[g] \in Answering
               PROVE  Users \ missed[u] \subseteq partners[g]
    BY <2>1
  <2>2. g # h /\ ask[g] \in Answering
    BY <2>1 DEF Answering
  <2>3. handler[g] = "broadcast"
    BY <2>2 DEF AsksInBroadcast, Answering
  <2>4. u # Owner[s]
    BY <1>6, <2>3 DEF Marked, Announcing
  <2> QED
    BY <1>6, <2>2, <2>4 DEF Marked
<1>7. ASSUME NEW s \in Sockets, Register(s) PROVE AnswerKnowsAll'
  BY <1>6, <1>7, HandlerPairs DEF Register
<1>8. ASSUME NEW s \in Sockets, Disconnect(s) PROVE AnswerKnowsAll'
  <2>1. CASE Registered(Owner[s])
    BY <1>6, <1>8, <2>1, HandlerPairs DEF Disconnect
  <2>2. CASE ~Registered(Owner[s])
    BY <1>4, <1>8, <2>2 DEF Disconnect, convVars
  <2> QED
    BY <2>1, <2>2
<1>9. ASSUME NEW h \in Handlers, Emit(h) PROVE AnswerKnowsAll'
  <2>1. ask' = [ask EXCEPT ![h] = "done"] /\ partners' = [partners EXCEPT ![h] = {}]
    BY <1>9 DEF Emit
  <2> QED
    BY <1>0, <1>4, <1>9, <2>1 DEF Emit, Answering, ToldType
<1>10. CASE Crash
  BY <1>10 DEF Crash, Answering
<1>11. CASE UNCHANGED convVars /\ UNCHANGED presenceVars
  BY <1>4, <1>11 DEF convVars, presenceVars
<1>12. ASSUME NEW t \in Talks, UNCHANGED presenceVars,
              \/ OpenConversation(t) \/ Refused(t) \/ UpdateConversation(t)
              \/ DropSender(t) \/ DropReceiver(t) \/ DropFails(t)
       PROVE  AnswerKnowsAll'
  BY <1>4, <1>12 DEF OpenConversation, Refused, UpdateConversation, DropSender, DropReceiver, DropFails,
                     presenceVars
<1>13. ASSUME NEW q \in Handlers, UNCHANGED presenceVars,
              ListExists(q) \/ DeleteList(q) \/ AddList(q) \/ ExpireList(q)
       PROVE  AnswerKnowsAll'
  <2>1. /\ ask'[q] \in Answering => ask[q] \in Answering
        /\ \A g \in Handlers \ {q} : ask'[g] = ask[g]
        /\ UNCHANGED <<partners, missed>>
    BY <1>0, <1>13 DEF ListExists, DeleteList, AddList, ExpireList, GoAsk, Answering, ToldType
  <2> QED
    BY <1>4, <1>13, <2>1 DEF presenceVars
<1>14. ASSUME NEW u \in Users, UNCHANGED presenceVars, ListExpires(u) PROVE AnswerKnowsAll'
  BY <1>4, <1>14 DEF ListExpires, presenceVars
<1> QED
  BY <1>2, <1>3, <1>5, <1>7, <1>8, <1>9, <1>10, <1>11, <1>12, <1>13, <1>14, PresenceStepCases
  DEF ConversationNext

\* The status of u that p may have been told.
Informed(u, p) ==
  Registered(p) => told[u][clients[p]] \in {"nothing", IF Registered(u) THEN "on" ELSE "off"}

\* An announcement reaches everybody with an entry who was not left out.
LEMMA EmitTells ==
  ASSUME TypeOK, ToldInv, NEW h \in Handlers, Emit(h), NEW u \in Users \ crossed, u = Asker[h],
         NEW p \in Users \ missed[u]
  PROVE  Informed(u, p)'
<1> SUFFICES ASSUME Registered(p)
             PROVE  told'[u][clients[p]] \in {"nothing", IF Registered(u) THEN "on" ELSE "off"}
  BY DEF Informed, Registered, Emit
<1>1. clients[p] \in Sockets /\ h \in OfUser(u) /\ h[2] \in {"on", "off"}
  BY HandlerFacts DEF TypeOK, Registered, OfUser, Handlers
<1>2. p \in partners[h]
  BY <1>1 DEF Emit, ToldInv, AnswerKnowsAll, Answering
<1>3. Registered(u) <=> h[2] = "on"
  BY <1>1 DEF Emit, GoHandler, ToldInv, AnnounceTruth
<1>4. told'[u][clients[p]] = IF clients[p] \in Reached(h) THEN h[2] ELSE told[u][clients[p]]
  BY <1>1 DEF Emit, Tell, TypeOK
<1>5. CASE clients[p] \in open
  BY <1>1, <1>2, <1>3, <1>4, <1>5 DEF Reached
<1>6. CASE clients[p] \notin open
  <2>1. told[u][clients[p]] = "nothing"
    BY <1>1, <1>6 DEF ToldInv, ToldSockets
  <2> QED
    BY <1>4, <1>6, <2>1 DEF Reached
<1> QED
  BY <1>5, <1>6

\* A step leaves nobody with a status that is no longer so.
LEMMA LastToldStep ==
  ASSUME TypeOK, ToldInv, [Next]_vars
  PROVE  LastToldTrue'
<1> SUFFICES ASSUME NEW u \in Users \ crossed', ~Announcing(u)', NEW p \in Users \ missed'[u]
             PROVE  Informed(u, p)'
  BY DEF LastToldTrue, Informed
<1> USE HandlerFacts
<1>0. /\ handler \in [Handlers -> {"idle", "find", "register", "broadcast", "done"}]
      /\ clients \in [Users -> Sockets \cup {NoSocket}]
      /\ told \in [Users -> [Sockets -> Statuses]]
      /\ missed \in [Users -> SUBSET Users]
  BY DEF TypeOK, ConversationTypeOK
<1>1. u \notin crossed /\ ~Announcing(u) /\ p \notin missed[u] => Informed(u, p)
  BY DEF ToldInv, LastToldTrue, Informed
<1>2. ASSUME u \notin crossed, ~Announcing(u), p \notin missed[u],
             Registered(u)' <=> Registered(u),
             Registered(p)' => \/ clients'[p] = clients[p] /\ told'[u][clients[p]] = told[u][clients[p]]
                               \/ told'[u][clients'[p]] = "nothing"
      PROVE  Informed(u, p)'
  BY <1>1, <1>2 DEF Informed, Registered
<1>3. ASSUME NEW s \in Sockets, Connect(s) PROVE Informed(u, p)'
  <2>1. UNCHANGED <<missed, crossed, clients, told>>
    BY <1>3 DEF Connect, convVars
  <2>2. Announcing(u)' <=> Announcing(u)
    BY <1>0, <1>3 DEF Connect, GoHandler, Announcing, OfUser
  <2> QED
    BY <1>2, <2>1, <2>2 DEF Registered
<1>4. ASSUME NEW s \in Sockets, AddOnlineUser(s) PROVE Informed(u, p)'
  <2>1. UNCHANGED <<missed, crossed, clients, told>>
    BY <1>4 DEF AddOnlineUser, convVars
  <2>2. Announcing(u)' <=> Announcing(u)
    BY <1>0, <1>4 DEF AddOnlineUser, GoHandler, Announcing, OfUser
  <2> QED
    BY <1>2, <2>1, <2>2 DEF Registered
<1>5. ASSUME NEW s \in Sockets, NEW h \in Handlers, h[1] = s, GoBroadcast(h, handler[h]),
             crossed' = Marked(crossed, Owner[s], Announcing(Owner[s]))
      PROVE  /\ u # Owner[s] /\ missed' = missed
             /\ u \notin crossed /\ ~Announcing(u)
  <2>1. handler' = [handler EXCEPT ![h] = "broadcast"] /\ missed' = missed
    BY <1>5 DEF GoBroadcast, GoHandler
  <2>2. Announcing(Owner[s])'
    BY <1>0, <1>5, <2>1 DEF Announcing, OfUser
  <2>3. u # Owner[s]
    BY <2>2
  <2>4. Announcing(u)' <=> Announcing(u)
    BY <1>0, <1>5, <2>1, <2>3 DEF Announcing, OfUser
  <2> QED
    BY <1>5, <2>1, <2>3, <2>4 DEF Marked
<1>6. ASSUME NEW s \in Sockets, Register(s) PROVE Informed(u, p)'
  <2>1. GoBroadcast(<<s, "on">>, handler[<<s, "on">>])
    BY <1>6 DEF Register, GoBroadcast, GoHandler
  <2>2. /\ u # Owner[s] /\ missed' = missed
        /\ u \notin crossed /\ ~Announcing(u)
    BY <1>5, <1>6, <2>1, HandlerPairs DEF Register
  <2>3. clients' = [clients EXCEPT ![Owner[s]] = s] /\ told' = told /\ handler[<<s, "on">>] = "register"
    BY <1>6 DEF Register, GoBroadcast, GoHandler
  <2>4. told[u][s] = "nothing"
    BY <2>3 DEF ToldInv, ToldSockets
  <2>5. CASE p = Owner[s]
    BY <1>0, <1>2, <2>2, <2>3, <2>4, <2>5 DEF Registered
  <2>6. CASE p # Owner[s]
    BY <1>0, <1>2, <2>2, <2>3, <2>6 DEF Registered
  <2> QED
    BY <2>5, <2>6
<1>7. ASSUME NEW s \in Sockets, Disconnect(s) PROVE Informed(u, p)'
  <2>1. /\ \A v \in Users, z \in Sockets : told'[v][z] = IF z = s THEN "nothing" ELSE told[v][z]
        /\ \A v \in Users : clients'[v] = clients[v] \/ clients'[v] = NoSocket
    BY <1>0, <1>7 DEF Disconnect, Close
  <2>2. /\ u \notin crossed /\ ~Announcing(u) /\ missed' = missed
        /\ Registered(u)' <=> Registered(u)
    <3>1. CASE Registered(Owner[s])
      <4>1. GoBroadcast(<<s, "off">>, handler[<<s, "off">>])
        BY <1>7, <3>1 DEF Disconnect, GoBroadcast, GoHandler
      <4>2. /\ crossed' = Marked(crossed, Owner[s], Announcing(Owner[s]))
            /\ clients' = [clients EXCEPT ![Owner[s]] = NoSocket]
        BY <1>7, <3>1 DEF Disconnect
      <4> QED
        BY <1>0, <1>5, <4>1, <4>2, HandlerPairs DEF Registered
    <3>2. CASE ~Registered(Owner[s])
      <4>1. UNCHANGED <<missed, crossed, clients>>
        BY <1>7, <3>2 DEF Disconnect, convVars
      <4>2. Announcing(u)' <=> Announcing(u)
        BY <1>0, <1>7, <3>2 DEF Disconnect, GoHandler, Announcing, OfUser
      <4> QED
        BY <4>1, <4>2 DEF Registered
    <3> QED
      BY <3>1, <3>2
  <2>3. Registered(p)' => /\ clients'[p] = clients[p] /\ clients[p] \in Sockets
    BY <1>0, <2>1 DEF Registered
  <2> QED
    BY <1>2, <2>1, <2>2, <2>3
<1>8. ASSUME NEW h \in Handlers, Emit(h) PROVE Informed(u, p)'
  <2>1. crossed' = crossed /\ clients' = clients /\ missed' = missed
    BY <1>8 DEF Emit
  <2>2. CASE u = Asker[h]
    BY <1>8, <2>1, <2>2, EmitTells
  <2>3. CASE u # Asker[h]
    <3>1. told'[u] = told[u]
      BY <1>0, <1>8, <2>3 DEF Emit, Tell
    <3>2. Announcing(u)' <=> Announcing(u)
      BY <1>0, <1>8, <2>3 DEF Emit, GoHandler, Announcing, OfUser
    <3> QED
      BY <1>2, <2>1, <3>1, <3>2 DEF Registered
  <2> QED
    BY <2>2, <2>3
<1>9. CASE Crash
  BY <1>9 DEF Crash, Informed, Registered
<1>10. CASE (ConversationNext \/ UNCHANGED convVars) /\ UNCHANGED presenceVars
  <2>1. UNCHANGED <<crossed, clients, told, handler>>
    BY <1>10 DEF presenceVars
  <2>2. ~Announcing(u)
    BY <2>1 DEF Announcing
  <2>3. ASSUME NEW q \in Handlers, ask[q] \in {"members", "find"} PROVE Asker[q] # u
    <3>1. handler[q] = "broadcast"
      BY <2>3 DEF ToldInv, AsksInBroadcast
    <3> QED
      BY <2>2, <3>1 DEF Announcing, OfUser
  <2>4. missed'[u] = missed[u]
    BY <1>0, <1>10, <2>3
    DEF ConversationNext, OpenConversation, Refused, UpdateConversation, DropSender, DropReceiver,
        DropFails, ListExists, ReadMembers, FindPartners, DeleteList, AddList, ExpireList,
        ListExpires, GoAsk, convVars
  <2> QED
    BY <1>2, <2>1, <2>2, <2>4 DEF Registered
<1> QED
  BY <1>3, <1>4, <1>6, <1>7, <1>8, <1>9, <1>10, PresenceStepCases

\* Nobody with an entry is left with a status of a user that is no longer so, unless the
\* user's handlers crossed or the last answer about the user had a reason to leave them out.
THEOREM LastAnnouncementIsTrue == Spec => []LastToldTrue
<1>1. Init => GhostInv /\ ToldInv
  <2> SUFFICES ASSUME Init PROVE GhostInv /\ ToldInv
    OBVIOUS
  <2>1. GhostInv
    BY HandlerFacts DEF Init, GhostInv, NoGhost, EntryOfOwner, RegisteringSocket, Registered
  <2>2. /\ \A h \in Handlers : handler[h] = "idle" /\ ask[h] = "idle"
        /\ \A u \in Users : clients[u] = NoSocket
        /\ \A u \in Users, s \in Sockets : told[u][s] = "nothing"
    BY HandlerFacts DEF Init, ConversationInit
  <2> QED
    BY <2>1, <2>2
    DEF ToldInv, AsksInBroadcast, AnnounceTruth, AnswerKnowsAll, Answering, ToldSockets, LastToldTrue,
        Registered, OfUser
<1>2. TypeOK => HandlerType /\ ToldType
  BY ToldTypes, CrashesAssumption DEF TypeOK, HandlerType
<1>3. TypeOK /\ PartnersFresh /\ GhostInv /\ ToldInv /\ [Next]_vars => (GhostInv /\ ToldInv)'
  BY <1>2, GhostStep, AsksStep, AnnounceTruthStep, AnswerStep, ToldSocketsStep, LastToldStep DEF ToldInv
<1>4. ToldInv => LastToldTrue
  BY DEF ToldInv
<1> QED
  BY <1>1, <1>3, <1>4, TypeCorrect, CachedPartnersAreFresh, PTL DEF Spec
===============================================================================
