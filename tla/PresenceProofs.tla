----------------------------- MODULE PresenceProofs -----------------------------
(***************************************************************************)
(* Proofs about Presence, for any number of users, sockets, messages and   *)
(* crashes: which entries of clients and online_users may be wrong, and    *)
(* what the partners cache may hold and for how long.                      *)
(* Of recent and of the lists nothing is used but that Top(u) depends on   *)
(* recent[u] alone.                                                        *)
(***************************************************************************)
EXTENDS Presence, TLAPS

LEMMA HandlerFacts ==
  /\ Owner \in [Sockets -> Users] /\ NoSocket \notin Sockets
  /\ Queries = Handlers
  /\ \A s \in Sockets : <<s, "on">> \in Handlers /\ <<s, "off">> \in Handlers
  /\ \A h \in Handlers : Asker[h] = Owner[h[1]] /\ h[1] \in Sockets /\ Asker[h] \in Users
  BY HandlersAssumption DEF Handlers

LEMMA HandlerPairs ==
  \A s \in Sockets : /\ <<s, "on">>[1] = s /\ <<s, "off">>[1] = s
                     /\ <<s, "on">>[2] = "on" /\ <<s, "off">>[2] = "off"
  OBVIOUS

LEMMA TalkFacts ==
  \A t \in Talks : Sender[t] \in Users /\ Receiver[t] \in Users /\ Sender[t] # Receiver[t]
  BY TalksAssumption

\* What most proofs need of TypeOK.
HandlerType ==
  /\ open \subseteq Sockets
  /\ clients \in [Users -> Sockets \cup {NoSocket}]
  /\ handler \in [Handlers -> {"idle", "find", "register", "broadcast", "done"}]
  /\ crashes \in Nat

\* Every step is one of a handler, of a message, of a query or of a list, a crash or a stutter.
LEMMA PresenceStepCases ==
  ASSUME [Next]_vars
  PROVE  \/ \E s \in Sockets : Connect(s)
         \/ \E s \in Sockets : AddOnlineUser(s)
         \/ \E s \in Sockets : Register(s)
         \/ \E s \in Sockets : Disconnect(s)
         \/ \E h \in Handlers : Emit(h)
         \/ Crash
         \/ (ConversationNext \/ UNCHANGED convVars) /\ UNCHANGED presenceVars
  BY DEF Next, vars

LEMMA HandlerTypeInit == Init => HandlerType
  BY HandlerFacts DEF Init, HandlerType

LEMMA HandlerTypeStep ==
  ASSUME HandlerType, [Next]_vars
  PROVE  HandlerType'
<1> USE HandlerFacts DEF HandlerType
<1>1. ASSUME NEW s \in Sockets, Connect(s) PROVE HandlerType'
  BY <1>1 DEF Connect, GoHandler
<1>2. ASSUME NEW s \in Sockets, AddOnlineUser(s) PROVE HandlerType'
  BY <1>2 DEF AddOnlineUser, GoHandler
<1>3. ASSUME NEW s \in Sockets, Register(s) PROVE HandlerType'
  BY <1>3 DEF Register, GoBroadcast, GoHandler
<1>4. ASSUME NEW s \in Sockets, Disconnect(s) PROVE HandlerType'
  BY <1>4 DEF Disconnect, Close, GoBroadcast, GoHandler
<1>5. ASSUME NEW h \in Handlers, Emit(h) PROVE HandlerType'
  BY <1>5 DEF Emit, GoHandler
<1>6. CASE Crash
  BY <1>6 DEF Crash
<1>7. CASE UNCHANGED presenceVars
  BY <1>7 DEF presenceVars
<1> QED
  BY <1>1, <1>2, <1>3, <1>4, <1>5, <1>6, <1>7, PresenceStepCases

-------------------------------------------------------------------------------
\* The entries of clients.

\* An entry is a socket of its user.
EntryOfOwner == \A u \in Users : Registered(u) => Owner[clients[u]] = u

\* A socket that is being registered is open, or closed too early.
RegisteringSocket ==
  \A s \in Sockets : handler[<<s, "on">>] \in {"find", "register"} => s \in open \cup hasty

GhostInv == NoGhost /\ EntryOfOwner /\ RegisteringSocket

LEMMA GhostStep ==
  ASSUME HandlerType, GhostInv, [Next]_vars
  PROVE  GhostInv'
<1> USE HandlerFacts DEF HandlerType, GhostInv, NoGhost, EntryOfOwner, RegisteringSocket, Registered
<1>1. ASSUME NEW s \in Sockets, Connect(s) PROVE GhostInv'
  BY <1>1 DEF Connect, GoHandler
<1>2. ASSUME NEW s \in Sockets, AddOnlineUser(s) PROVE GhostInv'
  BY <1>2 DEF AddOnlineUser, GoHandler
<1>3. ASSUME NEW s \in Sockets, Register(s) PROVE GhostInv'
  BY <1>3 DEF Register, GoBroadcast, GoHandler
<1>4. ASSUME NEW s \in Sockets, Disconnect(s) PROVE GhostInv'
  <2>1. /\ open' = open \ {s}
        /\ hasty \subseteq hasty'
        /\ handler[<<s, "on">>] \in {"find", "register"} => s \in hasty'
    BY <1>4 DEF Disconnect, Close
  <2>2. clients[Owner[s]] = NoSocket \/ clients'[Owner[s]] = NoSocket
    BY <1>4 DEF Disconnect
  <2>3. \A u \in Users : clients'[u] \in {clients[u], NoSocket}
    BY <1>4 DEF Disconnect
  <2>4. \A z \in Sockets : handler'[<<z, "on">>] = handler[<<z, "on">>]
    BY <1>4 DEF Disconnect, GoBroadcast, GoHandler
  <2>5. NoGhost'
    BY <2>1, <2>2, <2>3
  <2>6. EntryOfOwner'
    BY <2>3
  <2>7. RegisteringSocket'
    BY <2>1, <2>4
  <2> QED
    BY <2>5, <2>6, <2>7
<1>5. ASSUME NEW h \in Handlers, Emit(h) PROVE GhostInv'
  BY <1>5 DEF Emit, GoHandler
<1>6. CASE Crash
  BY <1>6 DEF Crash
<1>7. CASE UNCHANGED presenceVars
  BY <1>7 DEF presenceVars
<1> QED
  BY <1>1, <1>2, <1>3, <1>4, <1>5, <1>6, <1>7, PresenceStepCases

\* An entry of clients whose socket is gone was left by a socket that closed before it was
\* registered.
THEOREM GhostsWereHasty == Spec => []NoGhost
<1>1. Init => HandlerType /\ GhostInv
  BY HandlerTypeInit, HandlerFacts
  DEF Init, GhostInv, NoGhost, EntryOfOwner, RegisteringSocket, Registered
<1>2. HandlerType /\ GhostInv /\ [Next]_vars => (HandlerType /\ GhostInv)'
  BY HandlerTypeStep, GhostStep
<1>3. GhostInv => NoGhost
  BY DEF GhostInv
<1> QED
  BY <1>1, <1>2, <1>3, PTL DEF Spec

-------------------------------------------------------------------------------
\* online_users

LEMMA OnlineStep ==
  ASSUME HandlerType, OnlineHasEntry, [Next]_vars
  PROVE  OnlineHasEntry'
<1> USE HandlerFacts DEF HandlerType, OnlineHasEntry, Registered, Registering, OfUser
<1>1. ASSUME NEW s \in Sockets, Connect(s) PROVE OnlineHasEntry'
  BY <1>1 DEF Connect, GoHandler
<1>2. ASSUME NEW s \in Sockets, AddOnlineUser(s) PROVE OnlineHasEntry'
  <2>1. CASE Registered(Owner[s])
    <3>1. /\ handler' = [handler EXCEPT ![<<s, "on">>] = "done"]
          /\ handler[<<s, "on">>] = "find"
          /\ UNCHANGED <<online, clients, disturbed>>
      BY <1>2, <2>1 DEF AddOnlineUser, GoHandler
    <3>2. \A u \in Users : Registering(u)' <=> Registering(u)
      BY <3>1
    <3> QED
      BY <3>1, <3>2
  <2>2. CASE ~Registered(Owner[s])
    <3>1. /\ handler' = [handler EXCEPT ![<<s, "on">>] = "register"]
          /\ handler[<<s, "on">>] = "find"
          /\ online' = online \cup {Owner[s]}
          /\ clients' = clients
          /\ \A u \in Users \ {Owner[s]} : u \in disturbed' <=> u \in disturbed
      BY <1>2, <2>2 DEF AddOnlineUser, GoHandler, Marked
    <3>2. Registering(Owner[s])'
      BY <3>1, HandlerPairs
    <3>3. \A u \in Users \ {Owner[s]} : Registering(u)' <=> Registering(u)
      BY <3>1
    <3> QED
      BY <3>1, <3>2, <3>3
  <2> QED
    BY <2>1, <2>2
<1>3. ASSUME NEW s \in Sockets, Register(s) PROVE OnlineHasEntry'
  <2>1. /\ handler' = [handler EXCEPT ![<<s, "on">>] = "broadcast"]
        /\ handler[<<s, "on">>] = "register"
        /\ online' = online /\ disturbed' = disturbed
        /\ clients' = [clients EXCEPT ![Owner[s]] = s]
    BY <1>3 DEF Register, GoBroadcast, GoHandler
  <2>2. Registering(Owner[s]) /\ Registered(Owner[s])'
    BY <2>1, HandlerPairs
  <2>3. \A u \in Users \ {Owner[s]} : Registering(u)' <=> Registering(u)
    BY <2>1
  <2> QED
    BY <2>1, <2>2, <2>3
<1>4. ASSUME NEW s \in Sockets, Disconnect(s) PROVE OnlineHasEntry'
  <2>0. /\ handler[<<s, "off">>] = "idle"
        /\ \/ handler' = [handler EXCEPT ![<<s, "off">>] = "broadcast"]
           \/ handler' = [handler EXCEPT ![<<s, "off">>] = "done"]
    BY <1>4 DEF Disconnect, GoBroadcast, GoHandler
  <2>1. \A u \in Users : Registering(u)' <=> Registering(u)
    BY <2>0
  <2> HIDE DEF Registering, OfUser
  <2>2. CASE Registered(Owner[s])
    <3>1. /\ clients' = [clients EXCEPT ![Owner[s]] = NoSocket]
          /\ online' = online \ {Owner[s]}
          /\ disturbed' = Marked(disturbed, Owner[s], Registering(Owner[s]))
      BY <1>4, <2>2 DEF Disconnect
    <3>2. Owner[s] \notin disturbed' => ~Registering(Owner[s])'
      BY <2>1, <3>1 DEF Marked
    <3>3. \A u \in Users \ {Owner[s]} : u \in disturbed' <=> u \in disturbed
      BY <3>1 DEF Marked
    <3>4. clients'[Owner[s]] = NoSocket /\ Owner[s] \notin online'
      BY <3>1
    <3>5. \A u \in Users \ {Owner[s]} : /\ clients'[u] = clients[u]
                                        /\ u \in online' <=> u \in online
      BY <3>1
    <3>6. ASSUME NEW u \in Users \ {Owner[s]}, u \notin disturbed'
          PROVE  u \in online' <=> Registered(u)' \/ Registering(u)'
      <4>1. Registering(u)' <=> Registering(u)
        BY <2>1
      <4>2. u \in online <=> Registered(u) \/ Registering(u)
        BY <3>3, <3>6
      <4>3. /\ u \in online' <=> u \in online
            /\ Registered(u)' <=> Registered(u)
        BY <3>5
      <4> QED
        BY <4>1, <4>2, <4>3
    <3>7. ASSUME Owner[s] \notin disturbed'
          PROVE  Owner[s] \notin online' /\ ~Registered(Owner[s])' /\ ~Registering(Owner[s])'
      BY <3>2, <3>4, <3>7
    <3> QED
      BY <3>6, <3>7
  <2>3. CASE ~Registered(Owner[s])
    <3>1. UNCHANGED <<clients, online, disturbed>>
      BY <1>4, <2>3 DEF Disconnect
    <3> QED
      BY <2>1, <3>1
  <2> QED
    BY <2>2, <2>3
<1>5. ASSUME NEW h \in Handlers, Emit(h) PROVE OnlineHasEntry'
  BY <1>5 DEF Emit, GoHandler
<1>6. CASE Crash
  BY <1>6 DEF Crash
<1>7. CASE UNCHANGED presenceVars
  BY <1>7 DEF presenceVars
<1> QED
  BY <1>1, <1>2, <1>3, <1>4, <1>5, <1>6, <1>7, PresenceStepCases

\* online_users agrees with clients for every user whose handlers did not cross and whom no
\* crash left behind.
THEOREM OnlineAgrees == Spec => []OnlineHasEntry
<1>1. Init => HandlerType /\ OnlineHasEntry
  BY HandlerTypeInit, HandlerFacts DEF Init, OnlineHasEntry, Registered, Registering, OfUser
<1>2. HandlerType /\ OnlineHasEntry /\ [Next]_vars => (HandlerType /\ OnlineHasEntry)'
  BY HandlerTypeStep, OnlineStep
<1> QED
  BY <1>1, <1>2, PTL DEF Spec

-------------------------------------------------------------------------------
\* The partners cache

CacheType ==
  /\ DOMAIN cache = Users /\ cache = [u \in Users |-> cache[u]]
  /\ talk \in [Talks -> {"idle", "created", "known", "dropSender", "dropReceiver", "done"}]
  /\ ask \in [Queries -> {"idle", "exists", "members", "find", "expire", "answered", "done"}
                         \cup Caching]
  /\ partners = [q \in Queries |-> partners[q]]

\* A list on its way to the cache is as recent as a list in the cache has to be.
Fresh(u) ==
  \/ u \in stale \/ Pending(u)
  \/ /\ cache[u] \in {Top(u), {}}
     /\ \A q \in Queries : Asker[q] = u /\ ask[q] \in Caching => partners[q] = Top(u)

FreshInv == \A u \in Users : Fresh(u)

LEMMA PartnersStepCases ==
  ASSUME [Next]_vars
  PROVE  \/ \E t \in Talks : OpenConversation(t)
         \/ \E t \in Talks : Refused(t)
         \/ \E t \in Talks : UpdateConversation(t)
         \/ \E t \in Talks : DropSender(t)
         \/ \E t \in Talks : DropReceiver(t)
         \/ \E t \in Talks : DropFails(t)
         \/ \E q \in Queries : ListExists(q)
         \/ \E q \in Queries : ReadMembers(q)
         \/ \E q \in Queries : FindPartners(q)
         \/ \E q \in Queries : DeleteList(q)
         \/ \E q \in Queries : AddList(q)
         \/ \E q \in Queries : ExpireList(q)
         \/ \E u \in Users : ListExpires(u)
         \/ \E h \in Handlers : Emit(h)
         \/ \E h \in Handlers, pc \in {"register", "idle"} : GoBroadcast(h, pc)
         \/ Crash
         \/ UNCHANGED convVars
<1>1. ASSUME NEW s \in Sockets, Connect(s) \/ AddOnlineUser(s) PROVE UNCHANGED convVars
  BY <1>1 DEF Connect, AddOnlineUser
<1>2. ASSUME NEW s \in Sockets, Register(s) \/ Disconnect(s)
      PROVE  \/ \E h \in Handlers, pc \in {"register", "idle"} : GoBroadcast(h, pc)
             \/ UNCHANGED convVars
  <2>1. CASE Register(s)
    BY <2>1, HandlerFacts DEF Register
  <2>2. CASE Disconnect(s)
    BY <2>2, HandlerFacts DEF Disconnect
  <2> QED
    BY <1>2, <2>1, <2>2
<1>3. CASE ConversationNext
  BY <1>3 DEF ConversationNext
<1> QED
  BY <1>1, <1>2, <1>3 DEF Next, vars

\* findMany depends on the user's own conversations only.
LEMMA TopFrame ==
  ASSUME NEW u \in Users, recent'[u] = recent[u]
  PROVE  Top(u)' = Top(u)
  BY DEF Top

\* A stamp changes the conversations of its two users only.
LEMMA StampFrame ==
  ASSUME NEW t \in Talks, Stamp(t), NEW u \in Users \ Pair(t)
  PROVE  Top(u)' = Top(u)
  BY TopFrame DEF Stamp, Pair

LEMMA CacheTypeStep ==
  ASSUME CacheType, [Next]_vars
  PROVE  CacheType'
<1> USE HandlerFacts, TalkFacts, QueriesAssumption DEF CacheType, Caching
<1>1. ASSUME NEW t \in Talks, OpenConversation(t) \/ Refused(t) \/ UpdateConversation(t) \/ DropFails(t)
      PROVE  CacheType'
  BY <1>1 DEF OpenConversation, Refused, UpdateConversation, DropFails, GoTalk
<1>2. ASSUME NEW t \in Talks, DropSender(t) \/ DropReceiver(t) PROVE CacheType'
  BY <1>2 DEF DropSender, DropReceiver, Invalidate, GoTalk
<1>3. ASSUME NEW q \in Queries, ListExists(q) \/ ReadMembers(q) \/ FindPartners(q) PROVE CacheType'
  <2>1. CASE ListExists(q)
    BY <2>1 DEF ListExists, GoAsk
  <2>2. CASE ReadMembers(q)
    BY <2>2 DEF ReadMembers, GoAsk
  <2>3. CASE FindPartners(q)
    BY <2>3 DEF FindPartners, GoAsk
  <2> QED
    BY <1>3, <2>1, <2>2, <2>3
<1>4. ASSUME NEW q \in Queries, DeleteList(q) \/ AddList(q) \/ ExpireList(q) PROVE CacheType'
  BY <1>4 DEF DeleteList, AddList, ExpireList, GoAsk
<1>5. ASSUME NEW u \in Users, ListExpires(u) PROVE CacheType'
  BY <1>5 DEF ListExpires
<1>6. ASSUME NEW h \in Handlers, Emit(h) PROVE CacheType'
  BY <1>6 DEF Emit
<1>7. ASSUME NEW h \in Handlers, NEW pc, GoBroadcast(h, pc) PROVE CacheType'
  BY <1>7 DEF GoBroadcast
<1>8. CASE Crash
  BY <1>8 DEF Crash
<1>9. CASE UNCHANGED convVars
  BY <1>9 DEF convVars
<1> QED
  BY <1>1, <1>2, <1>3, <1>4, <1>5, <1>6, <1>7, <1>8, <1>9, PartnersStepCases

\* Steps that leave the conversations and the updates under way alone keep a list fresh.
LEMMA FreshFrame ==
  ASSUME NEW u \in Users, Fresh(u),
         recent' = recent, talk' = talk, stale' = stale,
         cache'[u] \in {cache[u], {}},
         \A q \in Queries : Asker[q] = u /\ ask'[q] \in Caching =>
           ask[q] \in Caching /\ partners'[q] = partners[q]
  PROVE  Fresh(u)'
<1>1. Top(u)' = Top(u)
  BY TopFrame
<1> QED
  BY <1>1 DEF Fresh, Pending

LEMMA FreshStep ==
  ASSUME CacheType, FreshInv, [Next]_vars, NEW u \in Users
  PROVE  Fresh(u)'
<1> USE HandlerFacts, TalkFacts, QueriesAssumption DEF CacheType, FreshInv
<1>1. ASSUME NEW t \in Talks, OpenConversation(t) PROVE Fresh(u)'
  <2>1. CASE u \in Pair(t) /\ talk'[t] = "created"
    BY <1>1, <2>1 DEF Fresh, Pending
  <2>2. CASE u \notin Pair(t) \/ recent' = recent
    <3>1. Top(u)' = Top(u)
      BY <1>1, <2>2, StampFrame, TopFrame DEF OpenConversation
    <3>2. Pending(u) => Pending(u)'
      BY <1>1 DEF OpenConversation, GoTalk, Pending
    <3> QED
      BY <1>1, <3>1, <3>2 DEF OpenConversation, Fresh
  <2> QED
    BY <1>1, <2>1, <2>2 DEF OpenConversation, GoTalk
<1>2. ASSUME NEW t \in Talks, Refused(t) PROVE Fresh(u)'
  <2>1. Top(u)' = Top(u)
    BY <1>2, TopFrame DEF Refused
  <2>2. Pending(u) => Pending(u)' \/ u \in stale'
    BY <1>2 DEF Refused, GoTalk, Pending
  <2> QED
    BY <1>2, <2>1, <2>2 DEF Refused, Fresh
<1>3. ASSUME NEW t \in Talks, UpdateConversation(t) PROVE Fresh(u)'
  <2>1. CASE u \in Pair(t)
    BY <1>3, <2>1 DEF UpdateConversation, GoTalk, Fresh, Pending
  <2>2. CASE u \notin Pair(t)
    <3>1. Top(u)' = Top(u)
      BY <1>3, <2>2, StampFrame DEF UpdateConversation
    <3>2. Pending(u) => Pending(u)'
      BY <1>3 DEF UpdateConversation, GoTalk, Pending
    <3> QED
      BY <1>3, <3>1, <3>2 DEF UpdateConversation, Fresh
  <2> QED
    BY <2>1, <2>2
<1>4. ASSUME NEW t \in Talks, NEW v \in Pair(t), Invalidate(v), UNCHANGED <<recent, ask, partners>>,
             \A w \in Users \ {v} : Pending(w) => Pending(w)'
      PROVE  Fresh(u)'
  <2>1. Top(u)' = Top(u)
    BY <1>4, TopFrame
  <2>2. CASE u = v
    BY <1>4, <2>1, <2>2 DEF Invalidate, Outruns, Fresh, Pair
  <2>3. CASE u # v
    BY <1>4, <2>1, <2>3 DEF Invalidate, Fresh
  <2> QED
    BY <2>2, <2>3
<1>5. ASSUME NEW t \in Talks, DropSender(t) PROVE Fresh(u)'
  <2>1. \A w \in Users \ {Sender[t]} : Pending(w) => Pending(w)'
    BY <1>5 DEF DropSender, GoTalk, Pending, Pair
  <2> QED
    BY <1>4, <1>5, <2>1 DEF DropSender, Pair
<1>6. ASSUME NEW t \in Talks, DropReceiver(t) PROVE Fresh(u)'
  <2>1. \A w \in Users \ {Receiver[t]} : Pending(w) => Pending(w)'
    BY <1>6 DEF DropReceiver, GoTalk, Pending, Pair
  <2> QED
    BY <1>4, <1>6, <2>1 DEF DropReceiver, Pair
<1>7. ASSUME NEW t \in Talks, DropFails(t) PROVE Fresh(u)'
  <2>1. Top(u)' = Top(u)
    BY <1>7, TopFrame DEF DropFails
  <2>2. Pending(u) => Pending(u)' \/ u \in stale'
    BY <1>7 DEF DropFails, GoTalk, Pending, Pair
  <2> QED
    BY <1>7, <2>1, <2>2 DEF DropFails, Fresh
<1>8. ASSUME NEW q \in Queries, ListExists(q) \/ ReadMembers(q) \/ ExpireList(q) PROVE Fresh(u)'
  BY <1>8, FreshFrame DEF ListExists, ReadMembers, ExpireList, GoAsk, Caching
<1>9. ASSUME NEW q \in Queries, FindPartners(q) PROVE Fresh(u)'
  <2>1. Top(u)' = Top(u)
    BY <1>9, TopFrame DEF FindPartners
  <2>2. Pending(u)' <=> Pending(u)
    BY <1>9 DEF FindPartners, Pending
  <2>3. partners'[q] = Top(Asker[q]) /\ \A r \in Queries \ {q} : /\ partners'[r] = partners[r]
                                                                 /\ ask'[r] = ask[r]
    BY <1>9 DEF FindPartners, GoAsk
  <2> QED
    BY <1>9, <2>1, <2>2, <2>3 DEF FindPartners, Fresh
<1>10. ASSUME NEW q \in Queries, DeleteList(q) PROVE Fresh(u)'
  BY <1>10, FreshFrame DEF DeleteList, GoAsk, Caching
<1>11. ASSUME NEW q \in Queries, AddList(q) PROVE Fresh(u)'
  <2>1. Top(u)' = Top(u)
    BY <1>11, TopFrame DEF AddList
  <2>2. Pending(u)' <=> Pending(u)
    BY <1>11 DEF AddList, Pending
  <2>3. \A r \in Queries : ask'[r] \in Caching => ask[r] \in Caching
    BY <1>11 DEF AddList, GoAsk, Caching
  <2>4. ask[q] \in Caching
    BY <1>11 DEF AddList, GoAsk, Caching
  <2>5. cache'[u] = IF u = Asker[q] THEN cache[u] \cup partners[q] ELSE cache[u]
    BY <1>11 DEF AddList
  <2> QED
    BY <1>11, <2>1, <2>2, <2>3, <2>4, <2>5 DEF AddList, Fresh
<1>12. ASSUME NEW v \in Users, ListExpires(v) PROVE Fresh(u)'
  BY <1>12, FreshFrame DEF ListExpires
<1>13. ASSUME NEW h \in Handlers, Emit(h) PROVE Fresh(u)'
  BY <1>13, FreshFrame DEF Emit, Caching
<1>14. ASSUME NEW h \in Handlers, NEW pc, GoBroadcast(h, pc) PROVE Fresh(u)'
  BY <1>14, FreshFrame DEF GoBroadcast, Caching
<1>15. CASE Crash
  <2>1. Top(u)' = Top(u)
    BY <1>15, TopFrame DEF Crash
  <2>2. Pending(u) => u \in stale'
    BY <1>15 DEF Crash
  <2>3. stale \subseteq stale' /\ cache' = cache
    BY <1>15 DEF Crash
  <2>4. \A q \in Queries : ask'[q] \notin Caching
    BY <1>15 DEF Crash, Caching
  <2> QED
    BY <2>1, <2>2, <2>3, <2>4 DEF Fresh
<1>16. CASE UNCHANGED convVars
  BY <1>16, FreshFrame DEF convVars
<1> QED
  BY <1>1, <1>2, <1>3, <1>5, <1>6, <1>7, <1>8, <1>9, <1>10, <1>11, <1>12, <1>13, <1>14, <1>15,
     <1>16, PartnersStepCases

LEMMA CacheInit == Init => CacheType /\ FreshInv
<1> SUFFICES ASSUME Init PROVE CacheType /\ FreshInv
  OBVIOUS
<1>1. CacheType
  BY HandlerFacts DEF Init, ConversationInit, CacheType
<1>2. FreshInv
  BY DEF Init, ConversationInit, FreshInv, Fresh, Caching
<1> QED
  BY <1>1, <1>2

\* A cached list is the one findMany would give, but around an update and after one that was
\* outrun, failed or never made.
THEOREM CachedPartnersAreFresh == Spec => []PartnersFresh
<1>1. Init => CacheType /\ FreshInv
  BY CacheInit
<1>2. CacheType /\ FreshInv /\ [Next]_vars => (CacheType /\ FreshInv)'
  BY CacheTypeStep, FreshStep DEF FreshInv
<1>3. FreshInv => PartnersFresh
  BY DEF FreshInv, Fresh, PartnersFresh
<1> QED
  BY <1>1, <1>2, <1>3, PTL DEF Spec

-------------------------------------------------------------------------------
\* The expiry of the lists

\* A handler asks once, when it broadcasts.
AskedInBroadcast ==
  \A h \in Handlers : handler[h] \in {"idle", "find", "register"} => ask[h] = "idle"

ExpiryInv == AskedInBroadcast /\ StaleListsExpire

LEMMA AskedStep ==
  ASSUME HandlerType, CacheType, AskedInBroadcast, [Next]_vars
  PROVE  AskedInBroadcast'
<1> USE HandlerFacts DEF HandlerType, CacheType, AskedInBroadcast
<1>1. ASSUME NEW s \in Sockets, Connect(s) \/ AddOnlineUser(s) PROVE AskedInBroadcast'
  BY <1>1 DEF Connect, AddOnlineUser, GoHandler, convVars
<1>2. ASSUME NEW s \in Sockets, Register(s) PROVE AskedInBroadcast'
  BY <1>2 DEF Register, GoBroadcast, GoHandler
<1>3. ASSUME NEW s \in Sockets, Disconnect(s) PROVE AskedInBroadcast'
  BY <1>3 DEF Disconnect, GoBroadcast, GoHandler, convVars
<1>4. ASSUME NEW h \in Handlers, Emit(h) PROVE AskedInBroadcast'
  BY <1>4 DEF Emit, GoHandler
<1>5. CASE Crash
  BY <1>5 DEF Crash
<1>6. ASSUME NEW t \in Talks, UNCHANGED presenceVars,
             \/ OpenConversation(t) \/ Refused(t) \/ UpdateConversation(t)
             \/ DropSender(t) \/ DropReceiver(t) \/ DropFails(t)
      PROVE  AskedInBroadcast'
  BY <1>6 DEF OpenConversation, Refused, UpdateConversation, DropSender, DropReceiver, DropFails,
              presenceVars
<1>7. ASSUME NEW q \in Queries, UNCHANGED presenceVars,
             \/ ListExists(q) \/ ReadMembers(q) \/ FindPartners(q)
             \/ DeleteList(q) \/ AddList(q) \/ ExpireList(q)
      PROVE  AskedInBroadcast'
  <2>1. ask[q] # "idle" /\ \A r \in Queries \ {q} : ask'[r] = ask[r]
    BY <1>7 DEF ListExists, ReadMembers, FindPartners, DeleteList, AddList, ExpireList, GoAsk
  <2>2. handler' = handler
    BY <1>7 DEF presenceVars
  <2> QED
    BY <2>1, <2>2
<1>8. ASSUME NEW u \in Users, UNCHANGED presenceVars, ListExpires(u) PROVE AskedInBroadcast'
  BY <1>8 DEF ListExpires, presenceVars
<1>9. CASE UNCHANGED vars
  BY <1>9 DEF vars, convVars, presenceVars
<1> QED
  BY <1>1, <1>2, <1>3, <1>4, <1>5, <1>6, <1>7, <1>8, <1>9 DEF Next, ConversationNext

\* Steps that add to no list, take no expiry away and leave the queries that set one alone.
LEMMA ExpireFrame ==
  ASSUME CacheType, ListsExpire,
         \A u \in Users : \/ cache'[u] = {}
                          \/ cache'[u] = cache[u] /\ (u \in timed => u \in timed'),
         \A q \in Queries : ask[q] = "expire" => ask'[q] = "expire"
  PROVE  ListsExpire'
  BY DEF CacheType, ListsExpire

LEMMA ExpireStep ==
  ASSUME HandlerType, CacheType, ExpiryInv, [Next]_vars
  PROVE  StaleListsExpire'
<1> SUFFICES ASSUME crashes' = 0 PROVE ListsExpire'
  BY DEF StaleListsExpire
<1>0. crashes = 0 /\ ListsExpire /\ ~Crash
  <2>1. ~Crash
    BY DEF Crash, HandlerType
  <2>2. crashes' = crashes
    BY <2>1 DEF Next, vars, presenceVars, Connect, AddOnlineUser, Register, Disconnect, Emit
  <2> QED
    BY <2>1, <2>2 DEF ExpiryInv, StaleListsExpire
<1> USE <1>0, HandlerFacts, TalkFacts, QueriesAssumption DEF CacheType
<1>1. ASSUME NEW t \in Talks,
             OpenConversation(t) \/ Refused(t) \/ UpdateConversation(t) \/ DropFails(t)
      PROVE  ListsExpire'
  <2>1. UNCHANGED <<cache, timed, ask>>
    BY <1>1 DEF OpenConversation, Refused, UpdateConversation, DropFails
  <2> QED
    BY <2>1 DEF ListsExpire
<1>2. ASSUME NEW t \in Talks, DropSender(t) \/ DropReceiver(t) PROVE ListsExpire'
  <2>1. PICK v \in Users : Invalidate(v) /\ ask' = ask
    BY <1>2 DEF DropSender, DropReceiver
  <2>2. /\ cache'[v] = {}
        /\ \A u \in Users \ {v} : cache'[u] = cache[u] /\ (u \in timed => u \in timed')
    BY <2>1 DEF Invalidate
  <2> QED
    BY <2>1, <2>2 DEF ListsExpire
<1>3. ASSUME NEW q \in Queries, ListExists(q) \/ ReadMembers(q) \/ FindPartners(q)
      PROVE  ListsExpire'
  <2>1. UNCHANGED <<cache, timed>>
    BY <1>3 DEF ListExists, ReadMembers, FindPartners
  <2>2. ask[q] # "expire" /\ \A r \in Queries \ {q} : ask'[r] = ask[r]
    BY <1>3 DEF ListExists, ReadMembers, FindPartners, GoAsk
  <2> QED
    BY <2>1, <2>2 DEF ListsExpire
<1>4. ASSUME NEW q \in Queries, DeleteList(q) PROVE ListsExpire'
  <2>1. ask[q] # "expire" /\ \A r \in Queries \ {q} : ask'[r] = ask[r]
    BY <1>4 DEF DeleteList, GoAsk
  <2>2. /\ cache'[Asker[q]] = {}
        /\ \A u \in Users \ {Asker[q]} : cache'[u] = cache[u] /\ (u \in timed => u \in timed')
    BY <1>4 DEF DeleteList
  <2> QED
    BY <2>1, <2>2 DEF ListsExpire
<1>5. ASSUME NEW q \in Queries, AddList(q) PROVE ListsExpire'
  <2>1. /\ ask'[q] = "expire" /\ timed' = timed
        /\ \A r \in Queries \ {q} : ask'[r] = ask[r]
        /\ \A u \in Users \ {Asker[q]} : cache'[u] = cache[u]
    BY <1>5 DEF AddList, GoAsk
  <2> QED
    BY <2>1 DEF ListsExpire
<1>6. ASSUME NEW q \in Queries, ExpireList(q) PROVE ListsExpire'
  <2>1. /\ \A r \in Queries \ {q} : ask'[r] = ask[r]
        /\ cache' = cache /\ timed \subseteq timed'
        /\ cache[Asker[q]] = {} \/ Asker[q] \in timed'
    BY <1>6 DEF ExpireList, GoAsk
  <2>2. ASSUME NEW u \in Users, u # Asker[q]
        PROVE  \/ cache'[u] = {} \/ u \in timed'
               \/ \E r \in Queries : Asker[r] = u /\ ask'[r] = "expire"
    BY <2>1, <2>2 DEF ListsExpire
  <2> QED
    BY <2>1, <2>2 DEF ListsExpire
<1>7. ASSUME NEW u \in Users, ListExpires(u) PROVE ListsExpire'
  <2>1. /\ cache'[u] = {} /\ ask' = ask
        /\ \A v \in Users \ {u} : cache'[v] = cache[v] /\ (v \in timed => v \in timed')
    BY <1>7 DEF ListExpires
  <2> QED
    BY <2>1 DEF ListsExpire
<1>8. ASSUME NEW h \in Handlers, Emit(h) PROVE ListsExpire'
  BY <1>8, ExpireFrame DEF Emit
<1>9. ASSUME NEW h \in Handlers, NEW pc \in {"register", "idle"}, GoBroadcast(h, pc)
      PROVE  ListsExpire'
  <2>1. ask[h] = "idle"
    BY <1>9 DEF GoBroadcast, GoHandler, ExpiryInv, AskedInBroadcast
  <2> QED
    BY <1>9, <2>1, ExpireFrame DEF GoBroadcast
<1>10. CASE UNCHANGED convVars
  BY <1>10, ExpireFrame DEF convVars
<1> QED
  BY <1>1, <1>2, <1>3, <1>4, <1>5, <1>6, <1>7, <1>8, <1>9, <1>10, PartnersStepCases

\* Without a crash between SADD and EXPIRE every cached list expires.
THEOREM CachedListsExpire == Spec => []StaleListsExpire
<1> DEFINE Inv == HandlerType /\ CacheType /\ ExpiryInv
<1>1. Init => Inv
  <2>1. Init => ExpiryInv
    BY HandlerFacts
    DEF Init, ConversationInit, ExpiryInv, AskedInBroadcast, StaleListsExpire, ListsExpire
  <2> QED
    BY <2>1, HandlerTypeInit, CacheInit
<1>2. Inv /\ [Next]_vars => Inv'
  BY HandlerTypeStep, CacheTypeStep, AskedStep, ExpireStep DEF ExpiryInv
<1>3. Inv => StaleListsExpire
  BY DEF ExpiryInv
<1> QED
  BY <1>1, <1>2, <1>3, PTL DEF Spec
===============================================================================
