-------------------------------- MODULE Presence --------------------------------
(***************************************************************************)
(* Who is online, and who is told: the clients Map and the Redis set       *)
(* online_users as handleConnection and handleDisconnection of             *)
(* src/websocket/websocket.service.ts keep them, and broadcastPresence,    *)
(* which announces a user to the partners that ConversationService finds.  *)
(*                                                                         *)
(* Every socket has two handlers, which overlap when it closes while it is *)
(* being registered.  What handleConnection does with the message queue    *)
(* between registration and announcement is WebsocketService; here it is   *)
(* time that passes.  The commands of one process reach Redis in the order *)
(* they are issued, so that sadd and srem take effect where they are       *)
(* called, awaited or not.                                                 *)
(***************************************************************************)
EXTENDS ConversationService

CONSTANTS Sockets, Owner,   \* connections, each of one user
          NoSocket, MaxCrashes

Handlers == Sockets \X {"on", "off"}

ASSUME HandlersAssumption ==
  /\ Owner \in [Sockets -> Users] /\ NoSocket \notin Sockets
  /\ Queries = Handlers /\ Asker = [h \in Handlers |-> Owner[h[1]]]

ASSUME CrashesAssumption == MaxCrashes \in Nat

VARIABLES
  open,      \* sockets that are connected
  closed,    \* sockets that were
  clients,   \* clients[u]: the socket of u, or NoSocket
  online,    \* the Redis set online_users
  handler,   \* program counter of a handler
  crashes,
  told,      \* history: told[u][s]: the status of u that was announced last to the open socket s
  crossed,   \* history: users who came or went last while another handler of theirs had yet
             \* to announce
  disturbed, \* history: users whose last command on online_users came while a handler of
             \* theirs was between sadd and clients.set, and those a crash left behind
  hasty      \* history: sockets that closed before they were registered

presenceVars == <<open, closed, clients, online, handler, crashes, told, crossed, disturbed, hasty>>
vars == <<convVars, presenceVars>>

\* A handler announces what it is called: "on" or "off".
Statuses == {"nothing", "on", "off"}

TypeOK ==
  /\ ConversationTypeOK
  /\ open \subseteq Sockets /\ closed \subseteq Sockets
  /\ clients \in [Users -> Sockets \cup {NoSocket}]
  /\ online \subseteq Users
  /\ handler \in [Handlers -> {"idle", "find", "register", "broadcast", "done"}]
  /\ crashes \in 0..MaxCrashes
  /\ told \in [Users -> [Sockets -> Statuses]]
  /\ crossed \subseteq Users /\ disturbed \subseteq Users /\ hasty \subseteq Sockets

Init ==
  /\ ConversationInit
  /\ open = {} /\ closed = {}
  /\ clients = [u \in Users |-> NoSocket]
  /\ online = {}
  /\ handler = [h \in Handlers |-> "idle"]
  /\ crashes = 0
  /\ told = [u \in Users |-> [s \in Sockets |-> "nothing"]]
  /\ crossed = {} /\ disturbed = {} /\ hasty = {}

GoHandler(h, from, to) == handler[h] = from /\ handler' = [handler EXCEPT ![h] = to]

Registered(u) == clients[u] # NoSocket
OfUser(u)     == {h \in Handlers : Owner[h[1]] = u}
Registering(u) == \E h \in OfUser(u) : handler[h] = "register"
Announcing(u)  == \E h \in OfUser(u) : handler[h] = "broadcast"

\* S with u, when the condition holds, and without u otherwise.
Marked(S, u, condition) == IF condition THEN S \cup {u} ELSE S \ {u}

\* The handler goes on to broadcastPresence; its query waits until the queue has been drained
\* (handleConnection) or last_seen has been stored (handleDisconnection).
GoBroadcast(h, from) ==
  /\ GoHandler(h, from, "broadcast")
  /\ ask' = [ask EXCEPT ![h] = "exists"]
  /\ UNCHANGED <<recent, cache, timed, talk, partners, stale, missed>>

-------------------------------------------------------------------------------
\* handleConnection

Connect(s) ==
  /\ s \notin open \cup closed
  /\ open' = open \cup {s}
  /\ GoHandler(<<s, "on">>, "idle", "find")
  /\ UNCHANGED <<convVars, closed, clients, online, crashes, told, crossed, disturbed, hasty>>

\* The user is found: its second connection is ignored, the first is added to online_users.
AddOnlineUser(s) ==
  LET u == Owner[s]
  IN /\ \/ /\ Registered(u) /\ GoHandler(<<s, "on">>, "find", "done")
           /\ UNCHANGED <<online, disturbed>>
        \/ /\ ~Registered(u) /\ GoHandler(<<s, "on">>, "find", "register")
           /\ online' = online \cup {u}
           /\ disturbed' = Marked(disturbed, u, Registering(u))
     /\ UNCHANGED <<convVars, open, closed, clients, crashes, told, crossed, hasty>>

\* Mutant: the user is remembered in place of the socket.
RegisterUser(s) ==
  /\ GoBroadcast(<<s, "on">>, "register")
  /\ clients' = [clients EXCEPT ![Owner[s]] = Owner[s]]
  /\ crossed' = Marked(crossed, Owner[s], Announcing(Owner[s]))
  /\ UNCHANGED <<open, closed, online, crashes, told, disturbed, hasty>>

Register(s) ==
  /\ GoBroadcast(<<s, "on">>, "register")
  /\ clients' = [clients EXCEPT ![Owner[s]] = s]
  /\ crossed' = Marked(crossed, Owner[s], Announcing(Owner[s]))
  /\ UNCHANGED <<open, closed, online, crashes, told, disturbed, hasty>>

-------------------------------------------------------------------------------
\* handleDisconnection: whichever socket of the user closes, its entry goes.

Close(s) ==
  /\ open' = open \ {s} /\ closed' = closed \cup {s}
  /\ hasty' = IF handler[<<s, "on">>] \in {"find", "register"} THEN hasty \cup {s} ELSE hasty
  /\ told' = [u \in Users |-> [told[u] EXCEPT ![s] = "nothing"]]

\* Mutant: the entry is looked for under the id of the socket.
DisconnectKeepsEntry(s) ==
  LET u == Owner[s]
  IN /\ s \in open /\ Close(s)
     /\ Registered(u) /\ GoBroadcast(<<s, "off">>, "idle")
     /\ online' = online \ {u}
     /\ disturbed' = Marked(disturbed, u, Registering(u))
     /\ crossed' = Marked(crossed, u, Announcing(u))
     /\ UNCHANGED <<clients, crashes>>

\* Mutant: the user stays in online_users.
DisconnectKeepsOnline(s) ==
  LET u == Owner[s]
  IN /\ s \in open /\ Close(s)
     /\ Registered(u) /\ GoBroadcast(<<s, "off">>, "idle")
     /\ clients' = [clients EXCEPT ![u] = NoSocket]
     /\ disturbed' = Marked(disturbed, u, Registering(u))
     /\ crossed' = Marked(crossed, u, Announcing(u))
     /\ UNCHANGED <<online, crashes>>

Disconnect(s) ==
  LET u == Owner[s]
  IN /\ s \in open /\ Close(s)
     /\ \/ /\ Registered(u) /\ GoBroadcast(<<s, "off">>, "idle")
           /\ clients' = [clients EXCEPT ![u] = NoSocket]
           /\ online' = online \ {u}
           /\ disturbed' = Marked(disturbed, u, Registering(u))
           /\ crossed' = Marked(crossed, u, Announcing(u))
        \/ /\ ~Registered(u) /\ GoHandler(<<s, "off">>, "idle", "done")
           /\ UNCHANGED <<convVars, clients, online, disturbed, crossed>>
     /\ UNCHANGED crashes

-------------------------------------------------------------------------------
\* broadcastPresence

\* The open sockets among the entries of the partners; no partners, nobody is told.
Reached(h) == {clients[p] : p \in partners[h]} \cap open

Tell(h, status) ==
  told' = [told EXCEPT ![Asker[h]] = [s \in Sockets |-> IF s \in Reached(h) THEN status ELSE @[s]]]

\* Mutant: the status is always true.
EmitOnline(h) ==
  /\ ask[h] = "answered" /\ ask' = [ask EXCEPT ![h] = "done"]
  /\ GoHandler(h, "broadcast", "done")
  /\ Tell(h, "on")
  /\ partners' = [partners EXCEPT ![h] = {}]
  /\ UNCHANGED <<recent, cache, timed, talk, stale, missed>>
  /\ UNCHANGED <<open, closed, clients, online, crashes, crossed, disturbed, hasty>>

\* The status goes to the partners who have an entry; the others keep what they were told.
Emit(h) ==
  /\ ask[h] = "answered" /\ ask' = [ask EXCEPT ![h] = "done"]
  /\ GoHandler(h, "broadcast", "done")
  /\ Tell(h, h[2])
  /\ partners' = [partners EXCEPT ![h] = {}]
  /\ UNCHANGED <<recent, cache, timed, talk, stale, missed>>
  /\ UNCHANGED <<open, closed, clients, online, crashes, crossed, disturbed, hasty>>

\* The process stops: what it keeps in memory is gone and every socket is closed; the Redis
\* sets stay as they are, a list without expiry among them.
Crash ==
  /\ crashes < MaxCrashes /\ crashes' = crashes + 1
  /\ open' = {} /\ closed' = closed \cup open
  /\ clients' = [u \in Users |-> NoSocket]
  /\ handler' = [h \in Handlers |-> IF handler[h] = "idle" THEN "idle" ELSE "done"]
  /\ ask' = [h \in Handlers |-> IF ask[h] = "idle" THEN "idle" ELSE "done"]
  /\ talk' = [t \in Talks |-> IF talk[t] = "idle" THEN "idle" ELSE "done"]
  /\ stale' = stale \cup {u \in Users : Pending(u)}
  /\ told' = [u \in Users |-> [s \in Sockets |-> "nothing"]]
  /\ crossed' = {} /\ disturbed' = online
  /\ partners' = [h \in Handlers |-> {}]
  /\ UNCHANGED <<recent, cache, timed, missed, online, hasty>>

-------------------------------------------------------------------------------

Next ==
  \/ \E s \in Sockets : Connect(s) \/ AddOnlineUser(s) \/ Register(s) \/ Disconnect(s)
  \/ \E h \in Handlers : Emit(h)
  \/ ConversationNext /\ UNCHANGED presenceVars
  \/ Crash

Spec == Init /\ [][Next]_vars

-------------------------------------------------------------------------------
\* Properties.

\* Whether somebody is online is told to the partners of a conversation only, whatever
\* lists are cached and whoever's sockets come and go during the broadcast.
PresenceToPartnersOnly ==
  \A u \in Users, s \in Sockets : told[u][s] # "nothing" => Owner[s] \in PartnersOf(u)

\* When no announcement of u is under way, nobody with an entry in clients is left with a
\* status of u that is no longer so.  The exceptions: u came or went while an earlier
\* announcement was still to be made (crossed: the slower one wins), and those whom the last
\* answer about u left out (missed: the cached list was dropped between EXISTS and SMEMBERS,
\* which tells nobody; it was stale; more than Limit partners had been written to since).
LastToldTrue ==
  \A u \in Users \ crossed :
    Announcing(u) \/ \A p \in Users \ missed[u] :
      Registered(p) => told[u][clients[p]] \in {"nothing", IF Registered(u) THEN "on" ELSE "off"}

\* online_users names the users who have an entry in clients or are about to, unless two
\* handlers of the user crossed or the process crashed; it is right again when the user
\* comes or goes undisturbed.
OnlineHasEntry ==
  \A u \in Users \ disturbed : u \in online <=> Registered(u) \/ Registering(u)

\* An entry whose socket is gone, which keeps the user from connecting again, is left only
\* by a socket that closed before it was registered.
NoGhost == \A u \in Users : clients[u] \in open \cup hasty \cup {NoSocket}

\* A crash between sadd and expire leaves a list for good; otherwise every list expires.
StaleListsExpire == crashes = 0 => ListsExpire
===============================================================================
