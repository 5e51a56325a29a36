---------------------------- MODULE ConnectDomain ----------------------------
(***************************************************************************)
(* The entities the messaging modules share: the rows of the User table,   *)
(* the messages clients send, and the socket.io sockets they connect with. *)
(*                                                                         *)
(* A message stands for one call of WebsocketService.onMessage with its    *)
(* own payload; Sender and Receiver are payload.sender.id and              *)
(* payload.receiver.id.  A socket stands for one connection whose          *)
(* handshake names Owner[s] as its user_id; user ids that are not in the   *)
(* table are left out (handleConnection returns before it changes          *)
(* anything for them).                                                     *)
(***************************************************************************)
EXTENDS Naturals, FiniteSets, Sequences

CONSTANTS
  Users,       \* user ids with a row in the User table
  NoUser,      \* no user: the JavaScript undefined, an absent lock holder
  Messages,    \* message payloads, each sent at most once
  Sender,      \* [Messages -> Users]
  Receiver,    \* [Messages -> Users]
  Sockets,     \* identifiers for live socket.io sockets
  NoSocket,    \* no socket: clients.get(user_id) is undefined
  Owner        \* [Sockets -> Users]

ASSUME UsersAssumption    == NoUser \notin Users
ASSUME MessagesAssumption ==
  /\ IsFiniteSet(Messages)
  /\ Sender \in [Messages -> Users]
  /\ Receiver \in [Messages -> Users]
ASSUME SocketsAssumption  == /\ NoSocket \notin Sockets
                             /\ Owner \in [Sockets -> Users]

(***************************************************************************)
(* The Conversation table holds one row for each unordered pair of users   *)
(* (alice_id and bob_id are sorted before they are stored or looked up),   *)
(* so a conversation id is modelled by the pair itself.                    *)
(***************************************************************************)
Conversations == {{u, v} : u \in Users, v \in Users}

ConversationOf(m) == {Sender[m], Receiver[m]}

Elements(q) == {q[i] : i \in DOMAIN q}   \* the messages of a queue

==============================================================================
