-------------------------- MODULE ConversationService --------------------------
(***************************************************************************)
(* src/conversation/conversation.service.ts: the conversations of a user   *)
(* in PostgreSQL, most recent first, and the list of its partners that     *)
(* Redis caches for an hour.  A talk is a message on its way: sendMessage  *)
(* creates the conversation without a look at the cache, updateConversation *)
(* stamps it and drops the lists of both users.  A query is a call of      *)
(* broadCastOnlineStatus.  An action is one access to a store; the module  *)
(* has the actions, Presence composes them with the handlers that call     *)
(* them.                                                                   *)
(***************************************************************************)
EXTENDS Naturals, SequencesExt

CONSTANTS
  Users,
  Talks, Sender, Receiver,   \* messages, with the users they are between
  Queries, Asker,            \* calls of broadCastOnlineStatus, with their user
  Limit                      \* 50 in the code

ASSUME TalksAssumption == /\ Sender \in [Talks -> Users]
                          /\ Receiver \in [Talks -> Users]
                          /\ \A t \in Talks : Sender[t] # Receiver[t]
ASSUME QueriesAssumption == Asker \in [Queries -> Users]
ASSUME LimitAssumption == Limit \in Nat \ {0}

VARIABLES
  recent,     \* recent[u]: partners of u, those with the latest last_message_at first
  cache,      \* cache[u]: the Redis set partners:u; Redis has no empty set
  timed,      \* users whose cached list has an expiry
  talk,       \* program counter of a message's conversation
  ask,        \* program counter of a query
  partners,   \* its local partner_ids, then its answer
  stale,      \* history: users whose last drop left an older list in the cache or in the
              \* hands of a query, or was never made
  missed      \* history: missed[u]: users whom the last answer about u had a reason to leave out

convVars == <<recent, cache, timed, talk, ask, partners, stale, missed>>

Pair(t)    == {Sender[t], Receiver[t]}
PartnersOf(u) == ToSet(recent[u])
Caching    == {"del", "sadd"}

ConversationTypeOK ==
  /\ recent \in [Users -> Seq(Users)]
  /\ cache \in [Users -> SUBSET Users]
  /\ timed \subseteq Users
  /\ talk \in [Talks -> {"idle", "created", "known", "dropSender", "dropReceiver", "done"}]
  /\ ask \in [Queries -> {"idle", "exists", "members", "find", "expire", "answered", "done"}
                         \cup Caching]
  /\ partners \in [Queries -> SUBSET Users]
  /\ stale \subseteq Users
  /\ missed \in [Users -> SUBSET Users]

ConversationInit ==
  /\ recent = [u \in Users |-> <<>>]
  /\ cache = [u \in Users |-> {}]
  /\ timed = {}
  /\ talk = [t \in Talks |-> "idle"]
  /\ ask = [q \in Queries |-> "idle"]
  /\ partners = [q \in Queries |-> {}]
  /\ stale = {}
  /\ missed = [u \in Users |-> {}]

-------------------------------------------------------------------------------
\* A message's conversation

GoTalk(t, from, to) == talk[t] = from /\ talk' = [talk EXCEPT ![t] = to]

\* A user has one conversation with each partner.
ToFront(seq, u) ==
  IF u \in ToSet(seq) THEN <<u>> \o RemoveAt(seq, CHOOSE i \in DOMAIN seq : seq[i] = u)
                      ELSE <<u>> \o seq

\* last_message_at of the conversation becomes the latest of all.
Stamp(t) ==
  recent' = [u \in Users |-> IF u = Sender[t] THEN ToFront(recent[u], Receiver[t])
                             ELSE IF u = Receiver[t] THEN ToFront(recent[u], Sender[t])
                             ELSE recent[u]]

\* getConversationId: the upsert creates the conversation and leaves an old one as it is.
OpenConversation(t) ==
  /\ \/ GoTalk(t, "idle", "created") /\ Receiver[t] \notin PartnersOf(Sender[t]) /\ Stamp(t)
     \/ GoTalk(t, "idle", "known") /\ Receiver[t] \in PartnersOf(Sender[t]) /\ UNCHANGED recent
  /\ UNCHANGED <<cache, timed, ask, partners, stale, missed>>

\* The message is refused, its handler fails, or the upsert of updateConversation does.
Refused(t) ==
  /\ \/ GoTalk(t, "created", "done") /\ stale' = stale \cup Pair(t)
     \/ GoTalk(t, "known", "done") /\ UNCHANGED stale
  /\ UNCHANGED <<recent, cache, timed, ask, partners, missed>>

UpdateConversation(t) ==
  /\ GoTalk(t, "created", "dropSender") \/ GoTalk(t, "known", "dropSender")
  /\ Stamp(t)
  /\ UNCHANGED <<cache, timed, ask, partners, stale, missed>>

\* findMany: the most recent partners.
Top(u) == ToSet(SubSeq(recent[u], 1, IF Len(recent[u]) < Limit THEN Len(recent[u]) ELSE Limit))

\* A query of u that would put an older list into the cache.
Outruns(u) == \E q \in Queries : /\ Asker[q] = u /\ ask[q] \in Caching
                                 /\ partners[q] # Top(u)

\* invalidateConversationPartnersCache
Invalidate(u) ==
  /\ cache' = [cache EXCEPT ![u] = {}]
  /\ timed' = timed \ {u}
  /\ stale' = IF Outruns(u) THEN stale \cup {u} ELSE stale \ {u}

DropSender(t) ==
  /\ GoTalk(t, "dropSender", "dropReceiver")
  /\ Invalidate(Sender[t])
  /\ UNCHANGED <<recent, ask, partners, missed>>

\* Mutant: only the sender's list is invalidated.
DropReceiverSkipped(t) ==
  /\ GoTalk(t, "dropReceiver", "done")
  /\ UNCHANGED <<recent, cache, timed, ask, partners, stale, missed>>

DropReceiver(t) ==
  /\ GoTalk(t, "dropReceiver", "done")
  /\ Invalidate(Receiver[t])
  /\ UNCHANGED <<recent, ask, partners, missed>>

\* updateConversation catches every error: what comes after it is not done, and the lists
\* stay as they are.
DropFails(t) ==
  /\ \/ GoTalk(t, "dropSender", "done") /\ stale' = stale \cup Pair(t)
     \/ GoTalk(t, "dropReceiver", "done") /\ stale' = stale \cup {Receiver[t]}
  /\ UNCHANGED <<recent, cache, timed, ask, partners, missed>>

-------------------------------------------------------------------------------
\* broadCastOnlineStatus

\* A message of u that has changed its conversations and has yet to drop its list.
Pending(u) ==
  \E t \in Talks : \/ talk[t] \in {"created", "dropSender"} /\ u \in Pair(t)
                   \/ talk[t] = "dropReceiver" /\ u = Receiver[t]

GoAsk(q, from, to) == ask[q] = from /\ ask' = [ask EXCEPT ![q] = to]

ListExists(q) ==
  /\ GoAsk(q, "exists", IF cache[Asker[q]] = {} THEN "find" ELSE "members")
  /\ UNCHANGED <<recent, cache, timed, talk, partners, stale, missed>>

\* The reasons for an answer from the cache to leave somebody out: the list was dropped since
\* EXISTS found it, is not yet or never was renewed, or has room for Limit partners only.
LeftOut(u, answer) ==
  Users \ (IF cache[u] = {} \/ u \in stale \/ Pending(u) THEN answer ELSE Top(u))

\* SMEMBERS of a list that was dropped meanwhile is empty, which counts as an answer.
\* slice(0, 50) of a set that two queries have filled may be any part of it.
ReadMembers(q) ==
  LET u == Asker[q]
  IN /\ GoAsk(q, "members", "answered")
     /\ \E part \in IF Cardinality(cache[u]) <= Limit THEN {cache[u]} ELSE kSubset(Limit, cache[u]) :
          /\ partners' = [partners EXCEPT ![q] = part]
          /\ missed' = [missed EXCEPT ![u] = LeftOut(u, part)]
     /\ UNCHANGED <<recent, cache, timed, talk, stale>>

\* Mutant: the user is taken for the partner.
FindPartnersSwapped(q) ==
  /\ GoAsk(q, "find", "answered")
  /\ partners' = [partners EXCEPT ![q] = {Asker[q]}]
  /\ missed' = [missed EXCEPT ![Asker[q]] = Users \ Top(Asker[q])]
  /\ UNCHANGED <<recent, cache, timed, talk, stale>>

FindPartners(q) ==
  /\ GoAsk(q, "find", IF Top(Asker[q]) = {} THEN "answered" ELSE "del")
  /\ partners' = [partners EXCEPT ![q] = Top(Asker[q])]
  /\ missed' = [missed EXCEPT ![Asker[q]] = Users \ Top(Asker[q])]
  /\ UNCHANGED <<recent, cache, timed, talk, stale>>

DeleteList(q) ==
  /\ GoAsk(q, "del", "sadd")
  /\ cache' = [cache EXCEPT ![Asker[q]] = {}]
  /\ timed' = timed \ {Asker[q]}
  /\ UNCHANGED <<recent, talk, partners, stale, missed>>

\* Mutant: EXPIRE is sent before SADD, when there is no list.
AddListLast(q) ==
  /\ GoAsk(q, "sadd", "answered")
  /\ cache' = [cache EXCEPT ![Asker[q]] = @ \cup partners[q]]
  /\ UNCHANGED <<recent, timed, talk, partners, stale, missed>>

\* SADD adds to what another query has put there since, and keeps its expiry.
AddList(q) ==
  /\ GoAsk(q, "sadd", "expire")
  /\ cache' = [cache EXCEPT ![Asker[q]] = @ \cup partners[q]]
  /\ UNCHANGED <<recent, timed, talk, partners, stale, missed>>

\* EXPIRE of a list that was dropped meanwhile does nothing.
ExpireList(q) ==
  /\ GoAsk(q, "expire", "answered")
  /\ timed' = IF cache[Asker[q]] = {} THEN timed ELSE timed \cup {Asker[q]}
  /\ UNCHANGED <<recent, cache, talk, partners, stale, missed>>

\* The hour has passed.
ListExpires(u) ==
  /\ u \in timed
  /\ cache' = [cache EXCEPT ![u] = {}]
  /\ timed' = timed \ {u}
  /\ UNCHANGED <<recent, talk, ask, partners, stale, missed>>

ConversationNext ==
  \/ \E t \in Talks : \/ OpenConversation(t) \/ Refused(t) \/ UpdateConversation(t)
                      \/ DropSender(t) \/ DropReceiver(t) \/ DropFails(t)
  \/ \E q \in Queries : \/ ListExists(q) \/ ReadMembers(q) \/ FindPartners(q)
                        \/ DeleteList(q) \/ AddList(q) \/ ExpireList(q)
  \/ \E u \in Users : ListExpires(u)

-------------------------------------------------------------------------------
\* Properties.

\* A cached list is the one findMany would give, but while an update is under way and after
\* one that was refused, failed or was outrun; the next update makes it right again.
PartnersFresh == \A u \in Users \ stale : Pending(u) \/ cache[u] \in {Top(u), {}}

\* A list that may be stale goes away by itself: it has an expiry, unless the query that put
\* it there is about to set one.
ListsExpire ==
  \A u \in Users : cache[u] = {} \/ u \in timed
                   \/ \E q \in Queries : Asker[q] = u /\ ask[q] = "expire"
===============================================================================
