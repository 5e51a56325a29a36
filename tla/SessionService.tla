---------------------------- MODULE SessionService ----------------------------
(***************************************************************************)
(* src/session/session.service.ts: the session lock of a conversation,     *)
(* kept twice: under the Redis key session_lock:<id> and as a row of the   *)
(* Session table in PostgreSQL.  The service has no lock of its own and    *)
(* each of its methods is a sequence of store accesses with an await       *)
(* between them, so this module gives one operator for every access; the   *)
(* methods, and what they do when an access fails, are put together by     *)
(* the handlers of WebsocketService.                                       *)
(*                                                                         *)
(* Of a lock only locked_by is kept: locked_at and reason are stored but   *)
(* never read.                                                             *)
(***************************************************************************)
EXTENDS ConnectDomain

VARIABLES
  redisLock,   \* redisLock[c]: locked_by under session_lock:c, or NoUser
  pgLock       \* pgLock[c]: locked_by of the Session row c, or NoUser

sessionVars == <<redisLock, pgLock>>

Holder == Users \cup {NoUser}

SessionTypeOK ==
  /\ redisLock \in [Conversations -> Holder]
  /\ pgLock \in [Conversations -> Holder]

SessionInit ==
  /\ redisLock = [c \in Conversations |-> NoUser]
  /\ pgLock    = [c \in Conversations |-> NoUser]

\* lockSession: first the Redis key, then the upsert of the row.
LockRedis(c, u) == redisLock' = [redisLock EXCEPT ![c] = u] /\ UNCHANGED pgLock
LockRowSkipped(c, u) == UNCHANGED sessionVars   \* mutant: only Redis is locked
LockRow(c, u)   == pgLock' = [pgLock EXCEPT ![c] = u] /\ UNCHANGED redisLock

\* releaseSession: first the Redis key, then the row (a missing row is no error).
ReleaseRedis(c) == redisLock' = [redisLock EXCEPT ![c] = NoUser] /\ UNCHANGED pgLock
ReleaseRowKept(c) == UNCHANGED sessionVars   \* mutant: the row is forgotten
ReleaseRow(c)   == pgLock' = [pgLock EXCEPT ![c] = NoUser] /\ UNCHANGED redisLock

\* getSession: a row found after a Redis miss is written back to Redis.
RestoreLock(c, u) == redisLock' = [redisLock EXCEPT ![c] = u] /\ UNCHANGED pgLock

\* Redis restarts without its data.
LoseRedisLocks == redisLock' = [c \in Conversations |-> NoUser] /\ UNCHANGED pgLock

==============================================================================
