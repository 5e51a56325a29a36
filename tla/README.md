# A TLA+ verification of connect-server

connect-server is a NestJS server for end-to-end encrypted chat: one Node.js process with
socket.io towards the clients, PostgreSQL (through Prisma) for everything that is kept, and
Redis for queues, locks and caches. The repository has no tests. This directory models its
core, model-checks it with TLC on small instances, and proves its main invariants with TLAPS
for instances of any size. Paths below are those of the repository (`src/...`).

## The system

| Component | State it keeps | Operations | Modelled in |
|---|---|---|---|
| `websocket/websocket.service.ts` | the Map `clients`: user -> socket; per call: locals across awaits | `handleConnection`, `handleDisconnection`, `onMessage`, `sendMessage`, `emitToTarget`; `broadcastPresence`; `onError`, `onActivity` | `WebsocketService`, `Presence` |
| `session/session.service.ts` | lock of a conversation, in Redis (`session_lock:<id>`) and in the Session table | `lockSession`, `releaseSession`, `getSession` | `SessionService` |
| `message-queue/message-queue.service.ts` | messages waiting for a user, in Redis (`message_queue:<user>`) and in the QueuedMessage table | `enqueueMessage`, `getQueuedMessages`, `clearQueue`, `clearUserQueue`; counts and `cleanupOldMessages` | `MessageQueueService` |
| `registeration/registeration.service.ts`, `keys/keys.service.ts` | `User.public_key`, SignedPreKey and OneTimePreKey rows | `publishKeys`, `getKeyBundle`, `change` | `KeyBundles` |
| `auth/auth.service.ts` | User rows, RefreshToken rows | `verifyOtp`, `refreshTokens` | `AuthService`, `UsersService` |
| `users/users.service.ts` | User and Profile rows, cache `user:<id>` | `getUser`, `updateProfile`, `searchUsers` | `UsersService` |
| `conversation/conversation.service.ts` | Conversation rows, cache `partners:<id>` | `updateConversation`, `broadCastOnlineStatus`, `updateLastSeen` | `ConversationService` |
| `redis/redis.service.ts` | `online_users`; cache helpers | `addOnlineUser`, `removeOnlineUser`, `getCache`, `setCache`, `deleteCache` | `Presence`, `UsersService`; commands where used |
| JWT guard, analytics, controllers, bootstrap | none of interest | stateless, or append to a file | no |

**How they interact.** A client opens a socket (`handleConnection`): the user is entered into
`clients`, the queue of the user is read and delivered one message at a time, each delivery
awaiting the client's acknowledgement; when all were acknowledged the sessions of those
conversations are released and the queue is cleared in both stores. A client sends a message
(`onMessage`): the session lock of the conversation is looked up (Redis first, PostgreSQL
second, written back to Redis); unless somebody else holds it the message is emitted to the
receiver's socket with a 3000 ms timeout; when there is no acknowledgement the session is
locked for the sender and the message is queued, each in Redis first and PostgreSQL second.
A closed socket (`handleDisconnection`) removes the user from `clients`. Both handlers end
with `broadcastPresence`: `ConversationService` finds the user's partners (cached for an hour, dropped
whenever a message updates the conversation) and those who are connected are told. Clients look up the
device they write to with `getUser` (cached for a day, dropped when `verifyOtp` rotates the device), and
`onMessage` looks it up again.

**What is hard.** Handlers are `async` and interleave at every `await`; they keep what they have
read (`clients` entries, the list of queued messages, a lock row) across awaits. The same fact
is kept in two stores written one after the other, either of which may fail, and Redis data may
expire or be lost. Acknowledgements race a timeout, sockets close at any time, the process may
stop between any two accesses. Key publication takes four accesses and one READ COMMITTED
transaction while bundles are fetched in three. `PROJECT.json` lists these hazards line by line,
with the properties that cover them.

**What makes each component correct.**

- Delivery: nobody is told DELIVERED for a message no client acknowledged; messages only reach
  their receiver; a queued message stays queued until it was received; queues and sessions are
  cleared only behind a whole delivery; every handler ends.
- Locks: a lock has a cause (a message that could not be delivered) and is held by its sender;
  it holds while messages wait and goes away with them; both stores agree.
- Keys: a bundle holds keys of the user asked for, and of one publication; a one-time key is
  given out once; a user has one signed key.
- Tokens: a login never has two live refresh tokens; a token is exchanged once.
- Users: an edit of the profile undoes no login and no registration; the cached device is the user's, and a
  replaced device does not come back.
- Presence: only partners are told; nobody is left with a status that is no longer so, but for the cases in which
  the code tells nobody, or not everybody, which are named; `clients` and `online_users` agree; an entry without a
  socket is the exception that is understood.
- Partners: the cached list is the one the database would give, and goes away by itself when it is not.

## Modules

| Module | Contents |
|---|---|
| `ConnectDomain` | users, messages, sockets, conversations (pairs of users): constants and their assumptions |
| `SessionService` | the two copies of the session lock, one operator for every store access |
| `MessageQueueService` | the two copies of the queue, one operator for every store access |
| `WebsocketService` | the handlers over both services: variables, `Init`, actions, `Next`, `Spec` |
| `WebsocketProperties` | `SerialSpec`, `FairSpec`, the properties |
| `Mailbox` | abstract specification: one mailbox per user |
| `MailboxRefinement` | the two queues and locks as a `Mailbox` (`INSTANCE Mailbox WITH`) |
| `WebsocketInvariants` | inductive strengthenings |
| `WebsocketProofs` | theorems about message delivery, whatever overlaps |
| `SerialInvariants`, `SerialProofs` | strengthenings and theorems about `SerialSpec` |
| `MailboxInvariants`, `MailboxProofs` | what the refinement rests on, and its proof |
| `KeyBundles`, `KeyBundlesProofs` | key publication, fetching and marking; theorems |
| `AuthService`, `AuthProofs` | logins and refresh tokens; theorems |
| `UsersService`, `UsersProofs` | the user row, its writers and its cache; theorems |
| `ConversationService` | conversations, most recent first, and the partners cache: actions only |
| `Presence`, `PresenceProofs`, `PartnersProofs` | `clients`, `online_users` and the announcements, composed with `ConversationService`; theorems, those about types, lists of partners and who was told what in `PartnersProofs` |
| `MCWebsocket`, `MCKeyBundles`, `MCAuthService`, `MCUsersService`, `MCPresence` | instances for TLC |

### Message delivery

A handler is a program counter and its local variables. `onMsg[m]` is the counter of the
`onMessage` call for message `m` and, at the end, the reply; `msgFrom`, `msgTo`, `msgLock` are its
locals `sender`, `receiver` and the session row it writes back. `onConn[s]` is the counter of
`handleConnection` for socket `s`; `queued`, `pos`, `connTo`, `todo` are `queuedMessages`, the index
of the loop, `receiver` and the conversations still to be released. Each action is one awaited
access together with the synchronous code behind it, in the order of the code:

| Code | Actions |
|---|---|
| `onMessage` 161-175 | `OnMessage` |
| `getSession` 70-101, 326-334 | `ReadLock`, `ReadLockRow`, `RestoreLockOf`, `ReadLockFails` |
| `emitToTarget` 290-312 | `Emit`, `Acknowledge`, `NotAcknowledged` |
| `lockSession`, `enqueueMessage` 350-363 | `LockSessionRedis`, `LockSessionRow`, `EnqueueRedis`, `EnqueueRow` |
| `onMessage` 181-203 | `CheckDevice`, `OnMessageFails` |
| `handleConnection` 41-57 | `Connect`, `Lookup`, `Register` |
| `getQueuedMessages` | `ReadQueue`, `ReadQueueRows`, `RestoreQueueOf`, `ReadQueueFails`, `RestoreQueueFails` |
| 65-109 | `Group`, `SendQueued`, `AcknowledgeQueued`, `QueuedNotAcknowledged`, `SendQueuedFails` |
| 114-130 | `ReleaseSession*`, `ClearQueue*`, `ClearUserQueue*` |
| `handleDisconnection` | `Disconnect` |
| faults | `Crash`, `Expire`, `LoseRedis`, and the `...Fails` actions |

`received` (what clients acknowledged) and `late` (what was pushed while a delivery to the receiver
was under way) are history variables: no guard reads them. `faults` counts faults against
`MaxFaults`; it too only bounds the model.

Abstractions. A message is one call of `onMessage`, sent at most once, by its own sender; its content,
timestamps and devices are left out, and whether the device check fails is left open. The conversion of
a row into a message loses the sender's device; the message keeps its identity, which is all the
properties use. A failed access is one that was not executed. The client's acknowledgement is
`{ received: true }`, `{ received: false }` or none; malformed ones are left out. Accesses that change
nothing kept here add no action: a handler may be delayed between two actions anyway. A Map entry
whose socket is gone keeps its socket identifier in use, so an instance may run out of identifiers.

### Keys and tokens

In `KeyBundles` key material is abstracted to the publication it came in; a one-time key row
remembers who inserted it (the tuple the transaction deletes) apart from whose columns it carries
(`change` writes back the whole row it read). The transaction takes its snapshot in `DeleteKeys` and
commits in `CreateKeys`; writers of a row it deletes wait. In `AuthService` a token is the call that minted
it; clients present any token they were ever given, responses may be lost, `family` is a history variable.
Three history variables of `KeyBundles` name what the code does not prevent: `raced` are users two of whose publications both found
no signed key and so create two, `torn` those whose last publication failed or did not run alone, `straddled` fetches beside a
publication of their target or after one that left it raced or torn. All other overlaps, failures and write-backs are covered by the properties.

### Users

`UsersService` has three writers of a row: `RotateDevice` (`verifyOtp`), `StoreKey` (`publishKeys`) and
`ReadRow`, `WriteRow` (`updateProfile`, which writes back all it read); `CreateProfile` only adds a row. A device is the
login that made it, a public key the registration it came with, since both are fresh. `DropCache` is the
`deleteCache` of `verifyOtp`; `ReadCache`, `ReadUser`, `StoreCache` are `getUser`; errors that the cache helpers
catch are alternatives of these (`DropCacheFails`, the second alternative of `StoreCache`). The history variables say what an
exception of a property is about: `tornDevice` and `tornKey` are users with a column stored while an edit held the row,
`outrun` those whose last drop of the cache was outrun by a lookup or failed.

### Presence and partners

Each socket has an "on" and an "off" handler. `Connect`, `AddOnlineUser`, `Register` are `handleConnection` up to
`clients.set`, `Disconnect` is the synchronous part of `handleDisconnection`, and `Emit` the end of
`broadcastPresence`, after its only await: nothing is emitted when there are no partners, and otherwise to the socket each
partner has in `clients` (`Reached`), which receives nothing when it is closed. In between, a handler is a query of `ConversationService`: `ListExists`, `ReadMembers` on a hit;
`FindPartners`, `DeleteList`, `AddList`, `ExpireList` on a miss. A message (`Talks`) opens its conversation,
is refused or stamps it (`UpdateConversation`), and drops both lists (`DropSender`, `DropReceiver`), or fails on the way
(`DropFails`). `recent[u]` stands for `last_message_at`: the partners of `u` in its order. An update's date
is taken when its upsert takes effect, a step later than `new Date()`. Draining the
queue and storing `last_seen` are time that passes before a query starts. `told[u][s]`, a history variable, is the status of `u` that was announced last to the
open socket `s`; a new connection has been told nothing. `crossed`, `disturbed`, `hasty`, `stale` and `missed` are history
variables too: each names the users or sockets for whom a promise was given up, and the properties say that it is kept for all others and
regained by the next undisturbed connection, disconnection or update. `missed[u]` are those whom the last answer about the partners of
`u` had a reason to leave out: they are not among the `Limit` most recent ones, or the list was dropped after `EXISTS` had found it, so
that `SMEMBERS` gives an empty array, which is truthy and taken for an answer, or it is stale.

### The abstract mailbox

`Mailbox` promises that messages for a user are kept in the order of their acceptance, handed over oldest first, forgotten
only after they were received, and that nobody writes to a user from whom something waits for them. `BoxOf(u)` in `MailboxRefinement`
is what `getQueuedMessages` would return; `SerialSpec` implements the mailbox, crashes aside, while `Intact` holds, that is,
unless Redis has lost a list *and* a message that was accepted is out of reach (`Hidden`): another message was pushed to the
list since and hides its row, or the delivery under way has read such a list (`PassedOver`). As long as one is, `Lose` admits
what happens but that something received is no longer received; when a message that was hidden turns up again because the
newer list is lost as well, the mailbox is intact again. The run `backup` shows that such a loss happens. `PassedOver` is
needed only after two losses: the list is lost a second time while a delivery that knows only its newer messages runs, the older rows are
found again by the next delivery but this one goes on without them.

The definitions whose comment begins with "Mutant" are not part of any specification. Each is a plausible bug
in the definition that follows; with it in place TLC finds the property it is listed for in
`PROJECT.json` violated.

## Runs

`tlc -workers 2 -config <cfg> <module>`; `liveness` and `serial` take three minutes, `presence` about two, the others
at most about one.

| Run | Instance | Question |
|---|---|---|
| `overlap_crash` | alice sends 2 messages to bob, a socket each, 1 crash | is anything lost, cleared early or locked without cause, whatever overlaps and wherever the process stops? |
| `overlap_two_sockets` | 1 message, bob has 2 sockets, 1 failing access | do replies, captured socket ids and the queue survive two concurrent deliveries and a failure? |
| `serial` | 3 users with a socket each; a message from alice to bob, one back, one from carol to bob; Redis loses data twice | without overlap, crashes and failing accesses: do the stores agree, do locks and queues belong together, does PostgreSQL suffice to restore them, and is it a `Mailbox`? |
| `liveness` | 1 message, alice has a socket, bob two, fairness | does every handler end without any help of clients, and is a queued message received? |
| `keys` | 3 publications of 2 users, which may fail, 1 fetch, 2 marks | is a bundle always the target's; when is it from one publication, when is there one signed key? |
| `users` | 3 logins of 2 users, a registration, an edit and 2 lookups of one of them, failures | what does an edit undo, which device may the cache name? |
| `presence` | 3 users, 3 sockets (two of alice), 2 messages, 1 crash: any three of these, or four that give alice two partners | who is told what and left with what, what is left in `clients`, `online_users` and the partners cache? |
| `refresh_tokens` | 3 logins of 2 users, 3 refreshes, failures, lost responses | do sessions fork, are tokens exchanged twice? |

Bounds. Two messages of one conversation are needed for a delivery that stops half-way, is cleared early
or misses a late message; a third one in the other direction for crossing queues and refusals by
lock; a third user for a queue that holds the messages of two conversations, of which a delivery may know only one; two sockets
of one user for double registration, foreign disconnects and concurrent deliveries.
One fault of a kind is enough to separate every two neighbouring accesses; `serial` has two losses, one to hide a row and
one to uncover it. In `presence` the
constraint `FewArrivals` admits three of the six connections, messages and crashes of a behaviour (`MaxArrivals`), in
every choice and order: three overlapping handlers are the most any property needs (two that cross and one that
sets things right again). A list of partners of length `Limit` = 1 is shorter than alice's two conversations; that somebody she told
falls out of it takes two connections and two messages, which `TwoPartners` admits as well, one message after the other and without
a crash. Somebody left out by a stale list takes five arrivals: the run does not get there, the proof of `LastToldTrue` does.
In `keys` three publications are one that fails or overlaps, one that sets things right and one of another user with the same key ids.
In `users` two lookups are needed for one that outruns a drop and one that is served from what it left. Deadlock is not checked: all
messages may be sent and all calls made, and a socket identifier may stay in use forever, so that
the instances really stop.

Four further runs check what the repository says of itself and TLC refutes:

| Run | Statement | What happens |
|---|---|---|
| `self_messaging` | `exceptions.ts:42` "Cannot send message to yourself" | two absent `clients` entries compare equal (`websocket.service.ts:170`); a message to somebody else is refused and not queued |
| `late_message` | `websocket.service.ts:113` "Only unlock and clear if ALL messages were delivered" | messages pushed during a delivery are deleted with the list |
| `backup` | `message-queue.service.ts:28` "persistent backup" | after a list expired and was pushed to again, older rows are not read and then deleted |
| `keys_single_use` | `README.md:257` "Single-use keys" | two fetches return the same one-time key |

`serial` uses a specification, `SerialSpec`, in which no handler starts while another runs, the process does not stop and no access
fails; Redis may lose data. Its properties describe what the code achieves call by call: they do not hold under overlap, and they say
nothing of what a crash or a failing access leaves between the two stores, which `overlap_crash` and `overlap_two_sockets` reach with
weaker properties. (A comment at `websocket.service.ts:325`, "session already
locked", is of that kind: with two sockets draining the same queue the first to end has released the session.)

Fairness (`FairSpec`): weak fairness of the continuation of every handler (`MsgContinues`, `ConnContinues`), which the
event loop gives once an access has completed, and of the timeout of an emission. Acknowledgements are excluded from it;
connecting, sending and disconnecting are not fair at all. `QueuedIsReceived` therefore assumes of the receiver what it
needs, as the premise of the property: `Returns`, it connects again and again, and from some time on `Attentive`, it leaves no
delivery unanswered and does not hang up during one. Its conclusion excepts messages in `late`, those the run `late_message`
is about. That `handleDisconnection` drops the entry of whichever socket the user has is what makes it true: a variant
that drops the closing socket's own entry only (the mutant `DisconnectOwnEntry`, the obvious repair of
`SelfMessagingOnlyToSelf`) leaves the entry of a socket that closed before it was registered for good, and the user is never
registered again. `NoGhost` says that this is the only way an entry outlives its socket.

## Proofs

`tlapm <module>` for `WebsocketProofs`, `SerialProofs`, `KeyBundlesProofs`, `AuthProofs`, `UsersProofs`, `PresenceProofs`,
`PartnersProofs`, `MailboxProofs`. Every invariant of a run is a theorem, and so is the refinement. "Serial" is short for a theorem
about `SerialSpec`: without overlap, crashes and failing accesses. Assumed is only what
the modelling modules state of their constants: senders, receivers, owners and callers are users,
`NoUser`, `NoSocket` and `None` are nobody, `Messages` is finite (rows are read into a sequence), logins are not refreshes,
the bound on crashes is a number (`CrashesAssumption`).

| Theorem | For every instance |
|---|---|
| `TypeCorrect` | the types; needs `PositionInRange`, that a delivery never indexes outside what it read |
| `DeliveredOnlyIfReceived` | by `DeliveredInv`: a call that has left the emission towards `getUser` was acknowledged |
| `ClearsOnlyAfterWholeDelivery` | by `WholeDeliveryInv`: everything before the loop's position was received |
| `LocksHaveCauses` | by `LockInv`: the lock row a call is about to write back has a cause too; causes are never withdrawn |
| `OnlyToReceiver` | by `ReceiverInv`: the Map, socket ids kept in locals and both queues stay with their user |
| `QueuedStaysListed` | by `QueuedInv`: a delivery that has read the list knows all of it that matters when it clears it |
| `QueuesNeverCross`, `LocksOutliveRedis` | serial, by `LocksInv`, see below |
| `StoresStayTogether`, `QueuedIsLocked` | serial, by `IntactInv`: list, rows and what a delivery has read are the same messages |
| `NoLockWithoutRow` | serial, by `LockedForRow`: a lock is there for a row or the call that adds it, or its rows were overlooked |
| `ImplementsMailbox`, `NothingIsHidden` | serial, by `KeepingInv`, see below |
| `KeyTypeCorrect`, `BundlesBelongToTarget` | by `OwnRows`: every row found or read belongs to the user it is looked up by |
| `AuthTypeCorrect`, `TokensStayWithTheirUser`, `TokensAreRedeemedOnce`, `LoginsDoNotFork` | by `MintedInv`, `RefreshInv`, `RedeemedInv`: tokens in circulation were minted and exchanged ones are gone for good |
| `SignedKeyIsUnique` | by `RowInv`: at most one publication is about to create the row, and only while there is none |
| `BundlesAreConsistent` | by `WholeInv`: what a lone publication has not reached yet is all of the unused keys that may be old, and a fetch that is not straddled has read what is still stored |
| `UsersTypeCorrect`, `EditsKeepColumns` | by `EditsHoldRow`: what an edit will write back is what the row still has, but for torn columns |
| `CacheHasDevice`, `RetiredDevicesStayOut` | by `LookupsFoundRow`: what a lookup is about to store is what the cache may hold; `RetiredExisted`: no fresh device is retired |
| `GhostsWereHasty` | by `GhostInv`: an entry is a socket of its user, and a socket being registered is open or closed too early |
| `OnlineAgrees` | inductive as it stands |
| `LastAnnouncementIsTrue` | by `AnnounceTruth`: what a handler is about to announce is so, unless handlers crossed; `AnswerKnowsAll`: its answer has everybody but those in `missed`, by `TopFits` and what the cache holds; `ToldSockets`: a socket that was told something has been registered and is open |
| `CachedPartnersAreFresh` | by `Fresh`: a list on its way to the cache is as recent as the cached one has to be |
| `CachedListsExpire` | by `AskedInBroadcast`: a handler asks once, so that no query forgets the expiry it owes |
| `TypeCorrect` (presence), `OnlyPartnersAreTold` | by `ListsOfPartners`: every list of partners, in the database, in the cache or in a handler, is of users it has a conversation with; `ToFrontKeeps` says that an update permutes or extends a list |

Hardly any of the properties is inductive as it stands: each speaks of the end of a handler, and the strengthening
adds what the handler has established on its way. TLC checked the strengthenings before they were proved. The proofs
have a step for each action, and frame lemmas (`MsgStepFrame`, `ConnStepFrame`, `LoginFrame`) for what actions leave alone.

The argument for the locks (`LocksInv`, `SerialProofs`) is the one the code relies on between its lines. A message passes the
lock check only when nobody else holds the row of the session, and as no other handler runs this stays so until the call has
locked for its own sender (`PassedInv`); hence every row lies under the lock of its sender and all rows of a conversation have one
sender (`RowLockInv`), which `clearQueue`, deleting in both directions, needs. A delivery releases a session first in Redis, then in
PostgreSQL, and deletes its rows next (`ReleasedInv`); the only state with rows and no lock is the one between the two
(`Unlocked`). Redis has no lock that PostgreSQL lacks except inside `lockSession` (`RedisLockInv`), so that losing Redis loses no
lock for good. Each part needs the others: they are proved inductive together. `IntactInv` adds, as long as Redis has lost nothing,
that a delivery has read all rows of its user and that those left are the ones whose sessions are still to be released. The
exception of `NoIdleLock` is a loss followed by a delivery that knows the messages of one conversation only and whose `clearUserQueue` deletes the rows of
another: `Overlooked` names it, and `NoLockWithoutRow` proves that there is no other.

The argument for the refinement (`KeepingInv`, `MailboxProofs`) has to hold whatever Redis loses, where `IntactInv` says nothing.
`Before` is the order of `created_at`, with the message that was pushed and gets its row next at the end; lists, rows and what
a delivery has read are sorted by it (`OrderInv`), so that any two of them with the same messages are equal (`SortedSame`) and one with fewer
is a subsequence of the other (`SortedSubsequence`): the rows are the list again after it was lost. What a list or a delivery lacks,
somebody still waits for (`CompleteInv`), which is then in `Hidden`; this needs `YoungestInv`: as long as a user has
rows one of them, younger than all received ones, was not received, for a delivery hands over the oldest row first and deletes nothing before
it has handed over all. Hence, while nothing is hidden, a list that is lost or cleared loses nothing that waits (`BoxForgets`), a push to an empty
list finds no rows (`PushedBox`), and a delivery that has read the list or the rows hands over what is first in the mailbox
(`HandsOverOldest`). That a message is accepted or delivered only while nothing waits in the other direction is `LocksInv` again
(`WritesWhenAllowed`). `IntactStep` puts these together action by action. TLC checked `KeepingInv` on instances with up to three losses.

Only model-checked: `HandlersFinish` and `QueuedIsReceived` (the prover
handles neither fairness nor ENABLED); the counterexamples.

## Not modelled

- `onError` and `onActivity` change no state: they emit to the socket of an entry or do nothing.
- `cleanupOldMessages`, `getUserQueueCount` and the readers of `online_users` have no caller; `getQueueCount` only fills a reply.
- Names: `updateProfile` stores `user_name`, and the cached user keeps the old one for up to a day. What clients show is not
  part of any property here, nor are Profile rows, which are added and never read back whole.
- `CheckDevice` of `WebsocketService` leaves the outcome of the device check open instead of composing with `UsersService`:
  either outcome comes after the acknowledgement, and delivery does not depend on it otherwise.
- Accesses that fail inside `Presence` before a `try` end the process, as they do in the code: they are its `Crash`.
- JWT verification (stateless), analytics (appends to a file nothing reads), controllers, dependency injection and bootstrap,
  `searchUsers`, `requestOtp`.

Left for later: the refinement with crashes.
