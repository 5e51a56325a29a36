------------------------------ MODULE UsersService ------------------------------
(***************************************************************************)
(* The row of a user and the copy of it that Redis keeps for a day:        *)
(* src/users/users.service.ts, with the two other writers of the row,      *)
(* verifyOtp (src/auth/auth.service.ts) and publishKeys                    *)
(* (src/registeration/registeration.service.ts), and the cache of          *)
(* src/redis/redis.service.ts.  Clients look up the device they write to,  *)
(* and onMessage looks it up again: a message that was written to another  *)
(* one is answered with DEVICE_ID_MISMATCH.                                *)
(*                                                                         *)
(* A device_id is a fresh UUID, modelled by the login that made it; a      *)
(* public_key by the registration it came with.  Names and the columns of  *)
(* Profile are data that only updateProfile writes and are left out.       *)
(* Users have their rows: AuthService has the first login.  An action is   *)
(* one access to PostgreSQL or Redis.                                      *)
(***************************************************************************)
CONSTANTS
  Users,
  Logins, LoginUser,           \* calls of verifyOtp with the right password
  Registrations, Registrant,   \* calls of publishKeys
  Edits, Editor,               \* calls of updateProfile
  Lookups, LookedUp,           \* calls of getUser
  First,                       \* the device of a new user, and the key it lacks
  NoEntry                      \* nothing in the cache

Devices == Logins \cup {First}
Keys    == Registrations \cup {First}

ASSUME CallsAssumption == /\ LoginUser \in [Logins -> Users]
                          /\ Registrant \in [Registrations -> Users]
                          /\ Editor \in [Edits -> Users]
                          /\ LookedUp \in [Lookups -> Users]
                          /\ First \notin Logins
                          /\ NoEntry \notin Devices

VARIABLES
  device, key,   \* columns device_id and public_key of the User table
  cache,         \* cache[u]: the device under user:u in Redis, or NoEntry
  login,         \* program counter of verifyOtp
  register,      \* program counter of publishKeys
  edit,          \* program counter of updateProfile
  copyDevice, copyKey,   \* its local user: the columns as they were read
  lookup,        \* program counter of getUser
  found,         \* its local user
  lastDevice, lastKey,   \* history: what verifyOtp and publishKeys stored last
  tornDevice, tornKey,   \* history: users one of whose columns was stored while an edit held
                         \* the row it had read
  retired,       \* history: devices that existed at a drop of the cache that nothing outran
                 \* and were not the user's: replaced ones and those of other users
  outrun         \* history: users whose last drop did not clean the cache: a lookup had read
                 \* an older device and not stored it yet, or the drop failed

calls   == <<login, register, edit, lookup>>
history == <<lastDevice, lastKey, tornDevice, tornKey, retired, outrun>>
vars    == <<device, key, cache, calls, copyDevice, copyKey, found, history>>

TypeOK ==
  /\ device \in [Users -> Devices] /\ key \in [Users -> Keys]
  /\ cache \in [Users -> Devices \cup {NoEntry}]
  /\ login \in [Logins -> {"idle", "dropCache", "done"}]
  /\ register \in [Registrations -> {"idle", "done"}]
  /\ edit \in [Edits -> {"idle", "write", "profile", "done", "failed"}]
  /\ copyDevice \in [Edits -> Devices] /\ copyKey \in [Edits -> Keys]
  /\ lookup \in [Lookups -> {"idle", "read", "store", "done", "failed"}]
  /\ found \in [Lookups -> Devices]
  /\ lastDevice \in [Users -> Devices] /\ lastKey \in [Users -> Keys]
  /\ tornDevice \subseteq Users /\ tornKey \subseteq Users
  /\ retired \in [Users -> SUBSET Devices]
  /\ outrun \subseteq Users

Init ==
  /\ device = [u \in Users |-> First] /\ key = [u \in Users |-> First]
  /\ cache = [u \in Users |-> NoEntry]
  /\ login = [l \in Logins |-> "idle"]
  /\ register = [k \in Registrations |-> "idle"]
  /\ edit = [e \in Edits |-> "idle"]
  /\ copyDevice = [e \in Edits |-> First] /\ copyKey = [e \in Edits |-> First]
  /\ lookup = [g \in Lookups |-> "idle"]
  /\ found = [g \in Lookups |-> First]
  /\ lastDevice = [u \in Users |-> First] /\ lastKey = [u \in Users |-> First]
  /\ tornDevice = {} /\ tornKey = {}
  /\ retired = [u \in Users |-> {}]
  /\ outrun = {}

\* The user, if an edit of it holds a row that it will write back.
Held(u) == {v \in {u} : \E e \in Edits : Editor[e] = u /\ edit[e] = "write"}

-------------------------------------------------------------------------------
\* verifyOtp of a user who has a row, and publishKeys

GoLogin(l, from, to) ==
  login[l] = from /\ login' = [login EXCEPT ![l] = to] /\ UNCHANGED <<register, edit, lookup>>

RotateDevice(l) ==
  LET u == LoginUser[l]
  IN /\ GoLogin(l, "idle", "dropCache")
     /\ device' = [device EXCEPT ![u] = l]
     /\ lastDevice' = [lastDevice EXCEPT ![u] = l]
     /\ tornDevice' = tornDevice \cup Held(u)
     /\ UNCHANGED <<key, cache, copyDevice, copyKey, found, lastKey, tornKey, retired, outrun>>

\* A lookup of u that would put an older device into the cache.
Outruns(u) == \E g \in Lookups : /\ LookedUp[g] = u /\ lookup[g] = "store"
                                 /\ found[g] # device[u]

\* What a drop of the entry of u has achieved.
RecordDrop(u) ==
  \/ Outruns(u) /\ outrun' = outrun \cup {u} /\ UNCHANGED retired
  \/ /\ ~Outruns(u) /\ outrun' = outrun \ {u}
     /\ retired' = [retired EXCEPT ![u] =
                      {d \in Devices : d # device[u] /\ (d \in Logins => login[d] # "idle")}]

\* Mutant: the entry of the user is not deleted.
DropCacheForgotten(l) ==
  /\ GoLogin(l, "dropCache", "done")
  /\ RecordDrop(LoginUser[l])
  /\ UNCHANGED <<device, key, cache, copyDevice, copyKey, found,
                 lastDevice, lastKey, tornDevice, tornKey>>

DropCache(l) ==
  /\ GoLogin(l, "dropCache", "done")
  /\ cache' = [cache EXCEPT ![LoginUser[l]] = NoEntry]
  /\ RecordDrop(LoginUser[l])
  /\ UNCHANGED <<device, key, copyDevice, copyKey, found,
                 lastDevice, lastKey, tornDevice, tornKey>>

\* deleteCache catches the error of a failing DEL; or the process stops before it.
DropCacheFails(l) ==
  /\ GoLogin(l, "dropCache", "done")
  /\ outrun' = outrun \cup {LoginUser[l]}
  /\ UNCHANGED <<device, key, cache, copyDevice, copyKey, found,
                 lastDevice, lastKey, tornDevice, tornKey, retired>>

StoreKey(k) ==
  LET u == Registrant[k]
  IN /\ register[k] = "idle" /\ register' = [register EXCEPT ![k] = "done"]
     /\ key' = [key EXCEPT ![u] = k]
     /\ lastKey' = [lastKey EXCEPT ![u] = k]
     /\ tornKey' = tornKey \cup Held(u)
     /\ UNCHANGED <<device, cache, login, edit, lookup, copyDevice, copyKey, found,
                    lastDevice, tornDevice, retired, outrun>>

-------------------------------------------------------------------------------
\* updateProfile

GoEdit(e, from, to) ==
  edit[e] = from /\ edit' = [edit EXCEPT ![e] = to] /\ UNCHANGED <<login, register, lookup>>

\* Mutant: the user is taken from the cache.
ReadRowCached(e) ==
  /\ GoEdit(e, "idle", "write")
  /\ copyDevice' = [copyDevice EXCEPT ![e] = cache[Editor[e]]]
  /\ copyKey' = [copyKey EXCEPT ![e] = key[Editor[e]]]
  /\ UNCHANGED <<device, key, cache, found, history>>

ReadRow(e) ==
  /\ GoEdit(e, "idle", "write")
  /\ copyDevice' = [copyDevice EXCEPT ![e] = device[Editor[e]]]
  /\ copyKey' = [copyKey EXCEPT ![e] = key[Editor[e]]]
  /\ UNCHANGED <<device, key, cache, found, history>>

\* The whole row is written back.
WriteRow(e) ==
  /\ GoEdit(e, "write", "profile")
  /\ device' = [device EXCEPT ![Editor[e]] = copyDevice[e]]
  /\ key' = [key EXCEPT ![Editor[e]] = copyKey[e]]
  /\ UNCHANGED <<cache, copyDevice, copyKey, found, history>>

CreateProfile(e) ==
  /\ GoEdit(e, "profile", "done")
  /\ UNCHANGED <<device, key, cache, copyDevice, copyKey, found, history>>

\* An access fails (update throws when another user has the user_name), or the process stops.
EditFails(e) ==
  /\ GoEdit(e, "write", "failed") \/ GoEdit(e, "profile", "failed")
  /\ UNCHANGED <<device, key, cache, copyDevice, copyKey, found, history>>

-------------------------------------------------------------------------------
\* getUser

GoLookup(g, from, to) ==
  lookup[g] = from /\ lookup' = [lookup EXCEPT ![g] = to] /\ UNCHANGED <<login, register, edit>>

\* An entry of the cache is the answer.
ReadCache(g) ==
  LET c == cache[LookedUp[g]]
  IN /\ \/ GoLookup(g, "idle", "read") /\ c = NoEntry /\ UNCHANGED found
        \/ /\ GoLookup(g, "idle", "done") /\ c # NoEntry
           /\ found' = [found EXCEPT ![g] = c]
     /\ UNCHANGED <<device, key, cache, copyDevice, copyKey, history>>

ReadUser(g) ==
  /\ GoLookup(g, "read", "store")
  /\ found' = [found EXCEPT ![g] = device[LookedUp[g]]]
  /\ UNCHANGED <<device, key, cache, copyDevice, copyKey, history>>

\* Mutant: the key of the entry does not name the user.
StoreCacheForAll(g) ==
  /\ GoLookup(g, "store", "done")
  /\ cache' = [u \in Users |-> found[g]]
  /\ UNCHANGED <<device, key, copyDevice, copyKey, found, history>>

\* setCache catches the error of a failing SETEX: the answer is given all the same.
StoreCache(g) ==
  /\ GoLookup(g, "store", "done")
  /\ cache' \in {[cache EXCEPT ![LookedUp[g]] = found[g]], cache}
  /\ UNCHANGED <<device, key, copyDevice, copyKey, found, history>>

\* getCache or findUnique throws.
LookupFails(g) ==
  /\ GoLookup(g, "idle", "failed") \/ GoLookup(g, "read", "failed")
  /\ UNCHANGED <<device, key, cache, copyDevice, copyKey, found, history>>

\* CACHE_TTL has passed, or Redis has lost the entry.
ExpireCache(u) ==
  /\ cache[u] # NoEntry
  /\ cache' = [cache EXCEPT ![u] = NoEntry]
  /\ UNCHANGED <<device, key, calls, copyDevice, copyKey, found, history>>

-------------------------------------------------------------------------------

Next ==
  \/ \E l \in Logins : RotateDevice(l) \/ DropCache(l) \/ DropCacheFails(l)
  \/ \E k \in Registrations : StoreKey(k)
  \/ \E e \in Edits : ReadRow(e) \/ WriteRow(e) \/ CreateProfile(e) \/ EditFails(e)
  \/ \E g \in Lookups : ReadCache(g) \/ ReadUser(g) \/ StoreCache(g) \/ LookupFails(g)
  \/ \E u \in Users : ExpireCache(u)

Spec == Init /\ [][Next]_vars

-------------------------------------------------------------------------------
\* Properties.

\* updateProfile does not undo a login or a registration: the row has the device and the key
\* that verifyOtp and publishKeys stored last, unless they were stored between the read and
\* the write of an edit of that user.
ColumnsKept ==
  \A u \in Users : /\ u \notin tornDevice => device[u] = lastDevice[u]
                   /\ u \notin tornKey => key[u] = lastKey[u]

Rotating(u) == \E l \in Logins : LoginUser[l] = u /\ login[l] = "dropCache"

\* The device in the cache is the one in the row, so that onMessage refuses no message that
\* was written to it, except while a login has yet to drop the entry and after a drop that a
\* lookup outran; the next login that drops the entry makes it right again.
CachedDevice ==
  \A u \in Users \ (tornDevice \cup outrun) : Rotating(u) \/ cache[u] \in {device[u], NoEntry}

\* Once a drop has cleaned the cache, the devices that were replaced before never come back,
\* not even when a later drop is outrun or fails.
RetiredStaysOut == \A u \in Users \ tornDevice : {device[u], cache[u]} \cap retired[u] = {}

-------------------------------------------------------------------------------
\* Inductive strengthenings.

\* An edit about to write the row back changes no column but a torn one.
EditsHoldRow ==
  \A e \in Edits : edit[e] = "write" =>
    /\ Editor[e] \notin tornDevice => copyDevice[e] = device[Editor[e]]
    /\ Editor[e] \notin tornKey => copyKey[e] = key[Editor[e]]

\* A lookup about to fill the cache has found what the cache may hold.
LookupsFoundRow ==
  \A g \in Lookups : lookup[g] = "store" =>
    LET u == LookedUp[g]
    IN /\ u \notin tornDevice \cup outrun => Rotating(u) \/ found[g] = device[u]
       /\ u \notin tornDevice => found[g] \notin retired[u]

\* Nothing is retired before it exists.
RetiredExisted ==
  \A u \in Users : \A l \in retired[u] \cap Logins : login[l] # "idle"
===============================================================================
