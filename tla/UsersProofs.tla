------------------------------ MODULE UsersProofs ------------------------------
(***************************************************************************)
(* Proofs about UsersService, for any number of users and of overlapping   *)
(* calls: the types, that updateProfile undoes no login and no             *)
(* registration it did not overlap, and what the cache may hold.           *)
(***************************************************************************)
EXTENDS UsersService, TLAPS

LEMMA CallUsers ==
  /\ \A l \in Logins : LoginUser[l] \in Users
  /\ \A k \in Registrations : Registrant[k] \in Users
  /\ \A e \in Edits : Editor[e] \in Users
  /\ \A g \in Lookups : LookedUp[g] \in Users
  /\ First \notin Logins /\ NoEntry \notin Devices /\ Logins \subseteq Devices
  BY CallsAssumption DEF Devices

\* Every step is one of the calls, an entry that expires, or a stutter.
LEMMA UsersStepCases ==
  ASSUME [Next]_vars
  PROVE  \/ \E l \in Logins : RotateDevice(l)
         \/ \E l \in Logins : DropCache(l)
         \/ \E l \in Logins : DropCacheFails(l)
         \/ \E k \in Registrations : StoreKey(k)
         \/ \E e \in Edits : ReadRow(e)
         \/ \E e \in Edits : WriteRow(e)
         \/ \E e \in Edits : CreateProfile(e) \/ EditFails(e)
         \/ \E g \in Lookups : ReadCache(g) \/ LookupFails(g)
         \/ \E g \in Lookups : ReadUser(g)
         \/ \E g \in Lookups : StoreCache(g)
         \/ \E u \in Users : ExpireCache(u)
         \/ UNCHANGED vars
  BY DEF Next

\* A step preserves the types.
LEMMA UsersTypeStep ==
  ASSUME TypeOK, [Next]_vars
  PROVE  TypeOK'
<1> USE CallUsers DEF TypeOK, history, calls
<1>1. ASSUME NEW l \in Logins, RotateDevice(l) PROVE TypeOK'
  BY <1>1 DEF RotateDevice, GoLogin, Held
<1>2. ASSUME NEW l \in Logins, DropCache(l) PROVE TypeOK'
  <2>1. outrun' \subseteq Users /\ retired' \in [Users -> SUBSET Devices]
    BY <1>2 DEF DropCache, RecordDrop
  <2> QED
    BY <1>2, <2>1 DEF DropCache, GoLogin
<1>3. ASSUME NEW l \in Logins, DropCacheFails(l) PROVE TypeOK'
  BY <1>3 DEF DropCacheFails, GoLogin
<1>4. ASSUME NEW k \in Registrations, StoreKey(k) PROVE TypeOK'
  BY <1>4 DEF StoreKey, Keys, Held
<1>5. ASSUME NEW e \in Edits, ReadRow(e) PROVE TypeOK'
  BY <1>5 DEF ReadRow, GoEdit
<1>6. ASSUME NEW e \in Edits, WriteRow(e) PROVE TypeOK'
  BY <1>6 DEF WriteRow, GoEdit
<1>7. ASSUME NEW e \in Edits, CreateProfile(e) \/ EditFails(e) PROVE TypeOK'
  BY <1>7 DEF CreateProfile, EditFails, GoEdit
<1>8. ASSUME NEW g \in Lookups, ReadCache(g) \/ LookupFails(g) PROVE TypeOK'
  BY <1>8 DEF ReadCache, LookupFails, GoLookup
<1>9. ASSUME NEW g \in Lookups, ReadUser(g) PROVE TypeOK'
  BY <1>9 DEF ReadUser, GoLookup
<1>10. ASSUME NEW g \in Lookups, StoreCache(g) PROVE TypeOK'
  BY <1>10 DEF StoreCache, GoLookup
<1>11. ASSUME NEW u \in Users, ExpireCache(u) PROVE TypeOK'
  BY <1>11 DEF ExpireCache
<1>12. CASE UNCHANGED vars
  BY <1>12 DEF vars
<1> QED
  BY <1>1, <1>2, <1>3, <1>4, <1>5, <1>6, <1>7, <1>8, <1>9, <1>10, <1>11, <1>12, UsersStepCases

\* Columns, cache, locals and program counters keep their types.
THEOREM UsersTypeCorrect == Spec => []TypeOK
<1>1. Init => TypeOK
  BY DEF Init, TypeOK, Devices, Keys
<1>2. TypeOK /\ [Next]_vars => TypeOK'
  BY UsersTypeStep
<1> QED
  BY <1>1, <1>2, PTL DEF Spec

-------------------------------------------------------------------------------
\* The columns of the row.

ColumnsInv == ColumnsKept /\ EditsHoldRow

\* A step that stores no column and starts no write keeps what edits hold.
LEMMA ColumnsFrame ==
  ASSUME ColumnsInv,
         UNCHANGED <<device, key, copyDevice, copyKey, lastDevice, lastKey, tornDevice, tornKey>>,
         \A e \in Edits : edit'[e] = "write" => edit[e] = "write"
  PROVE  ColumnsInv'
  BY DEF ColumnsInv, ColumnsKept, EditsHoldRow

LEMMA ColumnsStep ==
  ASSUME TypeOK, ColumnsInv, [Next]_vars
  PROVE  ColumnsInv'
<1> USE CallUsers DEF TypeOK, history, calls
<1> DEFINE Same == UNCHANGED <<device, key, copyDevice, copyKey, lastDevice, lastKey,
                               tornDevice, tornKey>>
           Fewer == \A e \in Edits : edit'[e] = "write" => edit[e] = "write"
<1>1. ASSUME NEW l \in Logins, RotateDevice(l) PROVE ColumnsInv'
  <2>1. ColumnsKept'
    BY <1>1 DEF RotateDevice, ColumnsInv, ColumnsKept
  <2>2. \A e \in Edits : edit[e] = "write" /\ Editor[e] = LoginUser[l] => LoginUser[l] \in tornDevice'
    BY <1>1 DEF RotateDevice, Held
  <2>3. EditsHoldRow'
    BY <1>1, <2>2 DEF RotateDevice, GoLogin, ColumnsInv, EditsHoldRow
  <2> QED
    BY <2>1, <2>3 DEF ColumnsInv
<1>2. ASSUME NEW k \in Registrations, StoreKey(k) PROVE ColumnsInv'
  <2>1. ColumnsKept'
    BY <1>2 DEF StoreKey, ColumnsInv, ColumnsKept
  <2>2. \A e \in Edits : edit[e] = "write" /\ Editor[e] = Registrant[k] => Registrant[k] \in tornKey'
    BY <1>2 DEF StoreKey, Held
  <2>3. EditsHoldRow'
    BY <1>2, <2>2 DEF StoreKey, ColumnsInv, EditsHoldRow
  <2> QED
    BY <2>1, <2>3 DEF ColumnsInv
<1>3. ASSUME NEW e \in Edits, ReadRow(e) PROVE ColumnsInv'
  BY <1>3 DEF ReadRow, GoEdit, ColumnsInv, ColumnsKept, EditsHoldRow
<1>4. ASSUME NEW e \in Edits, WriteRow(e) PROVE ColumnsInv'
  <2> DEFINE u == Editor[e]
  <2>1. /\ edit[e] = "write" /\ edit' = [edit EXCEPT ![e] = "profile"]
        /\ device' = [device EXCEPT ![u] = copyDevice[e]]
        /\ key' = [key EXCEPT ![u] = copyKey[e]]
        /\ UNCHANGED <<copyDevice, copyKey, lastDevice, lastKey, tornDevice, tornKey>>
    BY <1>4 DEF WriteRow, GoEdit
  <2>2. \A v \in Users : /\ v \notin tornDevice => device'[v] = device[v]
                         /\ v \notin tornKey => key'[v] = key[v]
    BY <2>1 DEF ColumnsInv, EditsHoldRow
  <2> QED
    BY <2>1, <2>2 DEF ColumnsInv, ColumnsKept, EditsHoldRow
<1>5. ASSUME NEW l \in Logins, DropCache(l) \/ DropCacheFails(l) PROVE ColumnsInv'
  <2>1. Same /\ Fewer
    BY <1>5 DEF DropCache, DropCacheFails, GoLogin
  <2> QED
    BY <2>1, ColumnsFrame
<1>6. ASSUME NEW e \in Edits, CreateProfile(e) \/ EditFails(e) PROVE ColumnsInv'
  <2>1. Same /\ Fewer
    BY <1>6 DEF CreateProfile, EditFails, GoEdit
  <2> QED
    BY <2>1, ColumnsFrame
<1>7. ASSUME NEW g \in Lookups, ReadCache(g) \/ LookupFails(g) \/ ReadUser(g) \/ StoreCache(g)
      PROVE  ColumnsInv'
  <2>1. Same /\ Fewer
    BY <1>7 DEF ReadCache, LookupFails, ReadUser, StoreCache, GoLookup
  <2> QED
    BY <2>1, ColumnsFrame
<1>8. ASSUME NEW u \in Users, ExpireCache(u) PROVE ColumnsInv'
  <2>1. Same /\ Fewer
    BY <1>8 DEF ExpireCache
  <2> QED
    BY <2>1, ColumnsFrame
<1>9. CASE UNCHANGED vars
  <2>1. Same /\ Fewer
    BY <1>9 DEF vars
  <2> QED
    BY <2>1, ColumnsFrame
<1> QED
  BY <1>1, <1>2, <1>3, <1>4, <1>5, <1>6, <1>7, <1>8, <1>9, UsersStepCases

LEMMA ColumnsInvariant == Spec => []ColumnsInv
<1>1. Init => ColumnsInv
  BY DEF Init, ColumnsInv, ColumnsKept, EditsHoldRow
<1>2. TypeOK /\ ColumnsInv /\ [Next]_vars => ColumnsInv'
  BY ColumnsStep
<1> QED
  BY <1>1, <1>2, UsersTypeCorrect, PTL DEF Spec

\* A profile update undoes neither a login nor a registration, unless it read the row before
\* and writes it back after.
THEOREM EditsKeepColumns == Spec => []ColumnsKept
<1>1. ColumnsInv => ColumnsKept
  BY DEF ColumnsInv
<1> QED
  BY <1>1, ColumnsInvariant, PTL

-------------------------------------------------------------------------------
\* The cache.

CacheInv == CachedDevice /\ RetiredStaysOut /\ LookupsFoundRow /\ RetiredExisted

\* While columns and histories stay, an entry may go, and a lookup may store what it found.
LEMMA CacheFrame ==
  ASSUME TypeOK, CacheInv, TypeOK',
         UNCHANGED <<login, tornDevice, retired, outrun>>,
         \A u \in Users \ tornDevice : device'[u] = device[u],
         \A u \in Users \ tornDevice : cache'[u] \in {cache[u], device[u], NoEntry},
         \A g \in Lookups : lookup'[g] = "store" =>
           \/ lookup[g] = "store" /\ found'[g] = found[g]
           \/ found'[g] = device'[LookedUp[g]]
  PROVE  CacheInv'
<1> USE CallUsers DEF TypeOK
<1>1. CachedDevice'
  BY DEF CacheInv, CachedDevice, Rotating
<1>2. RetiredStaysOut'
  BY DEF CacheInv, RetiredStaysOut
<1>3. LookupsFoundRow'
  <2> SUFFICES ASSUME NEW g \in Lookups, lookup'[g] = "store", LookedUp[g] \notin tornDevice
               PROVE  /\ LookedUp[g] \notin outrun =>
                           Rotating(LookedUp[g]) \/ found'[g] = device'[LookedUp[g]]
                      /\ found'[g] \notin retired[LookedUp[g]]
    BY DEF LookupsFoundRow, Rotating
  <2> QED
    BY DEF CacheInv, LookupsFoundRow, RetiredStaysOut
<1>4. RetiredExisted'
  BY DEF CacheInv, RetiredExisted
<1> QED
  BY <1>1, <1>2, <1>3, <1>4 DEF CacheInv

\* A new device is nowhere yet, and its login has yet to drop the entry.
LEMMA CacheRotate ==
  ASSUME TypeOK, CacheInv, NEW l \in Logins, RotateDevice(l)
  PROVE  CacheInv'
<1> USE CallUsers DEF TypeOK
<1> DEFINE u == LoginUser[l]
<1>1. /\ login[l] = "idle" /\ login' = [login EXCEPT ![l] = "dropCache"]
      /\ device' = [device EXCEPT ![u] = l]
      /\ tornDevice \subseteq tornDevice'
      /\ UNCHANGED <<cache, lookup, found, retired, outrun>>
  BY DEF RotateDevice, GoLogin
<1>2. Rotating(u)' /\ \A v \in Users : Rotating(v) => Rotating(v)'
  BY <1>1 DEF Rotating
<1>3. CachedDevice'
  BY <1>1, <1>2 DEF CacheInv, CachedDevice
<1>4. \A v \in Users : l \notin retired[v]
  BY <1>1 DEF CacheInv, RetiredExisted
<1>5. RetiredStaysOut'
  BY <1>1, <1>4 DEF CacheInv, RetiredStaysOut
<1>6. LookupsFoundRow'
  BY <1>1, <1>2 DEF CacheInv, LookupsFoundRow
<1>7. RetiredExisted'
  BY <1>1 DEF CacheInv, RetiredExisted
<1> QED
  BY <1>3, <1>5, <1>6, <1>7 DEF CacheInv

\* A drop leaves no entry; it is recorded as outrun, or no lookup holds an older device.
LEMMA CacheDrop ==
  ASSUME TypeOK, CacheInv, NEW l \in Logins, DropCache(l)
  PROVE  CacheInv'
<1> USE CallUsers DEF TypeOK
<1> DEFINE u == LoginUser[l]
<1>1. /\ login[l] = "dropCache" /\ login' = [login EXCEPT ![l] = "done"]
      /\ cache' = [cache EXCEPT ![u] = NoEntry]
      /\ RecordDrop(u)
      /\ UNCHANGED <<device, lookup, found, tornDevice>>
  BY DEF DropCache, GoLogin
<1>2. \A v \in Users \ {u} : Rotating(v)' <=> Rotating(v)
  BY <1>1 DEF Rotating
<1>3. /\ \A v \in Users \ {u} : v \in outrun' <=> v \in outrun
      /\ \A v \in Users \ {u} : retired'[v] = retired[v]
  BY <1>1 DEF RecordDrop
<1>4. CachedDevice'
  BY <1>1, <1>2, <1>3 DEF CacheInv, CachedDevice
<1>5. /\ device[u] \in retired'[u] => device[u] \in retired[u]
      /\ NoEntry \notin retired'[u]
  BY <1>1 DEF RecordDrop
<1>6. RetiredStaysOut'
  BY <1>1, <1>3, <1>5 DEF CacheInv, RetiredStaysOut
<1>7. \A g \in Lookups : lookup[g] = "store" /\ LookedUp[g] = u =>
        /\ u \notin outrun' => found[g] = device[u]
        /\ found[g] \in retired'[u] => found[g] \in retired[u]
  BY <1>1 DEF RecordDrop, Outruns
<1>8. LookupsFoundRow'
  BY <1>1, <1>2, <1>3, <1>7 DEF CacheInv, LookupsFoundRow
<1>9. \A d \in retired'[u] : d \in retired[u] \/ (d \in Logins => login[d] # "idle")
  BY <1>1 DEF RecordDrop
<1>10. RetiredExisted'
  BY <1>1, <1>3, <1>9 DEF CacheInv, RetiredExisted
<1> QED
  BY <1>4, <1>6, <1>8, <1>10 DEF CacheInv

\* A drop that fails is recorded.
LEMMA CacheDropFails ==
  ASSUME TypeOK, CacheInv, NEW l \in Logins, DropCacheFails(l)
  PROVE  CacheInv'
<1> USE CallUsers DEF TypeOK
<1>1. /\ login[l] = "dropCache" /\ login' = [login EXCEPT ![l] = "done"]
      /\ outrun' = outrun \cup {LoginUser[l]}
      /\ UNCHANGED <<cache, device, lookup, found, tornDevice, retired>>
  BY DEF DropCacheFails, GoLogin
<1>2. \A v \in Users \ {LoginUser[l]} : Rotating(v)' <=> Rotating(v)
  BY <1>1 DEF Rotating
<1>3. CachedDevice' /\ LookupsFoundRow'
  BY <1>1, <1>2 DEF CacheInv, CachedDevice, LookupsFoundRow
<1>4. RetiredStaysOut' /\ RetiredExisted'
  BY <1>1 DEF CacheInv, RetiredStaysOut, RetiredExisted
<1> QED
  BY <1>3, <1>4 DEF CacheInv

LEMMA CacheStep ==
  ASSUME TypeOK, ColumnsInv, CacheInv, [Next]_vars
  PROVE  CacheInv'
<1> USE CallUsers DEF TypeOK, history, calls
<1> DEFINE Hist == UNCHANGED <<login, tornDevice, retired, outrun>>
           Devs == \A u \in Users \ tornDevice : device'[u] = device[u]
           Entries == \A u \in Users \ tornDevice : cache'[u] \in {cache[u], device[u], NoEntry}
           Founds == \A g \in Lookups : lookup'[g] = "store" =>
                       \/ lookup[g] = "store" /\ found'[g] = found[g]
                       \/ found'[g] = device'[LookedUp[g]]
<1>0. TypeOK'
  BY UsersTypeStep
<1>1. ASSUME NEW l \in Logins, RotateDevice(l) \/ DropCache(l) \/ DropCacheFails(l)
      PROVE  CacheInv'
  BY <1>1, CacheRotate, CacheDrop, CacheDropFails
<1>2. ASSUME NEW k \in Registrations, StoreKey(k) PROVE CacheInv'
  <2>1. Hist /\ Devs /\ Entries /\ Founds
    BY <1>2 DEF StoreKey
  <2> QED
    BY <1>0, <2>1, CacheFrame
<1>3. ASSUME NEW e \in Edits, ReadRow(e) \/ CreateProfile(e) \/ EditFails(e) PROVE CacheInv'
  <2>1. Hist /\ Devs /\ Entries /\ Founds
    BY <1>3 DEF ReadRow, CreateProfile, EditFails, GoEdit
  <2> QED
    BY <1>0, <2>1, CacheFrame
<1>4. ASSUME NEW e \in Edits, WriteRow(e) PROVE CacheInv'
  <2>1. Devs
    BY <1>4 DEF WriteRow, GoEdit, ColumnsInv, EditsHoldRow
  <2>2. Hist /\ Entries /\ Founds
    BY <1>4 DEF WriteRow, GoEdit
  <2> QED
    BY <1>0, <2>1, <2>2, CacheFrame
<1>5. ASSUME NEW g \in Lookups, ReadCache(g) \/ LookupFails(g) PROVE CacheInv'
  <2>1. Hist /\ Devs /\ Entries /\ Founds
    BY <1>5 DEF ReadCache, LookupFails, GoLookup
  <2> QED
    BY <1>0, <2>1, CacheFrame
<1>6. ASSUME NEW g \in Lookups, ReadUser(g) PROVE CacheInv'
  <2>1. Hist /\ Devs /\ Entries /\ Founds
    BY <1>6 DEF ReadUser, GoLookup
  <2> QED
    BY <1>0, <2>1, CacheFrame
<1>7. ASSUME NEW g \in Lookups, StoreCache(g) PROVE CacheInv'
  <2> DEFINE u == LookedUp[g]
  <2>1. /\ lookup[g] = "store" /\ lookup' = [lookup EXCEPT ![g] = "done"]
        /\ cache' = [cache EXCEPT ![u] = found[g]] \/ cache' = cache
        /\ UNCHANGED <<device, found, login, tornDevice, retired, outrun>>
    BY <1>7 DEF StoreCache, GoLookup
  <2>2. CachedDevice'
    BY <2>1 DEF CacheInv, CachedDevice, LookupsFoundRow, Rotating
  <2>3. RetiredStaysOut'
    BY <2>1 DEF CacheInv, RetiredStaysOut, LookupsFoundRow
  <2>4. LookupsFoundRow' /\ RetiredExisted'
    BY <2>1 DEF CacheInv, LookupsFoundRow, RetiredExisted, Rotating
  <2> QED
    BY <2>2, <2>3, <2>4 DEF CacheInv
<1>8. ASSUME NEW u \in Users, ExpireCache(u) PROVE CacheInv'
  <2>1. Hist /\ Devs /\ Entries /\ Founds
    BY <1>8 DEF ExpireCache
  <2> QED
    BY <1>0, <2>1, CacheFrame
<1>9. CASE UNCHANGED vars
  <2>1. Hist /\ Devs /\ Entries /\ Founds
    BY <1>9 DEF vars
  <2> QED
    BY <1>0, <2>1, CacheFrame
<1> QED
  BY <1>1, <1>2, <1>3, <1>4, <1>5, <1>6, <1>7, <1>8, <1>9, UsersStepCases

LEMMA CacheInvariant == Spec => []CacheInv
<1>1. Init => CacheInv
  BY CallUsers DEF Init, CacheInv, CachedDevice, RetiredStaysOut, LookupsFoundRow, RetiredExisted
<1>2. TypeOK /\ ColumnsInv /\ CacheInv /\ [Next]_vars => CacheInv'
  BY CacheStep
<1> QED
  BY <1>1, <1>2, UsersTypeCorrect, ColumnsInvariant, PTL DEF Spec

\* The cached device is the one in the row, but for a login on its way and a drop that a
\* lookup outran or that failed.
THEOREM CacheHasDevice == Spec => []CachedDevice
<1>1. CacheInv => CachedDevice
  BY DEF CacheInv
<1> QED
  BY <1>1, CacheInvariant, PTL

\* A device that a clean drop has retired comes back neither in the row nor in the cache.
THEOREM RetiredDevicesStayOut == Spec => []RetiredStaysOut
<1>1. CacheInv => RetiredStaysOut
  BY DEF CacheInv
<1> QED
  BY <1>1, CacheInvariant, PTL
===============================================================================
