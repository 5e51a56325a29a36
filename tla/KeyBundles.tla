------------------------------ MODULE KeyBundles ------------------------------
(***************************************************************************)
(* src/registeration/registeration.service.ts and src/keys/keys.service.ts:*)
(* a client publishes its key bundle, other clients fetch it and mark the  *)
(* one-time key they were given as used.                                   *)
(*                                                                         *)
(* Every call is a handler with a program counter; an action is one access *)
(* to PostgreSQL.  Key material is abstracted to the publication it came   *)
(* in.  The rows are those of users who exist: a call for another user     *)
(* ends with NotFoundException before it changes anything.                 *)
(*                                                                         *)
(* The one transaction of publishKeys runs under READ COMMITTED, the       *)
(* default of PostgreSQL: deleteMany deletes the rows it can see when it   *)
(* starts, nobody sees the effect of either statement before the end, and  *)
(* who wants to write a deleted row waits for the end.                     *)
(***************************************************************************)
CONSTANTS
  Users,
  KeyIds,         \* key_id of a one-time key, chosen by clients, unique in the table
  Publications,   \* calls of publishKeys, each with its own key material
  Publisher,      \* [Publications -> Users]
  KeysIn,         \* [Publications -> SUBSET KeyIds], none of them used
  Fetches,        \* calls of getKeyBundle
  Target,         \* [Fetches -> Users]
  Marks,          \* calls of change (PUT /keys/change)
  Marked,         \* [Marks -> KeyIds]
  None            \* no publication, no row

ASSUME PublicationsAssumption ==
  /\ None \notin Publications
  /\ Publisher \in [Publications -> Users]
  /\ KeysIn \in [Publications -> SUBSET KeyIds]
ASSUME CallsAssumption ==
  /\ Target \in [Fetches -> Users]
  /\ Marked \in [Marks -> KeyIds]

VARIABLES
  identity,    \* identity[u]: the publication User.public_key is from, or None
  signedRow,   \* signedRow[p]: content of the SignedPreKey row p created, or None
  keyRow,      \* keyRow[k]: the OneTimePreKey row with that key_id, or None
  publish,     \* program counter of publishKeys
  found,       \* local _signed_pre_key: the creator of the row it found
  doomed,      \* rows deleteMany of the open transaction deletes
  fetch,       \* program counter of getKeyBundle
  bundle,      \* its locals, and in the end its response
  mark,        \* program counter of change
  copy,        \* local one_time_pre_key of change
  raced,       \* history: users a publication of whom found no signed key while another one
               \* of theirs was about to create it
  torn,        \* history: users whose last publication failed or ran beside another of theirs
  straddled    \* history: fetches beside a publication of their target, or after one that
               \* left the target raced or torn

rowVars   == <<identity, signedRow, keyRow>>
pubVars   == <<publish, found, doomed>>
fetchVars == <<fetch, bundle>>
markVars  == <<mark, copy>>
history   == <<raced, torn, straddled>>
vars == <<rowVars, pubVars, fetchVars, markVars, history>>

MaybePublication == Publications \cup {None}

\* inserted: the publication that inserted the row; from: the one its columns are from.
KeyRows == [inserted : Publications, from : Publications, used : BOOLEAN]

ASSUME RowsAssumption == None \notin KeyRows

Bundles == [identity : MaybePublication, signed : MaybePublication,
            key : KeyIds \cup {None}, keyFrom : MaybePublication]

PublishSteps == {"findSigned", "createSigned", "updateSigned", "deleteKeys", "createKeys"}
FetchSteps   == {"readSigned", "readKey"}

TypeOK ==
  /\ identity \in [Users -> MaybePublication]
  /\ signedRow \in [Publications -> MaybePublication]
  /\ keyRow \in [KeyIds -> KeyRows \cup {None}]
  /\ publish \in [Publications -> {"idle", "done", "failed"} \cup PublishSteps]
  /\ found \in [Publications -> MaybePublication]
  /\ doomed \in [Publications -> SUBSET (KeyIds \X Publications)]
  /\ fetch \in [Fetches -> {"idle", "done", "failed"} \cup FetchSteps]
  /\ bundle \in [Fetches -> Bundles]
  /\ mark \in [Marks -> {"idle", "write", "done", "failed"}]
  /\ copy \in [Marks -> MaybePublication]
  /\ raced \subseteq Users /\ torn \subseteq Users /\ straddled \subseteq Fetches

NoBundle == [identity |-> None, signed |-> None, key |-> None, keyFrom |-> None]

Init ==
  /\ identity = [u \in Users |-> None]
  /\ signedRow = [p \in Publications |-> None]
  /\ keyRow = [k \in KeyIds |-> None]
  /\ publish = [p \in Publications |-> "idle"]
  /\ found = [p \in Publications |-> None]
  /\ doomed = [p \in Publications |-> {}]
  /\ fetch = [f \in Fetches |-> "idle"]
  /\ bundle = [f \in Fetches |-> NoBundle]
  /\ mark = [c \in Marks |-> "idle"]
  /\ copy = [c \in Marks |-> None]
  /\ raced = {} /\ torn = {} /\ straddled = {}

SignedRowsOf(u) == {p \in Publications : Publisher[p] = u /\ signedRow[p] # None}

KeysOf(u) == {k \in KeyIds : keyRow[k] # None /\ Publisher[keyRow[k].from] = u}

\* The row with key_id k has been deleted by a transaction among ps that is still open.
LockedBy(k, ps) == keyRow[k] # None /\ \E p \in ps : <<k, keyRow[k].inserted>> \in doomed[p]

-------------------------------------------------------------------------------
\* publishKeys

Running(u) == {p \in Publications : Publisher[p] = u /\ publish[p] \in PublishSteps}

GoPublish(p, from, to) == publish[p] = from /\ publish' = [publish EXCEPT ![p] = to]

UpdateIdentity(p) ==
  /\ GoPublish(p, "idle", "findSigned")
  /\ identity' = [identity EXCEPT ![Publisher[p]] = p]
  /\ torn' = IF Running(Publisher[p]) = {} THEN torn \ {Publisher[p]} ELSE torn \cup {Publisher[p]}
  /\ straddled' = straddled \cup {f \in Fetches : fetch[f] \in FetchSteps /\ Target[f] = Publisher[p]}
  /\ UNCHANGED <<signedRow, keyRow, found, doomed, fetchVars, markVars, raced>>

\* Mutants: the row is not looked for; it is looked for among the rows of all users.
FindSignedNever(p) ==
  /\ GoPublish(p, "findSigned", "createSigned")
  /\ UNCHANGED <<rowVars, found, doomed, fetchVars, markVars, history>>

FindSignedOfAnyone(p) ==
  LET rows == {row \in Publications : signedRow[row] # None} IN
  /\ GoPublish(p, "findSigned", IF rows = {} THEN "createSigned" ELSE "updateSigned")
  /\ found' = [found EXCEPT ![p] = IF rows = {} THEN None ELSE CHOOSE row \in rows : TRUE]
  /\ UNCHANGED <<rowVars, doomed, fetchVars, markVars, history>>

\* Publications of u that have found no row and are about to create one.
Creating(u) == {q \in Running(u) : publish[q] = "createSigned"}

FindSigned(p) ==
  /\ \/ /\ SignedRowsOf(Publisher[p]) = {}
        /\ GoPublish(p, "findSigned", "createSigned")
        /\ raced' = IF Creating(Publisher[p]) = {} THEN raced ELSE raced \cup {Publisher[p]}
        /\ UNCHANGED found
     \/ /\ GoPublish(p, "findSigned", "updateSigned")
        /\ \E row \in SignedRowsOf(Publisher[p]) : found' = [found EXCEPT ![p] = row]
        /\ UNCHANGED raced
  /\ UNCHANGED <<rowVars, doomed, fetchVars, markVars, torn, straddled>>

CreateSigned(p) ==
  /\ GoPublish(p, "createSigned", "deleteKeys")
  /\ signedRow' = [signedRow EXCEPT ![p] = p]
  /\ UNCHANGED <<identity, keyRow, found, doomed, fetchVars, markVars, history>>

UpdateSigned(p) ==
  /\ GoPublish(p, "updateSigned", "deleteKeys")
  /\ signedRow' = [signedRow EXCEPT ![found[p]] = p]
  /\ found' = [found EXCEPT ![p] = None]
  /\ UNCHANGED <<identity, keyRow, doomed, fetchVars, markVars, history>>

\* Mutant: only the used keys are replaced.
DeleteKeysUsed(p) ==
  /\ GoPublish(p, "deleteKeys", "createKeys")
  /\ doomed' = [doomed EXCEPT ![p] = {<<k, keyRow[k].inserted>> :
                                     k \in {x \in KeysOf(Publisher[p]) : keyRow[x].used}}]
  /\ UNCHANGED <<rowVars, found, fetchVars, markVars, history>>

DeleteKeys(p) ==
  /\ GoPublish(p, "deleteKeys", "createKeys")
  /\ doomed' = [doomed EXCEPT ![p] = {<<k, keyRow[k].inserted>> : k \in KeysOf(Publisher[p])}]
  /\ UNCHANGED <<rowVars, found, fetchVars, markVars, history>>

\* createMany with skipDuplicates, and the commit of both statements.
CreateKeys(p) ==
  LET survives(k) == keyRow[k] # None /\ <<k, keyRow[k].inserted>> \notin doomed[p]
      added == [inserted |-> p, from |-> p, used |-> FALSE]
  IN
  /\ GoPublish(p, "createKeys", "done")
  /\ \A k \in KeysIn[p] : survives(k) => ~LockedBy(k, Publications)
  /\ keyRow' = [k \in KeyIds |-> IF survives(k) THEN keyRow[k]
                                 ELSE IF k \in KeysIn[p] THEN added ELSE None]
  /\ doomed' = [doomed EXCEPT ![p] = {}]
  /\ UNCHANGED <<identity, signedRow, found, fetchVars, markVars, history>>

\* An access fails; the transaction rolls back, what was written before stays.
PublishFails(p) ==
  /\ publish[p] \in PublishSteps
  /\ publish' = [publish EXCEPT ![p] = "failed"]
  /\ found' = [found EXCEPT ![p] = None]
  /\ doomed' = [doomed EXCEPT ![p] = {}]
  /\ torn' = torn \cup {Publisher[p]}
  /\ UNCHANGED <<rowVars, fetchVars, markVars, raced, straddled>>

-------------------------------------------------------------------------------
\* getKeyBundle

GoFetch(f, from, to) == fetch[f] = from /\ fetch' = [fetch EXCEPT ![f] = to]

ReadUser(f) ==
  /\ GoFetch(f, "idle", "readSigned")
  /\ bundle' = [bundle EXCEPT ![f].identity = identity[Target[f]]]
  /\ straddled' = IF Running(Target[f]) = {} /\ Target[f] \notin raced \cup torn
                  THEN straddled ELSE straddled \cup {f}
  /\ UNCHANGED <<rowVars, pubVars, markVars, raced, torn>>

\* Mutant: the list of rows is taken for its first element.
ReadSignedList(f) ==
  /\ GoFetch(f, "readSigned", "readKey")
  /\ bundle' = [bundle EXCEPT ![f].signed = SignedRowsOf(Target[f])]
  /\ UNCHANGED <<rowVars, pubVars, markVars, history>>

\* findMany without an order: the first row is any of them, or undefined.
ReadSigned(f) ==
  LET rows == SignedRowsOf(Target[f]) IN
  /\ GoFetch(f, "readSigned", "readKey")
  /\ \/ rows = {} /\ UNCHANGED bundle
     \/ \E row \in rows : bundle' = [bundle EXCEPT ![f].signed = signedRow[row]]
  /\ UNCHANGED <<rowVars, pubVars, markVars, history>>

\* where: { user_id, is_used: false }.  The response needs all three keys: without one of
\* them its construction throws a TypeError.
ReadKey(f) ==
  LET keys == {k \in KeysOf(Target[f]) : ~keyRow[k].used} IN
  /\ \/ /\ bundle[f].identity # None /\ bundle[f].signed # None
        /\ GoFetch(f, "readKey", "done")
        /\ \E k \in keys :
             bundle' = [bundle EXCEPT ![f].key = k, ![f].keyFrom = keyRow[k].from]
     \/ /\ bundle[f].identity = None \/ bundle[f].signed = None \/ keys = {}
        /\ GoFetch(f, "readKey", "failed")
        /\ bundle' = [bundle EXCEPT ![f] = NoBundle]
  /\ UNCHANGED <<rowVars, pubVars, markVars, history>>

-------------------------------------------------------------------------------
\* change

FindKey(c) ==
  LET row == keyRow[Marked[c]] IN
  /\ mark[c] = "idle"
  /\ mark' = [mark EXCEPT ![c] = IF row = None THEN "failed" ELSE "write"]
  /\ copy' = [copy EXCEPT ![c] = IF row = None THEN None ELSE row.from]
  /\ UNCHANGED <<rowVars, pubVars, fetchVars, history>>

\* The whole row that was read is written back, to the row that has the key_id now; when
\* there is none any more the update throws.
WriteUsed(c) ==
  LET k == Marked[c] IN
  /\ mark[c] = "write"
  /\ ~LockedBy(k, Publications)
  /\ \/ /\ keyRow[k] # None
        /\ keyRow' = [keyRow EXCEPT ![k].from = copy[c], ![k].used = TRUE]
        /\ mark' = [mark EXCEPT ![c] = "done"]
     \/ /\ keyRow[k] = None
        /\ mark' = [mark EXCEPT ![c] = "failed"]
        /\ UNCHANGED keyRow
  /\ copy' = [copy EXCEPT ![c] = None]
  /\ UNCHANGED <<identity, signedRow, pubVars, fetchVars, history>>

-------------------------------------------------------------------------------

Next ==
  \/ \E p \in Publications : UpdateIdentity(p) \/ FindSigned(p) \/ CreateSigned(p) \/ UpdateSigned(p)
                             \/ DeleteKeys(p) \/ CreateKeys(p) \/ PublishFails(p)
  \/ \E f \in Fetches : ReadUser(f) \/ ReadSigned(f) \/ ReadKey(f)
  \/ \E c \in Marks : FindKey(c) \/ WriteUsed(c)

Spec == Init /\ [][Next]_vars

-------------------------------------------------------------------------------
\* Properties.

\* However calls overlap, a client is given three keys of the user it asked for: rows are
\* found in one access and written in another, and key ids are chosen by clients.
BundleOfTarget ==
  \A f \in Fetches :
    fetch[f] = "done" =>
      \A p \in {bundle[f].identity, bundle[f].signed, bundle[f].keyFrom} :
        p # None /\ Publisher[p] = Target[f]

\* The three keys of a bundle are from one publication, so that the signature of the signed
\* key can be verified with the identity key: whatever other users publish under the same key
\* ids and whichever rows are written back, unless the fetch ran beside a publication of its
\* target or after one that did not end alone; the next one that does makes it right again.
OfOnePublication(b) == b.signed = b.identity /\ b.keyFrom = b.identity

BundleConsistent ==
  \A f \in Fetches \ straddled : fetch[f] = "done" => OfOnePublication(bundle[f])

\* A user has one signed key, so that the first of an unordered findMany is the one published
\* last: however publications overlap and fail, unless one looked for the row while another
\* had yet to create it.
OneRow(u) == \A p, q \in SignedRowsOf(u) : p = q

OneSignedKey == \A u \in Users \ raced : OneRow(u)

\* README.md:257: "One-time Prekeys: Single-use keys for perfect forward secrecy".  Two
\* clients are never given the same one-time key.
SingleUse ==
  \A f, g \in Fetches :
    f # g /\ fetch[f] = "done" /\ fetch[g] = "done" =>
      <<bundle[f].key, bundle[f].keyFrom>> # <<bundle[g].key, bundle[g].keyFrom>>

\* Inductive strengthening of TypeOK: a row that is about to be written has been read.
TypeInv == TypeOK /\ \A c \in Marks : mark[c] = "write" => copy[c] # None

\* Inductive strengthening of BundleOfTarget: every row, and every row a call has found or
\* read, holds keys of the user it is looked up by.
OwnRows ==
  /\ \A u \in Users : identity[u] # None => Publisher[identity[u]] = u
  /\ \A p \in Publications :
       /\ signedRow[p] # None => Publisher[signedRow[p]] = Publisher[p]
       /\ publish[p] = "updateSigned" => found[p] # None
       /\ found[p] # None => Publisher[found[p]] = Publisher[p]
  /\ \A f \in Fetches :
       /\ bundle[f].identity # None => Publisher[bundle[f].identity] = Target[f]
       /\ bundle[f].signed # None => Publisher[bundle[f].signed] = Target[f]
  /\ BundleOfTarget

\* Inductive strengthening of OneSignedKey: one publication at most is about to create the
\* row, and only while there is none; rows are never deleted.
RowInv ==
  /\ \A p \in Publications : publish[p] = "updateSigned" => signedRow[found[p]] # None
  /\ \A u \in Users \ raced :
       /\ OneRow(u)
       /\ \A p, q \in Creating(u) : p = q
       /\ Creating(u) # {} => SignedRowsOf(u) = {}

\* Inductive strengthening of BundleConsistent: what is stored of a user and can be given out
\* is from one publication, except for what a running one has not reached yet; and a fetch
\* has read what is still stored.
SignedBy(u, p) == \A row \in SignedRowsOf(u) : signedRow[row] = p

UnusedKeysOf(u) == {k \in KeysOf(u) : ~keyRow[k].used}

Settled(u) ==
  /\ SignedBy(u, identity[u])
  /\ \A k \in UnusedKeysOf(u) : keyRow[k].from = identity[u]

HalfPublished(p) ==
  LET u == Publisher[p] IN
  /\ Running(u) = {p}
  /\ identity[u] = p
  /\ publish[p] = "updateSigned" => SignedRowsOf(u) = {found[p]}
  /\ publish[p] \in {"deleteKeys", "createKeys"} => SignedBy(u, p)
  /\ publish[p] = "createKeys" =>
       \A k \in UnusedKeysOf(u) : <<k, keyRow[k].inserted>> \in doomed[p]

Undisturbed(f) ==
  LET u == Target[f] IN
  /\ Running(u) = {} /\ u \notin raced \cup torn
  /\ bundle[f].identity = identity[u]
  /\ bundle[f].signed \in {None, identity[u]}

WholeInv ==
  /\ \A u \in Users \ (raced \cup torn) :
       /\ Running(u) = {} => Settled(u)
       /\ \A p \in Running(u) : HalfPublished(p)
  /\ \A f \in Fetches : fetch[f] = "idle" => bundle[f].signed = None /\ f \notin straddled
  /\ \A f \in Fetches \ straddled : fetch[f] \in FetchSteps => Undisturbed(f)
  /\ BundleConsistent

==============================================================================
