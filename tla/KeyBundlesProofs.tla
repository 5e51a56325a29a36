--------------------------- MODULE KeyBundlesProofs ---------------------------
(***************************************************************************)
(* Proofs about KeyBundles, for any number of users, key ids and           *)
(* overlapping calls: the type invariant, that a fetched bundle is made of *)
(* keys of the user it was asked for (OwnRows), that a user has one signed *)
(* key (RowInv) and that a bundle is from one publication (WholeInv).      *)
(***************************************************************************)
EXTENDS KeyBundles, TLAPS

PubStep(p) ==
  \/ UpdateIdentity(p) \/ FindSigned(p) \/ CreateSigned(p) \/ UpdateSigned(p)
  \/ DeleteKeys(p) \/ CreateKeys(p) \/ PublishFails(p)

\* A step is one of a publication, a fetch or a mark, or none at all.
LEMMA KeyStepCases ==
  ASSUME [Next]_vars
  PROVE  \/ \E p \in Publications : PubStep(p)
         \/ \E f \in Fetches : ReadUser(f) \/ ReadSigned(f) \/ ReadKey(f)
         \/ \E c \in Marks : FindKey(c) \/ WriteUsed(c)
         \/ UNCHANGED vars
  BY DEF Next, PubStep

\* The row that change writes back is a row.
LEMMA WrittenRow ==
  ASSUME NEW row \in KeyRows, NEW p \in Publications
  PROVE  [row EXCEPT !.from = p, !.used = TRUE] \in KeyRows
  BY DEF KeyRows

\* The response of getKeyBundle is a bundle.
LEMMA AnsweredBundle ==
  ASSUME NEW b \in Bundles, NEW k \in KeyIds, NEW p \in Publications
  PROVE  [b EXCEPT !.key = k, !.keyFrom = p] \in Bundles
  BY DEF Bundles, MaybePublication

LEMMA SignedBundle ==
  ASSUME NEW b \in Bundles, NEW p \in MaybePublication
  PROVE  [b EXCEPT !.signed = p] \in Bundles
  BY DEF Bundles

\* Rows, locals and program counters keep their types, and a row that is about to be
\* written back has been read.
LEMMA KeyTypeInvariant == Spec => []TypeInv
<1>1. Init => TypeInv
  BY DEF Init, TypeInv, TypeOK, Bundles, MaybePublication, NoBundle
<1>2. TypeInv /\ [Next]_vars => TypeInv'
  <2> SUFFICES ASSUME TypeInv, [Next]_vars PROVE TypeInv'
    OBVIOUS
  <2> USE PublicationsAssumption, CallsAssumption
          DEF TypeInv, TypeOK, MaybePublication, PublishSteps, FetchSteps, rowVars, pubVars, fetchVars,
              markVars, history, GoPublish, GoFetch
  <2>1. CASE \E p \in Publications : PubStep(p)
    <3> PICK p \in Publications : PubStep(p)
      BY <2>1
    <3>1. CASE UpdateIdentity(p)
      BY <3>1 DEF UpdateIdentity
    <3>2. CASE FindSigned(p)
      <4>1. publish' \in [Publications -> {"idle", "done", "failed"} \cup PublishSteps]
        BY <3>2 DEF FindSigned
      <4>2. found' \in [Publications -> MaybePublication]
        BY <3>2 DEF FindSigned, SignedRowsOf
      <4> QED
        BY <3>2, <4>1, <4>2 DEF FindSigned
    <3>3. CASE CreateSigned(p)
      BY <3>3 DEF CreateSigned
    <3>4. CASE UpdateSigned(p)
      BY <3>4 DEF UpdateSigned
    <3>5. CASE DeleteKeys(p)
      <4>1. {<<k, keyRow[k].inserted>> : k \in KeysOf(Publisher[p])} \subseteq KeyIds \X Publications
        BY DEF KeysOf, KeyRows
      <4> QED
        BY <3>5, <4>1 DEF DeleteKeys
    <3>6. CASE CreateKeys(p)
      <4>1. [inserted |-> p, from |-> p, used |-> FALSE] \in KeyRows
        BY DEF KeyRows
      <4>2. keyRow' \in [KeyIds -> KeyRows \cup {None}]
        BY <3>6, <4>1 DEF CreateKeys
      <4> QED
        BY <3>6, <4>2 DEF CreateKeys
    <3>7. CASE PublishFails(p)
      BY <3>7 DEF PublishFails
    <3> QED
      BY <3>1, <3>2, <3>3, <3>4, <3>5, <3>6, <3>7 DEF PubStep
  <2>2. ASSUME NEW f \in Fetches, ReadUser(f) \/ ReadSigned(f) \/ ReadKey(f)
        PROVE  TypeInv'
    <3>1. CASE ReadUser(f)
      <4>1. [bundle[f] EXCEPT !.identity = identity[Target[f]]] \in Bundles
        <5>1. identity[Target[f]] \in MaybePublication /\ bundle[f] \in Bundles
          OBVIOUS
        <5> QED
          BY <5>1 DEF Bundles
      <4>2. bundle' = [bundle EXCEPT ![f] = [@ EXCEPT !.identity = identity[Target[f]]]]
        BY <3>1 DEF ReadUser
      <4>3. fetch' \in [Fetches -> {"idle", "done", "failed"} \cup FetchSteps]
        BY <3>1 DEF ReadUser
      <4>4. bundle' \in [Fetches -> Bundles]
        BY <4>1, <4>2
      <4>5. UNCHANGED <<rowVars, pubVars, markVars, raced, torn>> /\ straddled' \subseteq Fetches
        BY <3>1 DEF ReadUser
      <4> QED
        BY <4>3, <4>4, <4>5
    <3>2. CASE ReadSigned(f)
      <4>1. PICK q \in MaybePublication :
              bundle' = bundle \/ bundle' = [bundle EXCEPT ![f].signed = q]
        BY <3>2 DEF ReadSigned, SignedRowsOf
      <4>2. fetch' \in [Fetches -> {"idle", "done", "failed"} \cup FetchSteps]
        BY <3>2 DEF ReadSigned
      <4>3. bundle' \in [Fetches -> Bundles]
        <5>1. [bundle[f] EXCEPT !.signed = q] \in Bundles
          BY SignedBundle
        <5>2. bundle' = bundle \/ bundle' = [bundle EXCEPT ![f] = [@ EXCEPT !.signed = q]]
          BY <4>1
        <5> QED
          BY <5>1, <5>2
      <4>4. UNCHANGED <<rowVars, pubVars, markVars, history>>
        BY <3>2 DEF ReadSigned
      <4> QED
        BY <4>2, <4>3, <4>4
    <3>3. CASE ReadKey(f)
      <4>1. CASE bundle' = [bundle EXCEPT ![f] = NoBundle]
        <5>1. NoBundle \in Bundles
          BY DEF NoBundle, Bundles
        <5>2. fetch' \in [Fetches -> {"idle", "done", "failed"} \cup FetchSteps]
          BY <3>3 DEF ReadKey
        <5> QED
          BY <3>3, <4>1, <5>1, <5>2 DEF ReadKey
      <4>2. ASSUME NEW k \in KeyIds, keyRow[k] # None,
                   bundle' = [bundle EXCEPT ![f].key = k, ![f].keyFrom = keyRow[k].from]
            PROVE  TypeInv'
        <5>1. keyRow[k].from \in Publications
          BY <4>2 DEF KeyRows
        <5>2. bundle' = [bundle EXCEPT ![f] = [@ EXCEPT !.key = k, !.keyFrom = keyRow[k].from]]
          BY <4>2
        <5>3. [bundle[f] EXCEPT !.key = k, !.keyFrom = keyRow[k].from]
                \in Bundles
          BY <5>1, AnsweredBundle
        <5>4. fetch' \in [Fetches -> {"idle", "done", "failed"} \cup FetchSteps]
          BY <3>3 DEF ReadKey
        <5> QED
          BY <3>3, <5>2, <5>3, <5>4 DEF ReadKey
      <4> QED
        <5>1. \/ bundle' = [bundle EXCEPT ![f] = NoBundle]
              \/ \E k \in KeyIds : keyRow[k] # None
                   /\ bundle' = [bundle EXCEPT ![f].key = k, ![f].keyFrom = keyRow[k].from]
          BY <3>3 DEF ReadKey, KeysOf
        <5> QED
          BY <4>1, <4>2, <5>1
    <3> QED
      BY <2>2, <3>1, <3>2, <3>3
  <2>3. ASSUME NEW c \in Marks, FindKey(c) \/ WriteUsed(c)
        PROVE  TypeInv'
    <3>1. CASE FindKey(c)
      BY <3>1 DEF FindKey, KeyRows
    <3>2. CASE WriteUsed(c)
      <4> DEFINE k == Marked[c]
      <4>1. CASE keyRow[k] # None /\ keyRow' = [keyRow EXCEPT ![k].from = copy[c], ![k].used = TRUE]
        <5>1. copy[c] \in Publications
          BY <3>2 DEF WriteUsed
        <5>2. keyRow' = [keyRow EXCEPT ![k] = [@ EXCEPT !.from = copy[c], !.used = TRUE]]
          BY <4>1
        <5>3. [keyRow[k] EXCEPT !.from = copy[c], !.used = TRUE] \in KeyRows
          BY <4>1, <5>1, WrittenRow
        <5> HIDE DEF k
        <5> QED
          BY <3>2, <5>2, <5>3 DEF WriteUsed
      <4>2. CASE UNCHANGED keyRow
        BY <3>2, <4>2 DEF WriteUsed
      <4> QED
        BY <3>2, <4>1, <4>2 DEF WriteUsed
    <3> QED
      BY <2>3, <3>1, <3>2
  <2>4. CASE UNCHANGED vars
    BY <2>4 DEF vars
  <2> QED
    BY <2>1, <2>2, <2>3, <2>4, KeyStepCases
<1> QED
  BY <1>1, <1>2, PTL DEF Spec

\* The type invariant of KeyBundles holds in every reachable state.
THEOREM KeyTypeCorrect == Spec => []TypeOK
<1>1. TypeInv => TypeOK
  BY DEF TypeInv
<1> QED
  BY <1>1, KeyTypeInvariant, PTL

\* A step keeps every row, and everything a call remembers of a row, with its user.
LEMMA OwnRowsStep ==
  ASSUME TypeInv, OwnRows, [Next]_vars
  PROVE  OwnRows'
<1> USE PublicationsAssumption, CallsAssumption
        DEF TypeInv, TypeOK, Bundles, MaybePublication, OwnRows, BundleOfTarget, rowVars, pubVars,
            fetchVars, markVars, history, GoPublish, GoFetch
<1>1. CASE \E p \in Publications : PubStep(p)
  <2> PICK p \in Publications : PubStep(p)
    BY <1>1
  <2>1. CASE UpdateIdentity(p)
    BY <2>1 DEF UpdateIdentity
  <2>2. CASE FindSigned(p)
    <3>1. publish[p] = "findSigned" /\ UNCHANGED <<rowVars, fetchVars>>
      BY <2>2 DEF FindSigned
    <3>2. CASE publish'[p] # "updateSigned" /\ UNCHANGED found
      BY <2>2, <3>1, <3>2 DEF FindSigned
    <3>3. ASSUME NEW row \in Publications, Publisher[row] = Publisher[p],
                 found' = [found EXCEPT ![p] = row]
          PROVE  OwnRows'
      BY <2>2, <3>1, <3>3 DEF FindSigned
    <3> QED
      BY <2>2, <3>2, <3>3 DEF FindSigned, SignedRowsOf
  <2>3. CASE CreateSigned(p)
    BY <2>3 DEF CreateSigned
  <2>4. CASE UpdateSigned(p)
    <3>1. found[p] \in Publications /\ Publisher[found[p]] = Publisher[p]
      BY <2>4 DEF UpdateSigned
    <3> QED
      BY <2>4, <3>1 DEF UpdateSigned
  <2>5. CASE DeleteKeys(p)
    BY <2>5 DEF DeleteKeys
  <2>6. CASE CreateKeys(p)
    BY <2>6 DEF CreateKeys
  <2>7. CASE PublishFails(p)
    BY <2>7 DEF PublishFails
  <2> QED
    BY <2>1, <2>2, <2>3, <2>4, <2>5, <2>6, <2>7 DEF PubStep
<1>2. ASSUME NEW f \in Fetches, ReadUser(f) \/ ReadSigned(f) \/ ReadKey(f)
      PROVE  OwnRows'
  <2>1. CASE ReadUser(f)
    BY <2>1 DEF ReadUser
  <2>2. CASE ReadSigned(f)
    <3>1. CASE UNCHANGED bundle
      BY <2>2, <3>1 DEF ReadSigned
    <3>2. ASSUME NEW row \in SignedRowsOf(Target[f]),
                 bundle' = [bundle EXCEPT ![f].signed = signedRow[row]]
          PROVE  OwnRows'
      <4>1. Publisher[signedRow[row]] = Target[f]
        BY DEF SignedRowsOf
      <4>2. fetch[f] # "done" /\ fetch' = [fetch EXCEPT ![f] = "readKey"]
        BY <2>2 DEF ReadSigned
      <4> QED
        BY <2>2, <3>2, <4>1, <4>2 DEF ReadSigned
    <3>3. \/ UNCHANGED bundle
          \/ \E row \in SignedRowsOf(Target[f]) :
               bundle' = [bundle EXCEPT ![f].signed = signedRow[row]]
      BY <2>2 DEF ReadSigned
    <3> HIDE DEF OwnRows
    <3> QED
      BY <3>1, <3>2, <3>3
  <2>3. CASE ReadKey(f)
    <3>1. CASE bundle' = [bundle EXCEPT ![f] = NoBundle] /\ fetch' = [fetch EXCEPT ![f] = "failed"]
      <4>1. bundle'[f].identity = None /\ bundle'[f].signed = None /\ fetch'[f] = "failed"
        BY <3>1 DEF NoBundle
      <4>2. \A g \in Fetches \ {f} : bundle'[g] = bundle[g] /\ fetch'[g] = fetch[g]
        BY <3>1
      <4>3. BundleOfTarget'
        BY <4>1, <4>2
      <4> QED
        BY <2>3, <4>1, <4>2, <4>3 DEF ReadKey
    <3>2. ASSUME NEW k \in KeysOf(Target[f]),
                 bundle[f].identity # None, bundle[f].signed # None,
                 bundle' = [bundle EXCEPT ![f].key = k, ![f].keyFrom = keyRow[k].from]
          PROVE  OwnRows'
      <4>1. keyRow[k].from \in Publications /\ Publisher[keyRow[k].from] = Target[f]
        BY DEF KeysOf, KeyRows
      <4>2. /\ bundle'[f].identity = bundle[f].identity
            /\ bundle'[f].signed = bundle[f].signed
            /\ bundle'[f].keyFrom = keyRow[k].from
            /\ \A g \in Fetches \ {f} : bundle'[g] = bundle[g]
        BY <3>2
      <4>3. \A g \in Fetches \ {f} : fetch'[g] = fetch[g]
        BY <2>3 DEF ReadKey
      <4>4. BundleOfTarget'
        BY <3>2, <4>1, <4>2, <4>3
      <4> QED
        BY <2>3, <4>2, <4>4 DEF ReadKey
    <3> QED
      BY <2>3, <3>1, <3>2 DEF ReadKey, KeysOf
  <2> QED
    BY <1>2, <2>1, <2>2, <2>3
<1>3. ASSUME NEW c \in Marks, FindKey(c) \/ WriteUsed(c)
      PROVE  OwnRows'
  BY <1>3 DEF FindKey, WriteUsed
<1>4. CASE UNCHANGED vars
  BY <1>4 DEF vars
<1> QED
  BY <1>1, <1>2, <1>3, <1>4, KeyStepCases

LEMMA OwnRowsInvariant == Spec => []OwnRows
<1>1. Init => OwnRows
  BY DEF Init, OwnRows, BundleOfTarget, NoBundle
<1>2. TypeInv /\ OwnRows /\ [Next]_vars => OwnRows'
  BY OwnRowsStep
<1> QED
  BY <1>1, <1>2, KeyTypeInvariant, PTL DEF Spec

\* A client is only ever given keys of the user it asked for.
THEOREM BundlesBelongToTarget == Spec => []BundleOfTarget
<1>1. OwnRows => BundleOfTarget
  BY DEF OwnRows
<1> QED
  BY <1>1, OwnRowsInvariant, PTL

-------------------------------------------------------------------------------
\* One row of a user.

\* A publication keeps to the row it found; only one that found none creates one.
LEMMA RowStep ==
  ASSUME TypeInv, OwnRows, RowInv, [Next]_vars
  PROVE  RowInv'
<1> USE PublicationsAssumption
        DEF TypeInv, TypeOK, MaybePublication, RowInv, OneRow, SignedRowsOf, Creating, Running,
            PublishSteps, GoPublish
<1>1. CASE \E p \in Publications : PubStep(p)
  <2> PICK p \in Publications : PubStep(p)
    BY <1>1
  <2>1. CASE UpdateIdentity(p)
    BY <2>1 DEF UpdateIdentity
  <2>2. CASE FindSigned(p)
    <3>1. publish[p] = "findSigned" /\ signedRow' = signedRow /\ raced \subseteq raced'
      BY <2>2 DEF FindSigned, rowVars
    <3>2. CASE /\ SignedRowsOf(Publisher[p]) = {}
               /\ publish' = [publish EXCEPT ![p] = "createSigned"]
               /\ raced' = IF Creating(Publisher[p]) = {} THEN raced ELSE raced \cup {Publisher[p]}
               /\ UNCHANGED found
      BY <3>1, <3>2
    <3>3. CASE /\ publish' = [publish EXCEPT ![p] = "updateSigned"]
               /\ \E row \in SignedRowsOf(Publisher[p]) : found' = [found EXCEPT ![p] = row]
               /\ UNCHANGED raced
      BY <3>1, <3>3
    <3> QED
      BY <2>2, <3>2, <3>3 DEF FindSigned
  <2>3. CASE CreateSigned(p)
    BY <2>3 DEF CreateSigned, history
  <2>4. CASE UpdateSigned(p)
    <3>1. found[p] \in Publications /\ signedRow[found[p]] # None
      BY <2>4 DEF UpdateSigned, OwnRows
    <3>2. \A u \in Users : SignedRowsOf(u)' = SignedRowsOf(u)
      BY <2>4, <3>1 DEF UpdateSigned
    <3> QED
      BY <2>4, <3>1, <3>2 DEF UpdateSigned, OwnRows, history
  <2>5. CASE DeleteKeys(p)
    BY <2>5 DEF DeleteKeys, rowVars, history
  <2>6. CASE CreateKeys(p)
    BY <2>6 DEF CreateKeys, history
  <2>7. CASE PublishFails(p)
    BY <2>7 DEF PublishFails, rowVars
  <2> QED
    BY <2>1, <2>2, <2>3, <2>4, <2>5, <2>6, <2>7 DEF PubStep
<1>2. ASSUME NEW f \in Fetches, ReadUser(f) \/ ReadSigned(f) \/ ReadKey(f)
      PROVE  RowInv'
  BY <1>2 DEF ReadUser, ReadSigned, ReadKey, rowVars, pubVars, history
<1>3. ASSUME NEW c \in Marks, FindKey(c) \/ WriteUsed(c)
      PROVE  RowInv'
  BY <1>3 DEF FindKey, WriteUsed, rowVars, pubVars, history
<1>4. CASE UNCHANGED vars
  BY <1>4 DEF vars, rowVars, pubVars, history
<1> QED
  BY <1>1, <1>2, <1>3, <1>4, KeyStepCases

LEMMA RowInvariant == Spec => []RowInv
<1>1. Init => RowInv
  BY DEF Init, RowInv, OneRow, Creating, Running, SignedRowsOf, PublishSteps
<1>2. TypeInv /\ OwnRows /\ RowInv /\ [Next]_vars => RowInv'
  BY RowStep
<1> QED
  BY <1>1, <1>2, KeyTypeInvariant, OwnRowsInvariant, PTL DEF Spec

\* However publications overlap and fail, a user has one signed key, unless one looked for
\* the row while another had yet to create it.
THEOREM SignedKeyIsUnique == Spec => []OneSignedKey
<1>1. RowInv => OneSignedKey
  BY DEF RowInv, OneSignedKey
<1> QED
  BY <1>1, RowInvariant, PTL

-------------------------------------------------------------------------------
\* Bundles of one publication.

\* A step leaves alone what WholeInv says of a user, or takes unused keys away.
Untouched(u) ==
  /\ identity'[u] = identity[u]
  /\ Running(u)' = Running(u)
  /\ \A q \in Running(u) : publish'[q] = publish[q] /\ found'[q] = found[q] /\ doomed'[q] = doomed[q]
  /\ SignedRowsOf(u)' = SignedRowsOf(u)
  /\ \A row \in SignedRowsOf(u) : signedRow'[row] = signedRow[row]
  /\ \A k \in UnusedKeysOf(u)' : k \in UnusedKeysOf(u) /\ keyRow'[k] = keyRow[k]

\* What is true of such a user stays true.
LEMMA StaysWhole ==
  ASSUME NEW u \in Users, Untouched(u)
  PROVE  /\ Settled(u) => Settled(u)'
         /\ \A p \in Running(u) : HalfPublished(p) => HalfPublished(p)'
<1>1. Settled(u) => Settled(u)'
  BY DEF Untouched, Settled, SignedBy
<1>2. ASSUME NEW p \in Running(u), HalfPublished(p) PROVE HalfPublished(p)'
  <2>1. Publisher[p] = u
    BY DEF Running
  <2> QED
    BY <1>2, <2>1 DEF Untouched, HalfPublished, SignedBy
<1> QED
  BY <1>1, <1>2

\* A publication touches keys of its own user only, and adds unused ones of its own.
LEMMA OthersUntouched ==
  ASSUME TypeInv, OwnRows, NEW p \in Publications, PubStep(p), NEW u \in Users, u # Publisher[p]
  PROVE  Untouched(u) /\ (u \in raced \cup torn <=> u \in raced' \cup torn')
<1> USE PublicationsAssumption
        DEF TypeInv, TypeOK, MaybePublication, Untouched, Running, SignedRowsOf, UnusedKeysOf, KeysOf,
            GoPublish, rowVars, history
<1>1. CASE UpdateIdentity(p)
  BY <1>1 DEF UpdateIdentity
<1>2. CASE FindSigned(p)
  BY <1>2 DEF FindSigned
<1>3. CASE CreateSigned(p)
  BY <1>3 DEF CreateSigned
<1>4. CASE UpdateSigned(p)
  <2>1. found[p] \in Publications /\ Publisher[found[p]] = Publisher[p]
    BY <1>4 DEF UpdateSigned, OwnRows
  <2> QED
    BY <1>4, <2>1 DEF UpdateSigned
<1>5. CASE DeleteKeys(p)
  BY <1>5 DEF DeleteKeys
<1>6. CASE CreateKeys(p)
  <2>1. \A k \in KeyIds : \/ keyRow'[k] = keyRow[k]
                          \/ keyRow'[k] = None
                          \/ keyRow'[k] = [inserted |-> p, from |-> p, used |-> FALSE]
    BY <1>6 DEF CreateKeys
  <2>2. \A k \in UnusedKeysOf(u)' : k \in UnusedKeysOf(u) /\ keyRow'[k] = keyRow[k]
    BY <2>1
  <2> QED
    BY <1>6, <2>2 DEF CreateKeys
<1>7. CASE PublishFails(p)
  BY <1>7 DEF PublishFails
<1> QED
  BY <1>1, <1>2, <1>3, <1>4, <1>5, <1>6, <1>7 DEF PubStep

\* A publication that runs alone goes on to replace what is stored of its user.
LEMMA OwnerWhole ==
  ASSUME TypeInv, OwnRows, RowInv, WholeInv, NEW p \in Publications, PubStep(p),
         Publisher[p] \notin raced' \cup torn'
  PROVE  /\ Running(Publisher[p])' = {} => Settled(Publisher[p])'
         /\ \A q \in Running(Publisher[p])' : HalfPublished(q)'
<1> DEFINE u == Publisher[p]
<1> USE PublicationsAssumption DEF TypeInv, TypeOK, MaybePublication
<1>0. u \in Users
  OBVIOUS
<1>1. CASE UpdateIdentity(p)
  <2>1. Running(u) = {} /\ publish' = [publish EXCEPT ![p] = "findSigned"] /\ identity'[u] = p
    BY <1>0, <1>1 DEF UpdateIdentity, GoPublish
  <2>2. Running(u)' = {p}
    BY <2>1 DEF Running, PublishSteps
  <2> QED
    BY <2>1, <2>2 DEF HalfPublished
<1>a. ASSUME ~UpdateIdentity(p), ~PublishFails(p) PROVE u \notin raced \cup torn
  BY <1>a DEF PubStep, FindSigned, CreateSigned, UpdateSigned, DeleteKeys, CreateKeys, history
<1>b. ASSUME ~UpdateIdentity(p), ~PublishFails(p) PROVE p \in Running(u) /\ HalfPublished(p)
  <2>1. publish[p] \in PublishSteps
    BY <1>b DEF PubStep, FindSigned, CreateSigned, UpdateSigned, DeleteKeys, CreateKeys, GoPublish,
       PublishSteps
  <2> QED
    BY <1>0, <1>a, <1>b, <2>1 DEF Running, WholeInv
<1>c. ASSUME ~UpdateIdentity(p), ~PublishFails(p)
      PROVE  /\ Running(u) = {p} /\ identity' = identity /\ identity[u] = p
             /\ Running(u)' = IF publish'[p] \in PublishSteps THEN {p} ELSE {}
  <2>1. Running(u) = {p} /\ identity[u] = p
    BY <1>b, <1>c DEF HalfPublished
  <2>2. identity' = identity /\ \A q \in Publications \ {p} : publish'[q] = publish[q]
    BY <1>c DEF PubStep, FindSigned, CreateSigned, UpdateSigned, DeleteKeys, CreateKeys, GoPublish, rowVars
  <2> QED
    BY <2>1, <2>2 DEF Running
<1>2. CASE FindSigned(p)
  <2>1. publish[p] = "findSigned" /\ UNCHANGED rowVars
    BY <1>2 DEF FindSigned, GoPublish
  <2>2. ~UpdateIdentity(p) /\ ~PublishFails(p)
    BY <1>2, <2>1 DEF FindSigned, UpdateIdentity, PublishFails, GoPublish
  <2>3. CASE publish' = [publish EXCEPT ![p] = "createSigned"]
    <3>1. publish'[p] = "createSigned"
      BY <2>3
    <3> QED
      BY <1>c, <2>2, <3>1 DEF HalfPublished, PublishSteps
  <2>4. ASSUME publish' = [publish EXCEPT ![p] = "updateSigned"],
               NEW row \in SignedRowsOf(u), found' = [found EXCEPT ![p] = row]
        PROVE  /\ Running(u)' = {} => Settled(u)'
               /\ \A q \in Running(u)' : HalfPublished(q)'
    <3>1. SignedRowsOf(u) = {row}
      BY <1>0, <1>a, <2>2, <2>4 DEF RowInv, OneRow
    <3>2. SignedRowsOf(u)' = {found'[p]}
      BY <2>1, <2>4, <3>1 DEF SignedRowsOf, rowVars
    <3>3. publish'[p] = "updateSigned"
      BY <2>4
    <3>4. HalfPublished(p)'
      BY <1>c, <2>2, <3>2, <3>3 DEF HalfPublished, PublishSteps
    <3> QED
      BY <1>c, <2>2, <3>3, <3>4 DEF PublishSteps
  <2> QED
    BY <1>2, <2>3, <2>4 DEF FindSigned, GoPublish
<1>3. CASE CreateSigned(p)
  <2>1. ~UpdateIdentity(p) /\ ~PublishFails(p) /\ publish[p] = "createSigned"
    BY <1>3 DEF CreateSigned, UpdateIdentity, PublishFails, GoPublish
  <2>2. SignedRowsOf(u) = {}
    BY <1>0, <1>a, <1>b, <2>1 DEF RowInv, Creating
  <2>3. SignedRowsOf(u)' = {p} /\ signedRow'[p] = p
    BY <1>3, <2>2 DEF CreateSigned, SignedRowsOf
  <2>4. publish'[p] = "deleteKeys"
    BY <1>3 DEF CreateSigned, GoPublish
  <2> QED
    BY <1>c, <2>1, <2>3, <2>4 DEF HalfPublished, SignedBy, PublishSteps
<1>4. CASE UpdateSigned(p)
  <2>1. ~UpdateIdentity(p) /\ ~PublishFails(p) /\ publish[p] = "updateSigned"
    BY <1>4 DEF UpdateSigned, UpdateIdentity, PublishFails, GoPublish
  <2>2. SignedRowsOf(u) = {found[p]} /\ found[p] \in Publications
    BY <1>b, <2>1 DEF HalfPublished, OwnRows
  <2>3. SignedRowsOf(u)' = {found[p]} /\ signedRow'[found[p]] = p
    BY <1>4, <2>2 DEF UpdateSigned, SignedRowsOf
  <2>4. publish'[p] = "deleteKeys"
    BY <1>4 DEF UpdateSigned, GoPublish
  <2>5. SignedBy(u, p)'
    BY <2>3 DEF SignedBy
  <2>6. HalfPublished(p)'
    BY <1>c, <2>1, <2>4, <2>5 DEF HalfPublished, PublishSteps
  <2> QED
    BY <1>c, <2>1, <2>4, <2>6 DEF PublishSteps
<1>5. CASE DeleteKeys(p)
  <2>1. ~UpdateIdentity(p) /\ ~PublishFails(p) /\ publish[p] = "deleteKeys"
    BY <1>5 DEF DeleteKeys, UpdateIdentity, PublishFails, GoPublish
  <2>2. /\ publish'[p] = "createKeys" /\ UNCHANGED rowVars
        /\ doomed'[p] = {<<k, keyRow[k].inserted>> : k \in KeysOf(u)}
    BY <1>5 DEF DeleteKeys, GoPublish
  <2>3. SignedBy(u, p)' /\ UnusedKeysOf(u)' \subseteq KeysOf(u)
    BY <1>b, <2>1, <2>2 DEF HalfPublished, SignedBy, SignedRowsOf, UnusedKeysOf, KeysOf, rowVars
  <2>4. \A k \in UnusedKeysOf(u)' : <<k, keyRow'[k].inserted>> \in doomed'[p]
    BY <2>2, <2>3 DEF rowVars
  <2> QED
    BY <1>c, <2>1, <2>2, <2>3, <2>4 DEF HalfPublished, PublishSteps
<1>6. CASE CreateKeys(p)
  <2>1. ~UpdateIdentity(p) /\ ~PublishFails(p) /\ publish[p] = "createKeys"
    BY <1>6 DEF CreateKeys, UpdateIdentity, PublishFails, GoPublish
  <2>2. publish'[p] = "done" /\ UNCHANGED <<identity, signedRow>>
    BY <1>6 DEF CreateKeys, GoPublish
  <2>3. \A k \in UnusedKeysOf(u) : <<k, keyRow[k].inserted>> \in doomed[p]
    BY <1>b, <2>1 DEF HalfPublished
  <2>4. \A k \in KeyIds :
          \/ keyRow'[k] = keyRow[k] /\ k \notin UnusedKeysOf(u)
          \/ keyRow'[k] = None
          \/ keyRow'[k] = [inserted |-> p, from |-> p, used |-> FALSE]
    BY <1>6, <2>3 DEF CreateKeys
  <2>5. \A k \in UnusedKeysOf(u)' : keyRow'[k].from = p
    BY <2>4 DEF UnusedKeysOf, KeysOf
  <2>6. SignedBy(u, p)'
    BY <1>b, <2>1, <2>2 DEF HalfPublished, SignedBy, SignedRowsOf
  <2> QED
    BY <1>c, <2>1, <2>2, <2>5, <2>6 DEF Settled, PublishSteps
<1>7. CASE PublishFails(p)
  BY <1>7 DEF PublishFails
<1> QED
  BY <1>1, <1>2, <1>3, <1>4, <1>5, <1>6, <1>7 DEF PubStep

\* A publication keeps bundles whole: a fetch that it disturbs is marked.
LEMMA PublishWhole ==
  ASSUME TypeInv, OwnRows, RowInv, WholeInv, NEW p \in Publications, PubStep(p)
  PROVE  WholeInv'
<1> USE PublicationsAssumption, CallsAssumption
<1>1. \A u \in Users \ (raced \cup torn)' :
        /\ Running(u)' = {} => Settled(u)'
        /\ \A q \in Running(u)' : HalfPublished(q)'
  <2> TAKE u \in Users \ (raced \cup torn)'
  <2>1. CASE u = Publisher[p]
    BY <2>1, OwnerWhole
  <2>2. CASE u # Publisher[p]
    <3>1. Untouched(u) /\ u \notin raced \cup torn
      BY <2>2, OthersUntouched
    <3>2. Running(u)' = Running(u)
      BY <3>1 DEF Untouched
    <3> QED
      BY <3>1, <3>2, StaysWhole DEF WholeInv
  <2> QED
    BY <2>1, <2>2
<1>2. UNCHANGED fetchVars /\ straddled \subseteq straddled'
  BY DEF PubStep, UpdateIdentity, FindSigned, CreateSigned, UpdateSigned, DeleteKeys, CreateKeys,
     PublishFails, history
<1>3. \A f \in Fetches : fetch[f] = "idle" => f \notin straddled'
  BY DEF PubStep, UpdateIdentity, FindSigned, CreateSigned, UpdateSigned, DeleteKeys, CreateKeys,
     PublishFails, history, WholeInv, FetchSteps
<1>4. ASSUME NEW f \in Fetches \ straddled', fetch[f] \in FetchSteps
      PROVE  Undisturbed(f)'
  <2>1. Undisturbed(f)
    BY <1>2, <1>4 DEF WholeInv
  <2>2. Target[f] # Publisher[p]
    <3>1. CASE UpdateIdentity(p)
      BY <1>4, <3>1 DEF UpdateIdentity
    <3>2. CASE ~UpdateIdentity(p)
      <4>1. p \in Running(Publisher[p])
        BY <3>2 DEF PubStep, FindSigned, CreateSigned, UpdateSigned, DeleteKeys, CreateKeys, PublishFails,
           GoPublish, PublishSteps, Running
      <4> QED
        BY <2>1, <4>1 DEF Undisturbed
    <3> QED
      BY <3>1, <3>2
  <2>3. Untouched(Target[f]) /\ Target[f] \notin (raced \cup torn)'
    BY <2>1, <2>2, OthersUntouched DEF Undisturbed
  <2> QED
    BY <1>2, <2>1, <2>3 DEF Undisturbed, Untouched, fetchVars
<1> QED
  BY <1>1, <1>2, <1>3, <1>4 DEF WholeInv, BundleConsistent, fetchVars

\* What WholeInv says of rows and publications depends on them only.
LEMMA RowsFrame ==
  ASSUME UNCHANGED <<rowVars, pubVars>>
  PROVE  /\ \A u \in Users : Running(u)' = Running(u) /\ (Settled(u)' <=> Settled(u))
         /\ \A p \in Publications : HalfPublished(p)' <=> HalfPublished(p)
BY DEF rowVars, pubVars, Settled, SignedBy, HalfPublished, SignedRowsOf, KeysOf, UnusedKeysOf, Running

\* An undisturbed fetch reads the user, the signed key and the one-time key of one publication.
LEMMA FetchWhole ==
  ASSUME TypeInv, WholeInv, NEW f \in Fetches, ReadUser(f) \/ ReadSigned(f) \/ ReadKey(f)
  PROVE  WholeInv'
<1> USE PublicationsAssumption, CallsAssumption DEF TypeInv, TypeOK, GoFetch, FetchSteps
<1>0. UNCHANGED <<rowVars, pubVars, raced, torn>>
  BY DEF ReadUser, ReadSigned, ReadKey, history
<1>a. \A u \in Users \ (raced \cup torn)' :
        /\ Running(u)' = {} => Settled(u)'
        /\ \A q \in Running(u)' : HalfPublished(q)'
  <2>1. \A u \in Users : Running(u) \subseteq Publications
    BY DEF Running
  <2> QED
    BY <1>0, <2>1, RowsFrame DEF WholeInv
<1>b. \A g \in Fetches : fetch[g] = fetch'[g] /\ bundle[g] = bundle'[g] => (Undisturbed(g)' <=> Undisturbed(g))
  BY <1>0, RowsFrame DEF Undisturbed, rowVars
<1>1. CASE ReadUser(f)
  <2>1. /\ fetch[f] = "idle" /\ fetch'[f] = "readSigned"
        /\ bundle'[f].identity = identity[Target[f]] /\ bundle'[f].signed = bundle[f].signed
        /\ \A g \in Fetches \ {f} : bundle'[g] = bundle[g] /\ fetch'[g] = fetch[g]
    BY <1>1 DEF ReadUser, Bundles
  <2>2. f \notin straddled' => Running(Target[f]) = {} /\ Target[f] \notin raced \cup torn
    BY <1>1 DEF ReadUser
  <2>3. \A g \in Fetches \ {f} : g \in straddled' <=> g \in straddled
    BY <1>1 DEF ReadUser
  <2>4. f \notin straddled' => Undisturbed(f)'
    BY <1>0, <2>1, <2>2, RowsFrame DEF Undisturbed, WholeInv, rowVars
  <2> QED
    BY <1>a, <1>b, <2>1, <2>3, <2>4 DEF WholeInv, BundleConsistent
<1>2. CASE ReadSigned(f)
  <2>1. fetch[f] = "readSigned" /\ fetch' = [fetch EXCEPT ![f] = "readKey"] /\ straddled' = straddled
    BY <1>2 DEF ReadSigned, history
  <2>2. CASE f \in straddled
    <3>1. \A g \in Fetches \ {f} : bundle'[g] = bundle[g]
      BY <1>2 DEF ReadSigned
    <3> QED
      BY <1>a, <1>b, <2>1, <2>2, <3>1 DEF WholeInv, BundleConsistent
  <2>3. CASE f \notin straddled
    <3>1. Undisturbed(f)
      BY <2>1, <2>3 DEF WholeInv
    <3>2. \A row \in SignedRowsOf(Target[f]) : signedRow[row] = identity[Target[f]]
      BY <3>1 DEF Undisturbed, WholeInv, Settled, SignedBy
    <3>3. \/ UNCHANGED bundle
          \/ bundle' = [bundle EXCEPT ![f] = [@ EXCEPT !.signed = identity[Target[f]]]]
      BY <1>2, <3>2 DEF ReadSigned
    <3>4. /\ bundle'[f].identity = bundle[f].identity
          /\ bundle'[f].signed \in {bundle[f].signed, identity[Target[f]]}
          /\ \A g \in Fetches \ {f} : bundle'[g] = bundle[g]
      BY <3>3 DEF Bundles
    <3>5. Undisturbed(f)'
      BY <1>0, <3>1, <3>4, RowsFrame DEF Undisturbed, rowVars
    <3> QED
      BY <1>a, <1>b, <2>1, <3>4, <3>5 DEF WholeInv, BundleConsistent
  <2> QED
    BY <2>2, <2>3
<1>3. CASE ReadKey(f)
  <2>1. /\ fetch[f] = "readKey" /\ fetch'[f] \in {"done", "failed"} /\ straddled' = straddled
        /\ \A g \in Fetches \ {f} : bundle'[g] = bundle[g] /\ fetch'[g] = fetch[g]
    BY <1>3 DEF ReadKey, history
  <2>2. ASSUME f \notin straddled, fetch'[f] = "done"
        PROVE  OfOnePublication(bundle'[f])
    <3>1. Undisturbed(f)
      BY <2>1, <2>2 DEF WholeInv
    <3>2. PICK k \in KeysOf(Target[f]) :
            /\ ~keyRow[k].used
            /\ bundle[f].identity # None /\ bundle[f].signed # None
            /\ bundle' = [bundle EXCEPT ![f] = [@ EXCEPT !.key = k, !.keyFrom = keyRow[k].from]]
      BY <1>3, <2>1, <2>2 DEF ReadKey
    <3>3. keyRow[k].from = identity[Target[f]]
      BY <3>1, <3>2 DEF Undisturbed, WholeInv, Settled, UnusedKeysOf
    <3>4. bundle[f].signed = identity[Target[f]] /\ bundle[f].identity = identity[Target[f]]
      BY <3>1, <3>2 DEF Undisturbed
    <3>5. bundle[f] \in Bundles
      OBVIOUS
    <3> QED
      BY <3>2, <3>3, <3>4, <3>5 DEF OfOnePublication, Bundles
  <2> QED
    BY <1>a, <1>b, <2>1, <2>2 DEF WholeInv, BundleConsistent
<1> QED
  BY <1>1, <1>2, <1>3

\* A row that is written back is used from then on, whatever its columns are.
LEMMA MarkWhole ==
  ASSUME TypeInv, WholeInv, NEW c \in Marks, FindKey(c) \/ WriteUsed(c)
  PROVE  WholeInv'
<1>0. UNCHANGED <<identity, signedRow, pubVars, fetchVars, history>>
  BY DEF FindKey, WriteUsed, rowVars
<1>1. \A x \in KeyIds : \/ keyRow'[x] = keyRow[x]
                        \/ keyRow'[x] # None /\ keyRow'[x].used
  <2>1. CASE FindKey(c)
    BY <2>1 DEF FindKey, rowVars
  <2>2. CASE WriteUsed(c)
    <3> DEFINE k == Marked[c]
    <3>1. CASE keyRow[k] # None /\ keyRow' = [keyRow EXCEPT ![k].from = copy[c], ![k].used = TRUE]
      <4>1. k \in KeyIds /\ keyRow[k] \in KeyRows
        BY <3>1, CallsAssumption DEF TypeInv, TypeOK
      <4>2. keyRow'[k].used
        BY <3>1, <4>1 DEF TypeInv, TypeOK, KeyRows
      <4>3. keyRow'[k] # None
        <5>1. copy[c] \in Publications
          BY <2>2 DEF WriteUsed, TypeInv, TypeOK, MaybePublication
        <5>2. keyRow' = [keyRow EXCEPT ![k] = [@ EXCEPT !.from = copy[c], !.used = TRUE]]
          BY <3>1
        <5>3. keyRow'[k] \in KeyRows
          BY <4>1, <5>1, <5>2, WrittenRow DEF TypeInv, TypeOK
        <5> QED
          BY <5>3, RowsAssumption
      <4>4. \A x \in KeyIds \ {k} : keyRow'[x] = keyRow[x]
        BY <3>1 DEF TypeInv, TypeOK
      <4> QED
        BY <4>2, <4>3, <4>4
    <3>2. CASE UNCHANGED keyRow
      BY <3>2
    <3> QED
      BY <2>2, <3>1, <3>2 DEF WriteUsed
  <2> QED
    BY <2>1, <2>2
<1>2. ASSUME NEW u \in Users PROVE Untouched(u)
  BY <1>0, <1>1 DEF Untouched, Running, SignedRowsOf, UnusedKeysOf, KeysOf, pubVars
<1>3. \A u \in Users : Running(u)' = Running(u)
  BY <1>2 DEF Untouched
<1>4. \A f \in Fetches : Undisturbed(f)' <=> Undisturbed(f)
  BY <1>0, <1>3, CallsAssumption DEF Undisturbed, fetchVars, history
<1> QED
  BY <1>0, <1>2, <1>3, <1>4, StaysWhole DEF WholeInv, BundleConsistent, fetchVars, history

LEMMA WholeInvariant == Spec => []WholeInv
<1>1. Init => WholeInv
  BY DEF Init, NoBundle, WholeInv, BundleConsistent, SignedBy, Settled, SignedRowsOf, KeysOf, UnusedKeysOf,
         Running, PublishSteps, FetchSteps
<1>2. TypeInv /\ OwnRows /\ RowInv /\ WholeInv /\ [Next]_vars => WholeInv'
  <2> SUFFICES ASSUME TypeInv, OwnRows, RowInv, WholeInv, [Next]_vars PROVE WholeInv'
    OBVIOUS
  <2>1. CASE UNCHANGED vars
    BY <2>1 DEF vars, rowVars, pubVars, fetchVars, history, WholeInv, Running, SignedBy, Settled,
       HalfPublished, SignedRowsOf, KeysOf, UnusedKeysOf, Undisturbed, BundleConsistent
  <2> QED
    BY <2>1, KeyStepCases, PublishWhole, FetchWhole, MarkWhole
<1> QED
  BY <1>1, <1>2, KeyTypeInvariant, OwnRowsInvariant, RowInvariant, PTL DEF Spec

\* A fetched bundle is from one publication, unless the fetch ran beside a publication of its
\* target or after one that did not end alone.
THEOREM BundlesAreConsistent == Spec => []BundleConsistent
<1>1. WholeInv => BundleConsistent
  BY DEF WholeInv
<1> QED
  BY <1>1, WholeInvariant, PTL

===============================================================================
