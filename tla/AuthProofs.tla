------------------------------ MODULE AuthProofs ------------------------------
(***************************************************************************)
(* Proofs about AuthService, for any number of users, logins and           *)
(* overlapping refreshes: the type invariant, that a login never forks     *)
(* into two live refresh tokens and that no token is exchanged twice.      *)
(***************************************************************************)
EXTENDS AuthService, TLAPS

\* Tokens are logins and refreshes, never both, and nobody is the absent user.
LEMMA TokenKinds ==
  /\ Logins \subseteq Tokens /\ Refreshes \subseteq Tokens
  /\ \A l \in Logins : l \notin Refreshes /\ l # NoUser /\ LoginUser[l] \in Users
                       /\ LoginUser[l] # NoUser
  /\ \A f \in Refreshes : f # NoUser /\ f \notin Logins
  BY LoginsAssumption DEF Tokens

\* Every step is one of the calls, the passing of time, or a stutter.
LEMMA AuthStepCases ==
  ASSUME [Next]_vars
  PROVE  \/ \E l \in Logins : FindUser(l) \/ CreateUser(l) \/ UpdateUser(l) \/ LoginFails(l)
         \/ \E l \in Logins : CreateLoginToken(l)
         \/ \E f \in Refreshes : FindToken(f)
         \/ \E f \in Refreshes : DeleteToken(f)
         \/ \E f \in Refreshes : CreateToken(f)
         \/ \E f \in Refreshes : RefreshFails(f)
         \/ \E t \in Tokens : Expire(t)
         \/ UNCHANGED vars
  BY DEF Next

\* The parts of a login that do not touch tokens move one counter among the steps before
\* the end.
LEMMA LoginFrame ==
  ASSUME TypeOK, NEW l \in Logins,
         FindUser(l) \/ CreateUser(l) \/ UpdateUser(l) \/ LoginFails(l)
  PROVE  /\ login[l] # "done"
         /\ \E to \in LoginSteps \cup {"failed"} : login' = [login EXCEPT ![l] = to]
         /\ accounts' \subseteq Users
         /\ UNCHANGED <<tokenUser, expired, given, refresh, presented, stored, family>>
<1> USE TokenKinds DEF TypeOK, GoLogin, LoginSteps
<1>1. CASE FindUser(l)
  BY <1>1 DEF FindUser
<1>2. CASE CreateUser(l)
  BY <1>2 DEF CreateUser
<1>3. CASE UpdateUser(l)
  BY <1>3 DEF UpdateUser
<1>4. CASE LoginFails(l)
  BY <1>4 DEF LoginFails
<1> QED
  BY <1>1, <1>2, <1>3, <1>4

\* A step preserves the types.
LEMMA AuthTypeStep ==
  ASSUME TypeInv, [Next]_vars
  PROVE  TypeInv'
<1> USE TokenKinds DEF TypeInv, TypeOK, MaybeUser, MaybeToken, RefreshSteps, Respond, GoRefresh
<1>1. ASSUME NEW l \in Logins, FindUser(l) \/ CreateUser(l) \/ UpdateUser(l) \/ LoginFails(l)
      PROVE  TypeInv'
  BY <1>1, LoginFrame DEF LoginSteps
<1>2. ASSUME NEW l \in Logins, CreateLoginToken(l)
      PROVE  TypeInv'
  BY <1>2 DEF CreateLoginToken, GoLogin
<1>3. ASSUME NEW f \in Refreshes, FindToken(f)
      PROVE  TypeInv'
  <2> PICK t \in Tokens :
        /\ presented' = [presented EXCEPT ![f] = t]
        /\ stored' = [stored EXCEPT ![f] = tokenUser[t]] \/ stored' = stored
        /\ refresh' = [refresh EXCEPT ![f] = "deleteToken"]
           \/ refresh' = [refresh EXCEPT ![f] = "refused"]
    BY <1>3 DEF FindToken
  <2> QED
    BY <1>3 DEF FindToken
<1>4. ASSUME NEW f \in Refreshes, DeleteToken(f)
      PROVE  TypeInv'
  <2>1. family' \in [Tokens -> Logins \cup {NoUser}]
    BY <1>4 DEF DeleteToken
  <2>2. refresh' = [refresh EXCEPT ![f] = "createToken"] \/ refresh' = [refresh EXCEPT ![f] = "failed"]
    BY <1>4 DEF DeleteToken
  <2>3. refresh' \in [Refreshes -> {"idle", "done", "refused", "failed"} \cup RefreshSteps]
    BY <2>2
  <2>4. tokenUser' \in [Tokens -> MaybeUser]
    BY <1>4 DEF DeleteToken
  <2>5. \A g \in Refreshes : refresh'[g] = "deleteToken" => refresh[g] = "deleteToken"
    BY <2>2
  <2> QED
    BY <1>4, <2>1, <2>3, <2>4, <2>5 DEF DeleteToken
<1>5. ASSUME NEW f \in Refreshes, CreateToken(f)
      PROVE  TypeInv'
  BY <1>5 DEF CreateToken
<1>6. ASSUME NEW f \in Refreshes, RefreshFails(f)
      PROVE  TypeInv'
  BY <1>6 DEF RefreshFails
<1>7. ASSUME NEW t \in Tokens, Expire(t)
      PROVE  TypeInv'
  BY <1>7 DEF Expire
<1>8. CASE UNCHANGED vars
  BY <1>8 DEF vars
<1> QED
  BY <1>1, <1>2, <1>3, <1>4, <1>5, <1>6, <1>7, <1>8, AuthStepCases

\* The types, and that every delete has a token, hold in every reachable state.
LEMMA AuthTypeInvariant == Spec => []TypeInv
<1>1. Init => TypeInv
  BY DEF Init, TypeInv, TypeOK, MaybeUser, MaybeToken
<1>2. TypeInv /\ [Next]_vars => TypeInv'
  BY AuthTypeStep
<1> QED
  BY <1>1, <1>2, PTL DEF Spec

\* Rows, locals and program counters keep their types.
THEOREM AuthTypeCorrect == Spec => []TypeOK
<1>1. TypeInv => TypeOK
  BY DEF TypeInv
<1> QED
  BY <1>1, AuthTypeInvariant, PTL

\* A step preserves what is known of minted tokens.
LEMMA MintedStep ==
  ASSUME TypeInv, MintedInv, [Next]_vars
  PROVE  MintedInv'
<1> USE TokenKinds DEF TypeInv, TypeOK, MaybeUser, MaybeToken, Respond, GoRefresh, GoLogin,
        MintedInv, Minted, Tokens
<1>1. ASSUME NEW l \in Logins, FindUser(l) \/ CreateUser(l) \/ UpdateUser(l) \/ LoginFails(l)
      PROVE  MintedInv'
  <2>1. PICK to \in LoginSteps \cup {"failed"} : login' = [login EXCEPT ![l] = to]
    BY <1>1, LoginFrame
  <2>2. login[l] # "done" /\ UNCHANGED <<tokenUser, given, refresh, family>>
    BY <1>1, LoginFrame
  <2> QED
    BY <2>1, <2>2
<1>2. ASSUME NEW l \in Logins, CreateLoginToken(l)
      PROVE  MintedInv'
  BY <1>2 DEF CreateLoginToken
<1>3. ASSUME NEW f \in Refreshes, FindToken(f)
      PROVE  MintedInv'
  BY <1>3 DEF FindToken
<1>4. ASSUME NEW f \in Refreshes, DeleteToken(f)
      PROVE  MintedInv'
  BY <1>4 DEF DeleteToken
<1>5. ASSUME NEW f \in Refreshes, CreateToken(f)
      PROVE  MintedInv'
  BY <1>5 DEF CreateToken
<1>6. ASSUME NEW f \in Refreshes, RefreshFails(f)
      PROVE  MintedInv'
  BY <1>6 DEF RefreshFails, RefreshSteps
<1>7. ASSUME NEW t \in Tokens, Expire(t)
      PROVE  MintedInv'
  BY <1>7 DEF Expire
<1>8. CASE UNCHANGED vars
  BY <1>8 DEF vars
<1> QED
  BY <1>1, <1>2, <1>3, <1>4, <1>5, <1>6, <1>7, <1>8, AuthStepCases

\* A step preserves what a refresh remembers of its token.
LEMMA RefreshStep ==
  ASSUME TypeInv, MintedInv, RefreshInv, [Next]_vars
  PROVE  RefreshInv'
<1> USE TokenKinds DEF TypeInv, TypeOK, MaybeUser, MaybeToken, Respond, GoRefresh, GoLogin,
        RefreshInv, TokenOfLoginUser, MintedInv, Minted, Tokens
<1>1. ASSUME NEW l \in Logins, FindUser(l) \/ CreateUser(l) \/ UpdateUser(l) \/ LoginFails(l)
      PROVE  RefreshInv'
  <2>1. PICK to \in LoginSteps \cup {"failed"} : login' = [login EXCEPT ![l] = to]
    BY <1>1, LoginFrame
  <2>2. login[l] # "done" /\ UNCHANGED <<tokenUser, given, refresh, presented, stored, family>>
    BY <1>1, LoginFrame
  <2> QED
    BY <2>1, <2>2
<1>2. ASSUME NEW l \in Logins, CreateLoginToken(l)
      PROVE  RefreshInv'
  BY <1>2 DEF CreateLoginToken
<1>3. ASSUME NEW f \in Refreshes, FindToken(f)
      PROVE  RefreshInv'
  BY <1>3 DEF FindToken
<1>4. ASSUME NEW f \in Refreshes, DeleteToken(f)
      PROVE  RefreshInv'
  BY <1>4 DEF DeleteToken
<1>5. ASSUME NEW f \in Refreshes, CreateToken(f)
      PROVE  RefreshInv'
  BY <1>5 DEF CreateToken
<1>6. ASSUME NEW f \in Refreshes, RefreshFails(f)
      PROVE  RefreshInv'
  BY <1>6 DEF RefreshFails, RefreshSteps
<1>7. ASSUME NEW t \in Tokens, Expire(t)
      PROVE  RefreshInv'
  BY <1>7 DEF Expire
<1>8. CASE UNCHANGED vars
  BY <1>8 DEF vars
<1> QED
  BY <1>1, <1>2, <1>3, <1>4, <1>5, <1>6, <1>7, <1>8, AuthStepCases

\* A step never exchanges a token that was exchanged before.
LEMMA RedeemedStep ==
  ASSUME TypeInv, MintedInv, RefreshInv, RedeemedInv, [Next]_vars
  PROVE  RedeemedInv'
<1> USE TokenKinds DEF TypeInv, TypeOK, MaybeUser, MaybeToken, Respond, GoRefresh, GoLogin,
        RedeemedInv, Redeemed, RefreshInv, MintedInv, Minted, Tokens
<1>1. ASSUME NEW l \in Logins, FindUser(l) \/ CreateUser(l) \/ UpdateUser(l) \/ LoginFails(l)
      PROVE  RedeemedInv'
  <2>1. PICK to \in LoginSteps \cup {"failed"} : login' = [login EXCEPT ![l] = to]
    BY <1>1, LoginFrame
  <2>2. login[l] # "done" /\ UNCHANGED <<tokenUser, given, refresh, presented, stored, family>>
    BY <1>1, LoginFrame
  <2> QED
    BY <2>1, <2>2
<1>2. ASSUME NEW l \in Logins, CreateLoginToken(l)
      PROVE  RedeemedInv'
  BY <1>2 DEF CreateLoginToken
<1>3. ASSUME NEW f \in Refreshes, FindToken(f)
      PROVE  RedeemedInv'
  BY <1>3 DEF FindToken
<1>4. ASSUME NEW f \in Refreshes, DeleteToken(f)
      PROVE  RedeemedInv'
  BY <1>4 DEF DeleteToken
<1>5. ASSUME NEW f \in Refreshes, CreateToken(f)
      PROVE  RedeemedInv'
  BY <1>5 DEF CreateToken
<1>6. ASSUME NEW f \in Refreshes, RefreshFails(f)
      PROVE  RedeemedInv'
  BY <1>6 DEF RefreshFails, RefreshSteps
<1>7. ASSUME NEW t \in Tokens, Expire(t)
      PROVE  RedeemedInv'
  BY <1>7 DEF Expire
<1>8. CASE UNCHANGED vars
  BY <1>8 DEF vars
<1> QED
  BY <1>1, <1>2, <1>3, <1>4, <1>5, <1>6, <1>7, <1>8, AuthStepCases

\* A step never gives a login a second heir.
LEMMA HeirsStep ==
  ASSUME TypeInv, MintedInv, RefreshInv, NoForkedSession, [Next]_vars
  PROVE  NoForkedSession'
<1> USE TokenKinds DEF TypeInv, TypeOK, MaybeUser, MaybeToken, Respond, GoRefresh, GoLogin,
        NoForkedSession, Heirs, MintedInv, Minted, RefreshInv, TokenOfLoginUser, Tokens
<1>1. ASSUME NEW l \in Logins, FindUser(l) \/ CreateUser(l) \/ UpdateUser(l) \/ LoginFails(l)
      PROVE  NoForkedSession'
  <2>1. PICK to \in LoginSteps \cup {"failed"} : login' = [login EXCEPT ![l] = to]
    BY <1>1, LoginFrame
  <2>2. login[l] # "done" /\ UNCHANGED <<tokenUser, given, refresh, presented, stored, family>>
    BY <1>1, LoginFrame
  <2> QED
    BY <2>1, <2>2
<1>2. ASSUME NEW l \in Logins, CreateLoginToken(l)
      PROVE  NoForkedSession'
  BY <1>2 DEF CreateLoginToken
<1>3. ASSUME NEW f \in Refreshes, FindToken(f)
      PROVE  NoForkedSession'
  BY <1>3 DEF FindToken
<1>4. ASSUME NEW f \in Refreshes, DeleteToken(f)
      PROVE  NoForkedSession'
  BY <1>4 DEF DeleteToken
<1>5. ASSUME NEW f \in Refreshes, CreateToken(f)
      PROVE  NoForkedSession'
  BY <1>5 DEF CreateToken
<1>6. ASSUME NEW f \in Refreshes, RefreshFails(f)
      PROVE  NoForkedSession'
  BY <1>6 DEF RefreshFails, RefreshSteps
<1>7. ASSUME NEW t \in Tokens, Expire(t)
      PROVE  NoForkedSession'
  BY <1>7 DEF Expire
<1>8. CASE UNCHANGED vars
  BY <1>8 DEF vars
<1> QED
  BY <1>1, <1>2, <1>3, <1>4, <1>5, <1>6, <1>7, <1>8, AuthStepCases

\* What is known of minted tokens holds in every reachable state.
LEMMA MintedInvariant == Spec => []MintedInv
<1>1. Init => MintedInv
  BY TokenKinds DEF Init, MintedInv, Tokens
<1>2. TypeInv /\ MintedInv /\ [Next]_vars => MintedInv'
  BY MintedStep
<1> QED
  BY <1>1, <1>2, AuthTypeInvariant, PTL DEF Spec

\* What a refresh remembers of its token stays true.
LEMMA RefreshInvariant == Spec => []RefreshInv
<1>1. Init => RefreshInv
  BY TokenKinds DEF Init, RefreshInv, TokenOfLoginUser
<1>2. TypeInv /\ MintedInv /\ RefreshInv /\ [Next]_vars => RefreshInv'
  BY RefreshStep
<1> QED
  BY <1>1, <1>2, AuthTypeInvariant, MintedInvariant, PTL DEF Spec

\* The user of a live token is the one who logged in.
THEOREM TokensStayWithTheirUser == Spec => []TokenOfLoginUser
<1>1. RefreshInv => TokenOfLoginUser
  BY DEF RefreshInv
<1> QED
  BY <1>1, RefreshInvariant, PTL

\* No two calls of refreshTokens exchange the same token: the second delete throws.
THEOREM TokensAreRedeemedOnce == Spec => []RedeemedOnce
<1>1. Init => RedeemedInv
  BY DEF Init, RedeemedInv, Redeemed
<1>2. TypeInv /\ MintedInv /\ RefreshInv /\ RedeemedInv /\ [Next]_vars => RedeemedInv'
  BY RedeemedStep
<1>3. RedeemedInv => RedeemedOnce
  BY DEF RedeemedInv, Redeemed, RedeemedOnce
<1> QED
  BY <1>1, <1>2, <1>3, AuthTypeInvariant, MintedInvariant, RefreshInvariant, PTL DEF Spec

\* A login never forks into two refresh tokens, however the exchanges overlap and whichever
\* of their accesses fail.
THEOREM LoginsDoNotFork == Spec => []NoForkedSession
<1>1. Init => NoForkedSession
  BY TokenKinds DEF Init, NoForkedSession, Heirs, Tokens
<1>2. TypeInv /\ MintedInv /\ RefreshInv /\ NoForkedSession /\ [Next]_vars => NoForkedSession'
  BY HeirsStep
<1> QED
  BY <1>1, <1>2, AuthTypeInvariant, MintedInvariant, RefreshInvariant, PTL DEF Spec

==============================================================================
