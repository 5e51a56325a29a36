------------------------------ MODULE AuthService ------------------------------
(***************************************************************************)
(* src/auth/auth.service.ts: a user logs in with a one-time password and   *)
(* is given a refresh token, which is exchanged for another one again and  *)
(* again.  Each call is a handler with a program counter; an action is one *)
(* access to PostgreSQL.                                                   *)
(*                                                                         *)
(* A token is a random string, so it is modelled by the call that made it. *)
(* Access tokens are signed and never stored; wrong passwords and requests *)
(* without a token are refused before anything is read.  Of the user only  *)
(* the existence of the row is kept.                                       *)
(***************************************************************************)
CONSTANTS
  Users,        \* mobile numbers
  Logins,       \* calls of verifyOtp with the right password
  LoginUser,    \* [Logins -> Users]
  Refreshes,    \* calls of refreshTokens
  NoUser        \* no row, no token

Tokens == Logins \cup Refreshes

ASSUME LoginsAssumption == /\ LoginUser \in [Logins -> Users]
                           /\ Logins \cap Refreshes = {}
                           /\ NoUser \notin Users \cup Tokens

VARIABLES
  accounts,    \* users with a row in the User table
  tokenUser,   \* tokenUser[t]: user_id of the RefreshToken row of t, or NoUser
  expired,     \* tokens whose expires_at is in the past
  given,       \* tokens that have reached a client
  login,       \* program counter of verifyOtp
  refresh,     \* program counter of refreshTokens
  presented,   \* its argument refresh_token
  stored,      \* its local stored_token: the user_id
  family       \* history: the login a token descends from

vars == <<accounts, tokenUser, expired, given, login, refresh, presented, stored, family>>

MaybeUser  == Users \cup {NoUser}
MaybeToken == Tokens \cup {NoUser}
LoginSteps   == {"createUser", "updateUser", "createToken"}
RefreshSteps == {"deleteToken", "createToken"}

TypeOK ==
  /\ accounts \subseteq Users
  /\ tokenUser \in [Tokens -> MaybeUser]
  /\ expired \subseteq Tokens
  /\ given \subseteq Tokens
  /\ login \in [Logins -> {"idle", "done", "failed"} \cup LoginSteps]
  /\ refresh \in [Refreshes -> {"idle", "done", "refused", "failed"} \cup RefreshSteps]
  /\ presented \in [Refreshes -> MaybeToken]
  /\ stored \in [Refreshes -> MaybeUser]
  /\ family \in [Tokens -> Logins \cup {NoUser}]

Init ==
  /\ accounts = {}
  /\ tokenUser = [t \in Tokens |-> NoUser]
  /\ expired = {}
  /\ given = {}
  /\ login = [l \in Logins |-> "idle"]
  /\ refresh = [f \in Refreshes |-> "idle"]
  /\ presented = [f \in Refreshes |-> NoUser]
  /\ stored = [f \in Refreshes |-> NoUser]
  /\ family = [t \in Tokens |-> NoUser]

\* The response with token t reaches the client, or is lost on the way.
Respond(t) == given' \in {given, given \cup {t}}

-------------------------------------------------------------------------------
\* verifyOtp

GoLogin(l, from, to) == login[l] = from /\ login' = [login EXCEPT ![l] = to]

FindUser(l) ==
  /\ GoLogin(l, "idle", IF LoginUser[l] \in accounts THEN "updateUser" ELSE "createUser")
  /\ UNCHANGED <<accounts, tokenUser, expired, given, refresh, presented, stored, family>>

\* mobile is unique: the slower of two first logins of a user throws.
CreateUser(l) ==
  /\ \/ LoginUser[l] \notin accounts /\ GoLogin(l, "createUser", "createToken")
     \/ LoginUser[l] \in accounts /\ GoLogin(l, "createUser", "failed")
  /\ accounts' = accounts \cup {LoginUser[l]}
  /\ UNCHANGED <<tokenUser, expired, given, refresh, presented, stored, family>>

\* A new device_id is stored, then the cached user is dropped.
UpdateUser(l) ==
  /\ GoLogin(l, "updateUser", "createToken")
  /\ UNCHANGED <<accounts, tokenUser, expired, given, refresh, presented, stored, family>>

CreateLoginToken(l) ==
  /\ GoLogin(l, "createToken", "done")
  /\ tokenUser' = [tokenUser EXCEPT ![l] = LoginUser[l]]
  /\ family' = [family EXCEPT ![l] = l]
  /\ Respond(l)
  /\ UNCHANGED <<accounts, expired, refresh, presented, stored>>

-------------------------------------------------------------------------------
\* refreshTokens: a client presents any token it has ever been given, also twice.

GoRefresh(f, from, to) == refresh[f] = from /\ refresh' = [refresh EXCEPT ![f] = to]

\* Mutant: stored_token is a field of the service, shared by all calls.
FindTokenShared(f) ==
  /\ \E t \in given \ expired :
       /\ tokenUser[t] # NoUser
       /\ GoRefresh(f, "idle", "deleteToken")
       /\ presented' = [presented EXCEPT ![f] = t]
       /\ stored' = [g \in Refreshes |-> tokenUser[t]]
  /\ UNCHANGED <<accounts, tokenUser, expired, given, login, family>>

FindToken(f) ==
  /\ \E t \in given :
       /\ presented' = [presented EXCEPT ![f] = t]
       /\ \/ /\ tokenUser[t] # NoUser /\ t \notin expired
             /\ GoRefresh(f, "idle", "deleteToken")
             /\ stored' = [stored EXCEPT ![f] = tokenUser[t]]
          \/ /\ tokenUser[t] = NoUser \/ t \in expired
             /\ GoRefresh(f, "idle", "refused")
             /\ UNCHANGED stored
  /\ UNCHANGED <<accounts, tokenUser, expired, given, login, family>>

\* Mutant: deleteMany in place of delete, which is satisfied with no row at all.
DeleteTokenMany(f) ==
  /\ GoRefresh(f, "deleteToken", "createToken")
  /\ tokenUser' = [tokenUser EXCEPT ![presented[f]] = NoUser]
  /\ family' = [family EXCEPT ![f] = family[presented[f]]]
  /\ UNCHANGED <<accounts, expired, given, login, presented, stored>>

\* delete throws when another call has deleted the row in the meantime.
DeleteToken(f) ==
  /\ \/ /\ GoRefresh(f, "deleteToken", "createToken")
        /\ tokenUser[presented[f]] # NoUser
        /\ family' = [family EXCEPT ![f] = family[presented[f]]]
     \/ /\ GoRefresh(f, "deleteToken", "failed")
        /\ tokenUser[presented[f]] = NoUser
        /\ UNCHANGED family
  /\ tokenUser' = [tokenUser EXCEPT ![presented[f]] = NoUser]
  /\ UNCHANGED <<accounts, expired, given, login, presented, stored>>

\* Mutant: the token is stored where the user id belongs.
CreateTokenForToken(f) ==
  /\ GoRefresh(f, "createToken", "done")
  /\ tokenUser' = [tokenUser EXCEPT ![f] = presented[f]]
  /\ Respond(f)
  /\ UNCHANGED <<accounts, expired, login, presented, stored, family>>

CreateToken(f) ==
  /\ GoRefresh(f, "createToken", "done")
  /\ tokenUser' = [tokenUser EXCEPT ![f] = stored[f]]
  /\ Respond(f)
  /\ UNCHANGED <<accounts, expired, login, presented, stored, family>>

-------------------------------------------------------------------------------
\* Faults and time.

\* An access fails, or the process stops: what was written before stays.
LoginFails(l) ==
  /\ login[l] \in LoginSteps
  /\ login' = [login EXCEPT ![l] = "failed"]
  /\ UNCHANGED <<accounts, tokenUser, expired, given, refresh, presented, stored, family>>

RefreshFails(f) ==
  /\ refresh[f] \in RefreshSteps
  /\ refresh' = [refresh EXCEPT ![f] = "failed"]
  /\ UNCHANGED <<accounts, tokenUser, expired, given, login, presented, stored, family>>

\* Seven days have passed since the row was created.
Expire(t) ==
  /\ tokenUser[t] # NoUser
  /\ expired' = expired \cup {t}
  /\ UNCHANGED <<accounts, tokenUser, given, login, refresh, presented, stored, family>>

-------------------------------------------------------------------------------

Next ==
  \/ \E l \in Logins : FindUser(l) \/ CreateUser(l) \/ UpdateUser(l)
                       \/ CreateLoginToken(l) \/ LoginFails(l)
  \/ \E f \in Refreshes : FindToken(f) \/ DeleteToken(f) \/ CreateToken(f) \/ RefreshFails(f)
  \/ \E t \in Tokens : Expire(t)

Spec == Init /\ [][Next]_vars

-------------------------------------------------------------------------------
\* Properties.

\* The refreshes of one login that hold the right to a new token: the live rows that
\* descend from it, and the calls between their delete and their create.
Heirs(l) == {t \in Tokens : /\ family[t] = l
                            /\ \/ tokenUser[t] # NoUser
                               \/ t \in Refreshes /\ refresh[t] = "createToken"}

\* However many clients present the tokens of a login, and in whatever order: a login never
\* has two live refresh tokens, or one and a call that is about to create another.
NoForkedSession == \A l \in Logins : \A t, u \in Heirs(l) : t = u

\* A refresh token is exchanged at most once.
RedeemedOnce ==
  \A f, g \in Refreshes :
    refresh[f] = "done" /\ refresh[g] = "done" /\ presented[f] = presented[g] => f = g

\* A live token is one of the user who logged in, across any number of exchanges.
TokenOfLoginUser ==
  \A t \in Tokens : tokenUser[t] # NoUser => /\ family[t] \in Logins
                                             /\ tokenUser[t] = LoginUser[family[t]]

-------------------------------------------------------------------------------
\* Inductive strengthenings.

\* A call that is about to delete a token has one.
TypeInv ==
  TypeOK /\ \A f \in Refreshes : refresh[f] = "deleteToken" => presented[f] \in Tokens

Minted(t) == \/ t \in Logins /\ login[t] = "done"
             \/ t \in Refreshes /\ refresh[t] = "done"

\* Tokens that clients have, and rows that are stored, were minted; one that is not minted
\* belongs to no login, unless its call is about to store it.
MintedInv ==
  /\ \A t \in given : Minted(t)
  /\ \A t \in Tokens : tokenUser[t] # NoUser => Minted(t)
  /\ \A t \in Tokens : family[t] # NoUser => login[family[t]] = "done"
  /\ \A l \in Logins : login[l] # "done" => family[l] = NoUser
  /\ \A f \in Refreshes : refresh[f] \in {"idle", "deleteToken"} => family[f] = NoUser

\* What refreshTokens remembers of the token that was presented to it.
RefreshInv ==
  /\ TokenOfLoginUser
  /\ \A f \in Refreshes :
       /\ refresh[f] = "deleteToken" =>
            /\ presented[f] \in given
            /\ family[presented[f]] \in Logins
            /\ stored[f] = LoginUser[family[presented[f]]]
       /\ refresh[f] = "createToken" =>
            family[f] \in Logins /\ stored[f] = LoginUser[family[f]]

\* A token that was exchanged is gone for good.
Redeemed == {f \in Refreshes : refresh[f] \in {"createToken", "done"}}

RedeemedInv ==
  /\ \A f \in Redeemed : presented[f] \in given /\ tokenUser[presented[f]] = NoUser
  /\ \A f, g \in Redeemed : presented[f] = presented[g] => f = g

==============================================================================
