SPECIFICATION Spec
CONSTANTS
  alice = alice   bob = bob
  l1 = l1   l2 = l2   l3 = l3
  r1 = r1   r2 = r2   r3 = r3
  Users = {alice, bob}
  Logins = {l1, l2, l3}
  Refreshes = {r1, r2, r3}
  NoUser = NoUser
  LoginUser <- MCLoginUser
CHECK_DEADLOCK FALSE
INVARIANT TypeOK
INVARIANT NoForkedSession
INVARIANT RedeemedOnce
INVARIANT TokenOfLoginUser
