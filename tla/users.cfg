SPECIFICATION Spec
CONSTANTS
  alice = alice   bob = bob
  l1 = l1   l2 = l2   l3 = l3
  k1 = k1
  e1 = e1
  g1 = g1   g2 = g2
  Users = {alice, bob}
  Logins = {l1, l2, l3}
  Registrations = {k1}
  Edits = {e1}
  Lookups = {g1, g2}
  First = First
  NoEntry = NoEntry
  LoginUser <- MCLoginUser
  Registrant <- MCRegistrant
  Editor <- MCEditor
  LookedUp <- MCLookedUp
CHECK_DEADLOCK FALSE
INVARIANT TypeOK
INVARIANT ColumnsKept
INVARIANT CachedDevice
INVARIANT RetiredStaysOut
