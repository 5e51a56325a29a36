SPECIFICATION Spec
CONSTANTS
  alice = alice   bob = bob
  k1 = k1   k2 = k2
  p1 = p1   p2 = p2   p3 = p3
  c1 = c1   c2 = c2
  Users = {alice, bob}
  KeyIds = {k1, k2}
  Publications = {p1, p2}
  f1 = f1   f2 = f2
  Fetches = {f1, f2}
  Marks = {c1}
  None = None
  Publisher <- MCPublisher
  KeysIn <- MCKeysIn
  Target <- MCTarget
  Marked <- MCMarked
CHECK_DEADLOCK FALSE
INVARIANT SingleUse
