SPECIFICATION SerialSpec
CONSTANTS
  alice = alice   bob = bob   carol = carol
  a1 = a1   a2 = a2   b1 = b1   b2 = b2   c1 = c1
  m1 = m1   m2 = m2   m3 = m3   m4 = m4
  crashes = 0
  losses = 2
  failures = 0
  Users = {alice, bob, carol}
  NoUser = NoUser
  Messages = {m1, m3, m4}
  Sockets = {a1, b1, c1}
  NoSocket = NoSocket
  Sender <- MCSender
  Receiver <- MCReceiver
  Owner <- MCOwner
  MaxFaults <- MCMaxFaults
CHECK_DEADLOCK FALSE
INVARIANT LockedWhileQueued
INVARIANT StoresAgree
INVARIANT NoIdleLock
INVARIANT NoCrossing
INVARIANT LockOutlivesRedis
PROPERTY IsMailbox
