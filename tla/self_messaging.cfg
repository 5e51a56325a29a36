SPECIFICATION Spec
CONSTANTS
  alice = alice   bob = bob   carol = carol
  a1 = a1   a2 = a2   b1 = b1   b2 = b2   c1 = c1
  m1 = m1   m2 = m2   m3 = m3   m4 = m4
  crashes = 0
  losses = 0
  failures = 0
  Users = {alice, bob}
  NoUser = NoUser
  Messages = {m1}
  Sockets = {a1, b1}
  NoSocket = NoSocket
  Sender <- MCSender
  Receiver <- MCReceiver
  Owner <- MCOwner
  MaxFaults <- MCMaxFaults
CHECK_DEADLOCK FALSE
INVARIANT SelfMessagingOnlyToSelf
