SPECIFICATION Spec
CONSTANTS
  alice = alice   bob = bob   carol = carol
  a1 = a1   a2 = a2   b1 = b1
  t1 = t1   t2 = t2
  Users = {alice, bob, carol}
  Talks = {t1, t2}
  Sockets = {a1, a2, b1}
  NoSocket = NoSocket
  Limit = 1
  MaxCrashes = 1
  Owner <- MCOwner
  Queries <- MCQueries
  Asker <- MCAsker
  Sender <- MCSender
  Receiver <- MCReceiver
CONSTRAINT FewArrivals
CHECK_DEADLOCK FALSE
INVARIANT TypeOK
INVARIANT PresenceToPartnersOnly
INVARIANT PartnersFresh
INVARIANT LastToldTrue
INVARIANT OnlineHasEntry
INVARIANT NoGhost
INVARIANT StaleListsExpire
