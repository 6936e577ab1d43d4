SPECIFICATION FairSpec
CONSTANTS
  u1 = u1
  u2 = u2
  p1 = p1
  p2 = p2
  NoUser = NoUser
  Actors = {u2}
  Entries = {1, 2}
  Users = {u1, u2}
  Endpoints = {1, 2}
  Switched = {1}
  Guests = {u2}
  Optional <- MutableEmail
  Requests = {1, 2}
  Changes = 1
  Batch = 2
  Tabs = {p1}
  Owner <- Pages
  Buffer = 1
INVARIANTS
  AnnouncedOnce
  NoneMissed
  NoPanic
PROPERTIES
  Drained
  StreamsEnd
CHECK_DEADLOCK FALSE
