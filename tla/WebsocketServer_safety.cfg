\* Three connections, two names, two messages, one disconnect request.
CONSTANTS
  Handles = {h1, h2, h3}
  Usernames = {alice, bob}
  NO_NAME = NO_NAME
  Messages = {m1, m2}
  NO_MESSAGE = NO_MESSAGE
  Requests = {d1}
SPECIFICATION Spec
SYMMETRY Symmetry
INVARIANTS
  TypeOK
  UniqueNames
  NamesMatchConnections
  MapsMatchSessions
  EventHistory
  BroadcastComplete
PROPERTIES
  OneAtATime
\* The process may end, and each connection is used once.
CHECK_DEADLOCK FALSE
