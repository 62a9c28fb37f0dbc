\* Two components, one event, two event objects. No symmetry: liveness.
CONSTANTS
  r1 = r1
  r2 = r2
  NEW_MESSAGE = NEW_MESSAGE
  EVENT_ID_INVALID = EVENT_ID_INVALID
  p1 = p1
  p2 = p2
  Receivers = {r1, r2}
  EventIds = {NEW_MESSAGE}
  Posts = {p1, p2}
  EventOf <- MCEventOf
SPECIFICATION FairSpec
INVARIANTS
  TypeOK
  NoWaitCycle
  NoDanglingReceiver
  MapWithinRegistry
PROPERTIES
  ImplementsPubSub
  SendsReturn
  CallsComplete
