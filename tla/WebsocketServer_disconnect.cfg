\* Two connections, two names, one message, two disconnect requests. No
\* symmetry: liveness.
CONSTANTS
  Handles = {h1, h2}
  Usernames = {alice, bob}
  NO_NAME = NO_NAME
  Messages = {m1}
  NO_MESSAGE = NO_MESSAGE
  Requests = {d1, d2}
SPECIFICATION FairSpec
INVARIANT ThrowsOnlyWhileLeaving
PROPERTY DisconnectedLeave
\* The process may end, and each connection is used once.
CHECK_DEADLOCK FALSE
