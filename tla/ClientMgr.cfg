\* One user, who joins twice and speaks once in between. No symmetry: liveness.
CONSTANTS
  Users = {alice}
  Timeout = 2
  MaxJoins = 2
  MaxMessages = 1
  MaxRequests = 1
SPECIFICATION FairSpec
INVARIANTS
  TypeOK
  TablesFollowConnections
  ListedIsCurrent
  OnlyIdleCondemned
PROPERTY IdleLeaves
\* The process may end.
CHECK_DEADLOCK FALSE
