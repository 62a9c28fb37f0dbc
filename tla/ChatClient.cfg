\* Two names, Join is pressed three times. Then the client may stand still.
\* No symmetry: liveness.
CONSTANTS
  Names = {alice, bob}
  Joins = {j1, j2, j3}
SPECIFICATION FairSpec
CHECK_DEADLOCK FALSE
INVARIANTS
  TypeOK
  NameShown
  WindowFollowsConnection
PROPERTY AskedAgain
