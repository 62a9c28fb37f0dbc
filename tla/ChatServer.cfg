\* One user, who joins twice and is kicked; the list is asked for at any time.
\* No symmetry: liveness.
CONSTANTS
  Users = {alice}
  Timeout = 1
  MaxJoins = 2
  MaxMessages = 0
  MaxRequests = 0
  MaxKicks = 1
SPECIFICATION ChatFairSpec
PROPERTY KickedLeave
INVARIANTS
  AnswerIsRegular
