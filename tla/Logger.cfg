\* Two messages, three hours of five ticks, which begin a tick before UTC's.
\* The bounds end the run.
CONSTANTS
  Messages = {m1, m2}
  NoName = NoName
  HourLen = 5
  Offset = 1
  MaxTime = 12
  MaxLate = 1
  MaxFaults = 1
  MaxRestarts = 1
SPECIFICATION Spec
SYMMETRY Symmetry
CHECK_DEADLOCK FALSE
INVARIANTS
  TypeOK
  NameFollowsHour
  TailKept
