\* Three messages, one of them with an apostrophe; two restarts, two faults.
\* The bounds end the run, and so does a process that aborts.
CONSTANTS
  Messages = {m1, m2, q}
  Quoted = {q}
  Other = other
  MaxFaults = 2
  MaxRestarts = 2
SPECIFICATION Spec
CHECK_DEADLOCK FALSE
INVARIANTS
  TypeOK
  ReturnsTellWhatIsStored
