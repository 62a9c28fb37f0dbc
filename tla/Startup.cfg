\* main as it is.
SPECIFICATION Spec
INVARIANTS
  NobodyMissesEvents
  ReceiversAreTheirOwners
