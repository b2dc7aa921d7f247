SPECIFICATION FairSpec
CONSTANTS
  Instance  <- TwoInstances
  MaxEvents = 5
INVARIANTS
  TypeOK
  ReadsItsConnection
PROPERTIES
  Reconnects
  StatusSettles
CHECK_DEADLOCK FALSE
