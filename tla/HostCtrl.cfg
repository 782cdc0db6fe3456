SPECIFICATION FairSpec
CONSTANTS
  NrIoQueues = 2
  Reqs = {r1, r2}
  MaxReconnects = 2
INVARIANTS
  TypeOK
  
  LiveMeansConnected
  
  InflightHasQueues
  

  
CHECK_DEADLOCK FALSE
