SPECIFICATION FairSpec
CHECK_DEADLOCK FALSE
CONSTANTS
  MinReplicas = 2
  MaxReplicas = 4
  StartReplicas = 3
  PerReplica = 15
  StartLoad = 20
  Signal = {0, 150}
  MaxUpdates = 3
INVARIANTS
  TypeOK
  GaugesAgree
  
PROPERTIES
  ReplicasFollowLoad
