SPECIFICATION Spec
CONSTANTS
  Cores = {1, 2, 3}
  NumaOf <- MCNumaOf
  numa_walk <- MCNumaWalk
  PortNuma <- MCPortNuma
  rxq_walk <- MCRxqWalk
  INTERVAL = 10
  THRESHOLD = 25
  Masks <- MCMasks
  Affinities <- MCAffinities
  Loads <- MCLoads
  MaxChanges = 3
INVARIANTS
  PlacementSound DryRunGrounded 
PROPERTY MovesBalance
