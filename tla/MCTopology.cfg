SPECIFICATION Spec
CONSTANTS
  MAX_CPUS = 64
  MAX_NUMA_NODES = 2
  INT_MAX = 2147483647
  INT64_MAX = 2147483647
  CPU_SETSIZE = 64
  AFFINITY_ABSOLUTE_CAP = 256
  NodeCpus <- MCNodeCpus
  NrCpuIds <- MCNrCpuIds
  AffinityMasks <- MCAffinityMasks
  OnlineSets <- MCOnlineSets
  Changes = 2
  Directories <- MCDirectories
  CpuLists <- MCCpuLists
  MemInfos <- MCMemInfos
  CpuInfos <- MCCpuInfos
  PrctlResults <- MCPrctlResults
  Requests <- MCRequests
INVARIANTS
  SnapshotMatchesStatus
  PlanFitsSnapshot
