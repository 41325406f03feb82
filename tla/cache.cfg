\* Two requests that read and write through the cache at once, over both stores.
SPECIFICATION FairSpec
CONSTANTS
  Requests <- MCRequests
  Keys <- MCKeys
  Tables <- MCTables
  TableOf <- MCTableOf
  Stores = {"memory", "redis"}
  MaxWrites = 2
  MaxReads = 2
  MaxAges = 1
  MaxFailures = 1
INVARIANTS Coherent
PROPERTIES RefreshEnds
