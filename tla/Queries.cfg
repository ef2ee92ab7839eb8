\* Any query, with queries in the callbacks, while others add rows.
CONSTANTS
  Stored = {"a", "bundle"}
  Makers = {"others"}
  AnyType = "any"
  N = 2
  Null = Null
  None = None
  PrefixOf <- MCPrefixOf
  Retries = 1
  Additions <- MCAdditions
  AddedTypes <- MCAddedTypes
  AskedTypes <- MCAskedTypes
  Inner <- MCInner
  Reused <- MCReused
  MaxNesting = 2
  MaxObjects = 2
  MaxRelations = 2
  MaxLinks = 2
SPECIFICATION FairSpec
\* A failed reconnection ends the program.
CHECK_DEADLOCK FALSE
INVARIANTS TypeOK PoolIsWhole Answered LineageIsSymmetric
PROPERTIES CallsEnd
