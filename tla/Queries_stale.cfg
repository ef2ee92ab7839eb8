\* One query of a client whose link breaks.
CONSTANTS
  Stored = {"a", "bundle"}
  Makers = {"others"}
  AnyType = "any"
  N = 2
  Null = Null
  None = None
  PrefixOf <- MCPrefixOf
  Retries = 1
  Additions <- OneAddition
  AddedTypes <- MCAddedTypes
  AskedTypes <- MCAskedTypes
  Inner <- MCInner
  Reused <- MCReused
  MaxNesting = 1
  MaxObjects = 1
  MaxRelations = 0
  MaxLinks = 2
SPECIFICATION Spec
CHECK_DEADLOCK FALSE
INVARIANT ExecutesPrepared
