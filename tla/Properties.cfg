\* Two writers and an export; an object, a relation and a bundle.
CONSTANTS
  Writers = {w1, w2}
  w1 = w1
  w2 = w2
  Readers = {"e1"}
  Objects = {"o"}
  Relations = {"r"}
  Bundles = {"b"}
  DocKeys <- MCDocKeys
  Tokens <- MCTokens
  FullName <- MCFullName
  Ends <- MCEnds
  Strings <- MCStrings
  Cut <- MCCut
  TruthText <- MCTruthText
  x = x
  y = y
  long = long
  lon = lon
  one = one
  zero = zero
  Exact = 8
  ObjectJobs <- MCObjectJobs
  RelationJobs <- MCRelationJobs
  PrefixJobs <- MCPrefixJobs
  ObjectCalls <- MCObjectCalls
  RelationCalls <- MCRelationCalls
  PrefixCalls <- MCPrefixCalls
  Retries = 1
  LinkFails = TRUE
  NoRequest = NoRequest
SPECIFICATION Spec
SYMMETRY MCSymmetry
\* Every call ends.
CHECK_DEADLOCK FALSE
INVARIANTS TypeOK OneRowPerCall ImportIsStored PropertyRoundTrip EndsPrevail Retrievable
PROPERTIES IsPropertyMap
