\* An import whose link may break, an export, and objects and bundles created
\* meanwhile.
CONSTANTS
  Imports = {i1}
  Exports = {e1}
  Creators = {c1}
  Makers = {i1, c1}
  i1 = i1
  e1 = e1
  c1 = c1
  Keys <- MCKeys
  Stored <- MCStored
  Tokens <- MCTokens
  FullName <- MCFullName
  ShortName <- MCShortName
  BundleName = "bundle"
  Documents <- MixedDocuments
  Created <- MCCreated
  AnyType = "any"
  NoKey = NoKey
  None = None
  MaxRepeats = 1
  MaxObjects = 3
SPECIFICATION Spec
\* Every call ends.
CHECK_DEADLOCK FALSE
INVARIANTS TypeOK MembersOfBundle  ValidStaysAcyclic RoundTrip
PROPERTY IsAtomicDocuments
