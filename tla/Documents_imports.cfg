\* Two imports at the same time, of any two documents.
CONSTANTS
  Imports = {i1, i2}
  Exports = {}
  Creators = {}
  Makers = {i1, i2}
  i1 = i1
  i2 = i2
  Keys <- MCKeys
  Stored <- MCStored
  Tokens <- MCTokens
  FullName <- MCFullName
  ShortName <- MCShortName
  BundleName = "bundle"
  Documents <- MixedDocuments
  Created <- MCCreated
  AnyType = "any"
  NoKey = NoKey
  None = None
  MaxRepeats = 0
  MaxObjects = 0
SPECIFICATION Spec
SYMMETRY MCSymmetry
\* Every call ends.
CHECK_DEADLOCK FALSE
INVARIANTS ImportsStayApart MembersOfBundle AnchorsComeLater
