\* A bundle is exported while it is imported.
CONSTANTS
  Imports = {i1}
  Exports = {e1}
  Creators = {}
  Makers = {i1}
  i1 = i1
  e1 = e1
  Keys <- MCKeys
  Stored <- MCStored
  Tokens <- MCTokens
  FullName <- MCFullName
  ShortName <- MCShortName
  BundleName = "bundle"
  Documents <- OneFan
  Created <- MCCreated
  AnyType = "any"
  NoKey = NoKey
  None = None
  MaxRepeats = 0
  MaxObjects = 0
SPECIFICATION Spec
\* Every call ends.
CHECK_DEADLOCK FALSE
INVARIANT FreesWhatItGot
