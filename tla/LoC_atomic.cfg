\* Three callers, no broken links, nobody else creates: the atomic operation.
CONSTANTS
  p1 = p1
  p2 = p2
  p3 = p3
  c1 = c1
  n1 = n1
  n2 = n2
  entity = entity
  bundle = bundle
  Callers = {p1, p2, p3}
  Creators = {}
  Names = {n1}
  Types = {entity, bundle}
  AbortTypes = {}
  AnyType = AnyType
  NoRequest = NoRequest
  NoAnswer = NoAnswer
  Error = Error
  Retries = 3
  LinkFails = FALSE
  MaxId = 3
SPECIFICATION Spec
SYMMETRY Symmetric
INVARIANTS UniqueObject
PROPERTIES IsAtomic
