\* Two callers, a caller of cpl_create_object, links that break, deaths.
CONSTANTS
  p1 = p1
  p2 = p2
  p3 = p3
  c1 = c1
  n1 = n1
  n2 = n2
  entity = entity
  bundle = bundle
  Callers = {p1, p2}
  Creators = {c1}
  Names = {n1}
  Types = {entity, bundle}
  AbortTypes = {bundle}
  AnyType = AnyType
  NoRequest = NoRequest
  NoAnswer = NoAnswer
  Error = Error
  Retries = 2
  LinkFails = TRUE
  MaxId = 3
SPECIFICATION FairSpec
INVARIANTS TypeOK PermitAccounting OneMaker AnswersAgree
PROPERTIES SectionIsLeft PermitReturns
