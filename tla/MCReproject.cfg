SPECIFICATION Spec
CONSTANTS
  Listings = {l1}
  Requests = {q1}
  Drafts <- MCDrafts
  Schemas <- MCSchemas
  Renames <- MCRenames
  RequireImage = TRUE
  RequireLocation = TRUE
  FreePrice = FALSE
  NoAnswer = NoAnswer
  Idle = Idle
  Nothing = Nothing
  NoDocument = NoDocument
  MaxRequests = 3
  MaxPasses = 1
  Unread = Unread
  Failed = Failed
CHECK_DEADLOCK FALSE
INVARIANTS
  TypeOK
  RepairKeepsRejectedFields
  HeadingsFollowAcceptedAnswers
  DoorsAgree
  CleanPassLeavesNothingStale
  OnlyExcusedValuesStayPublic
PROPERTIES
  ProjectionsAgree
  RefusedLateForAReason
  RenameCarriesEveryAnswer
  OnlyStaleReadsMisleadTheIndex
