SPECIFICATION StaleSpec
CONSTANTS
  u1 = u1
  Listings = {l1}
  Users = {u1}
  OwnerOf <- MCOwnerOf
  Contents = {c1, c2}
  Validated = {c1, c2}
  Promotable = {c1, c2}
  Gate = "pre"
  AutoApprove = TRUE
  RawWrites = {}
  Blank = Blank
  NoDoc = NoDoc
  Requests = {q1, q2}
  Overlap = FALSE
  Nothing = Nothing
PROPERTY SerialRequestsAreAtomic
