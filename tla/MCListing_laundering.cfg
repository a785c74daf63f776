SPECIFICATION Spec
CONSTANTS
  u1 = u1
  Listings = {l1}
  Users = {u1}
  OwnerOf <- MCOwnerOf
  Contents = {c1}
  Validated = {c1}
  Promotable = {c1}
  Gate = "post"
  AutoApprove = FALSE
  RawWrites = {}
  Blank = Blank
  NoDoc = NoDoc
PROPERTY WaitsForTheVerdict
