SPECIFICATION Spec
CONSTANTS
  u1 = u1
  Listings = {l1, l2}
  Users = {u1}
  OwnerOf <- MCOwnerOf
  Contents = {c1, c2}
  Validated = {c1, c2}
  Promotable = {c1, c2}
  Gate = "post"
  AutoApprove = FALSE
  RawWrites = {"archived", "expired"}
  Blank = Blank
  NoDoc = NoDoc
SYMMETRY MCSymmetry
INVARIANT IndexAgrees
PROPERTY OnlyAVerdictReinstates
