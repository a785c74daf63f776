SPECIFICATION Spec
CONSTANTS
  u1 = u1
  Listings = {l1}
  Users = {u1}
  OwnerOf <- MCOwnerOf
  Contents = {c1, c2, c3}
  Validated = {c1, c2}
  Promotable = {c1, c2, c3}
  Gate = "pre"
  AutoApprove = FALSE
  RawWrites = {}
  Blank = Blank
  NoDoc = NoDoc
INVARIANT TypeOK
INVARIANT PendingIsUnderReview
INVARIANT NeverLiveUnreviewed
PROPERTY PublicationNeedsAVerdict
PROPERTY TakedownIsAVerdict
