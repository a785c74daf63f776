SPECIFICATION FairSpec
CONSTANTS
  Guests = {g1}
  Members = {m1, m2}
  Listings = {l1, l2}
  Requests = {q1}
  AnonymousWrites = TRUE
  Unused = Unused
  NoOne = NoOne
  NoRow = NoRow
  Nothing = Nothing
INVARIANT TypeOK
PROPERTY DeliveredMeansCarried
PROPERTY FavoritesAreKept
PROPERTY ChangesHandsByMerge
PROPERTY MergeLands
CHECK_DEADLOCK FALSE
