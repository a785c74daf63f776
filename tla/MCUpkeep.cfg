SPECIFICATION Spec
CONSTANTS
  Viewers = {guest, member}
  SignedIn = {member}
  Opens = {o1, o2}
  MaxExpiries = 1
  NoOpen = NoOpen
  avatar = avatar
  product = product
  Refs <- MCRefs
  Retyped <- MCRetyped
  Places = {here, there}
  NoPlace = NoPlace
  Requests = {q1, q2}
  MaxWork = 4
  Idle = Idle
INVARIANTS TypeOK AtMostOneCountPerWindow CountIsAFloor
PROPERTIES ClaimsFollowTheRow OnlyALateStampMisplaces
SYMMETRY Same
CHECK_DEADLOCK FALSE
