SPECIFICATION Spec
CONSTANTS
  Owners = {guest, survivor}
  Guest = guest
  MaxClock = 5
  MaxRulings = 2
  NoPage = NoPage
CHECK_DEADLOCK FALSE
PROPERTIES
  IndexIsAReplica
  
  VerdictsAreApplied
