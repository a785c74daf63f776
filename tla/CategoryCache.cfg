SPECIFICATION FairSpec
CONSTANTS
  Workers = {w1, w2}
  MaxRevision = 3
INVARIANT TypeOK
INVARIANT SchemaUnderItsRevision
PROPERTY OnlyARaceDowngrades
PROPERTY StaleSchemaDiesOut
