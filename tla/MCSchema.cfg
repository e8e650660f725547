\* Two processes start at once, on every kind of database.
CONSTANTS
  Starters = {r1, r2}
  MaxMishaps = 2
SPECIFICATION FairSpec
INVARIANTS
  TypeOK
  UpMeansComplete
  NeverAhead
PROPERTY AdoptionSucceeds
