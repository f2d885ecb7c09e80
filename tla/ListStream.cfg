CONSTANTS
  Items <- Table
  Texts <- Words
  Capacities = {0, 1}

SPECIFICATION FairSpec
INVARIANTS
  TypeOK
  OutputIsWhatWasYielded
  FirstErrorIsReported
PROPERTIES
  CommandEnds
