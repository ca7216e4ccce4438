SPECIFICATION FairSpec
CONSTANTS
  Image = {i1, i2}
  NoCrc = NoCrc
  QuietPeriod = 2
  MaxGeneration = 3
INVARIANTS TypeOK NothingForgotten GenerationsOrdered QuietUnlessRaced
PROPERTY EventuallyRecorded
