SPECIFICATION Spec
CONSTANTS
  Value = {0, 1}
  Zero = 0
  NoImage = NoImage
  Units = 2
  HasRtc = FALSE
  ClusterUnits = 2
  NoCrc = NoCrc
  QuietPeriod = 1
  MaxGeneration = 2
INVARIANTS DurableAtRest SkipIsSound
PROPERTY DoubtIsOwed
