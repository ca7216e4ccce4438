SPECIFICATION Spec
CONSTANTS
  Value = {0, 1}
  Zero = 0
  NoImage = NoImage
  Units = 2
  HasRtc = TRUE
  ClusterUnits = 1
INVARIANT RewriteAlwaysCovered
