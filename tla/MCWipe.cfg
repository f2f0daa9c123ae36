SPECIFICATION DistributionSpec
CONSTANTS
  Versions = {1, 2}
  Installers = {i1, i2}
  MaxStarts = 2
  ReusePids = FALSE
  MaxBuilds = 2
CHECK_DEADLOCK FALSE
PROPERTY CompleteCopyStays
