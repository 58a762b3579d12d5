CONSTANTS
  Attempts = {1}
  Capacity = 2
  MaxEvents = 2
  MaxAged = 0
  MaxBreaks = 1
  MaxKills = 1
  MaxTorn = 0
  MaxUnknown = 1
SPECIFICATION FairSpec
PROPERTIES SpoolDrains
