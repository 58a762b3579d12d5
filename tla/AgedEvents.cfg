CONSTANTS
  Attempts = {1}
  Capacity = 3
  MaxEvents = 3
  MaxAged = 1
  MaxBreaks = 1
  MaxKills = 0
  MaxTorn = 0
  MaxUnknown = 0
SPECIFICATION Spec
INVARIANT EveryUnackedIsReplayed
