CONSTANTS
  Attempts = {1}
  Capacity = 2
  MaxEvents = 3
  MaxAged = 1
  MaxBreaks = 1
  MaxKills = 1
  MaxTorn = 1
  MaxUnknown = 1
SPECIFICATION Spec
INVARIANTS UplinkTypeOK ReplayLeavesNoGap SequenceIdentifiesEvent
PROPERTIES StatusOutlivesLogs
