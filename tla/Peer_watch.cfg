\* Two agents with the default of two probe failures; a crash, a hang and a late answer.
CONSTANTS
  a1 = a1
  a2 = a2
  Agents = {a1, a2}
  ProbeFailures = 2
  MaxCrashes = 1
  MaxHangs = 1
  MaxStops = 1
  MaxLate = 1
SPECIFICATION FairSpec
INVARIANT SilenceCounted
PROPERTY NoFalseAlarm
PROPERTY DeadReported
PROPERTY Reconnected
PROPERTY MissesReported
