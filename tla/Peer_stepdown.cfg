\* A graceful exit: is it announced?
CONSTANTS
  a1 = a1
  a2 = a2
  Agents = {a1, a2}
  ProbeFailures = 2
  MaxCrashes = 0
  MaxHangs = 0
  MaxStops = 1
  MaxLate = 0
SPECIFICATION FairSpec
PROPERTY StepDownHeard
