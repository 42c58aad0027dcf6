\* Three changes by other tools, two failures or deaths.
CONSTANTS
  MaxTampers = 3
  MaxFaults = 2
  Modulus = 16
SPECIFICATION FairSpec
INVARIANT OneReset
INVARIANT ReadyIsFunctional
PROPERTY LooseBehindReset
PROPERTY WholeStays
PROPERTY DataPlaneRestored
