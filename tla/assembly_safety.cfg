SPECIFICATION FairSpec
CONSTANTS
  a0 = a0
  a1 = a1
  a2 = a2
  a3 = a3
  Adapter = {a0, a1, a2, a3}
  Exit = exit
  None = none
  Fleets <- AllFleets
  MaxMembers = 4
  LegacyMembers = 2
  MaxFaults = 3
  Admit = {}
INVARIANTS SlotsAgree LiveIsPresent NoStaleServed VolumeFit
PROPERTY Assembles
CHECK_DEADLOCK FALSE
