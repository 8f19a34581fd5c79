SPECIFICATION FairSpec
CONSTANTS
  Slots = {s1, s2}
  Loop = Loop
  Nobody = Nobody
  MaxRequests = 3
  MaxCrashes = 1
  MaxOutages = 1
INVARIANTS
  TypeOK
  RefusalsAreJustified
  LockConsistent
  LauncherNeverSyncsBroken
  
PROPERTIES
  BrokenIsRepaired
  EveryJobEnds
