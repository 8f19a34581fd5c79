SPECIFICATION Spec
CONSTANTS
  Slots = {s1, s2}
  Loop = Loop
  Nobody = Nobody
  MaxRequests = 3
  MaxCrashes = 0
  MaxOutages = 1
INVARIANT
  LoopNeverSyncsBroken
