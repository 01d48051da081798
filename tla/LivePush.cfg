SPECIFICATION FairSpec
CONSTANTS
  Instances = {1, 2}
  Followed = {1}
  Conns = {1, 2}
  Nobody = 0
  Gone = 3
  kMaxSubsPerChannel = 1
  MaxFrames = 2
  MaxLosses = 1
  MaxCrashes = 1
PROPERTIES
  SomebodyLeads
  LatestIsSent
