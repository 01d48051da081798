SPECIFICATION FairSpec
CONSTANTS
  Devices = {1}
  Instances = {1, 2}
  Users = {1, 2}
  Nobody = 0
  MaxOutages = 2
  MaxPending = 2
  MaxFailures = 2
  MaxEdits = 1
INVARIANTS
  OneAlertPerOutage
PROPERTIES
  SilentGoesOffline
  FirstHandlerKept
