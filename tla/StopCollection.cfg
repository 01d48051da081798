SPECIFICATION FairSpec
CONSTANTS
  m1 = m1
  m2 = m2
  m3 = m3
  d1 = d1
  d2 = d2
  Messages = {m1, m2, m3}
  Devices = {d1, d2}
  DevicesOf <- TwoAndOne
  Malformed = {m3}
  NoDelivery = NoDelivery
  MaxFaults = 1
  MaxConnects = 3
INVARIANTS
  AckMeansAllWritten
  NoDeliveryForgotten
PROPERTIES
  EventuallyRelayed
CHECK_DEADLOCK FALSE
