SPECIFICATION Spec
CONSTANTS
  d1 = d1  d2 = d2  d3 = d3
  u1 = u1  u2 = u2
  w1 = w1  w2 = w2
  User = {u1, u2}
  Device = {d1, d2, d3}
  NoDevice = NoDevice
  UserOf <- DeviceUser
  Worker = {w1, w2}
  WorkerOf <- DeviceWorker
  MaxPackets = 4
  MaxExits = 1
CHECK_DEADLOCK FALSE
INVARIANTS
  TypeOK
  BefriendedByConsent
  AcceptedMeansFriends
  NoRequestMissed
PROPERTY ImplementsConsent
