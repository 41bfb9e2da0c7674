SPECIFICATION Spec
CONSTANTS
  c1 = c1  c2 = c2  c3 = c3
  u1 = u1  u2 = u2
  a = a  b = b
  w1 = w1  w2 = w2
  Conn = {c1, c2}
  UserID = {u1}
  WebSocket = {a, b}
  Worker = {w1, w2}
  SharedSocket = TRUE
  NoConn = NoConn
  NoUser = NoUser
  Account <- TwoDevices
  WorkerOf <- PerSocket
  Requests = {"login"}
  ClosesEarly = TRUE
  MaxPackets = 1
  MaxExits = 0
CHECK_DEADLOCK FALSE
INVARIANT
  NoGhostSession
