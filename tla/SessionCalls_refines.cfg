SPECIFICATION CallsSpec
CONSTANTS
  UserID = {u1, u2, u3}
  WebSocket = {a, b, c}
  SharedSocket = FALSE
INVARIANT
  IndexComplete
PROPERTY
  ImplementsRegistry
