SPECIFICATION Spec
CONSTANTS
  Worker = {w1, w2}
  Request = {r1, r2, r3, r4}
  NoRequest = NoRequest
  MaxMessageID = 3
INVARIANTS
  TypeOK
  NeverIssuedTwice
  IssuedInOrder
PROPERTY ImplementsService
