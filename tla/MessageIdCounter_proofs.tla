----------------------- MODULE MessageIdCounter_proofs -----------------------
(***************************************************************************)
(* Identifiers are unique and ordered for any number of workers, requests, *)
(* failures and restarts.                                                  *)
(***************************************************************************)
EXTENDS MessageIdCounter, TLAPS

(***************************************************************************)
(* The inductive invariant.  A worker that has updated the row and not yet *)
(* read back holds an identifier nobody else holds or was given, because   *)
(* every update takes the next value and no other worker's update touches  *)
(* its LAST_INSERT_ID; and requests are handled by one worker at a time.   *)
(***************************************************************************)
Holds(w) == pc[w] = "select"

RequestsApart ==
  /\ \A w \in Worker : pc[w] # "idle" => request[w] \in Begun \ Answered
  /\ \A w, v \in Worker : pc[w] # "idle" /\ request[w] = request[v] => w = v
  /\ \A s \in Begun : before[s] \subseteq Answered

BelowValue ==
  /\ \A w \in Worker : last_insert_id[w] <= value
  /\ \A r \in Request : Issued(r) => answer[r] <= value

HeldApart ==
  /\ \A w, v \in Worker :
       Holds(w) /\ Holds(v) /\ last_insert_id[w] = last_insert_id[v] => w = v
  /\ \A w \in Worker, r \in Request :
       Holds(w) /\ Issued(r) => answer[r] # last_insert_id[w]

HeldInOrder ==
  \A w \in Worker : Holds(w) =>
    \A r \in before[request[w]] : Issued(r) => answer[r] < last_insert_id[w]

Inv ==
  /\ TypeOK /\ RequestsApart /\ BelowValue /\ HeldApart /\ HeldInOrder
  /\ NeverIssuedTwice /\ IssuedInOrder

LEMMA InitInv == Init => Inv
<1> SUFFICES ASSUME Init PROVE Inv
  OBVIOUS
<1>1. DOMAIN before = {} /\ DOMAIN answer = {}
  BY DEF Init, EmptyMap
<1>2. TypeOK
  BY <1>1, CounterAssumption DEF Init, TypeOK, IsMap, EmptyMap
<1>3. RequestsApart /\ BelowValue /\ HeldApart /\ HeldInOrder
  BY <1>1 DEF Init, RequestsApart, BelowValue, HeldApart, HeldInOrder, Holds,
              Begun, Answered, Issued
<1>4. NeverIssuedTwice /\ IssuedInOrder
  BY <1>1 DEF NeverIssuedTwice, IssuedInOrder, Answered, Issued
<1>5. QED
  BY <1>2, <1>3, <1>4 DEF Inv

LEMMA BeginInv ==
  ASSUME Inv, NEW w \in Worker, NEW r \in Request, begin(w, r)
  PROVE  Inv'
<1> USE CounterAssumption DEF Inv, begin
<1>1. TypeOK'
  BY DEF TypeOK, IsMap, Put, Begun, Answered
<1>2. RequestsApart'
  BY DEF TypeOK, RequestsApart, IsMap, Put, Begun, Answered
<1>3. BelowValue' /\ NeverIssuedTwice'
  BY DEF BelowValue, NeverIssuedTwice, Issued, Answered
<1>4. HeldApart'
  BY DEF TypeOK, HeldApart, Holds, Issued, Answered
<1>5. HeldInOrder'
  BY DEF TypeOK, RequestsApart, HeldInOrder, Holds, Issued, Answered, Put, Begun
<1>6. IssuedInOrder'
  BY DEF TypeOK, RequestsApart, IssuedInOrder, Issued, Answered, Put, Begun, IsMap
<1>7. QED
  BY <1>1, <1>2, <1>3, <1>4, <1>5, <1>6

LEMMA UpdateInv ==
  ASSUME Inv, NEW w \in Worker, update(w)
  PROVE  Inv'
<1> USE DEF Inv, update
<1>1. TypeOK'
  BY DEF TypeOK, IsMap, Begun, Answered
<1>2. RequestsApart'
  BY DEF TypeOK, RequestsApart, Begun, Answered
<1>3. BelowValue'
  BY CounterAssumption DEF TypeOK, BelowValue, Issued, Answered, IsMap, FailedID, Begun
<1>4. HeldApart'
  BY CounterAssumption DEF TypeOK, BelowValue, HeldApart, Holds, Issued, Answered, IsMap, Begun
<1>5. HeldInOrder'
  BY CounterAssumption DEF TypeOK, BelowValue, RequestsApart, HeldInOrder, Holds, Issued, Answered, IsMap, Begun
<1>6. NeverIssuedTwice' /\ IssuedInOrder'
  BY DEF NeverIssuedTwice, IssuedInOrder, Issued, Answered
<1>7. QED
  BY <1>1, <1>2, <1>3, <1>4, <1>5, <1>6

\* The answers after a response: one more request is answered, with an
\* identifier that is held by the worker or says that the request failed.
LEMMA RespondInv ==
  ASSUME Inv, NEW w \in Worker, NEW id \in 0..MaxMessageID,
         pc[w] # "idle", respond(w, id),
         value' \in {value, value + 1},
         last_insert_id' = last_insert_id,
         id # FailedID => Holds(w) /\ id = last_insert_id[w]
  PROVE  Inv'
<1> DEFINE q == request[w]
<1>1. /\ q \in Request /\ q \in Begun /\ q \notin Answered
      /\ Answered' = Answered \cup {q}
      /\ answer'[q] = id
      /\ \A r \in Answered : answer'[r] = answer[r]
      /\ answer' \in [Answered' -> 0..MaxMessageID]
      /\ answer \in [Answered -> 0..MaxMessageID]
      /\ Answered \subseteq Request
      /\ before' = before
  BY DEF Inv, TypeOK, RequestsApart, respond, IsMap, Put, Begun, Answered
<1>2. /\ \A v \in Worker : pc'[v] # "idle" => v # w /\ pc'[v] = pc[v] /\ request'[v] = request[v]
      /\ pc' \in [Worker -> {"idle", "update", "select"}]
      /\ request' \in [Worker -> Request \cup {NoRequest}]
      /\ \A v \in Worker : v # w => pc'[v] = pc[v] /\ request'[v] = request[v]
      /\ pc'[w] = "idle" /\ request'[w] = NoRequest
  BY DEF Inv, TypeOK, respond
<1>3. \A r \in Request : Issued(r)' => \/ Issued(r) /\ answer'[r] = answer[r]
                                       \/ r = q /\ id # FailedID /\ answer'[r] = last_insert_id[w]
  BY <1>1 DEF Issued, FailedID
<1>4. value \in Nat /\ value' \in Nat /\ value <= value'
      /\ last_insert_id \in [Worker -> Nat]
  BY DEF Inv, TypeOK
<1>5. TypeOK'
  BY <1>1, <1>2, <1>4 DEF Inv, TypeOK, IsMap, Begun, Answered
<1>6. RequestsApart'
  <2>1. ASSUME NEW v \in Worker, pc'[v] # "idle"
        PROVE  /\ v # w /\ pc[v] # "idle" /\ request'[v] = request[v]
               /\ request[v] \in Begun \ Answered'
               /\ request[v] # NoRequest
    BY <1>1, <1>2, <2>1, CounterAssumption
       DEF Inv, RequestsApart, TypeOK, IsMap, Begun
  <2>2. \A s \in Begun' : before'[s] \subseteq Answered'
    BY <1>1 DEF Inv, RequestsApart, Begun
  <2>3. \A v, x \in Worker :
          pc'[v] # "idle" /\ request'[v] = request'[x] => v = x
    BY <1>2, <2>1 DEF Inv, RequestsApart
  <2>4. Begun' = Begun
    BY <1>1 DEF Begun
  <2>5. QED
    BY <2>1, <2>2, <2>3, <2>4 DEF RequestsApart
<1>7. BelowValue'
  BY <1>1, <1>3, <1>4 DEF Inv, BelowValue, Issued
<1>8. HeldApart'
  <2>1. \A v \in Worker : Holds(v)' => Holds(v) /\ v # w
    BY <1>2 DEF Holds
  <2>2. \A v \in Worker, r \in Request :
          Holds(v)' /\ Issued(r)' => answer'[r] # last_insert_id[v]
    BY <1>3, <2>1 DEF Inv, HeldApart
  <2>3. QED
    BY <2>1, <2>2 DEF Inv, HeldApart
<1>9. HeldInOrder'
  BY <1>1, <1>2, <1>3, <1>4 DEF Inv, HeldInOrder, Holds, RequestsApart, TypeOK, IsMap, Begun
<1>10. NeverIssuedTwice'
  BY <1>1, <1>3 DEF Inv, NeverIssuedTwice, HeldApart, Holds
<1>11. IssuedInOrder'
  BY <1>1, <1>3 DEF Inv, IssuedInOrder, HeldInOrder, RequestsApart, Issued, TypeOK, IsMap, Begun
<1>12. QED
  BY <1>5, <1>6, <1>7, <1>8, <1>9, <1>10, <1>11 DEF Inv

LEMMA ExitInv == Inv /\ exit => Inv'
  BY DEF Inv, exit, TypeOK, RequestsApart, BelowValue, HeldApart, HeldInOrder,
         Holds, NeverIssuedTwice, IssuedInOrder, Issued, Begun, Answered, IsMap

LEMMA StepInv == Inv /\ [Next]_vars => Inv'
<1> SUFFICES ASSUME Inv, [Next]_vars
             PROVE  Inv'
  OBVIOUS
<1>1. ASSUME NEW w \in Worker, NEW r \in Request, begin(w, r)
      PROVE  Inv'
  BY <1>1, BeginInv
<1>2. ASSUME NEW w \in Worker, update(w)
      PROVE  Inv'
  BY <1>2, UpdateInv
<1>3. ASSUME NEW w \in Worker, select(w)
      PROVE  Inv'
  <2> DEFINE id == IF last_insert_id[w] <= MaxMessageID
                   THEN last_insert_id[w] ELSE FailedID
  <2>1. id \in 0..MaxMessageID
    BY CounterAssumption DEF Inv, TypeOK, FailedID
  <2>2. /\ respond(w, id)
        /\ pc[w] # "idle" /\ Holds(w)
        /\ value' = value /\ last_insert_id' = last_insert_id
    BY <1>3 DEF select, Holds
  <2>3. QED
    BY <2>1, <2>2, RespondInv
<1>4. ASSUME NEW w \in Worker, fail(w)
      PROVE  Inv'
  <2>1. FailedID \in 0..MaxMessageID
    BY CounterAssumption DEF FailedID
  <2>2. /\ respond(w, FailedID)
        /\ pc[w] # "idle"
        /\ value' \in {value, value + 1} /\ last_insert_id' = last_insert_id
    BY <1>4 DEF fail
  <2>3. QED
    BY <2>1, <2>2, RespondInv
<1>5. CASE exit
  BY <1>5, ExitInv
<1>6. CASE UNCHANGED vars
  BY <1>6 DEF vars, Inv, TypeOK, RequestsApart, BelowValue, HeldApart, HeldInOrder,
              Holds, NeverIssuedTwice, IssuedInOrder, Issued, Begun, Answered
<1>7. QED
  BY <1>1, <1>2, <1>3, <1>4, <1>5, <1>6 DEF Next

LEMMA Invariance == Spec => []Inv
<1>1. QED
  BY InitInv, StepInv, PTL DEF Spec

\* The identifiers stay within their type, for any number of workers.
THEOREM TypeCorrect == Spec => []TypeOK
<1>1. Inv => TypeOK
  BY DEF Inv
<1>2. QED
  BY <1>1, Invariance, PTL

\* No two requests are answered with the same identifier, however the workers'
\* statements interleave and fail and however often the process is restarted.
THEOREM UniqueIds == Spec => []NeverIssuedTwice
<1>1. Inv => NeverIssuedTwice
  BY DEF Inv
<1>2. QED
  BY <1>1, Invariance, PTL

\* An identifier requested after another was answered is larger.
THEOREM OrderedIds == Spec => []IssuedInOrder
<1>1. Inv => IssuedInOrder
  BY DEF Inv
<1>2. QED
  BY <1>1, Invariance, PTL

------------------------------------------------------------------------------
(* The service. *)

\* A response is an answer of the service: what the worker holds is new, and
\* larger than what had been given when its request was made.
LEMMA RespondReplies ==
  ASSUME Inv, NEW w \in Worker, pc[w] # "idle", NEW id \in 0..MaxMessageID, respond(w, id),
         id # FailedID => Holds(w) /\ id = last_insert_id[w]
  PROVE  Service!ServiceNext
<1> DEFINE q == request[w]
<1>1. /\ q \in Request /\ q \in DOMAIN before \ DOMAIN answer
      /\ before[q] \subseteq DOMAIN answer /\ DOMAIN answer \subseteq Request
  BY DEF Inv, TypeOK, RequestsApart, IsMap, Begun, Answered
<1>2. ASSUME id # FailedID, NEW r \in DOMAIN answer, answer[r] # FailedID
      PROVE  answer[r] # id /\ (r \in before[q] => answer[r] < id)
  BY <1>1, <1>2 DEF Inv, HeldApart, HeldInOrder, Issued, Answered
<1>3. id # FailedID => Service!Fresh(q, id)
  BY <1>1, <1>2 DEF Service!Fresh, Service!Given
<1>4. Service!Reply(q, id)
  BY <1>1, <1>3 DEF respond, Service!Reply, Put, Service!Put
<1>5. QED
  BY <1>1, <1>4 DEF Service!ServiceNext

LEMMA StepServes == Inv /\ [Next]_vars => [Service!ServiceNext]_(Service!serviceVars)
<1> SUFFICES ASSUME Inv, [Next]_vars
             PROVE  [Service!ServiceNext]_(Service!serviceVars)
  OBVIOUS
<1>1. ASSUME NEW w \in Worker, NEW r \in Request, begin(w, r)
      PROVE  Service!ServiceNext
  BY <1>1 DEF begin, Begun, Answered, Service!ServiceNext, Service!Ask, Put, Service!Put
<1>2. ASSUME NEW w \in Worker, select(w)
      PROVE  Service!ServiceNext
  <2> DEFINE id == IF last_insert_id[w] <= MaxMessageID THEN last_insert_id[w] ELSE FailedID
  <2>1. id \in 0..MaxMessageID
    BY CounterAssumption DEF Inv, TypeOK, FailedID
  <2>2. respond(w, id) /\ pc[w] # "idle" /\ Holds(w)
    BY <1>2 DEF select, Holds
  <2>3. QED
    BY <2>1, <2>2, RespondReplies
<1>3. ASSUME NEW w \in Worker, fail(w)
      PROVE  Service!ServiceNext
  <2>1. FailedID \in 0..MaxMessageID
    BY CounterAssumption DEF FailedID
  <2>2. QED
    BY <1>3, <2>1, RespondReplies DEF fail
<1>4. ASSUME NEW w \in Worker, update(w)
      PROVE  UNCHANGED Service!serviceVars
  BY <1>4 DEF update, Service!serviceVars
<1>5. CASE exit \/ UNCHANGED vars
  BY <1>5 DEF exit, vars, Service!serviceVars
<1>6. QED
  BY <1>1, <1>2, <1>3, <1>4, <1>5 DEF Next

\* The counter implements the service of fresh, growing identifiers: every step
\* is a request that is made, its one answer, or nothing a client can tell.
THEOREM ServiceImplemented == Spec => ImplementsService
<1>1. Init => Service!ServiceInit
  BY DEF Init, Service!ServiceInit, EmptyMap, Service!EmptyMap
<1>2. QED
  BY <1>1, StepServes, Invariance, PTL DEF Spec, ImplementsService, Service!ServiceSpec
==============================================================================
