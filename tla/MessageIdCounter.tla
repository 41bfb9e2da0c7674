-------------------------- MODULE MessageIdCounter ---------------------------
(***************************************************************************)
(* How chat messages get their identifiers: a client asks for one, and the *)
(* worker that serves it increments the one row of message_id_counter and  *)
(* reads back what it wrote, MessageHandler::get_message_id_request in     *)
(* src/message_handler.cpp.  The two statements are not one transaction:   *)
(* other workers run theirs in between.  What keeps the answers apart is   *)
(* that LAST_INSERT_ID belongs to a connection to the database, and each   *)
(* worker has its own.                                                     *)
(***************************************************************************)
EXTENDS Naturals, Maps

CONSTANTS
  Worker,         \* worker threads, each with its connection to the database
  Request,        \* requests for an identifier, each handled once
  NoRequest,      \* a worker that handles none
  MaxMessageID    \* the largest unsigned int, 2^32 - 1

ASSUME CounterAssumption ==
  /\ MaxMessageID \in Nat \ {0}
  /\ NoRequest \notin Request

\* "return -1" in a function that returns an unsigned int.
FailedID == MaxMessageID

VARIABLES
  value,            \* the row of message_id_counter
  last_insert_id,   \* LAST_INSERT_ID() of the connection of each worker
  pc,               \* "idle", "update" or "select", for each worker
  request,          \* the request each worker handles
  before,           \* request -> the requests answered when its handler began
  answer            \* request -> the identifier sent to the client

vars == <<value, last_insert_id, pc, request, before, answer>>

Begun == DOMAIN before
Answered == DOMAIN answer

Init ==
  /\ value = 0
  /\ last_insert_id = [w \in Worker |-> 0]
  /\ pc = [w \in Worker |-> "idle"]
  /\ request = [w \in Worker |-> NoRequest]
  /\ before = EmptyMap
  /\ answer = EmptyMap

\* A worker takes a request from its queue.
begin(w, r) ==
  /\ pc[w] = "idle"
  /\ r \notin Begun
  /\ pc' = [pc EXCEPT ![w] = "update"]
  /\ request' = [request EXCEPT ![w] = r]
  /\ before' = Put(before, r, Answered)
  /\ UNCHANGED <<value, last_insert_id, answer>>

\* The worker sends id to the client; the handler is done.
respond(w, id) ==
  /\ answer' = Put(answer, request[w], id)
  /\ pc' = [pc EXCEPT ![w] = "idle"]
  /\ request' = [request EXCEPT ![w] = NoRequest]
  /\ UNCHANGED before

\* SET value = LAST_INSERT_ID(value + 1)
update(w) ==
  /\ pc[w] = "update"
  /\ value' = value + 1
  /\ last_insert_id' = [last_insert_id EXCEPT ![w] = value + 1]
  /\ pc' = [pc EXCEPT ![w] = "select"]
  /\ UNCHANGED <<request, before, answer>>

\* Mutant: the row is read back instead of LAST_INSERT_ID().
select_Row(w) ==
  /\ pc[w] = "select"
  /\ respond(w, IF value <= MaxMessageID THEN value ELSE FailedID)
  /\ UNCHANGED <<value, last_insert_id>>

\* Mutant: the range of what was read is not checked.
select_Unchecked(w) ==
  /\ pc[w] = "select"
  /\ respond(w, last_insert_id[w])
  /\ UNCHANGED <<value, last_insert_id>>

\* SELECT LAST_INSERT_ID(); an identifier that is no unsigned int is an error.
select(w) ==
  /\ pc[w] = "select"
  /\ LET id == last_insert_id[w] IN
       respond(w, IF id <= MaxMessageID THEN id ELSE FailedID)
  /\ UNCHANGED <<value, last_insert_id>>

\* Mutant: a failed statement is answered with the last identifier known.
fail_Last(w) ==
  /\ pc[w] # "idle"
  /\ value' \in IF pc[w] = "update" THEN {value, value + 1} ELSE {value}
  /\ respond(w, last_insert_id[w])
  /\ UNCHANGED last_insert_id

\* Either statement fails; the update may have been made before it did.
fail(w) ==
  /\ pc[w] # "idle"
  /\ value' \in IF pc[w] = "update" THEN {value, value + 1} ELSE {value}
  /\ respond(w, FailedID)
  /\ UNCHANGED last_insert_id

\* The process ends and is started again: the row stays, the connections and
\* the requests in progress do not.
exit ==
  /\ last_insert_id' = [w \in Worker |-> 0]
  /\ pc' = [w \in Worker |-> "idle"]
  /\ request' = [w \in Worker |-> NoRequest]
  /\ UNCHANGED <<value, before, answer>>

Next ==
  \/ \E w \in Worker, r \in Request : begin(w, r)
  \/ \E w \in Worker : update(w) \/ select(w) \/ fail(w)
  \/ exit

Spec == Init /\ [][Next]_vars

------------------------------------------------------------------------------
\* The identifiers are natural numbers and go to requests that were begun.
TypeOK ==
  /\ value \in Nat
  /\ last_insert_id \in [Worker -> Nat]
  /\ pc \in [Worker -> {"idle", "update", "select"}]
  /\ request \in [Worker -> Request \cup {NoRequest}]
  /\ \A w \in Worker : request[w] = NoRequest <=> pc[w] = "idle"
  /\ IsMap(before, Request, SUBSET Request)
  /\ IsMap(answer, Begun, 0..MaxMessageID)

Issued(r) == r \in Answered /\ answer[r] # FailedID

\* No identifier is given to two clients: it becomes the primary key of the
\* message, and the second message would not be stored.  It has to hold while
\* the two statements of several workers interleave, when they fail and when the
\* process is started again.
NeverIssuedTwice ==
  \A r, s \in Request : Issued(r) /\ Issued(s) /\ answer[r] = answer[s] => r = s

\* An identifier requested after another was answered is larger, whichever
\* workers answered: a reply has a larger identifier than what it replies to.
IssuedInOrder ==
  \A s \in Request : Issued(s) =>
    \A r \in before[s] : Issued(r) => answer[r] < answer[s]

\* What clients see of the counter is a service that hands out fresh, growing
\* identifiers: each request has at most one answer, made once, whatever the
\* statements of the workers do between it and the next.
Service == INSTANCE MessageIdService
             WITH Identifier <- 0..MaxMessageID, Failed <- FailedID

ImplementsService == Service!ServiceSpec
==============================================================================
