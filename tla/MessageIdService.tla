-------------------------- MODULE MessageIdService ---------------------------
(***************************************************************************)
(* What a client is promised when it asks for the identifier of a message: *)
(* one answer, which is an identifier nobody was ever given, larger than   *)
(* those that had been given when it asked, or says that the request has   *)
(* failed.  There is no counter, no database and no worker here;           *)
(* MessageIdCounter implements it.                                         *)
(***************************************************************************)
EXTENDS Naturals, Maps

CONSTANTS Request, Identifier, Failed

VARIABLES
  before,   \* request -> the requests that were answered when it was made
  answer    \* request -> its answer

serviceVars == <<before, answer>>

Given(R) == {answer[r] : r \in R} \ {Failed}

ServiceInit ==
  /\ before = EmptyMap
  /\ answer = EmptyMap

Ask(r) ==
  /\ r \notin DOMAIN before
  /\ before' = Put(before, r, DOMAIN answer)
  /\ UNCHANGED answer

Fresh(r, id) ==
  /\ id \notin Given(DOMAIN answer)
  /\ \A x \in Given(before[r]) : x < id

Reply(r, id) ==
  /\ r \in DOMAIN before \ DOMAIN answer
  /\ id = Failed \/ Fresh(r, id)
  /\ answer' = Put(answer, r, id)
  /\ UNCHANGED before

ServiceNext ==
  \E r \in Request : Ask(r) \/ \E id \in Identifier : Reply(r, id)

ServiceSpec == ServiceInit /\ [][ServiceNext]_serviceVars
==============================================================================
