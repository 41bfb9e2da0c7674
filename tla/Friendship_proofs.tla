-------------------------- MODULE Friendship_proofs --------------------------
(***************************************************************************)
(* Friend requests for any number of users, devices and workers.           *)
(***************************************************************************)
EXTENDS Friendship, TLAPS

USE FriendshipAssumption

\* The rows are a function on 1..n.
LEMMA RowsOfRequests ==
  ASSUME friend_request \in Seq(RequestRow)
  PROVE  /\ Len(friend_request) \in Nat /\ DOMAIN friend_request = 1..Len(friend_request)
         /\ \A k \in DOMAIN friend_request : friend_request[k] \in RequestRow
  OBVIOUS

\* What a worker holds.
LEMMA PacketsOf ==
  ASSUME TypeOK, NEW w \in Worker, ~At(w, "idle")
  PROVE  /\ packet[w] \in Packet /\ packet[w].device \in Device
         /\ Me(w) \in User /\ Other(w) \in User
         /\ packet[w].type \in {"login", "request", "accept", "reject"}
<1>1. packet[w] \in Packet
  BY DEF TypeOK
<1>2. QED
  BY <1>1 DEF Packet, Me, Other

------------------------------------------------------------------------------
(* Type correctness. *)

\* The parts of TypeOK: the tables, the workers, and the rest.
TablesOK ==
  /\ friend_request \in Seq(RequestRow)
  /\ friendship \subseteq FriendRow
  /\ \A f \in friendship : f.friendship_id \in DOMAIN friend_request

WorkersOK ==
  /\ pc \in [Worker -> Place]
  /\ packet \in [Worker -> Packet \cup {NoPacket}]
  /\ \A w \in Worker : At(w, "idle") <=> packet[w] = NoPacket
  /\ request_id \in [Worker -> {0} \cup DOMAIN friend_request]
  /\ \A w \in Worker : request_id[w] # 0 <=> pc[w] \in {"insert_friend", "insert_mirror"}
  /\ fetched \in [Worker -> SUBSET User]

OthersOK ==
  /\ connected \subseteq Device
  /\ session \in [User -> Device \cup {NoDevice}]
  /\ shown \in [Device -> SUBSET User]
  /\ synced \subseteq Device
  /\ packets \in 0..MaxPackets
  /\ exits \in 0..MaxExits
  /\ accepted \subseteq User \X User
  /\ cut \subseteq User \X User

LEMMA TypeParts == TypeOK <=> TablesOK /\ WorkersOK /\ OthersOK
  BY DEF TypeOK, TablesOK, WorkersOK, OthersOK

\* A handler that returns, or goes on and leaves its locals alone.
LEMMA ReturnOK ==
  ASSUME WorkersOK, NEW w \in Worker, Return(w),
         DOMAIN friend_request \subseteq DOMAIN friend_request'
  PROVE  WorkersOK'
  BY DEF WorkersOK, Return, Place, At

LEMMA GotoOK ==
  ASSUME WorkersOK, NEW w \in Worker, ~At(w, "idle"),
         NEW place \in Place \ {"idle", "insert_friend", "insert_mirror"}, Goto(w, place),
         UNCHANGED request_id, fetched' \in [Worker -> SUBSET User], request_id[w] = 0,
         DOMAIN friend_request \subseteq DOMAIN friend_request'
  PROVE  WorkersOK'
  BY DEF WorkersOK, Goto, Place, At

LEMMA TypeInit == Init => TypeOK
<1> SUFFICES ASSUME Init PROVE TypeOK
  OBVIOUS
<1>1. friend_request \in Seq(RequestRow) /\ 0 \in 0..MaxPackets /\ 0 \in 0..MaxExits
  BY DEF Init
<1>2. QED
  BY <1>1 DEF Init, TypeOK, Place, At

LEMMA TypeConnect ==
  ASSUME TypeOK, NEW d \in Device, connect(d) \/ disconnect(d)
  PROVE  TypeOK'
<1>1. TablesOK' /\ WorkersOK'
  BY DEF TypeOK, TablesOK, WorkersOK, connect, disconnect, tables, workers, At
<1>2. session' \in [User -> Device \cup {NoDevice}]
  BY DEF TypeOK, connect, disconnect, Forget
<1>3. OthersOK'
  BY <1>2 DEF TypeOK, OthersOK, connect, disconnect, clients, bounds, history
<1>4. QED
  BY <1>1, <1>3 DEF TypeOK, TablesOK, WorkersOK, OthersOK

LEMMA TypeProcess ==
  ASSUME TypeOK, NEW w \in Worker, process(w)
  PROVE  TypeOK'
<1>1. PICK p \in Packet : /\ packet' = [packet EXCEPT ![w] = p]
                         /\ pc' = [pc EXCEPT ![w] = FirstStep(p.type)]
  BY DEF process
<1>2. /\ FirstStep(p.type) \in Place \ {"idle", "insert_friend", "insert_mirror"}
      /\ p # NoPacket
  <2>1. p.type \in {"login", "request", "accept", "reject"}
    BY DEF Packet
  <2>2. QED
    BY <2>1 DEF FirstStep, Place, NoPacket
<1>3. TablesOK' /\ OthersOK'
  BY DEF process, TypeOK, TablesOK, OthersOK, tables, network, clients, history
<1>4. WorkersOK'
  BY <1>1, <1>2 DEF process, TypeOK, WorkersOK, At, tables
<1>5. QED
  BY <1>3, <1>4 DEF TypeOK, TablesOK, WorkersOK, OthersOK

LEMMA TypeRequest ==
  ASSUME TypeOK, NEW w \in Worker, friend_req_request(w)
  PROVE  TypeOK'
<1>0. /\ Me(w) \in User /\ Other(w) \in User /\ ~At(w, "idle")
      /\ WorkersOK /\ request_id[w] = 0
  BY PacketsOf DEF TypeOK, WorkersOK, friend_req_request, has_pending_friend_request,
     insert_request, send_to_user, At
<1>1. CASE has_pending_friend_request(w)
  <2>1. TablesOK' /\ OthersOK'
    BY <1>1 DEF has_pending_friend_request, TypeOK, TablesOK, OthersOK, tables, network,
       clients, bounds, history
  <2>2. DOMAIN friend_request \subseteq DOMAIN friend_request' /\ fetched' \in [Worker -> SUBSET User]
    BY <1>1 DEF has_pending_friend_request, tables, TypeOK
  <2>3. WorkersOK'
    BY <1>0, <1>1, <2>2, GotoOK DEF has_pending_friend_request, Place
  <2>4. QED
    BY <2>1, <2>3 DEF TypeOK, TablesOK, WorkersOK, OthersOK
<1>2. CASE insert_request(w)
  <2> DEFINE row == [sender |-> Me(w), receiver |-> Other(w), request_status |-> "pending"]
  <2>1. row \in RequestRow
    BY <1>0 DEF RequestRow, Status
  <2>2. /\ friend_request' \in Seq(RequestRow)
        /\ DOMAIN friend_request \subseteq DOMAIN friend_request'
    <3>1. CASE friend_request' = Append(friend_request, row)
      <4>1. friend_request' \in Seq(RequestRow) /\ Len(friend_request') = Len(friend_request) + 1
        BY <2>1, <3>1 DEF TypeOK
      <4>2. QED
        BY <4>1, RowsOfRequests DEF TypeOK
    <3>2. QED
      BY <1>2, <3>1 DEF insert_request, TypeOK
  <2>3. TablesOK' /\ OthersOK'
    BY <1>2, <2>2 DEF insert_request, TypeOK, TablesOK, OthersOK, network, clients, bounds, history
  <2>4. WorkersOK'
    BY <1>0, <1>2, <2>2, GotoOK DEF insert_request, TypeOK, Place
  <2>5. QED
    BY <2>3, <2>4 DEF TypeOK, TablesOK, WorkersOK, OthersOK
<1>3. CASE send_to_user(w)
  <2>1. shown' \in [Device -> SUBSET User]
    BY <1>0, <1>3 DEF send_to_user, TypeOK
  <2>2. TablesOK' /\ OthersOK'
    BY <1>3, <2>1 DEF send_to_user, TypeOK, TablesOK, OthersOK, tables, network, bounds, history
  <2>3. WorkersOK'
    BY <1>0, <1>3, ReturnOK DEF send_to_user, tables
  <2>4. QED
    BY <2>2, <2>3 DEF TypeOK, TablesOK, WorkersOK, OthersOK
<1>4. QED
  BY <1>1, <1>2, <1>3 DEF friend_req_request

\* What update_request leaves.
Answered(w) ==
  [k \in DOMAIN friend_request |->
     IF k \in RequestsFrom(Other(w), Me(w))
     THEN [friend_request[k] EXCEPT
             !.request_status = IF packet[w].type = "accept" THEN "accepted" ELSE "rejected"]
     ELSE friend_request[k]]

LEMMA AnsweredOK ==
  ASSUME friend_request \in Seq(RequestRow), NEW w \in Worker
  PROVE  /\ Answered(w) \in Seq(RequestRow)
         /\ DOMAIN Answered(w) = DOMAIN friend_request
<1>1. \A k \in DOMAIN friend_request : Answered(w)[k] \in RequestRow
  BY RowsOfRequests DEF Answered, RequestRow, Status
<1>2. Answered(w) \in [1..Len(friend_request) -> RequestRow] /\ Len(friend_request) \in Nat
  BY <1>1, RowsOfRequests DEF Answered
<1>3. QED
  BY <1>2, RowsOfRequests

\* One more row of friendship.
LEMMA BefriendOK ==
  ASSUME TypeOK, NEW id \in DOMAIN friend_request, NEW u \in User, NEW f \in User,
         Befriend(id, u, f), UNCHANGED friend_request
  PROVE  TablesOK'
<1>1. id \in Nat
  BY RowsOfRequests DEF TypeOK
<1>2. [friendship_id |-> id, user_id |-> u, friend_id |-> f] \in FriendRow
  BY <1>1 DEF FriendRow
<1>3. QED
  BY <1>2 DEF Befriend, TypeOK, TablesOK

LEMMA TypeResponse ==
  ASSUME TypeOK, NEW w \in Worker, friend_req_response(w)
  PROVE  TypeOK'
<1>0. Me(w) \in User /\ Other(w) \in User /\ ~At(w, "idle") /\ WorkersOK
  BY PacketsOf DEF TypeOK, WorkersOK, friend_req_response, update_request, select_request,
     insert_friend, insert_mirror, fail_response, At
<1>1. CASE update_request(w)
  <2>1. friend_request' = Answered(w)
    BY <1>1 DEF update_request, Answered
  <2>2. /\ friend_request' \in Seq(RequestRow)
        /\ DOMAIN friend_request \subseteq DOMAIN friend_request'
    BY <2>1, AnsweredOK DEF TypeOK
  <2>3. TablesOK' /\ OthersOK'
    BY <1>0, <1>1, <2>2 DEF update_request, TypeOK, TablesOK, OthersOK, network, clients, bounds
  <2>4. request_id[w] = 0
    BY <1>1 DEF update_request, TypeOK, At
  <2>5. WorkersOK'
    BY <1>0, <1>1, <2>2, <2>4, GotoOK DEF update_request, TypeOK, Place
  <2>6. QED
    BY <2>3, <2>5 DEF TypeOK, TablesOK, WorkersOK, OthersOK
<1>2. CASE select_request(w)
  <2>1. TablesOK' /\ OthersOK' /\ UNCHANGED friend_request
    BY <1>2 DEF select_request, TypeOK, TablesOK, OthersOK, tables, network, clients, bounds, history
  <2>2. CASE Return(w)
    BY <1>0, <2>1, <2>2, ReturnOK DEF TypeOK, TablesOK, WorkersOK, OthersOK
  <2>3. CASE ~Return(w)
    <3>1. PICK k \in RequestsFrom(Other(w), Me(w)) :
            /\ request_id' = [request_id EXCEPT ![w] = k]
            /\ Goto(w, "insert_friend") /\ UNCHANGED fetched
      BY <1>2, <2>3 DEF select_request
    <3>2. k \in DOMAIN friend_request /\ k # 0
      BY RowsOfRequests DEF RequestsFrom, TypeOK
    <3>3. WorkersOK'
      BY <1>0, <2>1, <3>1, <3>2 DEF WorkersOK, Goto, Place, At
    <3>4. QED
      BY <2>1, <3>3 DEF TypeOK, TablesOK, WorkersOK, OthersOK
  <2>4. QED
    BY <2>2, <2>3
<1>3. CASE insert_friend(w)
  <2>1. request_id[w] \in DOMAIN friend_request /\ request_id[w] # 0
    BY <1>3 DEF insert_friend, TypeOK, At
  <2>2. TablesOK' /\ OthersOK'
    BY <1>0, <1>3, <2>1, BefriendOK DEF insert_friend, TypeOK, OthersOK, network, clients, bounds, history
  <2>3. WorkersOK'
    BY <1>0, <1>3, <2>1 DEF insert_friend, WorkersOK, Goto, Place, At
  <2>4. QED
    BY <2>2, <2>3 DEF TypeOK, TablesOK, WorkersOK, OthersOK
<1>4. CASE insert_mirror(w)
  <2>1. request_id[w] \in DOMAIN friend_request
    BY <1>4 DEF insert_mirror, TypeOK, At
  <2>2. TablesOK' /\ OthersOK'
    BY <1>0, <1>4, <2>1, BefriendOK DEF insert_mirror, TypeOK, OthersOK, network, clients, bounds, history
  <2>3. WorkersOK'
    BY <1>0, <1>4, ReturnOK DEF insert_mirror
  <2>4. QED
    BY <2>2, <2>3 DEF TypeOK, TablesOK, WorkersOK, OthersOK
<1>5. CASE fail_response(w)
  <2>1. TablesOK' /\ OthersOK'
    BY <1>0, <1>5 DEF fail_response, Cut, TypeOK, TablesOK, OthersOK, tables, network, clients, bounds
  <2>2. WorkersOK'
    BY <1>0, <1>5, ReturnOK DEF fail_response, tables
  <2>3. QED
    BY <2>1, <2>2 DEF TypeOK, TablesOK, WorkersOK, OthersOK
<1>6. QED
  BY <1>1, <1>2, <1>3, <1>4, <1>5 DEF friend_req_response

LEMMA TypeLogin ==
  ASSUME TypeOK, NEW w \in Worker, login(w)
  PROVE  TypeOK'
<1>0. /\ Me(w) \in User /\ packet[w].device \in Device /\ ~At(w, "idle")
      /\ WorkersOK /\ request_id[w] = 0
  BY PacketsOf DEF TypeOK, WorkersOK, login, attach_session, get_pending_friend_requests,
     send_pending, At
<1>1. TablesOK' /\ UNCHANGED friend_request
  BY DEF login, attach_session, get_pending_friend_requests, send_pending, TypeOK, TablesOK, tables
<1>2. CASE attach_session(w)
  <2>1. session' \in [User -> Device \cup {NoDevice}]
    BY <1>0, <1>2 DEF attach_session, TypeOK
  <2>2. OthersOK'
    BY <1>2, <2>1 DEF attach_session, TypeOK, OthersOK, bounds, history
  <2>3. WorkersOK'
    BY <1>0, <1>1, <1>2, GotoOK DEF attach_session, TypeOK, Place
  <2>4. QED
    BY <1>1, <2>2, <2>3 DEF TypeOK, TablesOK, WorkersOK, OthersOK
<1>3. CASE get_pending_friend_requests(w)
  <2>1. OthersOK'
    BY <1>3 DEF get_pending_friend_requests, TypeOK, OthersOK, network, clients, bounds, history
  <2>2. CASE Return(w)
    BY <1>0, <1>1, <2>1, <2>2, ReturnOK DEF TypeOK, TablesOK, WorkersOK, OthersOK
  <2>3. CASE /\ fetched' = [fetched EXCEPT ![w] = {s \in User : Pending(s, Me(w))}]
             /\ Goto(w, "send_pending") /\ UNCHANGED request_id
    <3>1. fetched' \in [Worker -> SUBSET User]
      BY <2>3 DEF TypeOK
    <3>2. WorkersOK'
      BY <1>0, <1>1, <2>3, <3>1, GotoOK DEF Place
    <3>3. QED
      BY <1>1, <2>1, <3>2 DEF TypeOK, TablesOK, WorkersOK, OthersOK
  <2>4. QED
    BY <1>3, <2>2, <2>3 DEF get_pending_friend_requests
<1>4. CASE send_pending(w)
  <2>1. shown' \in [Device -> SUBSET User] /\ synced' \subseteq Device
    BY <1>4 DEF send_pending, TypeOK
  <2>2. OthersOK'
    BY <1>4, <2>1 DEF send_pending, TypeOK, OthersOK, network, bounds, history
  <2>3. WorkersOK'
    BY <1>0, <1>1, <1>4, ReturnOK DEF send_pending
  <2>4. QED
    BY <1>1, <2>2, <2>3 DEF TypeOK, TablesOK, WorkersOK, OthersOK
<1>5. QED
  BY <1>2, <1>3, <1>4 DEF login

LEMMA TypeExit ==
  ASSUME TypeOK, exit
  PROVE  TypeOK'
<1>1. \A w \in Worker : packet[w].type = "accept" => Me(w) \in User /\ Other(w) \in User
  BY PacketsOf DEF TypeOK, NoPacket
<1>2. OthersOK'
  <2>1. cut' \subseteq User \X User
    BY <1>1 DEF exit, TypeOK
  <2>2. QED
    BY <2>1 DEF exit, TypeOK, OthersOK
<1>3. TablesOK' /\ WorkersOK'
  BY DEF exit, TypeOK, TablesOK, WorkersOK, tables, Place, At
<1>4. QED
  BY <1>2, <1>3 DEF TypeOK, TablesOK, WorkersOK, OthersOK

LEMMA TypeNext == TypeOK /\ [Next]_vars => TypeOK'
<1> SUFFICES ASSUME TypeOK, [Next]_vars
             PROVE  TypeOK'
  OBVIOUS
<1>1. CASE UNCHANGED vars
  BY <1>1 DEF vars, tables, network, workers, clients, bounds, history, TypeOK, At
<1>2. CASE Next
  BY <1>2, TypeConnect, TypeProcess, TypeRequest, TypeResponse, TypeLogin, TypeExit DEF Next
<1>3. QED
  BY <1>1, <1>2

\* Rows, sessions, histories and handlers keep their types, and a worker that is
\* about to insert a friendship has the identifier of a stored request.
THEOREM TypeCorrect == Spec => []TypeOK
  BY TypeInit, TypeNext, PTL DEF Spec

------------------------------------------------------------------------------
(* Steps seen from the tables. *)

\* The requests keep their sender and receiver, and their identifiers.
RequestsKept ==
  \A k \in DOMAIN friend_request :
    /\ k \in DOMAIN friend_request'
    /\ friend_request'[k].sender = friend_request[k].sender
    /\ friend_request'[k].receiver = friend_request[k].receiver

LEMMA RequestsStay == TypeOK /\ [Next]_vars => RequestsKept
<1> SUFFICES ASSUME TypeOK, [Next]_vars
             PROVE  RequestsKept
  OBVIOUS
<1>1. CASE UNCHANGED friend_request
  BY <1>1 DEF RequestsKept
<1>2. ASSUME NEW w \in Worker, insert_request(w)
      PROVE  RequestsKept
  <2> DEFINE row == [sender |-> Me(w), receiver |-> Other(w), request_status |-> "pending"]
  <2>1. row \in RequestRow
    BY <1>2, PacketsOf DEF insert_request, At, RequestRow, Status
  <2>2. ASSUME friend_request' = Append(friend_request, row)
        PROVE  RequestsKept
    <3>1. /\ friend_request' \in Seq(RequestRow) /\ Len(friend_request') = Len(friend_request) + 1
          /\ \A k \in 1..Len(friend_request) : friend_request'[k] = friend_request[k]
      BY <2>1, <2>2 DEF TypeOK
    <3>2. QED
      BY <3>1, RowsOfRequests DEF RequestsKept, TypeOK
  <2>3. QED
    BY <1>1, <1>2, <2>2 DEF insert_request
<1>3. ASSUME NEW w \in Worker, update_request(w)
      PROVE  RequestsKept
  BY <1>3, RowsOfRequests DEF update_request, RequestsKept, TypeOK, RequestRow
<1>4. QED
  BY <1>1, <1>2, <1>3 DEF Next, connect, disconnect, process, friend_req_request,
     has_pending_friend_request, send_to_user, friend_req_response, select_request, insert_friend,
     insert_mirror, fail_response, login, attach_session, get_pending_friend_requests,
     send_pending, exit, tables, vars

\* A worker that goes on keeps its packet.
LEMMA PacketStays ==
  ASSUME TypeOK, NEW w \in Worker,
         \E place : Goto(w, place)
  PROVE  packet' = packet /\ \A v \in Worker \ {w} : pc'[v] = pc[v]
  BY DEF Goto, TypeOK

LEMMA ReturnsIdle ==
  ASSUME TypeOK, NEW w \in Worker, Return(w)
  PROVE  /\ pc'[w] = "idle"
         /\ \A v \in Worker \ {w} : /\ pc'[v] = pc[v] /\ packet'[v] = packet[v]
                                   /\ request_id'[v] = request_id[v] /\ fetched'[v] = fetched[v]
  BY DEF Return, TypeOK

------------------------------------------------------------------------------
(* Consent. *)

\* The friendships rest on accepted requests, and a worker that is about to
\* insert one has such a request.
AcceptedAt(w) == <<Other(w), Me(w)>> \in accepted

AboutToBefriend ==
  \A w \in Worker :
    /\ At(w, "select_request") /\ packet[w].type = "accept" => AcceptedAt(w)
    /\ pc[w] \in {"insert_friend", "insert_mirror"} =>
         AcceptedAt(w) /\ request_id[w] \in RequestsFrom(Other(w), Me(w))

ConsentInv == TypeOK /\ BefriendedByConsent /\ AboutToBefriend

LEMMA ConsentInit == Init => ConsentInv
  BY TypeInit DEF Init, ConsentInv, BefriendedByConsent, AboutToBefriend, At

\* What a worker is about to do stays right if it does not move.
LEMMA OthersAbout ==
  ASSUME TypeOK, AboutToBefriend, RequestsKept, accepted \subseteq accepted', NEW v \in Worker,
         pc'[v] = pc[v], packet'[v] = packet[v], request_id'[v] = request_id[v]
  PROVE  /\ At(v, "select_request")' /\ packet'[v].type = "accept" => AcceptedAt(v)'
         /\ pc'[v] \in {"insert_friend", "insert_mirror"} =>
              AcceptedAt(v)' /\ request_id'[v] \in RequestsFrom(Other(v), Me(v))'
  BY DEF AboutToBefriend, RequestsKept, AcceptedAt, RequestsFrom, At, Me, Other

\* Stored friendships keep the consent they rest on.
LEMMA ConsentKept ==
  ASSUME TypeOK, BefriendedByConsent, RequestsKept, accepted \subseteq accepted',
         UNCHANGED friendship
  PROVE  BefriendedByConsent'
<1> SUFFICES ASSUME NEW f \in friendship
             PROVE  LET r == friend_request'[f.friendship_id] IN
                      /\ {r.sender, r.receiver} = {f.user_id, f.friend_id}
                      /\ <<r.sender, r.receiver>> \in accepted'
  BY DEF BefriendedByConsent
<1> DEFINE id == f.friendship_id
<1>1. id \in DOMAIN friend_request
  BY DEF TypeOK
<1>2. /\ friend_request'[id].sender = friend_request[id].sender
      /\ friend_request'[id].receiver = friend_request[id].receiver
  BY <1>1 DEF RequestsKept
<1>3. /\ {friend_request[id].sender, friend_request[id].receiver} = {f.user_id, f.friend_id}
      /\ <<friend_request[id].sender, friend_request[id].receiver>> \in accepted
  BY DEF BefriendedByConsent
<1>4. QED
  BY <1>2, <1>3

\* Steps that touch no friendship and do not bring w there.
LEMMA ConsentQuiet ==
  ASSUME ConsentInv, TypeOK', RequestsKept, accepted \subseteq accepted', UNCHANGED friendship,
         \A v \in Worker :
           \/ pc'[v] = pc[v] /\ packet'[v] = packet[v] /\ request_id'[v] = request_id[v]
           \/ pc'[v] \notin {"select_request", "insert_friend", "insert_mirror"}
  PROVE  ConsentInv'
<1>1. BefriendedByConsent'
  BY ConsentKept DEF ConsentInv
<1>2. AboutToBefriend'
  BY OthersAbout DEF ConsentInv, AboutToBefriend, At
<1>3. QED
  BY <1>1, <1>2 DEF ConsentInv

LEMMA ConsentNext == ConsentInv /\ [Next]_vars => ConsentInv'
<1> SUFFICES ASSUME ConsentInv, [Next]_vars
             PROVE  ConsentInv'
  OBVIOUS
<1>0. TypeOK /\ TypeOK' /\ RequestsKept
  BY TypeNext, RequestsStay DEF ConsentInv
<1>1. CASE UNCHANGED vars
  BY <1>0, <1>1, ConsentQuiet DEF vars, tables, workers, history
<1>2. ASSUME NEW d \in Device, connect(d) \/ disconnect(d)
      PROVE  ConsentInv'
  BY <1>0, <1>2, ConsentQuiet DEF connect, disconnect, tables, workers, history
<1>3. ASSUME NEW w \in Worker, process(w)
      PROVE  ConsentInv'
  <2>1. PICK p \in Packet : /\ packet' = [packet EXCEPT ![w] = p]
                           /\ pc' = [pc EXCEPT ![w] = FirstStep(p.type)]
    BY <1>3 DEF process
  <2>2. p.type \in {"login", "request", "accept", "reject"}
    BY DEF Packet
  <2>3. pc'[w] \notin {"select_request", "insert_friend", "insert_mirror"}
    BY <1>0, <2>1, <2>2 DEF FirstStep, TypeOK
  <2>4. \A v \in Worker \ {w} : pc'[v] = pc[v] /\ packet'[v] = packet[v]
    BY <1>0, <2>1 DEF TypeOK
  <2>5. QED
    BY <1>0, <1>3, <2>3, <2>4, ConsentQuiet DEF process, tables, history
<1>4. ASSUME NEW w \in Worker, friend_req_request(w) \/ login(w) \/ fail_response(w)
      PROVE  ConsentInv'
  <2>1. UNCHANGED friendship /\ accepted' = accepted
    BY <1>4 DEF friend_req_request, has_pending_friend_request, insert_request, send_to_user,
       login, attach_session, get_pending_friend_requests, send_pending, fail_response,
       tables, history
  <2>2. CASE Return(w)
    BY <1>0, <2>1, <2>2, ReturnsIdle, ConsentQuiet
  <2>3. CASE /\ \E place \in {"insert_request", "send_to_user", "get_pending_friend_requests",
                            "send_pending"} : Goto(w, place)
             /\ UNCHANGED request_id
    <3>1. packet' = packet /\ \A v \in Worker \ {w} : pc'[v] = pc[v]
      BY <1>0, <2>3, PacketStays
    <3>2. pc'[w] \notin {"select_request", "insert_friend", "insert_mirror"}
      BY <1>0, <2>3 DEF Goto, TypeOK
    <3>3. QED
      BY <1>0, <2>1, <2>3, <3>1, <3>2, ConsentQuiet
  <2>4. QED
    BY <1>4, <2>2, <2>3 DEF friend_req_request, has_pending_friend_request, insert_request,
       send_to_user, login, attach_session, get_pending_friend_requests, send_pending, fail_response
<1>5. ASSUME NEW w \in Worker, update_request(w)
      PROVE  ConsentInv'
  <2>1. packet' = packet /\ \A v \in Worker \ {w} : pc'[v] = pc[v]
    BY <1>0, <1>5, PacketStays DEF update_request
  <2>2. BefriendedByConsent'
    BY <1>0, <1>5, ConsentKept DEF update_request, ConsentInv
  <2>3. pc'[w] = "select_request" /\ (packet[w].type = "accept" => AcceptedAt(w)')
    BY <1>0, <1>5, <2>1 DEF update_request, Goto, AcceptedAt, Me, Other, TypeOK
  <2>4. ASSUME NEW v \in Worker
        PROVE  /\ At(v, "select_request")' /\ packet'[v].type = "accept" => AcceptedAt(v)'
               /\ pc'[v] \in {"insert_friend", "insert_mirror"} =>
                    AcceptedAt(v)' /\ request_id'[v] \in RequestsFrom(Other(v), Me(v))'
    <3>1. CASE v = w
      BY <2>1, <2>3, <3>1
    <3>2. CASE v # w
      <4>1. accepted \subseteq accepted' /\ request_id' = request_id
        BY <1>5 DEF update_request
      <4>2. QED
        BY <1>0, <2>1, <3>2, <4>1, OthersAbout DEF ConsentInv
    <3>3. QED
      BY <3>1, <3>2
  <2>5. QED
    BY <1>0, <2>2, <2>4 DEF ConsentInv, AboutToBefriend
<1>6. ASSUME NEW w \in Worker, select_request(w)
      PROVE  ConsentInv'
  <2>1. UNCHANGED <<friendship, friend_request, accepted>>
    BY <1>6 DEF select_request, tables, history
  <2>2. CASE Return(w)
    BY <1>0, <2>1, <2>2, ReturnsIdle, ConsentQuiet
  <2>3. CASE ~Return(w)
    <3>1. PICK k \in RequestsFrom(Other(w), Me(w)) :
            /\ request_id' = [request_id EXCEPT ![w] = k]
            /\ Goto(w, "insert_friend") /\ packet[w].type = "accept"
      BY <1>6, <2>3 DEF select_request
    <3>2. /\ packet' = packet
          /\ \A v \in Worker \ {w} : pc'[v] = pc[v] /\ request_id'[v] = request_id[v]
      BY <1>0, <3>1, PacketStays DEF TypeOK
    <3>3. pc'[w] = "insert_friend" /\ request_id'[w] = k
      BY <1>0, <3>1 DEF Goto, TypeOK
    <3>4. AcceptedAt(w)' /\ k \in RequestsFrom(Other(w), Me(w))'
      <4>1. AcceptedAt(w)
        BY <1>6, <3>1 DEF ConsentInv, AboutToBefriend, select_request
      <4>2. QED
        BY <2>1, <3>1, <3>2, <4>1 DEF AcceptedAt, RequestsFrom, Me, Other
    <3>5. ASSUME NEW v \in Worker
          PROVE  /\ At(v, "select_request")' /\ packet'[v].type = "accept" => AcceptedAt(v)'
                 /\ pc'[v] \in {"insert_friend", "insert_mirror"} =>
                      AcceptedAt(v)' /\ request_id'[v] \in RequestsFrom(Other(v), Me(v))'
      <4>1. CASE v = w
        BY <3>3, <3>4, <4>1
      <4>2. CASE v # w
        BY <1>0, <2>1, <3>2, <4>2, OthersAbout DEF ConsentInv
      <4>3. QED
        BY <4>1, <4>2
    <3>6. BefriendedByConsent'
      BY <2>1 DEF ConsentInv, BefriendedByConsent
    <3>7. QED
      BY <1>0, <3>5, <3>6 DEF ConsentInv, AboutToBefriend
  <2>4. QED
    BY <2>2, <2>3
<1>7. ASSUME NEW w \in Worker, insert_friend(w) \/ insert_mirror(w)
      PROVE  ConsentInv'
  <2>1. /\ AcceptedAt(w) /\ request_id[w] \in RequestsFrom(Other(w), Me(w))
        /\ UNCHANGED <<friend_request, accepted>>
    BY <1>7 DEF ConsentInv, AboutToBefriend, insert_friend, insert_mirror, At, history
  <2>2. \E u, f : {u, f} = {Me(w), Other(w)} /\ Befriend(request_id[w], u, f)
    BY <1>7 DEF insert_friend, insert_mirror
  <2>3. BefriendedByConsent'
    BY <2>1, <2>2 DEF Befriend, ConsentInv, BefriendedByConsent, AcceptedAt, RequestsFrom
  <2>4. \A v \in Worker :
          \/ pc'[v] = pc[v] /\ packet'[v] = packet[v] /\ request_id'[v] = request_id[v]
          \/ pc'[v] = "idle"
          \/ v = w /\ insert_friend(w)
    BY <1>0, <1>7, ReturnsIdle, PacketStays DEF insert_friend, insert_mirror
  <2>5. insert_friend(w) => /\ pc'[w] = "insert_mirror" /\ packet'[w] = packet[w]
                            /\ request_id'[w] = request_id[w]
    BY <1>0 DEF insert_friend, Goto, TypeOK
  <2>6. ASSUME NEW v \in Worker
        PROVE  /\ At(v, "select_request")' /\ packet'[v].type = "accept" => AcceptedAt(v)'
               /\ pc'[v] \in {"insert_friend", "insert_mirror"} =>
                    AcceptedAt(v)' /\ request_id'[v] \in RequestsFrom(Other(v), Me(v))'
    <3>1. CASE v = w /\ insert_friend(w)
      BY <2>1, <2>5, <3>1 DEF AcceptedAt, RequestsFrom, Me, Other, At
    <3>2. CASE pc'[v] = "idle"
      BY <3>2 DEF At
    <3>3. CASE pc'[v] = pc[v] /\ packet'[v] = packet[v] /\ request_id'[v] = request_id[v]
      BY <1>0, <2>1, <3>3, OthersAbout DEF ConsentInv
    <3>4. QED
      BY <2>4, <3>1, <3>2, <3>3
  <2>7. QED
    BY <1>0, <2>3, <2>6 DEF ConsentInv, AboutToBefriend
<1>8. CASE exit
  <2>1. UNCHANGED friendship /\ accepted' = accepted /\ \A v \in Worker : pc'[v] = "idle"
    BY <1>8 DEF exit, tables
  <2>2. QED
    BY <1>0, <2>1, ConsentQuiet
<1>9. QED
  BY <1>1, <1>2, <1>3, <1>4, <1>5, <1>6, <1>7, <1>8 DEF Next, friend_req_response

\* Every row of friendship carries the identifier of a request between the two
\* whose receiver has accepted its sender.
THEOREM ByConsent == Spec => []BefriendedByConsent
<1>1. ConsentInv => BefriendedByConsent
  BY DEF ConsentInv
<1>2. QED
  BY <1>1, ConsentInit, ConsentNext, PTL DEF Spec

------------------------------------------------------------------------------
(* Acceptances. *)

\* An accepted request has both rows, was cut off, or a handler is at work on it.
AtWork(w, s, r) ==
  /\ pc[w] \in {"select_request", "insert_friend", "insert_mirror"}
  /\ packet[w].type = "accept"
  /\ Me(w) = r /\ Other(w) = s

Secured(s, r) ==
  Mutual(s, r) \/ <<s, r>> \in cut \/ \E w \in Worker : AtWork(w, s, r)

AllSecured ==
  \A k \in DOMAIN friend_request :
    friend_request[k].request_status = "accepted" =>
      Secured(friend_request[k].sender, friend_request[k].receiver)

\* Only an acceptance inserts, and the second insert comes after the first.
RowOf(w) == [friendship_id |-> request_id[w], user_id |-> Me(w), friend_id |-> Other(w)]

HalfDone ==
  \A w \in Worker :
    /\ pc[w] \in {"insert_friend", "insert_mirror"} => packet[w].type = "accept"
    /\ At(w, "insert_mirror") => RowOf(w) \in friendship

FriendsInv == ConsentInv /\ AllSecured /\ HalfDone

LEMMA FriendsInit == Init => FriendsInv
  BY ConsentInit DEF Init, FriendsInv, AllSecured, HalfDone, At

LEMMA FriendsImply == FriendsInv => AcceptedMeansFriends
  BY DEF FriendsInv, AllSecured, Secured, AtWork, AcceptedMeansFriends

\* Friendships are never removed, and what was cut off stays recorded.
LEMMA FriendshipsGrow ==
  TypeOK /\ [Next]_vars => friendship \subseteq friendship' /\ cut \subseteq cut'
<1> SUFFICES ASSUME TypeOK, [Next]_vars
             PROVE  friendship \subseteq friendship' /\ cut \subseteq cut'
  OBVIOUS
<1>1. ASSUME NEW w \in Worker, friend_req_response(w)
      PROVE  friendship \subseteq friendship' /\ cut \subseteq cut'
  BY <1>1 DEF friend_req_response, update_request, select_request, insert_friend, insert_mirror,
     fail_response, Befriend, Cut, tables, history
<1>2. QED
  BY <1>1 DEF Next, connect, disconnect, process, friend_req_request, has_pending_friend_request,
     insert_request, send_to_user, login, attach_session, get_pending_friend_requests,
     send_pending, exit, tables, history, vars

\* What a worker that waits keeps, and where one that moves arrives.
Rests(w) == pc'[w] = pc[w] /\ packet'[w] = packet[w] /\ request_id'[w] = request_id[w]

Befriending == {"select_request", "insert_friend", "insert_mirror"}

\* A step of one worker leaves the others alone.
LEMMA MovesAlone ==
  ASSUME TypeOK, NEW v \in Worker, NEW w \in Worker \ {v},
         process(v) \/ friend_req_request(v) \/ friend_req_response(v) \/ login(v)
  PROVE  Rests(w)
<1>1. CASE Return(v)
  BY <1>1, ReturnsIdle DEF Rests
<1>2. CASE (\E place : Goto(v, place)) /\ \A u \in Worker \ {v} : request_id'[u] = request_id[u]
  BY <1>2, PacketStays DEF Rests
<1>3. CASE process(v)
  BY <1>3 DEF process, Rests, TypeOK
<1>4. QED
  BY <1>1, <1>2, <1>3 DEF friend_req_request, has_pending_friend_request, insert_request,
     send_to_user, friend_req_response, update_request, select_request, insert_friend,
     insert_mirror, fail_response, login, attach_session, get_pending_friend_requests,
     send_pending, TypeOK

\* A worker is where it was, or not befriending, or its step is one of a response.
LEMMA WhoMoves ==
  ASSUME TypeOK, [Next]_vars, NEW w \in Worker
  PROVE  Rests(w) \/ pc[w] \notin Befriending \/ exit \/ friend_req_response(w)
<1>1. CASE UNCHANGED vars
  BY <1>1 DEF vars, workers, Rests
<1>2. CASE \E d \in Device : connect(d) \/ disconnect(d)
  BY <1>2 DEF connect, disconnect, workers, Rests
<1>3. ASSUME process(w) \/ friend_req_request(w) \/ login(w)
      PROVE  pc[w] \notin Befriending
  BY <1>3 DEF process, friend_req_request, has_pending_friend_request, insert_request,
     send_to_user, login, attach_session, get_pending_friend_requests, send_pending, At, Befriending
<1>4. QED
  BY <1>1, <1>2, <1>3, MovesAlone DEF Next

\* Who arrives at an insert does so from the step before it.
LEMMA WhoArrives ==
  ASSUME TypeOK, [Next]_vars, NEW w \in Worker,
         pc'[w] \in {"insert_friend", "insert_mirror"}
  PROVE  Rests(w) \/ select_request(w) \/ insert_friend(w)
<1>1. ~exit
  BY DEF exit
<1>2. CASE pc[w] \notin Befriending
  <2>1. ~Rests(w)
    BY <1>2 DEF Rests, Befriending
  <2>2. ~friend_req_response(w) \/ update_request(w)
    BY <1>2 DEF friend_req_response, update_request, select_request, insert_friend, insert_mirror,
       fail_response, At, Befriending, Return, TypeOK
  <2>3. ~update_request(w)
    BY DEF update_request, Goto, TypeOK
  <2>4. ~UNCHANGED vars /\ ~(\E d \in Device : connect(d) \/ disconnect(d))
    BY <2>1 DEF vars, workers, Rests, connect, disconnect
  <2>5. \A v \in Worker :
          process(v) \/ friend_req_request(v) \/ friend_req_response(v) \/ login(v) => v = w
    BY <2>1, MovesAlone
  <2>6. ~friend_req_request(w) /\ ~login(w)
    BY DEF friend_req_request, has_pending_friend_request, insert_request, send_to_user, login,
       attach_session, get_pending_friend_requests, send_pending, Goto, Return, TypeOK
  <2>7. ~process(w)
    <3>1. SUFFICES ASSUME process(w) PROVE FALSE
      OBVIOUS
    <3>2. PICK p \in Packet : pc' = [pc EXCEPT ![w] = FirstStep(p.type)]
      BY <3>1 DEF process
    <3>3. p.type \in {"login", "request", "accept", "reject"}
      BY DEF Packet
    <3>4. QED
      BY <3>2, <3>3 DEF FirstStep, TypeOK
  <2>8. QED
    BY <1>1, <2>2, <2>3, <2>4, <2>5, <2>6, <2>7 DEF Next
<1>3. CASE friend_req_response(w)
  BY <1>3 DEF friend_req_response, update_request, insert_mirror, fail_response, Goto, Return, TypeOK
<1>4. QED
  BY <1>1, <1>2, <1>3, WhoMoves

\* What is secured stays so.
LEMMA SecuredStays ==
  ASSUME FriendsInv, [Next]_vars, NEW k \in DOMAIN friend_request, NEW s, NEW r,
         s = friend_request[k].sender, r = friend_request[k].receiver, Secured(s, r)
  PROVE  Secured(s, r)'
<1>0. /\ TypeOK /\ TypeOK' /\ RequestsKept /\ friendship \subseteq friendship' /\ cut \subseteq cut'
  BY TypeNext, RequestsStay, FriendshipsGrow DEF FriendsInv, ConsentInv
<1>1. CASE Mutual(s, r)
  BY <1>0, <1>1 DEF Mutual, RequestsKept, Secured
<1>2. CASE <<s, r>> \in cut
  BY <1>0, <1>2 DEF Secured
<1>3. ASSUME NEW w \in Worker, AtWork(w, s, r)
      PROVE  Secured(s, r)'
  <2>1. CASE Rests(w)
    BY <1>3, <2>1 DEF Rests, AtWork, Secured, Me, Other
  <2>2. CASE exit
    <3>1. packet[w].type = "accept" /\ <<Other(w), Me(w)>> = <<s, r>>
      BY <1>3 DEF AtWork
    <3>2. <<s, r>> \in cut'
      BY <2>2, <3>1 DEF exit
    <3>3. QED
      BY <3>2 DEF Secured
  <2>3. CASE update_request(w)
    BY <1>3, <2>3 DEF update_request, At, AtWork
  <2>4. CASE select_request(w)
    <3>1. k \in RequestsFrom(Other(w), Me(w))
      BY <1>3 DEF RequestsFrom, AtWork
    <3>2. Goto(w, "insert_friend")
      BY <1>3, <2>4, <3>1 DEF select_request, AtWork
    <3>3. packet' = packet /\ pc'[w] = "insert_friend"
      BY <1>0, <3>2 DEF Goto, TypeOK
    <3>4. QED
      BY <1>3, <3>3 DEF AtWork, Secured, Me, Other
  <2>5. CASE insert_friend(w)
    <3>1. packet' = packet /\ pc'[w] = "insert_mirror"
      BY <1>0, <2>5 DEF insert_friend, Goto, TypeOK
    <3>2. QED
      BY <1>3, <3>1 DEF AtWork, Secured, Me, Other
  <2>6. CASE insert_mirror(w)
    <3>1. RowOf(w) \in friendship /\ request_id[w] \in DOMAIN friend_request
      BY <1>0, <2>6 DEF insert_mirror, FriendsInv, HalfDone, TypeOK, At
    <3>2. /\ [friendship_id |-> request_id[w], user_id |-> r, friend_id |-> s] \in friendship'
          /\ [friendship_id |-> request_id[w], user_id |-> s, friend_id |-> r] \in friendship'
      BY <1>0, <1>3, <2>6, <3>1 DEF insert_mirror, Befriend, RowOf, AtWork
    <3>3. request_id[w] \in DOMAIN friend_request'
      BY <1>0, <3>1 DEF RequestsKept
    <3>4. Mutual(s, r)'
      BY <3>2, <3>3 DEF Mutual
    <3>5. QED
      BY <3>4 DEF Secured
  <2>7. CASE fail_response(w)
    BY <1>3, <2>7 DEF fail_response, Cut, AtWork, Secured
  <2>8. QED
    BY <1>0, <1>3, <2>1, <2>2, <2>3, <2>4, <2>5, <2>6, <2>7, WhoMoves
       DEF friend_req_response, AtWork, Befriending
<1>4. QED
  BY <1>1, <1>2, <1>3 DEF Secured

\* A request is accepted since before, or by this step.
LEMMA WhoAccepts ==
  ASSUME TypeOK, [Next]_vars, NEW k \in DOMAIN friend_request',
         friend_request'[k].request_status = "accepted"
  PROVE  \/ k \in DOMAIN friend_request /\ friend_request[k].request_status = "accepted"
         \/ \E w \in Worker : /\ update_request(w) /\ packet[w].type = "accept"
                              /\ k \in RequestsFrom(Other(w), Me(w))
<1>1. CASE UNCHANGED friend_request
  BY <1>1
<1>2. ASSUME NEW w \in Worker, insert_request(w)
      PROVE  k \in DOMAIN friend_request /\ friend_request[k].request_status = "accepted"
  <2> DEFINE row == [sender |-> Me(w), receiver |-> Other(w), request_status |-> "pending"]
  <2>1. row \in RequestRow
    BY <1>2, PacketsOf DEF insert_request, At, RequestRow, Status
  <2>2. ASSUME friend_request' = Append(friend_request, row)
        PROVE  k \in DOMAIN friend_request /\ friend_request[k].request_status = "accepted"
    <3>1. /\ friend_request' \in Seq(RequestRow) /\ Len(friend_request') = Len(friend_request) + 1
          /\ \A j \in 1..Len(friend_request) : friend_request'[j] = friend_request[j]
          /\ friend_request'[Len(friend_request) + 1] = row
      BY <2>1, <2>2 DEF TypeOK
    <3>2. k # Len(friend_request) + 1
      BY <3>1
    <3>3. QED
      BY <3>1, <3>2, RowsOfRequests DEF TypeOK
  <2>3. QED
    BY <1>1, <1>2, <2>2 DEF insert_request
<1>3. ASSUME NEW w \in Worker, update_request(w)
      PROVE  \/ k \in DOMAIN friend_request /\ friend_request[k].request_status = "accepted"
             \/ packet[w].type = "accept" /\ k \in RequestsFrom(Other(w), Me(w))
  <2>1. friend_request' = Answered(w)
    BY <1>3 DEF update_request, Answered
  <2>2. k \in DOMAIN friend_request /\ friend_request[k] \in RequestRow
    BY <2>1, RowsOfRequests DEF Answered, TypeOK
  <2>3. CASE k \notin RequestsFrom(Other(w), Me(w))
    BY <2>1, <2>2, <2>3 DEF Answered
  <2>4. CASE k \in RequestsFrom(Other(w), Me(w)) /\ packet[w].type # "accept"
    BY <2>1, <2>2, <2>4 DEF Answered, RequestRow
  <2>5. QED
    BY <2>3, <2>4
<1>4. QED
  BY <1>1, <1>2, <1>3 DEF Next, connect, disconnect, process, friend_req_request,
     has_pending_friend_request, send_to_user, friend_req_response, select_request, insert_friend,
     insert_mirror, fail_response, login, attach_session, get_pending_friend_requests,
     send_pending, exit, tables, vars

LEMMA FriendsNext == FriendsInv /\ [Next]_vars => FriendsInv'
<1> SUFFICES ASSUME FriendsInv, [Next]_vars
             PROVE  FriendsInv'
  OBVIOUS
<1>0. TypeOK /\ TypeOK' /\ ConsentInv' /\ RequestsKept /\ friendship \subseteq friendship'
  BY TypeNext, ConsentNext, RequestsStay, FriendshipsGrow DEF FriendsInv, ConsentInv
<1>1. AllSecured'
  <2> SUFFICES ASSUME NEW k \in DOMAIN friend_request',
                      friend_request'[k].request_status = "accepted"
               PROVE  Secured(friend_request[k].sender, friend_request[k].receiver)'
    BY DEF AllSecured
  <2>1. CASE k \in DOMAIN friend_request /\ friend_request[k].request_status = "accepted"
    <3> DEFINE s == friend_request[k].sender
               r == friend_request[k].receiver
    <3>1. Secured(s, r)
      BY <2>1 DEF FriendsInv, AllSecured
    <3>2. friend_request'[k].sender = s /\ friend_request'[k].receiver = r
      BY <1>0, <2>1 DEF RequestsKept
    <3>3. \A x, y : x = s /\ y = r => Secured(x, y)'
      BY <2>1, <3>1, SecuredStays
    <3>4. QED
      BY <3>2, <3>3 DEF Secured, Mutual, AtWork
  <2>2. ASSUME NEW w \in Worker, update_request(w), packet[w].type = "accept",
               k \in RequestsFrom(Other(w), Me(w))
        PROVE  Secured(friend_request[k].sender, friend_request[k].receiver)'
    <3>1. friend_request'[k].sender = Other(w) /\ friend_request'[k].receiver = Me(w)
      BY <1>0, <2>2 DEF RequestsFrom, RequestsKept
    <3>2. packet' = packet /\ pc'[w] = "select_request"
      BY <1>0, <2>2 DEF update_request, Goto, TypeOK
    <3>3. QED
      BY <2>2, <3>1, <3>2 DEF Secured, AtWork, Me, Other
  <2>3. QED
    BY <1>0, <2>1, <2>2, WhoAccepts
<1>2. HalfDone'
  <2> SUFFICES ASSUME NEW w \in Worker, pc'[w] \in {"insert_friend", "insert_mirror"}
               PROVE  /\ packet'[w].type = "accept"
                      /\ pc'[w] = "insert_mirror" => RowOf(w)' \in friendship'
    BY DEF HalfDone, At
  <2>1. CASE Rests(w)
    BY <1>0, <2>1 DEF FriendsInv, HalfDone, Rests, RowOf, Me, Other, At
  <2>2. CASE select_request(w)
    <3>1. packet[w].type = "accept" /\ Goto(w, "insert_friend")
      BY <1>0, <2>2 DEF select_request, Return, TypeOK
    <3>2. QED
      BY <1>0, <3>1 DEF Goto, TypeOK
  <2>3. CASE insert_friend(w)
    <3>1. packet' = packet /\ request_id' = request_id /\ RowOf(w) \in friendship'
      BY <2>3 DEF insert_friend, Goto, Befriend, RowOf
    <3>2. QED
      BY <2>3, <3>1 DEF insert_friend, FriendsInv, HalfDone, RowOf, Me, Other, At
  <2>4. QED
    BY <1>0, <2>1, <2>2, <2>3, WhoArrives
<1>3. QED
  BY <1>0, <1>1, <1>2 DEF FriendsInv

\* An accepted request makes the two friends in both directions, unless its
\* handler is at work, a statement of it failed or the process ended in it.
THEOREM AcceptancesTakeEffect == Spec => []AcceptedMeansFriends
  BY FriendsInit, FriendsNext, FriendsImply, PTL DEF Spec

------------------------------------------------------------------------------
(* Requests shown. *)

\* A worker handles only packets of the devices pinned to it.
Pinned ==
  \A w \in Worker : packet[w] # NoPacket => WorkerOf[packet[w].device] = w

OnTheWay(s, u) ==
  \E w \in Worker : At(w, "send_to_user") /\ Me(w) = s /\ Other(w) = u

ReachedAt(d) == d \in connected /\ session[UserOf[d]] = d

\* Every pending request to the user of d is shown there, is in S, or will be
\* pushed.
Covered(d, S) ==
  \A s \in User : Pending(s, UserOf[d]) => s \in shown[d] \cup S \/ OnTheWay(s, UserOf[d])

\* A list that was read and not yet sent lacks nothing that is not shown otherwise.
ListCovers ==
  \A w \in Worker : At(w, "send_pending") /\ ReachedAt(packet[w].device) =>
    Covered(packet[w].device, fetched[w])

ShownCovers ==
  \A d \in Device : d \in synced /\ ReachedAt(d) => Covered(d, {})

ShownInv == TypeOK /\ Pinned /\ ListCovers /\ ShownCovers

LEMMA ShownInit == Init => ShownInv
  BY TypeInit DEF Init, ShownInv, Pinned, ListCovers, ShownCovers, At

LEMMA ShownImply == ShownInv => NoRequestMissed
  BY DEF ShownInv, TypeOK, ShownCovers, Covered, ReachedAt, OnTheWay, NoRequestMissed

LEMMA PinnedStays == TypeOK /\ Pinned /\ [Next]_vars => Pinned'
<1> SUFFICES ASSUME TypeOK, Pinned, [Next]_vars
             PROVE  Pinned'
  OBVIOUS
<1>1. CASE UNCHANGED packet
  BY <1>1 DEF Pinned
<1>2. ASSUME NEW w \in Worker, Return(w)
      PROVE  Pinned'
  BY <1>2 DEF Return, Pinned, TypeOK
<1>3. ASSUME NEW w \in Worker, process(w)
      PROVE  Pinned'
  BY <1>3 DEF process, Pinned, TypeOK
<1>4. CASE exit
  BY <1>4 DEF exit, Pinned
<1>5. QED
  BY <1>1, <1>2, <1>3, <1>4 DEF Next, connect, disconnect, friend_req_request,
     has_pending_friend_request, insert_request, send_to_user, friend_req_response, update_request,
     select_request, insert_friend, insert_mirror, fail_response, login, attach_session,
     get_pending_friend_requests, send_pending, Goto, vars, workers

\* A request that is pending now was so before, or has just been stored.
LEMMA WhoAdds ==
  ASSUME TypeOK, [Next]_vars, NEW s \in User, NEW u \in User, Pending(s, u)'
  PROVE  \/ Pending(s, u)
         \/ \E w \in Worker : insert_request(w) /\ Me(w) = s /\ Other(w) = u
<1>1. CASE UNCHANGED friend_request
  BY <1>1 DEF Pending, RequestsFrom
<1>2. ASSUME NEW w \in Worker, insert_request(w)
      PROVE  Pending(s, u) \/ (Me(w) = s /\ Other(w) = u)
  <2> DEFINE row == [sender |-> Me(w), receiver |-> Other(w), request_status |-> "pending"]
  <2>1. row \in RequestRow
    BY <1>2, PacketsOf DEF insert_request, At, RequestRow, Status
  <2>2. ASSUME friend_request' = Append(friend_request, row)
        PROVE  Pending(s, u) \/ (Me(w) = s /\ Other(w) = u)
    <3>1. /\ friend_request' \in Seq(RequestRow) /\ Len(friend_request') = Len(friend_request) + 1
          /\ \A j \in 1..Len(friend_request) : friend_request'[j] = friend_request[j]
          /\ friend_request'[Len(friend_request) + 1] = row
      BY <2>1, <2>2 DEF TypeOK
    <3>2. PICK k \in DOMAIN friend_request' :
            /\ friend_request'[k].sender = s /\ friend_request'[k].receiver = u
            /\ friend_request'[k].request_status = "pending"
      BY DEF Pending, RequestsFrom
    <3>3. CASE k \in DOMAIN friend_request
      BY <3>1, <3>2, <3>3, RowsOfRequests DEF Pending, RequestsFrom, TypeOK
    <3>4. CASE k = Len(friend_request) + 1
      BY <3>1, <3>2, <3>4
    <3>5. QED
      BY <3>1, <3>3, <3>4, RowsOfRequests DEF TypeOK
  <2>3. UNCHANGED friend_request => Pending(s, u)
    BY DEF Pending, RequestsFrom
  <2>4. QED
    BY <1>2, <2>2, <2>3 DEF insert_request
<1>3. ASSUME NEW w \in Worker, update_request(w)
      PROVE  Pending(s, u)
  <2>1. friend_request' = Answered(w)
    BY <1>3 DEF update_request, Answered
  <2>2. PICK k \in DOMAIN friend_request' :
          /\ friend_request'[k].sender = s /\ friend_request'[k].receiver = u
          /\ friend_request'[k].request_status = "pending"
    BY DEF Pending, RequestsFrom
  <2>3. k \in DOMAIN friend_request /\ friend_request[k] \in RequestRow
    BY <2>1, RowsOfRequests DEF Answered, TypeOK
  <2>4. k \notin RequestsFrom(Other(w), Me(w))
    BY <2>1, <2>2, <2>3 DEF Answered, RequestRow
  <2>5. QED
    BY <2>1, <2>2, <2>3, <2>4 DEF Answered, Pending, RequestsFrom
<1>4. QED
  BY <1>1, <1>2, <1>3 DEF Next, connect, disconnect, process, friend_req_request,
     has_pending_friend_request, send_to_user, friend_req_response, select_request, insert_friend,
     insert_mirror, fail_response, login, attach_session, get_pending_friend_requests,
     send_pending, exit, tables, vars

\* It is about to be pushed then.
LEMMA WhoAsks ==
  ASSUME TypeOK, [Next]_vars, NEW s \in User, NEW u \in User, Pending(s, u)'
  PROVE  Pending(s, u) \/ OnTheWay(s, u)'
<1>1. ASSUME NEW w \in Worker, insert_request(w), Me(w) = s, Other(w) = u
      PROVE  OnTheWay(s, u)'
  <2>1. packet' = packet /\ pc'[w] = "send_to_user"
    BY <1>1 DEF insert_request, Goto, TypeOK
  <2>2. QED
    BY <1>1, <2>1 DEF OnTheWay, Me, Other, At
<1>2. QED
  BY <1>1, WhoAdds

\* A device that stays connected keeps what it was shown.
LEMMA ShownGrows ==
  ASSUME TypeOK, [Next]_vars, NEW d \in Device, d \in connected'
  PROVE  shown[d] \subseteq shown'[d]
<1>1. ASSUME NEW e \in Device, disconnect(e)
      PROVE  shown[d] \subseteq shown'[d]
  BY <1>1 DEF disconnect, TypeOK
<1>2. ~exit
  BY DEF exit
<1>3. ASSUME NEW w \in Worker, send_to_user(w) \/ send_pending(w)
      PROVE  shown[d] \subseteq shown'[d]
  BY <1>3 DEF send_to_user, send_pending
<1>4. QED
  BY <1>1, <1>2, <1>3 DEF Next, connect, process, friend_req_request, has_pending_friend_request,
     insert_request, friend_req_response, update_request, select_request, insert_friend,
     insert_mirror, fail_response, login, attach_session, get_pending_friend_requests, clients, vars

\* A push that was on its way arrives at the device the user is reached at, or
\* still is on its way.
LEMMA PushArrives ==
  ASSUME TypeOK, [Next]_vars, NEW d \in Device, ReachedAt(d), d \in connected', NEW s \in User,
         OnTheWay(s, UserOf[d])
  PROVE  s \in shown'[d] \/ OnTheWay(s, UserOf[d])'
<1>1. PICK w \in Worker : At(w, "send_to_user") /\ Me(w) = s /\ Other(w) = UserOf[d]
  BY DEF OnTheWay
<1>2. CASE Rests(w)
  BY <1>1, <1>2 DEF Rests, OnTheWay, At, Me, Other
<1>3. CASE send_to_user(w)
  BY <1>1, <1>3 DEF send_to_user, ReachedAt
<1>4. Rests(w) \/ send_to_user(w)
  <2>1. ~process(w) /\ ~friend_req_response(w) /\ ~login(w)
    BY <1>1 DEF process, friend_req_response, update_request, select_request, insert_friend,
       insert_mirror, fail_response, login, attach_session, get_pending_friend_requests,
       send_pending, At
  <2>2. friend_req_request(w) => send_to_user(w)
    BY <1>1 DEF friend_req_request, has_pending_friend_request, insert_request, At
  <2>3. ~exit
    BY DEF exit
  <2>4. UNCHANGED vars \/ (\E e \in Device : connect(e) \/ disconnect(e)) => Rests(w)
    BY DEF vars, workers, connect, disconnect, Rests
  <2>5. QED
    BY <2>1, <2>2, <2>3, <2>4, MovesAlone DEF Next
<1>5. QED
  BY <1>2, <1>3, <1>4

\* So what covers the requests to a device does so after a step, as long as the
\* user is reached there.
LEMMA CoverStays ==
  ASSUME TypeOK, [Next]_vars, NEW d \in Device, ReachedAt(d), d \in connected',
         NEW S, Covered(d, S)
  PROVE  \A T : S \subseteq shown'[d] \cup T => Covered(d, T)'
<1>1. UserOf[d] \in User
  BY FriendshipAssumption
<1>2. QED
  BY <1>1, WhoAsks, ShownGrows, PushArrives DEF Covered, OnTheWay, Pending, RequestsFrom

\* A user comes to be reached at a device by attaching it, and a device that is
\* attached has not been sent the list since.
LEMMA WhoIsReached ==
  ASSUME TypeOK, [Next]_vars, NEW d \in Device, ReachedAt(d)'
  PROVE  ReachedAt(d) \/ \E w \in Worker : attach_session(w) /\ packet[w].device = d
<1>1. CASE UNCHANGED network
  BY <1>1 DEF network, ReachedAt
<1>2. ASSUME NEW e \in Device, connect(e) \/ disconnect(e)
      PROVE  ReachedAt(d)
  BY <1>2 DEF connect, disconnect, Forget, ReachedAt, TypeOK
<1>3. ASSUME NEW w \in Worker, attach_session(w), packet[w].device # d
      PROVE  ReachedAt(d)
  BY <1>3 DEF attach_session, ReachedAt, TypeOK
<1>4. ~exit
  BY DEF exit, ReachedAt
<1>5. QED
  BY <1>1, <1>2, <1>3, <1>4 DEF Next, process, friend_req_request, has_pending_friend_request,
     insert_request, send_to_user, friend_req_response, update_request, select_request,
     insert_friend, insert_mirror, fail_response, login, get_pending_friend_requests,
     send_pending, network, vars

\* A list is read by get_pending_friend_requests, and sent by send_pending.
LEMMA WhoReads ==
  ASSUME TypeOK, [Next]_vars, NEW w \in Worker, At(w, "send_pending")'
  PROVE  \/ Rests(w) /\ fetched'[w] = fetched[w]
         \/ get_pending_friend_requests(w)
<1>1. CASE ~At(w, "send_pending")
  <2>1. ~exit /\ ~UNCHANGED vars /\ ~(\E d \in Device : connect(d) \/ disconnect(d))
    BY <1>1 DEF exit, vars, workers, connect, disconnect, At
  <2>2. \A v \in Worker :
          process(v) \/ friend_req_request(v) \/ friend_req_response(v) \/ login(v) => v = w
    BY <1>1, MovesAlone DEF Rests, At
  <2>3. ~process(w)
    <3> SUFFICES ASSUME process(w) PROVE FALSE
      OBVIOUS
    <3>1. PICK p \in Packet : pc' = [pc EXCEPT ![w] = FirstStep(p.type)]
      BY DEF process
    <3>2. p.type \in {"login", "request", "accept", "reject"}
      BY DEF Packet
    <3>3. QED
      BY <3>1, <3>2 DEF FirstStep, TypeOK, At
  <2>4. ~friend_req_request(w) /\ ~friend_req_response(w) /\ ~attach_session(w) /\ ~send_pending(w)
    BY DEF friend_req_request, has_pending_friend_request, insert_request, send_to_user,
       friend_req_response, update_request, select_request, insert_friend, insert_mirror,
       fail_response, attach_session, send_pending, Goto, Return, TypeOK, At
  <2>5. QED
    BY <2>1, <2>2, <2>3, <2>4 DEF Next, login
<1>2. CASE At(w, "send_pending")
  <2>1. ~exit
    BY DEF exit, At
  <2>2. CASE UNCHANGED vars \/ \E d \in Device : connect(d) \/ disconnect(d)
    BY <2>2 DEF vars, workers, connect, disconnect, Rests
  <2>3. ASSUME NEW v \in Worker \ {w},
               process(v) \/ friend_req_request(v) \/ friend_req_response(v) \/ login(v)
        PROVE  Rests(w) /\ fetched'[w] = fetched[w]
    BY <2>3, MovesAlone DEF process, friend_req_request, has_pending_friend_request,
       insert_request, send_to_user, friend_req_response, update_request, select_request,
       insert_friend, insert_mirror, fail_response, login, attach_session,
       get_pending_friend_requests, send_pending, Return, TypeOK
  <2>4. ~process(w) /\ ~friend_req_request(w) /\ ~friend_req_response(w) /\ ~login(w)
    BY <1>2 DEF process, friend_req_request, has_pending_friend_request, insert_request,
       send_to_user, friend_req_response, update_request, select_request, insert_friend,
       insert_mirror, fail_response, login, attach_session, get_pending_friend_requests,
       send_pending, Goto, Return, TypeOK, At
  <2>5. QED
    BY <2>1, <2>2, <2>3, <2>4 DEF Next
<1>3. QED
  BY <1>1, <1>2

LEMMA WhoSends ==
  ASSUME TypeOK, [Next]_vars, NEW d \in synced'
  PROVE  d \in synced \/ \E w \in Worker : send_pending(w) /\ packet[w].device = d
<1>1. ASSUME NEW w \in Worker, send_pending(w)
      PROVE  d \in synced \/ packet[w].device = d
  BY <1>1 DEF send_pending
<1>2. QED
  BY <1>1 DEF Next, connect, disconnect, process, friend_req_request, has_pending_friend_request,
     insert_request, send_to_user, friend_req_response, update_request, select_request,
     insert_friend, insert_mirror, fail_response, login, attach_session,
     get_pending_friend_requests, exit, clients, vars

LEMMA ShownNext == ShownInv /\ [Next]_vars => ShownInv'
<1> SUFFICES ASSUME ShownInv, [Next]_vars
             PROVE  ShownInv'
  OBVIOUS
<1>0. TypeOK /\ TypeOK' /\ Pinned /\ Pinned'
  BY TypeNext, PinnedStays DEF ShownInv
<1>1. ListCovers'
  <2> SUFFICES ASSUME NEW w \in Worker, At(w, "send_pending")', ReachedAt(packet[w].device)'
               PROVE  Covered(packet[w].device, fetched[w])'
    BY DEF ListCovers
  <2>1. CASE Rests(w) /\ fetched'[w] = fetched[w]
    <3>1. At(w, "send_pending") /\ packet'[w] = packet[w]
      BY <2>1 DEF Rests, At
    <3>2. PICK d \in Device : d = packet[w].device /\ WorkerOf[d] = w
      BY <1>0, <3>1, PacketsOf DEF Pinned, TypeOK, At
    <3>3. ReachedAt(d)'
      BY <3>1, <3>2 DEF ReachedAt
    <3>4. ~ \E v \in Worker : attach_session(v) /\ packet[v].device = d
      <4> SUFFICES ASSUME NEW v \in Worker, attach_session(v), packet[v].device = d
                   PROVE  FALSE
        OBVIOUS
      <4>1. packet[v] # NoPacket
        BY <1>0 DEF attach_session, At, TypeOK
      <4>2. v = w
        BY <1>0, <3>2, <4>1 DEF Pinned
      <4>3. QED
        BY <3>1, <4>2 DEF attach_session, At
    <3>5. ReachedAt(d)
      BY <1>0, <3>3, <3>4, WhoIsReached
    <3>6. PICK S : S = fetched[w]
      OBVIOUS
    <3>7. Covered(d, S)
      BY <3>1, <3>2, <3>5, <3>6 DEF ShownInv, ListCovers
    <3>8. d \in connected'
      BY <3>3 DEF ReachedAt
    <3>9. Covered(d, S)'
      BY <1>0, <3>5, <3>7, <3>8, CoverStays
    <3>10. QED
      BY <2>1, <3>1, <3>2, <3>6, <3>9
  <2>2. CASE get_pending_friend_requests(w)
    <3>1. /\ fetched' = [fetched EXCEPT ![w] = {s \in User : Pending(s, Me(w))}]
          /\ packet' = packet
      BY <1>0, <2>2 DEF get_pending_friend_requests, Goto, Return, At, TypeOK
    <3>2. fetched'[w] = {s \in User : Pending(s, Me(w))}
      BY <1>0, <3>1 DEF TypeOK
    <3>3. UNCHANGED friend_request
      BY <2>2 DEF get_pending_friend_requests, tables
    <3>4. QED
      BY <3>1, <3>2, <3>3 DEF Covered, Pending, RequestsFrom, Me
  <2>3. QED
    BY <1>0, <2>1, <2>2, WhoReads
<1>2. ShownCovers'
  <2> SUFFICES ASSUME NEW d \in Device, d \in synced', ReachedAt(d)'
               PROVE  Covered(d, {})'
    BY DEF ShownCovers
  <2>1. d \in connected'
    BY DEF ReachedAt
  <2>2. ASSUME NEW w \in Worker, attach_session(w), packet[w].device = d
        PROVE  FALSE
    BY <2>2 DEF attach_session
  <2>3. ReachedAt(d)
    BY <1>0, <2>2, WhoIsReached
  <2>4. CASE d \in synced
    <3>1. Covered(d, {})
      BY <2>3, <2>4 DEF ShownInv, ShownCovers
    <3>2. QED
      BY <1>0, <2>1, <2>3, <3>1, CoverStays
  <2>5. ASSUME NEW w \in Worker, send_pending(w), packet[w].device = d
        PROVE  Covered(d, {})'
    <3>1. Covered(d, fetched[w])
      BY <2>3, <2>5 DEF ShownInv, ListCovers, send_pending
    <3>2. fetched[w] \subseteq shown'[d] \cup {}
      BY <2>3, <2>5 DEF send_pending, ReachedAt
    <3>3. QED
      BY <1>0, <2>1, <2>3, <3>1, <3>2, CoverStays
  <2>6. QED
    BY <1>0, <2>4, <2>5, WhoSends
<1>3. QED
  BY <1>0, <1>1, <1>2 DEF ShownInv

\* A device its user is reached at, once it was sent the list, was shown every
\* pending request to its user except one that is about to be pushed.
THEOREM RequestsShown == Spec => []NoRequestMissed
  BY ShownInit, ShownNext, ShownImply, PTL DEF Spec

------------------------------------------------------------------------------
(* Mutual consent. *)

\* A handler that asks or answers is about another user.
Strangers ==
  \A w \in Worker :
    pc[w] \in {"has_pending_friend_request", "insert_request", "update_request"} =>
      Me(w) # Other(w)

LEMMA StrangersStay == TypeOK /\ Strangers /\ [Next]_vars => Strangers'
<1> SUFFICES ASSUME TypeOK, Strangers, [Next]_vars, NEW w \in Worker,
                    pc'[w] \in {"has_pending_friend_request", "insert_request", "update_request"}
             PROVE  Me(w)' # Other(w)'
  BY DEF Strangers
<1>1. CASE Rests(w)
  BY <1>1 DEF Rests, Strangers, Me, Other
<1>2. CASE UNCHANGED vars \/ \E d \in Device : connect(d) \/ disconnect(d)
  BY <1>1, <1>2 DEF vars, workers, connect, disconnect, Rests
<1>3. CASE process(w)
  <2>1. PICK p \in Packet : /\ packet' = [packet EXCEPT ![w] = p]
                           /\ pc' = [pc EXCEPT ![w] = FirstStep(p.type)]
                           /\ (p.type = "login" <=> p.other = UserOf[p.device])
    BY <1>3 DEF process
  <2>2. p.type # "login"
    BY <2>1 DEF FirstStep, TypeOK
  <2>3. packet'[w] = p /\ p.other # UserOf[p.device]
    BY <2>1, <2>2 DEF TypeOK
  <2>4. QED
    BY <2>3 DEF Me, Other
<1>4. CASE friend_req_request(w) \/ friend_req_response(w) \/ login(w)
  <2>1. ~Return(w)
    BY DEF Return, TypeOK
  <2>2. has_pending_friend_request(w) /\ Goto(w, "insert_request")
    BY <1>4, <2>1 DEF friend_req_request, has_pending_friend_request, insert_request,
       send_to_user, friend_req_response, update_request, select_request, insert_friend,
       insert_mirror, fail_response, login, attach_session, get_pending_friend_requests,
       send_pending, Goto, TypeOK
  <2>3. QED
    BY <2>2 DEF has_pending_friend_request, At, Goto, Strangers, Me, Other
<1>5. ~exit
  BY DEF exit
<1>6. QED
  BY <1>1, <1>2, <1>3, <1>4, <1>5, MovesAlone DEF Next

Asked ==
  {<<friend_request[k].sender, friend_request[k].receiver>> : k \in DOMAIN friend_request}
Befriended == {<<f.user_id, f.friend_id>> : f \in friendship}

\* The three statements that change the tables ask, agree and befriend.
LEMMA InsertAsks ==
  ASSUME TypeOK, Strangers, NEW w \in Worker, insert_request(w)
  PROVE  [Consent!ConsentNext]_(Consent!consentVars)
<1> DEFINE row == [sender |-> Me(w), receiver |-> Other(w), request_status |-> "pending"]
<1>1. PICK s \in User, r \in User : s = Me(w) /\ r = Other(w) /\ s # r
  BY PacketsOf DEF insert_request, At, Strangers
<1>2. UNCHANGED <<accepted, Befriended>>
  BY DEF insert_request, history, Befriended
<1>3. CASE friend_request' = Append(friend_request, row)
  <2>1. row \in RequestRow
    BY <1>1 DEF RequestRow, Status
  <2>2. /\ friend_request' \in Seq(RequestRow) /\ Len(friend_request') = Len(friend_request) + 1
        /\ \A j \in 1..Len(friend_request) : friend_request'[j] = friend_request[j]
        /\ friend_request'[Len(friend_request) + 1] = row
    BY <1>3, <2>1 DEF TypeOK
  <2>3. DOMAIN friend_request' = DOMAIN friend_request \cup {Len(friend_request) + 1}
    BY <2>2, RowsOfRequests DEF TypeOK
  <2>4. Asked' = Asked \cup {<<s, r>>}
    <3>1. Asked' = {<<friend_request'[k].sender, friend_request'[k].receiver>> :
                      k \in DOMAIN friend_request} \cup {<<row.sender, row.receiver>>}
      BY <2>2, <2>3 DEF Asked
    <3>2. \A k \in DOMAIN friend_request : friend_request'[k] = friend_request[k]
      BY <2>2, RowsOfRequests DEF TypeOK
    <3>3. QED
      BY <1>1, <3>1, <3>2 DEF Asked
  <2>5. Consent!Ask(s, r)
    BY <1>1, <1>2, <2>4 DEF Consent!Ask, Asked, Befriended
  <2>6. QED
    BY <1>1, <2>5 DEF Consent!ConsentNext
<1>4. CASE UNCHANGED friend_request
  BY <1>2, <1>4 DEF Befriended, Consent!consentVars
<1>5. QED
  BY <1>3, <1>4 DEF insert_request

LEMMA UpdateAgrees ==
  ASSUME TypeOK, Strangers, NEW w \in Worker, update_request(w)
  PROVE  [Consent!ConsentNext]_(Consent!consentVars)
<1>1. PICK s \in User, r \in User : s = Other(w) /\ r = Me(w) /\ s # r
  BY PacketsOf DEF update_request, At, Strangers
<1>2. Asked' = Asked
  <2>1. friend_request' = Answered(w)
    BY DEF update_request, Answered
  <2>2. \A k \in DOMAIN friend_request : /\ Answered(w)[k].sender = friend_request[k].sender
                                       /\ Answered(w)[k].receiver = friend_request[k].receiver
    BY RowsOfRequests DEF Answered, TypeOK, RequestRow
  <2>3. DOMAIN Answered(w) = DOMAIN friend_request
    BY DEF Answered
  <2>4. QED
    BY <2>1, <2>2, <2>3 DEF Asked
<1>3. Befriended' = Befriended
  BY DEF update_request, Befriended
<1>4. CASE packet[w].type = "accept"
  <2>1. Consent!Agree(s, r)
    BY <1>1, <1>2, <1>3, <1>4 DEF update_request, Consent!Agree, Asked, Befriended
  <2>2. QED
    BY <1>1, <2>1 DEF Consent!ConsentNext
<1>5. CASE packet[w].type # "accept"
  BY <1>2, <1>3, <1>5 DEF update_request, Asked, Befriended, Consent!consentVars
<1>6. QED
  BY <1>4, <1>5

LEMMA InsertBefriends ==
  ASSUME FriendsInv, NEW w \in Worker, insert_friend(w) \/ insert_mirror(w)
  PROVE  Consent!ConsentNext
<1>1. PICK s \in User, r \in User : s = Other(w) /\ r = Me(w)
  BY PacketsOf DEF FriendsInv, ConsentInv, insert_friend, insert_mirror, At
<1>2. <<s, r>> \in Asked \cap accepted
  BY <1>1 DEF FriendsInv, ConsentInv, AboutToBefriend, AcceptedAt, RequestsFrom, Asked,
     insert_friend, insert_mirror, At
<1>3. UNCHANGED <<Asked, accepted>>
  BY DEF insert_friend, insert_mirror, history, Asked
<1>4. \/ Befriended' = Befriended \cup {<<r, s>>}
      \/ <<r, s>> \in Befriended /\ Befriended' = Befriended \cup {<<s, r>>}
  <2>1. ASSUME NEW id, NEW u, NEW f, Befriend(id, u, f)
        PROVE  Befriended' = Befriended \cup {<<u, f>>}
    <3> DEFINE row == [friendship_id |-> id, user_id |-> u, friend_id |-> f]
    <3>1. friendship' = friendship \cup {row}
      BY <2>1 DEF Befriend
    <3>2. Befriended' = Befriended \cup {<<row.user_id, row.friend_id>>}
      <4> HIDE DEF row
      <4> QED
        BY <3>1 DEF Befriended
    <3>3. QED
      BY <3>2
  <2>2. insert_friend(w) => Befriended' = Befriended \cup {<<r, s>>}
    BY <1>1, <2>1 DEF insert_friend
  <2>3. insert_mirror(w) => Befriended' = Befriended \cup {<<s, r>>}
    BY <1>1, <2>1 DEF insert_mirror
  <2>4. insert_mirror(w) => <<r, s>> \in Befriended
    <3>1. insert_mirror(w) => RowOf(w) \in friendship
      BY DEF insert_mirror, FriendsInv, HalfDone
    <3>2. RowOf(w).user_id = r /\ RowOf(w).friend_id = s
      BY <1>1 DEF RowOf
    <3>3. QED
      BY <3>1, <3>2 DEF Befriended
  <2>5. QED
    BY <2>2, <2>3, <2>4
<1>5. Consent!Befriend(s, r)
  BY <1>2, <1>3, <1>4 DEF Consent!Befriend, Asked, Befriended
<1>6. QED
  BY <1>1, <1>5 DEF Consent!ConsentNext

LEMMA StepConsents ==
  FriendsInv /\ Strangers /\ [Next]_vars => [Consent!ConsentNext]_(Consent!consentVars)
<1> SUFFICES ASSUME FriendsInv, Strangers, [Next]_vars
             PROVE  [Consent!ConsentNext]_(Consent!consentVars)
  OBVIOUS
<1>0. TypeOK
  BY DEF FriendsInv, ConsentInv
<1>1. UNCHANGED <<friend_request, friendship, accepted>> => UNCHANGED Consent!consentVars
  BY DEF Consent!consentVars
<1>2. QED
  BY <1>0, <1>1, InsertAsks, UpdateAgrees, InsertBefriends DEF Next, connect, disconnect, process,
     friend_req_request, has_pending_friend_request, send_to_user, friend_req_response,
     select_request, fail_response, login, attach_session, get_pending_friend_requests,
     send_pending, exit, tables, history, vars

\* The two tables implement mutual consent: nobody becomes a friend before one of
\* the two has asked and the other has agreed, the one who agreed has the other
\* as a friend first, and no friend is lost.
THEOREM ConsentImplemented == Spec => ImplementsConsent
<1>1. Init => Strangers
  BY DEF Init, Strangers
<1>2. Init => Consent!ConsentInit
  BY DEF Init, Consent!ConsentInit
<1>3. QED
  BY <1>1, <1>2, FriendsInit, FriendsNext, StrangersStay, StepConsents, PTL
     DEF Spec, ImplementsConsent, Consent!ConsentSpec, FriendsInv, ConsentInv

------------------------------------------------------------------------------
(* One pending request, if one worker serves all devices of a user. *)

UserPinned == \A d, e \in Device : UserOf[d] = UserOf[e] => WorkerOf[d] = WorkerOf[e]

\* What the check has found free stays so until the insert.
FreeWhenInserted == \A w \in Worker : At(w, "insert_request") => ~Pending(Me(w), Other(w))

OnceInv == TypeOK /\ Pinned /\ FreeWhenInserted /\ OnePendingRequest

\* Two workers never act for the same user.
LEMMA UsersApart ==
  ASSUME UserPinned, TypeOK, Pinned, NEW v \in Worker, NEW w \in Worker,
         ~At(v, "idle"), ~At(w, "idle"), Me(v) = Me(w)
  PROVE  v = w
<1>1. /\ packet[v].device \in Device /\ WorkerOf[packet[v].device] = v
      /\ packet[w].device \in Device /\ WorkerOf[packet[w].device] = w
  BY PacketsOf DEF Pinned, TypeOK
<1>2. QED
  BY <1>1 DEF UserPinned, Me

\* Who arrives at the insert has just found that no request is pending.
LEMMA WhoInserts ==
  ASSUME TypeOK, [Next]_vars, NEW w \in Worker, At(w, "insert_request")'
  PROVE  \/ Rests(w)
         \/ ~Pending(Me(w), Other(w))' /\ UNCHANGED friend_request
<1>1. CASE process(w)
  <2>1. PICK p \in Packet : pc' = [pc EXCEPT ![w] = FirstStep(p.type)]
    BY <1>1 DEF process
  <2>2. p.type \in {"login", "request", "accept", "reject"}
    BY DEF Packet
  <2>3. QED
    BY <2>1, <2>2 DEF FirstStep, TypeOK, At
<1>2. CASE friend_req_request(w) \/ friend_req_response(w) \/ login(w)
  <2>1. ~Return(w)
    BY DEF Return, TypeOK, At
  <2>2. has_pending_friend_request(w) /\ Goto(w, "insert_request")
    BY <1>2, <2>1 DEF friend_req_request, has_pending_friend_request, insert_request,
       send_to_user, friend_req_response, update_request, select_request, insert_friend,
       insert_mirror, fail_response, login, attach_session, get_pending_friend_requests,
       send_pending, Goto, TypeOK, At
  <2>3. pc'[w] # "send_to_user" /\ packet' = packet
    BY <2>2 DEF Goto, TypeOK
  <2>4. ~Goto(w, "send_to_user")
    BY <2>3 DEF Goto, TypeOK
  <2>5. QED
    BY <2>2, <2>3, <2>4 DEF has_pending_friend_request, tables, Pending, RequestsFrom, Me, Other
<1>3. CASE UNCHANGED vars \/ \E d \in Device : connect(d) \/ disconnect(d)
  BY <1>3 DEF vars, workers, connect, disconnect, Rests
<1>4. ~exit
  BY DEF exit, At
<1>5. QED
  BY <1>1, <1>2, <1>3, <1>4, MovesAlone DEF Next

LEMMA FreeStays ==
  ASSUME UserPinned, OnceInv, [Next]_vars
  PROVE  FreeWhenInserted'
<1> SUFFICES ASSUME NEW w \in Worker, At(w, "insert_request")', Pending(Me(w), Other(w))'
             PROVE  FALSE
  BY DEF FreeWhenInserted
<1>0. TypeOK /\ TypeOK' /\ Pinned
  BY TypeNext DEF OnceInv
<1>1. Rests(w) /\ At(w, "insert_request")
  BY <1>0, WhoInserts DEF Rests, At
<1>2. PICK s \in User, r \in User : s = Me(w) /\ r = Other(w)
  BY <1>0, <1>1, PacketsOf DEF At
<1>3. ~Pending(s, r)
  BY <1>1, <1>2 DEF OnceInv, FreeWhenInserted
<1>4. Pending(s, r)'
  BY <1>1, <1>2 DEF Rests, Me, Other
<1>5. PICK v \in Worker : insert_request(v) /\ Me(v) = s
  BY <1>0, <1>3, <1>4, WhoAdds
<1>6. v = w
  BY <1>0, <1>1, <1>2, <1>5, UsersApart DEF insert_request, At
<1>7. pc'[w] = "send_to_user"
  BY <1>0, <1>5, <1>6 DEF insert_request, Goto, TypeOK
<1>8. QED
  BY <1>1, <1>7 DEF Rests, At

LEMMA OnceStays ==
  ASSUME OnceInv, [Next]_vars
  PROVE  OnePendingRequest'
<1>0. TypeOK
  BY DEF OnceInv
<1>1. CASE UNCHANGED friend_request
  BY <1>1 DEF OnceInv, OnePendingRequest
<1>2. ASSUME NEW w \in Worker, insert_request(w), ~UNCHANGED friend_request
      PROVE  OnePendingRequest'
  <2> DEFINE row == [sender |-> Me(w), receiver |-> Other(w), request_status |-> "pending"]
             n == Len(friend_request)
  <2>1. row \in RequestRow /\ friend_request' = Append(friend_request, row)
    BY <1>0, <1>2, PacketsOf DEF insert_request, At, RequestRow, Status
  <2>2. /\ n \in Nat /\ DOMAIN friend_request = 1..n /\ DOMAIN friend_request' = 1..(n + 1)
        /\ \A j \in 1..n : friend_request'[j] = friend_request[j]
        /\ friend_request'[n + 1] = row
    BY <1>0, <2>1 DEF TypeOK
  <2>3. \A j \in 1..n : friend_request[j] # row
    BY <1>2, <2>2 DEF OnceInv, FreeWhenInserted, insert_request, Pending, RequestsFrom
  <2>4. QED
    BY <2>2, <2>3 DEF OnceInv, OnePendingRequest
<1>3. ASSUME NEW w \in Worker, update_request(w)
      PROVE  OnePendingRequest'
  <2>1. friend_request' = Answered(w)
    BY <1>3 DEF update_request, Answered
  <2>2. DOMAIN Answered(w) = DOMAIN friend_request
    BY DEF Answered
  <2>3. \A k \in DOMAIN friend_request :
          Answered(w)[k].request_status = "pending" => Answered(w)[k] = friend_request[k]
    BY <1>0, RowsOfRequests DEF Answered, RequestRow, TypeOK
  <2>4. QED
    BY <2>1, <2>2, <2>3 DEF OnceInv, OnePendingRequest
<1>4. QED
  BY <1>1, <1>2, <1>3 DEF Next, connect, disconnect, process, friend_req_request,
     has_pending_friend_request, send_to_user, friend_req_response, select_request, insert_friend,
     insert_mirror, fail_response, login, attach_session, get_pending_friend_requests,
     send_pending, exit, tables, vars

\* The check before the insert is enough when one worker serves all the devices of
\* a user, as it is when the server has one worker: then no pending request is
\* stored again.  The run friendship_twice shows that it is not enough otherwise.
THEOREM OncePinned == ASSUME UserPinned PROVE Spec => []OnePendingRequest
<1>1. Init => OnceInv
  BY TypeInit DEF Init, OnceInv, Pinned, FreeWhenInserted, OnePendingRequest, At
<1>2. OnceInv /\ [Next]_vars => OnceInv'
  BY TypeNext, PinnedStays, FreeStays, OnceStays DEF OnceInv
<1>3. OnceInv => OnePendingRequest
  BY DEF OnceInv
<1>4. QED
  BY <1>1, <1>2, <1>3, PTL DEF Spec
==============================================================================
