----------------------------- MODULE Friendship ------------------------------
(***************************************************************************)
(* Friend requests and friendships: the tables friend_request and          *)
(* friendship, and the handlers that change them statement by statement,   *)
(* MessageHandler::friend_req_request and friend_req_response.  No two     *)
(* statements are one transaction: other workers run theirs in between,    *)
(* any of them may fail, and the process may end.                          *)
(*                                                                         *)
(* Users are reached at one device at a time, the one attached last        *)
(* (UserSessionManager), and a device is pinned to one worker.  Of what a  *)
(* login sends, the list of pending requests is modelled, as chat history  *)
(* is in BingoServer: attach first, read, send.                            *)
(***************************************************************************)
EXTENDS Naturals, Sequences

CONSTANTS
  User,         \* registered users
  Device,       \* devices, each with one connection at a time
  NoDevice,     \* a user who is not online
  UserOf,       \* Device -> User
  Worker,       \* worker threads
  WorkerOf,     \* Device -> Worker
  MaxPackets,   \* bound: packets handled in the life of the system
  MaxExits      \* bound: times the process ends and is started again

ASSUME FriendshipAssumption ==
  /\ NoDevice \notin Device
  /\ UserOf \in [Device -> User]
  /\ WorkerOf \in [Device -> Worker]
  /\ MaxPackets \in Nat /\ MaxExits \in Nat

VARIABLES
  friend_request,  \* the table, in the order of request_id
  friendship,      \* the table; a row that is stored twice is one element
  connected,       \* the devices that have a connection
  session,         \* the device each user is reached at, or NoDevice
  pc,              \* the step each worker takes next, "idle" between packets
  packet,          \* the packet each worker holds, NoPacket when idle
  request_id,      \* the local of friend_req_response; 0 stands for its -1
  fetched,         \* the senders each worker has read for a login
  shown,           \* device -> the users whose requests it was shown
  synced,          \* devices that were sent the list since they attached
  packets,         \* packets taken so far
  exits,           \* how often the process has ended
  accepted,        \* <<sender, receiver>>: the receiver has accepted
  cut              \* <<sender, receiver>>: an acceptance was not completed

tables == <<friend_request, friendship>>
network == <<connected, session>>
workers == <<pc, packet, request_id, fetched>>
clients == <<shown, synced>>
bounds == <<packets, exits>>
history == <<accepted, cut>>
vars == <<tables, network, workers, clients, bounds, history>>

Status == {"pending", "accepted", "rejected"}
RequestRow == [sender : User, receiver : User, request_status : Status]
FriendRow == [friendship_id : Nat, user_id : User, friend_id : User]

\* A packet comes from a device and is about another user.
Packet == [type : {"login", "request", "accept", "reject"}, device : Device, other : User]
NoPacket == [type |-> "none"]

Me(w) == UserOf[packet[w].device]
Other(w) == packet[w].other

\* The identifiers of the requests from s to r.
RequestsFrom(s, r) ==
  {k \in DOMAIN friend_request :
     friend_request[k].sender = s /\ friend_request[k].receiver = r}

Pending(s, r) ==
  \E k \in RequestsFrom(s, r) : friend_request[k].request_status = "pending"

Init ==
  /\ friend_request = << >>
  /\ friendship = {}
  /\ connected = {}
  /\ session = [u \in User |-> NoDevice]
  /\ pc = [w \in Worker |-> "idle"]
  /\ packet = [w \in Worker |-> NoPacket]
  /\ request_id = [w \in Worker |-> 0]
  /\ fetched = [w \in Worker |-> {}]
  /\ shown = [d \in Device |-> {}]
  /\ synced = {}
  /\ packets = 0
  /\ exits = 0
  /\ accepted = {}
  /\ cut = {}

------------------------------------------------------------------------------
(* The network. *)

Forget(d) ==
  session' = [u \in User |-> IF session[u] = d THEN NoDevice ELSE session[u]]

\* A new connection of d has an address of its own, at which the user is not reached
\* before he logs in again.  The logins of the last one are over by then (BingoServer
\* has the late ones); friend packets name users, and may be handled at any time.
connect(d) ==
  /\ d \notin connected
  /\ \A w \in Worker : packet[w].type = "login" => packet[w].device # d
  /\ connected' = connected \cup {d}
  /\ Forget(d)
  /\ UNCHANGED <<tables, workers, clients, bounds, history>>

disconnect(d) ==
  /\ d \in connected
  /\ connected' = connected \ {d}
  /\ Forget(d)
  /\ shown' = [shown EXCEPT ![d] = {}]
  /\ synced' = synced \ {d}
  /\ UNCHANGED <<tables, workers, bounds, history>>

------------------------------------------------------------------------------
(* The workers. *)

At(w, place) == pc[w] = place

Goto(w, place) ==
  /\ pc' = [pc EXCEPT ![w] = place]
  /\ UNCHANGED packet

\* The handler returns; its locals are gone.
Return(w) ==
  /\ pc' = [pc EXCEPT ![w] = "idle"]
  /\ packet' = [packet EXCEPT ![w] = NoPacket]
  /\ request_id' = [request_id EXCEPT ![w] = 0]
  /\ fetched' = [fetched EXCEPT ![w] = {}]

\* The first step of the handler of a packet.
FirstStep(type) ==
  CASE type = "login"                -> "attach_session"
    [] type = "request"              -> "has_pending_friend_request"
    [] type \in {"accept", "reject"} -> "update_request"

\* A packet from one of the devices pinned to w is taken from the queue; the
\* connection it came over may have closed since.  A search never finds its own
\* user, so nobody asks or answers himself.
process(w) ==
  /\ At(w, "idle")
  /\ packets < MaxPackets
  /\ packets' = packets + 1
  /\ \E p \in Packet :
       /\ WorkerOf[p.device] = w
       /\ p.type = "login" <=> p.other = UserOf[p.device]
       /\ packet' = [packet EXCEPT ![w] = p]
       /\ pc' = [pc EXCEPT ![w] = FirstStep(p.type)]
  /\ UNCHANGED <<tables, network, request_id, fetched, clients, exits, history>>

------------------------------------------------------------------------------
(* friend_req_request *)

\* The request is stored unless one is pending.  It is pushed in either case,
\* also if the query fails.
has_pending_friend_request(w) ==
  /\ At(w, "has_pending_friend_request")
  /\ \/ ~Pending(Me(w), Other(w)) /\ Goto(w, "insert_request")
     \/ Goto(w, "send_to_user")
  /\ UNCHANGED <<tables, network, request_id, fetched, clients, bounds, history>>

\* The row is stored, or the statement fails.
insert_request(w) ==
  /\ At(w, "insert_request")
  /\ friend_request' \in
       {friend_request,
        Append(friend_request,
               [sender |-> Me(w), receiver |-> Other(w), request_status |-> "pending"])}
  /\ Goto(w, "send_to_user")
  /\ UNCHANGED <<friendship, network, request_id, fetched, clients, bounds, history>>

\* The request is pushed to the device the receiver is reached at, if any.
send_to_user(w) ==
  /\ At(w, "send_to_user")
  /\ shown' = [d \in Device |-> IF d = session[Other(w)] /\ d \in connected
                                THEN shown[d] \cup {Me(w)} ELSE shown[d]]
  /\ Return(w)
  /\ UNCHANGED <<tables, network, synced, bounds, history>>

------------------------------------------------------------------------------
(* friend_req_response *)

\* An acceptance that stops here will not make the two friends.
Cut(w) ==
  cut' = IF packet[w].type = "accept" THEN cut \cup {<<Other(w), Me(w)>>} ELSE cut

\* Every request from the other user is answered, the old ones too.
update_request(w) ==
  /\ At(w, "update_request")
  /\ friend_request' =
       [k \in DOMAIN friend_request |->
          IF k \in RequestsFrom(Other(w), Me(w))
          THEN [friend_request[k] EXCEPT
                  !.request_status = IF packet[w].type = "accept"
                                     THEN "accepted" ELSE "rejected"]
          ELSE friend_request[k]]
  /\ accepted' = IF packet[w].type = "accept"
                 THEN accepted \cup {<<Other(w), Me(w)>>} ELSE accepted
  /\ Goto(w, "select_request")
  /\ UNCHANGED <<friendship, network, request_id, fetched, clients, bounds, cut>>

\* Mutants: the sender and the receiver are bound the wrong way round; that
\* there is no such request is not checked.
select_request_Swapped(w) ==
  /\ At(w, "select_request")
  /\ \/ /\ packet[w].type = "accept"
        /\ \E k \in RequestsFrom(Me(w), Other(w)) :
             request_id' = [request_id EXCEPT ![w] = k]
        /\ Goto(w, "insert_friend")
        /\ UNCHANGED fetched
     \/ /\ packet[w].type = "reject" \/ RequestsFrom(Me(w), Other(w)) = {}
        /\ Return(w)
  /\ UNCHANGED <<tables, network, clients, bounds, history>>

select_request_Unchecked(w) ==
  /\ At(w, "select_request")
  /\ \/ /\ packet[w].type = "accept"
        /\ \E k \in RequestsFrom(Other(w), Me(w)) \cup {0} :
             request_id' = [request_id EXCEPT ![w] = k]
        /\ Goto(w, "insert_friend")
        /\ UNCHANGED fetched
     \/ packet[w].type = "reject" /\ Return(w)
  /\ UNCHANGED <<tables, network, clients, bounds, history>>

\* One request is fetched, whichever the database returns first.  Without one,
\* and for a rejection, the handler is done.
select_request(w) ==
  /\ At(w, "select_request")
  /\ \/ /\ packet[w].type = "accept"
        /\ \E k \in RequestsFrom(Other(w), Me(w)) :
             request_id' = [request_id EXCEPT ![w] = k]
        /\ Goto(w, "insert_friend")
        /\ UNCHANGED fetched
     \/ /\ packet[w].type = "reject" \/ RequestsFrom(Other(w), Me(w)) = {}
        /\ Return(w)
  /\ UNCHANGED <<tables, network, clients, bounds, history>>

Befriend(id, u, f) ==
  friendship' = friendship \cup {[friendship_id |-> id, user_id |-> u, friend_id |-> f]}

\* Mutant: the handler stops after the row of the accepting user.
insert_friend_OneWay(w) ==
  /\ At(w, "insert_friend")
  /\ Befriend(request_id[w], Me(w), Other(w))
  /\ Return(w)
  /\ UNCHANGED <<friend_request, network, clients, bounds, history>>

insert_friend(w) ==
  /\ At(w, "insert_friend")
  /\ Befriend(request_id[w], Me(w), Other(w))
  /\ Goto(w, "insert_mirror")
  /\ UNCHANGED <<friend_request, network, request_id, fetched, clients, bounds, history>>

insert_mirror(w) ==
  /\ At(w, "insert_mirror")
  /\ Befriend(request_id[w], Other(w), Me(w))
  /\ Return(w)
  /\ UNCHANGED <<friend_request, network, clients, bounds, history>>

\* Any statement may fail: the error is logged and the rest is not done.
fail_response(w) ==
  /\ pc[w] \in {"update_request", "select_request", "insert_friend", "insert_mirror"}
  /\ Cut(w)
  /\ Return(w)
  /\ UNCHANGED <<tables, network, clients, bounds, accepted>>

------------------------------------------------------------------------------
(* What a login does for friend requests. *)

attach_session(w) ==
  /\ At(w, "attach_session")
  /\ session' = [session EXCEPT ![Me(w)] = packet[w].device]
  /\ synced' = synced \ {packet[w].device}
  /\ Goto(w, "get_pending_friend_requests")
  /\ UNCHANGED <<tables, connected, request_id, fetched, shown, bounds, history>>

\* Mutant: the requests the user has sent.
get_pending_friend_requests_Sent(w) ==
  /\ At(w, "get_pending_friend_requests")
  /\ fetched' = [fetched EXCEPT ![w] = {s \in User : Pending(Me(w), s)}]
  /\ Goto(w, "send_pending")
  /\ UNCHANGED <<tables, network, request_id, clients, bounds, history>>

\* The list is read, or the query fails and nothing is sent.
get_pending_friend_requests(w) ==
  /\ At(w, "get_pending_friend_requests")
  /\ \/ /\ fetched' = [fetched EXCEPT ![w] = {s \in User : Pending(s, Me(w))}]
        /\ Goto(w, "send_pending")
        /\ UNCHANGED request_id
     \/ Return(w)
  /\ UNCHANGED <<tables, network, clients, bounds, history>>

send_pending(w) ==
  /\ At(w, "send_pending")
  /\ LET D == {packet[w].device} \cap connected IN
       /\ shown' = [d \in Device |-> IF d \in D THEN shown[d] \cup fetched[w] ELSE shown[d]]
       /\ synced' = synced \cup D
  /\ Return(w)
  /\ UNCHANGED <<tables, network, bounds, history>>

------------------------------------------------------------------------------
\* The process ends and is started again: the tables stay, nothing else does.
exit ==
  /\ exits < MaxExits
  /\ exits' = exits + 1
  /\ cut' = cut \cup {<<Other(w), Me(w)>> :
                        w \in {v \in Worker : packet[v].type = "accept"}}
  /\ connected' = {}
  /\ session' = [u \in User |-> NoDevice]
  /\ pc' = [w \in Worker |-> "idle"]
  /\ packet' = [w \in Worker |-> NoPacket]
  /\ request_id' = [w \in Worker |-> 0]
  /\ fetched' = [w \in Worker |-> {}]
  /\ shown' = [d \in Device |-> {}]
  /\ synced' = {}
  /\ UNCHANGED <<tables, packets, accepted>>

friend_req_request(w) ==
  has_pending_friend_request(w) \/ insert_request(w) \/ send_to_user(w)

friend_req_response(w) ==
  \/ update_request(w) \/ select_request(w) \/ insert_friend(w) \/ insert_mirror(w)
  \/ fail_response(w)

login(w) ==
  attach_session(w) \/ get_pending_friend_requests(w) \/ send_pending(w)

Next ==
  \/ \E d \in Device : connect(d) \/ disconnect(d)
  \/ \E w \in Worker :
       process(w) \/ friend_req_request(w) \/ friend_req_response(w) \/ login(w)
  \/ exit

Spec == Init /\ [][Next]_vars

------------------------------------------------------------------------------
Place == {"idle", "has_pending_friend_request", "insert_request", "send_to_user",
          "update_request", "select_request", "insert_friend", "insert_mirror",
          "attach_session", "get_pending_friend_requests", "send_pending"}

\* The tables hold rows, a friendship has the identifier of a request, and a
\* worker that is about to insert a friendship has one.
TypeOK ==
  /\ friend_request \in Seq(RequestRow)
  /\ friendship \subseteq FriendRow
  /\ \A f \in friendship : f.friendship_id \in DOMAIN friend_request
  /\ connected \subseteq Device
  /\ session \in [User -> Device \cup {NoDevice}]
  /\ pc \in [Worker -> Place]
  /\ packet \in [Worker -> Packet \cup {NoPacket}]
  /\ \A w \in Worker : At(w, "idle") <=> packet[w] = NoPacket
  /\ request_id \in [Worker -> {0} \cup DOMAIN friend_request]
  /\ \A w \in Worker : request_id[w] # 0 <=> pc[w] \in {"insert_friend", "insert_mirror"}
  /\ fetched \in [Worker -> SUBSET User]
  /\ shown \in [Device -> SUBSET User]
  /\ synced \subseteq Device
  /\ packets \in 0..MaxPackets
  /\ exits \in 0..MaxExits
  /\ accepted \subseteq User \X User
  /\ cut \subseteq User \X User

\* Nobody becomes a friend without consent: each row of friendship carries the
\* identifier of a request between the two, and the receiver of that request has
\* accepted the sender.  Requests cross, are answered twice, from two devices and
\* by two workers, and the request fetched may be any of several.
BefriendedByConsent ==
  \A f \in friendship :
    LET r == friend_request[f.friendship_id] IN
      /\ {r.sender, r.receiver} = {f.user_id, f.friend_id}
      /\ <<r.sender, r.receiver>> \in accepted

\* What a user accepts takes effect for both: an accepted request has both rows of
\* friendship, with one identifier, unless its handler is still at work, a
\* statement of it failed or the process ended in it.
Mutual(u, f) ==
  \E id \in DOMAIN friend_request :
    {[friendship_id |-> id, user_id |-> u, friend_id |-> f],
     [friendship_id |-> id, user_id |-> f, friend_id |-> u]} \subseteq friendship

AcceptedMeansFriends ==
  \A k \in DOMAIN friend_request :
    LET s == friend_request[k].sender
        r == friend_request[k].receiver
    IN  friend_request[k].request_status = "accepted" =>
          \/ Mutual(s, r)
          \/ <<s, r>> \in cut
          \/ \E w \in Worker :
               /\ pc[w] \in {"select_request", "insert_friend", "insert_mirror"}
               /\ Me(w) = r /\ Other(w) = s

\* No request is missed: a device its user is reached at, once it was sent the
\* list, was shown every pending request to its user, in the list or by a push,
\* except one that is about to be pushed.
NoRequestMissed ==
  \A d \in connected \cap synced : session[UserOf[d]] = d =>
    \A s \in User : Pending(s, UserOf[d]) =>
      \/ s \in shown[d]
      \/ \E w \in Worker :
           At(w, "send_to_user") /\ Me(w) = s /\ Other(w) = UserOf[d]

\* A request that is pending is not stored again (the comment at
\* src/message_handler.cpp:421: "already have pending friend request").
OnePendingRequest ==
  \A j, k \in DOMAIN friend_request :
    /\ friend_request[j] = friend_request[k]
    /\ friend_request[j].request_status = "pending"
    => j = k

\* The two tables, whose rows are written one by one, implement consent that is
\* mutual: no row of friendship appears before there is a request and its
\* acceptance, the sender's never before the receiver's, and none disappears.
Consent == INSTANCE MutualConsent WITH
  asked <- {<<friend_request[k].sender, friend_request[k].receiver>> :
              k \in DOMAIN friend_request},
  agreed <- accepted,
  friends <- {<<f.user_id, f.friend_id>> : f \in friendship}

ImplementsConsent == Consent!ConsentSpec
==============================================================================
