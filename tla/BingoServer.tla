----------------------------- MODULE BingoServer -----------------------------
(***************************************************************************)
(* The server as its threads run it: the event loop of src/server.cpp,     *)
(* which reports opened and closed sockets and routes each packet to the   *)
(* queue of one worker; the workers of src/message_processor.cpp, which    *)
(* take packets one at a time and run their handlers; the registry of      *)
(* online users they share (UserSessionManager); and the table of chat     *)
(* messages in the database, which outlives the process.                   *)
(*                                                                         *)
(* A handler is not atomic: between two of its steps (a query, a call of   *)
(* the registry, a send) the event loop and the other workers run.  Each   *)
(* such step is an action, named for what it does, and pc tells where a    *)
(* worker is.  The queue is the one WorkQueue specifies.                   *)
(*                                                                         *)
(* A worker holds the address of a socket, not the connection: what it     *)
(* sends reaches whichever connection is at that address then, or nobody.  *)
(* (After a close the address is freed memory, where sending is undefined; *)
(* a crash on it is the action exit.)                                      *)
(***************************************************************************)
EXTENDS UserSessionManager, Sequences

CONSTANTS
  Conn,         \* connections, in the life of the system
  NoConn,       \* nobody is connected at an address
  Account,      \* Conn -> the users a connection's client can log in as
  NoUser,       \* a client that has not been told it is logged in
  Worker,       \* worker threads
  WorkerOf,     \* WebSocket -> Worker: the hash of the address, modulo workers
  Requests,     \* the types of packets clients send (a subset of PacketType)
  ClosesEarly,  \* TRUE if a client may go away with packets still unanswered
  MaxPackets,   \* bound: packets sent on one connection
  MaxExits      \* bound: times the process ends and is started again

PacketType == {"login", "reconnect", "logout", "chat", "unknown"}

ASSUME ServerAssumption ==
  /\ NoConn \notin Conn
  /\ NoUser \notin UserID
  /\ Account \in [Conn -> SUBSET UserID]
  /\ WorkerOf \in [WebSocket -> Worker]
  /\ Requests \subseteq PacketType
  /\ ClosesEarly \in BOOLEAN
  /\ MaxPackets \in Nat /\ MaxExits \in Nat

VARIABLES
  state,         \* "new", "open" or "closed", for every connection
  conn_at,       \* the connection at each address, or NoConn
  sent,          \* how many packets each connection has sent
  queue,         \* the inbound queue of each worker
  pc,            \* the step each worker takes next, "idle" between packets
  packet,        \* the packet each worker holds, NoPacket when idle
  fetched,       \* the rows each worker has read for send_user_login_payloads
  chat_history,  \* the rows of the table chat_history
  exits,         \* how often the process has ended
  told,          \* whom each client was last told it is logged in as
  live,          \* the chat messages pushed to each connection, in order
  hist,          \* the chat messages each connection was sent as history
  synced         \* <<c, u>>: c has been sent the history of u since u attached

connVars   == <<state, conn_at, sent>>
handlerVars == <<pc, packet, fetched>>
clientVars == <<told, live, hist, synced>>
vars == <<connVars, queue, handlerVars, clientVars, chat_history, exits, managerVars>>

\* A packet: its place among those of its connection, the address it came from,
\* the user it is about and, of a chat message, the receiver.
Packet ==
  [conn : Conn, n : 1..MaxPackets, ws : WebSocket, type : PacketType,
   user : UserID, to : UserID]

NoPacket == [type |-> "none"]

\* Where a worker can be inside each handler.
Place == {"idle", "login_request", "reconnect_request", "attach_session",
          "login_response", "get_chat_messages", "send_history", "logout_request",
          "remove_session", "logout_response", "chat_message", "send_to_user"}

Init ==
  /\ ManagerInit
  /\ state = [c \in Conn |-> "new"]
  /\ conn_at = [ws \in WebSocket |-> NoConn]
  /\ sent = [c \in Conn |-> 0]
  /\ queue = [w \in Worker |-> << >>]
  /\ pc = [w \in Worker |-> "idle"]
  /\ packet = [w \in Worker |-> NoPacket]
  /\ fetched = [w \in Worker |-> {}]
  /\ chat_history = {}
  /\ exits = 0
  /\ told = [c \in Conn |-> NoUser]
  /\ live = [c \in Conn |-> << >>]
  /\ hist = [c \in Conn |-> {}]
  /\ synced = {}

------------------------------------------------------------------------------
(* The event loop. *)

Open(c) == state[c] = "open"

SocketOf(c) == CHOOSE ws \in WebSocket : conn_at[ws] = c

\* Every packet of c has been handled to the end.
Answered(c) ==
  \A w \in Worker :
    /\ packet[w] # NoPacket => packet[w].conn # c
    /\ \A k \in DOMAIN queue[w] : queue[w][k].conn # c

connection_opened(c, ws) ==
  /\ state[c] = "new"
  /\ conn_at[ws] = NoConn
  /\ state' = [state EXCEPT ![c] = "open"]
  /\ conn_at' = [conn_at EXCEPT ![ws] = c]
  /\ UNCHANGED <<sent, queue, handlerVars, clientVars, chat_history, exits, managerVars>>

\* The clients of the connections D are gone, with all they knew.
Gone(D) ==
  /\ told' = [c \in Conn |-> IF c \in D THEN NoUser ELSE told[c]]
  /\ live' = [c \in Conn |-> IF c \in D THEN << >> ELSE live[c]]
  /\ hist' = [c \in Conn |-> IF c \in D THEN {} ELSE hist[c]]
  /\ synced' = {s \in synced : s[1] \notin D}

\* The client disconnects or the network does: uWebSockets calls back once.
connection_closed(c) ==
  /\ Open(c)
  /\ ClosesEarly \/ Answered(c)
  /\ LET ws == SocketOf(c) IN
       /\ state' = [state EXCEPT ![c] = "closed"]
       /\ conn_at' = [conn_at EXCEPT ![ws] = NoConn]
       /\ \/ remove_session_by_ws(ws)
          \/ ws \notin DOMAIN ws_index /\ UNCHANGED managerVars
  /\ Gone({c})
  /\ UNCHANGED <<sent, queue, handlerVars, chat_history, exits>>

\* Mutant: any worker will do.
worker_index_for_Any(ws) == Worker

\* The workers a packet from ws may go to: always the same one.
worker_index_for(ws) == {WorkerOf[ws]}

\* What the client of c may send next.
NextPackets(c) ==
  {p \in [conn : {c}, n : {sent[c] + 1}, ws : {SocketOf(c)}, type : Requests,
          user : Account[c], to : UserID] : p.type = "chat" <=> p.to # p.user}

message_received(c) ==
  /\ Open(c)
  /\ sent[c] < MaxPackets
  /\ sent' = [sent EXCEPT ![c] = @ + 1]
  /\ \E p \in NextPackets(c) : \E w \in worker_index_for(p.ws) :
       queue' = [queue EXCEPT ![w] = Append(@, p)]
  /\ UNCHANGED <<state, conn_at, handlerVars, clientVars, chat_history, exits, managerVars>>

------------------------------------------------------------------------------
(* The workers. *)

At(w, place) == pc[w] = place

\* The handler of w goes on.
Goto(w, place) ==
  /\ pc' = [pc EXCEPT ![w] = place]
  /\ UNCHANGED packet

\* The handler of w returns, or what it throws is caught and logged.
Return(w) ==
  /\ pc' = [pc EXCEPT ![w] = "idle"]
  /\ packet' = [packet EXCEPT ![w] = NoPacket]

\* The connections a payload sent to the addresses S reaches.
Reached(S) == {conn_at[ws] : ws \in S} \cap Conn

\* The clients of the connections D are told they are logged in as u (NoUser: as
\* nobody).
Tell(D, u) == told' = [c \in Conn |-> IF c \in D THEN u ELSE told[c]]

\* The first step of the handler a packet is dispatched to.
FirstStep(type) ==
  CASE type = "login"     -> "login_request"
    [] type = "reconnect" -> "reconnect_request"
    [] type = "logout"    -> "logout_request"
    [] type = "chat"      -> "chat_message"

\* Mutant: what a malformed packet throws ends the thread.
process_Uncaught(w) ==
  /\ At(w, "idle")
  /\ queue[w] # << >>
  /\ LET p == Head(queue[w]) IN
       /\ queue' = [queue EXCEPT ![w] = Tail(@)]
       /\ packet' = [packet EXCEPT ![w] = p]
       /\ pc' = [pc EXCEPT ![w] = IF p.type = "unknown" THEN "dead"
                                  ELSE FirstStep(p.type)]
  /\ UNCHANGED <<connVars, fetched, clientVars, chat_history, exits, managerVars>>

\* One turn of the loop: pop a packet, parse it, find its handler.  A packet
\* that does not parse or has no handler is logged, and the loop goes on.
process(w) ==
  /\ At(w, "idle")
  /\ queue[w] # << >>
  /\ queue' = [queue EXCEPT ![w] = Tail(@)]
  /\ LET p == Head(queue[w]) IN
       \/ /\ p.type # "unknown"
          /\ packet' = [packet EXCEPT ![w] = p]
          /\ pc' = [pc EXCEPT ![w] = FirstStep(p.type)]
       \/ p.type = "unknown" /\ Return(w)
  /\ UNCHANGED <<connVars, fetched, clientVars, chat_history, exits, managerVars>>

\* The credentials are checked against the database.  On any failure (a wrong
\* password, an error of the database) an error response, if any, ends the
\* handler.
login_request(w) ==
  /\ At(w, "login_request")
  /\ Goto(w, "attach_session") \/ Return(w)
  /\ UNCHANGED <<connVars, queue, fetched, clientVars, chat_history, exits, managerVars>>

\* The token of the user is checked instead; from there on a reconnect does what
\* a login does.
reconnect_request(w) ==
  /\ At(w, "reconnect_request")
  /\ Goto(w, "attach_session") \/ Return(w)
  /\ UNCHANGED <<connVars, queue, fetched, clientVars, chat_history, exits, managerVars>>

\* The socket is attached to the user; the previous one is sent kick_payload, a
\* LOGOUT_RESPONSE.
login_attach(w) ==
  /\ At(w, "attach_session")
  /\ LET u == packet[w].user
         ws == packet[w].ws
     IN  /\ attach_session(u, ws)
         /\ Tell(Reached(Kicked(u, ws)), NoUser)
         /\ synced' = {s \in synced : s[2] # u}
  /\ Goto(w, "login_response")
  /\ UNCHANGED <<connVars, queue, fetched, live, hist, chat_history, exits>>

\* The response is sent after the registry has been unlocked.
login_response(w) ==
  /\ At(w, "login_response")
  /\ Tell(Reached({packet[w].ws}), packet[w].user)
  /\ Goto(w, "get_chat_messages")
  /\ UNCHANGED <<connVars, queue, fetched, live, hist, synced, chat_history, exits, managerVars>>

\* Mutant: only the rows the user has sent.
messages_of_Sent(u) == {m \in chat_history : m.user = u}

\* The rows a user is shown: those the user sent or received.
messages_of(u) == {m \in chat_history : m.user = u \/ m.to = u}

\* The history is read, or the query fails and nothing is sent.
get_chat_messages(w) ==
  /\ At(w, "get_chat_messages")
  /\ \/ /\ fetched' = [fetched EXCEPT ![w] = messages_of(packet[w].user)]
        /\ Goto(w, "send_history")
     \/ UNCHANGED fetched /\ Return(w)
  /\ UNCHANGED <<connVars, queue, clientVars, chat_history, exits, managerVars>>

\* The last of the login payloads; the others (profile, friend requests, friends)
\* show nothing this model keeps.
send_history(w) ==
  /\ At(w, "send_history")
  /\ LET D == Reached({packet[w].ws}) IN
       /\ hist' = [c \in Conn |-> IF c \in D THEN hist[c] \cup fetched[w] ELSE hist[c]]
       /\ synced' = synced \cup (D \X {packet[w].user})
  /\ fetched' = [fetched EXCEPT ![w] = {}]
  /\ Return(w)
  /\ UNCHANGED <<connVars, queue, told, live, chat_history, exits, managerVars>>

\* A user who is not online gets an error response.
logout_request(w) ==
  /\ At(w, "logout_request")
  /\ \/ is_online(packet[w].user) /\ Goto(w, "remove_session")
     \/ ~is_online(packet[w].user) /\ Return(w)
  /\ UNCHANGED <<connVars, queue, fetched, clientVars, chat_history, exits, managerVars>>

\* The session may have gone since the check: then there is no response.
logout_remove(w) ==
  /\ At(w, "remove_session")
  /\ \/ remove_session(packet[w].user) /\ Goto(w, "logout_response")
     \/ ~is_online(packet[w].user) /\ Return(w) /\ UNCHANGED managerVars
  /\ UNCHANGED <<connVars, queue, fetched, clientVars, chat_history, exits>>

logout_response(w) ==
  /\ At(w, "logout_response")
  /\ Tell(Reached({packet[w].ws}), NoUser)
  /\ Return(w)
  /\ UNCHANGED <<connVars, queue, fetched, live, hist, synced, chat_history, exits, managerVars>>

\* The message is stored; if that fails the error is logged and the handler
\* goes on.
chat_message(w) ==
  /\ At(w, "chat_message")
  /\ chat_history' \in {chat_history, chat_history \cup {packet[w]}}
  /\ Goto(w, "send_to_user")
  /\ UNCHANGED <<connVars, queue, fetched, clientVars, exits, managerVars>>

\* The message is pushed to the socket the receiver is reached at, if any.
send_to_user(w) ==
  /\ At(w, "send_to_user")
  /\ LET D == Reached(DeliveredTo(packet[w].to)) IN
       live' = [c \in Conn |-> IF c \in D THEN Append(live[c], packet[w]) ELSE live[c]]
  /\ Return(w)
  /\ UNCHANGED <<connVars, queue, fetched, told, hist, synced, chat_history, exits, managerVars>>

Handle(w) ==
  \/ login_request(w) \/ reconnect_request(w)
  \/ login_attach(w) \/ login_response(w)
  \/ get_chat_messages(w) \/ send_history(w)
  \/ logout_request(w) \/ logout_remove(w) \/ logout_response(w)
  \/ chat_message(w) \/ send_to_user(w)

------------------------------------------------------------------------------
\* The process ends (a signal, a crash) and is started again: every socket is
\* closed, what was in memory is gone, what was stored is not.
exit ==
  /\ exits < MaxExits
  /\ exits' = exits + 1
  /\ instance
  /\ state' = [c \in Conn |-> IF Open(c) THEN "closed" ELSE state[c]]
  /\ conn_at' = [ws \in WebSocket |-> NoConn]
  /\ queue' = [w \in Worker |-> << >>]
  /\ pc' = [w \in Worker |-> "idle"]
  /\ packet' = [w \in Worker |-> NoPacket]
  /\ fetched' = [w \in Worker |-> {}]
  /\ Gone(Conn)
  /\ UNCHANGED <<sent, chat_history>>

Next ==
  \/ \E c \in Conn, ws \in WebSocket : connection_opened(c, ws)
  \/ \E c \in Conn : connection_closed(c)
  \/ \E c \in Conn : message_received(c)
  \/ \E w \in Worker : process(w)
  \/ \E w \in Worker : Handle(w)
  \/ exit

Spec == Init /\ [][Next]_vars

\* Worker threads are scheduled and the queries they wait for return.  Nothing
\* obliges a client to connect, to send or to go away.
FairSpec == Spec /\ \A w \in Worker : WF_vars(process(w) \/ Handle(w))

------------------------------------------------------------------------------
ServerTypeOK ==
  /\ state \in [Conn -> {"new", "open", "closed"}]
  /\ conn_at \in [WebSocket -> Conn \cup {NoConn}]
  /\ sent \in [Conn -> 0..MaxPackets]
  /\ queue \in [Worker -> Seq(Packet)]
  /\ pc \in [Worker -> Place]
  /\ packet \in [Worker -> Packet \cup {NoPacket}]
  /\ \A w \in Worker : At(w, "idle") <=> packet[w] = NoPacket
  /\ fetched \in [Worker -> SUBSET chat_history]
  /\ chat_history \subseteq Packet
  /\ exits \in 0..MaxExits
  /\ told \in [Conn -> UserID \cup {NoUser}]
  /\ live \in [Conn -> Seq(Packet)]
  /\ hist \in [Conn -> SUBSET chat_history]
  /\ synced \subseteq Conn \X UserID

\* Nobody is online at a socket that is closed (src/server.cpp:90: "if user
\* disconnects, destroy the session").
NoGhostSession == \A u \in DOMAIN sessions : conn_at[sessions[u].ws] \in Conn

\* The connection a user is reached at knows that it is logged in as that user,
\* unless the response that says so is the next thing its worker sends: no late
\* kick and no late logout response reaches the client that holds the session.
HolderIsTold ==
  \A u \in DOMAIN sessions : \A c \in Reached({sessions[u].ws}) :
    \/ told[c] = u
    \/ \E w \in Worker : At(w, "login_response") /\ packet[w].conn = c

AllIdle == \A w \in Worker : At(w, "idle") /\ queue[w] = << >>

\* A client that was replaced knows it: once all packets are handled, no two
\* clients believe they are logged in as the same user ("it is forcibly logged
\* out and replaced, atomically", LoginRequestHandler.cpp:40).
OneClientPerUser ==
  AllIdle => \A c, d \in Conn : told[c] # NoUser /\ told[c] = told[d] => c = d

\* A user goes offline only because the user's own socket is closed, because a
\* logout of that user is handled, or because the process ends: never because
\* another user leaves, or because of the close of a socket the user has left.
GoesOffline(u) == is_online(u) /\ ~is_online(u)'
OwnSocketCloses(u) ==
  conn_at[sessions[u].ws] # NoConn /\ conn_at'[sessions[u].ws] = NoConn
LogoutHandled(u) ==
  \E w \in Worker : At(w, "remove_session") /\ packet[w].user = u /\ pc'[w] # pc[w]
StaysOnline ==
  [][\A u \in UserID : GoesOffline(u) =>
       \/ OwnSocketCloses(u)
       \/ LogoutHandled(u)
       \/ exits' # exits]_vars

------------------------------------------------------------------------------
\* What the client of c has seen.
Seen(c) == hist[c] \cup {live[c][k] : k \in DOMAIN live[c]}

\* A message that was stored is not missed: the client a user is reached at,
\* once it has been sent the history, has seen every stored message to the user,
\* in the history or live, except one that is about to be pushed.  It rests on
\* the order of the steps: a login attaches before it reads the history, a
\* message is stored before the receiver's socket is looked up.
NothingMissed ==
  \A u \in DOMAIN sessions : \A c \in Reached({sessions[u].ws}) :
    <<c, u>> \in synced =>
      \A m \in chat_history :
        m.to = u => \/ m \in Seen(c)
                    \/ \E w \in Worker : At(w, "send_to_user") /\ packet[w] = m

\* A client is pushed only messages to its user, and shown only messages its user
\* sent or received, whatever address its connection was given and whoever used
\* that address before.
SeenByOwnerOnly ==
  \A c \in Conn :
    /\ \A k \in DOMAIN live[c] : live[c][k].to \in Account[c]
    /\ \A m \in hist[c] : {m.user, m.to} \cap Account[c] # {}

\* Messages pushed to a client arrive in the order their sender sent them on one
\* connection (src/server.cpp:104: "its messages are processed in order").
PushedInOrder ==
  \A c \in Conn : \A j \in DOMAIN live[c] : \A i \in 1..(j - 1) :
    live[c][i].conn = live[c][j].conn => live[c][i].n < live[c][j].n

\* Every packet a worker is handed is handled to the end, also behind packets
\* that fail, that are malformed or that wait for the database.
EveryPacketHandled == \A c \in Conn : ~Answered(c) ~> Answered(c)

\* To clients that behave, the server is the plain table of Messenger: although
\* workers hold addresses that are used again, and a handler is overtaken between
\* its steps, each user is at one connection, which is open and the user's own,
\* leaves it only with it, by a logout or for another login, and gets each pushed
\* message there, once and in order.
Clients == INSTANCE Messenger WITH
  Message <- Packet,
  present <- {c \in Conn : Open(c)},
  place <- [u \in DOMAIN sessions |-> conn_at[sessions[u].ws]],
  inbox <- live

ImplementsMessenger == Clients!MessengerSpec
==============================================================================
