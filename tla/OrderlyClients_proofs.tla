------------------------ MODULE OrderlyClients_proofs -------------------------
(***************************************************************************)
(* What the server keeps when its clients behave: each logs in as one user *)
(* only, and goes away only once its packets are handled (except that the  *)
(* process may end at any time).  The runs server_sessions and server_chat *)
(* check small instances of the same; server_ghost shows what happens      *)
(* without the second condition.                                           *)
(***************************************************************************)
EXTENDS BingoServer_proofs

USE ServerAssumption

Orderly ==
  /\ ClosesEarly = FALSE
  /\ \A c \in Conn : \A u, v \in Account[c] : u = v

------------------------------------------------------------------------------
(***************************************************************************)
(* Who is at an address.  While a packet of a connection is on its way,    *)
(* the connection is open, so its address is still its own; a session is   *)
(* held at the address of an open connection of its user.  Both rest on    *)
(* IndexComplete, without which a close would leave a session behind.      *)
(***************************************************************************)
InFlightOwned ==
  \A p \in Packet, w \in Worker : InFlight(p, w) => Open(p.conn) /\ p.user \in Account[p.conn]

SessionsOwned ==
  \A u \in DOMAIN sessions :
    conn_at[sessions[u].ws] \in Conn /\ u \in Account[conn_at[sessions[u].ws]]

OwnersInv == ServerInv /\ OrderInv /\ InFlightOwned /\ SessionsOwned /\ IndexComplete

LEMMA SessionFacts ==
  ASSUME OwnersInv, NEW u \in DOMAIN sessions
  PROVE  u \in UserID /\ sessions[u].ws \in WebSocket /\ conn_at[sessions[u].ws] \in Conn
  BY DEF OwnersInv, SessionsOwned, ServerInv, ManagerInv, ManagerTypeOK, IsMap, UserSession

\* What a worker that is not idle holds.
LEMMA HeldFacts ==
  ASSUME OwnersInv, NEW w \in Worker, ~At(w, "idle")
  PROVE  /\ packet[w] \in Packet /\ packet[w].conn \in Conn /\ packet[w].ws \in WebSocket
         /\ packet[w].user \in UserID /\ packet[w].to \in UserID
         /\ packet[w].user \in Account[packet[w].conn]
         /\ Open(packet[w].conn) /\ conn_at[packet[w].ws] = packet[w].conn
         /\ InFlight(packet[w], w)
<1>1. /\ packet[w] \in Packet /\ packet[w].conn \in Conn /\ packet[w].ws \in WebSocket
      /\ packet[w].user \in UserID /\ packet[w].to \in UserID
  BY PacketOf DEF OwnersInv, ServerInv
<1>2. InFlight(packet[w], w)
  BY DEF InFlight
<1>3. QED
  BY <1>1, <1>2 DEF OwnersInv, InFlightOwned, OrderInv, LinesInv, Routed

\* At most one worker serves a connection.
LEMMA OneServes ==
  ASSUME OwnersInv, NEW v \in Worker, NEW w \in Worker, ~At(v, "idle"), ~At(w, "idle"),
         packet[v].conn = packet[w].conn
  PROVE  v = w
  BY HeldFacts DEF OwnersInv, OrderInv, LinesInv, OneWorker

\* At most one user is reached at an address.
LEMMA OneUserAt ==
  ASSUME OwnersInv, NEW u \in DOMAIN sessions, NEW v \in DOMAIN sessions,
         sessions[u].ws = sessions[v].ws
  PROVE  u = v
  BY DEF OwnersInv, IndexComplete

\* The session at the address of a packet is that of its user.
LEMMA WhoHolds ==
  ASSUME Orderly, OwnersInv, NEW w \in Worker, ~At(w, "idle"),
         NEW u \in DOMAIN sessions, conn_at[sessions[u].ws] = packet[w].conn
  PROVE  u = packet[w].user /\ sessions[u].ws = packet[w].ws
<1>1. /\ packet[w].conn \in Conn /\ packet[w].ws \in WebSocket
      /\ packet[w].user \in Account[packet[w].conn] /\ conn_at[packet[w].ws] = packet[w].conn
  BY HeldFacts
<1>2. u \in Account[packet[w].conn] /\ sessions[u].ws \in WebSocket
  BY SessionFacts DEF OwnersInv, SessionsOwned
<1>3. packet[w].conn # NoConn
  BY <1>1
<1>4. QED
  BY <1>1, <1>2, <1>3 DEF Orderly, OwnersInv, ServerInv, AddressOK

\* What a login does to the table.
LEMMA AttachEffect ==
  ASSUME OwnersInv, NEW w \in Worker, login_attach(w)
  PROVE  /\ DOMAIN sessions' = DOMAIN sessions \cup {packet[w].user}
         /\ sessions'[packet[w].user].ws = packet[w].ws
         /\ \A v \in DOMAIN sessions' \ {packet[w].user} :
              v \in DOMAIN sessions /\ sessions'[v] = sessions[v]
<1>1. packet[w].user \in UserID /\ packet[w].ws \in WebSocket
  BY HeldFacts DEF login_attach, At
<1>2. sessions' = Put(sessions, packet[w].user, [ws |-> packet[w].ws, reference_count |-> 1])
  <2>1. CASE NewSession(packet[w].user, packet[w].ws)
    BY <2>1 DEF NewSession
  <2>2. CASE TakeOver(packet[w].user, packet[w].ws)
    BY <1>1, <2>2, TakeOverSessions DEF OwnersInv, ServerInv, ManagerInv
  <2>3. QED
    BY <2>1, <2>2 DEF login_attach, attach_session
<1>3. QED
  BY <1>2 DEF Put

\* A logout ends the session of its user and no other.
LEMMA LogoutEffect ==
  ASSUME OwnersInv, NEW w \in Worker, logout_remove(w)
  PROVE  /\ DOMAIN sessions' = DOMAIN sessions \ {packet[w].user}
         /\ \A v \in DOMAIN sessions' : sessions'[v] = sessions[v]
         /\ IndexComplete'
<1>1. packet[w].user \in UserID
  BY HeldFacts DEF logout_remove, At
<1>2. CASE remove_session(packet[w].user)
  <2>1. /\ packet[w].user \in DOMAIN sessions
        /\ sessions' = Without(sessions, {packet[w].user})
        /\ ws_index' = Without(ws_index, {sessions[packet[w].user].ws})
    BY <1>1, <1>2, RemovalEffect DEF OwnersInv, ServerInv, ExactInv
  <2>2. IndexComplete'
    BY <2>1, RemoveExact DEF OwnersInv, ServerInv, ExactInv
  <2>3. QED
    BY <2>1, <2>2, WithoutDef
<1>3. CASE ~is_online(packet[w].user) /\ UNCHANGED managerVars
  BY <1>3 DEF is_online, managerVars, OwnersInv, IndexComplete
<1>4. QED
  BY <1>2, <1>3 DEF logout_remove

\* A close ends the session held at its socket and no other.
LEMMA CloseEffect ==
  ASSUME OwnersInv, NEW c \in Conn, connection_closed(c)
  PROVE  /\ \A v \in DOMAIN sessions' :
              /\ v \in DOMAIN sessions /\ sessions'[v] = sessions[v]
              /\ sessions[v].ws # SocketOf(c)
         /\ \A v \in DOMAIN sessions : sessions[v].ws # SocketOf(c) => v \in DOMAIN sessions'
         /\ IndexComplete'
<1>1. SocketOf(c) \in WebSocket
  BY SocketOfIs DEF connection_closed, OwnersInv, ServerInv
<1>2. CASE remove_session_by_ws(SocketOf(c))
  <2>1. /\ ws_index[SocketOf(c)] \in DOMAIN sessions
        /\ sessions[ws_index[SocketOf(c)]].ws = SocketOf(c)
        /\ sessions' = Without(sessions, {ws_index[SocketOf(c)]})
        /\ ws_index' = Without(ws_index, {SocketOf(c)})
    BY <1>1, <1>2, RemovalEffect DEF OwnersInv, ServerInv, ExactInv
  <2>2. IndexComplete'
    BY <2>1, RemoveExact DEF OwnersInv, ServerInv, ExactInv
  <2>3. \A v \in DOMAIN sessions \ {ws_index[SocketOf(c)]} : sessions[v].ws # SocketOf(c)
    BY <2>1, OneUserAt
  <2>4. QED
    BY <2>1, <2>2, <2>3, WithoutDef
<1>3. CASE SocketOf(c) \notin DOMAIN ws_index /\ UNCHANGED managerVars
  BY <1>3 DEF managerVars, OwnersInv, IndexComplete
<1>4. QED
  BY <1>2, <1>3 DEF connection_closed

LEMMA OwnersInit == Init => OwnersInv
<1> SUFFICES ASSUME Init PROVE OwnersInv
  OBVIOUS
<1>1. ServerInv /\ OrderInv
  BY ServerInvInit, OrderInit
<1>2. InFlightOwned
  BY PacketFacts DEF Init, InFlightOwned, InFlight
<1>3. DOMAIN sessions = {}
  BY DEF Init, ManagerInit, EmptyMap
<1>4. QED
  BY <1>1, <1>2, <1>3 DEF OwnersInv, SessionsOwned, IndexComplete

\* Steps that hand no worker a packet: the packets on their way were so before.
LEMMA NothingArrives ==
  ASSUME OwnersInv, [Next]_vars, \A c \in Conn : ~message_received(c),
         NEW p \in Packet, NEW w \in Worker, InFlight(p, w)'
  PROVE  InFlight(p, w) /\ ~exit
<1>1. ServerTypeOK
  BY DEF OwnersInv, ServerInv
<1>2. ~exit
  BY PacketFacts DEF exit, InFlight
<1>3. ASSUME UNCHANGED <<queue, packet>>
      PROVE  InFlight(p, w)
  BY <1>3 DEF InFlight
<1>4. ASSUME NEW v \in Worker, process(v)
      PROVE  InFlight(p, w)
  BY <1>1, <1>4, Taken
<1>5. ASSUME NEW v \in Worker, Return(v), UNCHANGED queue
      PROVE  InFlight(p, w)
  BY <1>1, <1>5, PacketFacts DEF Return, InFlight, ServerTypeOK
<1>6. ASSUME NEW v \in Worker, Handle(v)
      PROVE  UNCHANGED queue /\ (UNCHANGED packet \/ Return(v))
  BY <1>6 DEF Handle, login_request, reconnect_request, login_attach, login_response,
     get_chat_messages, send_history, logout_request, logout_remove, logout_response,
     chat_message, send_to_user, Goto
<1>7. ASSUME NEW v \in Worker, Handle(v)
      PROVE  InFlight(p, w)
  BY <1>3, <1>5, <1>6, <1>7
<1>8. ASSUME NEW c \in Conn, connection_closed(c) \/ \E ws \in WebSocket : connection_opened(c, ws)
      PROVE  InFlight(p, w)
  BY <1>3, <1>8 DEF connection_opened, connection_closed, handlerVars
<1>9. ASSUME UNCHANGED vars
      PROVE  InFlight(p, w)
  BY <1>3, <1>9 DEF vars, handlerVars
<1>10. QED
  BY <1>2, <1>4, <1>7, <1>8, <1>9 DEF Next

LEMMA InFlightOwnedNext ==
  ASSUME Orderly, OwnersInv, [Next]_vars
  PROVE  InFlightOwned'
<1>0. ServerTypeOK /\ AddressOK
  BY DEF OwnersInv, ServerInv
<1>1. ASSUME NEW c \in Conn, message_received(c)
      PROVE  InFlightOwned'
  <2>1. PICK p \in NextPackets(c) : \E w \in worker_index_for(p.ws) :
          queue' = [queue EXCEPT ![w] = Append(@, p)]
    BY <1>1 DEF message_received
  <2>2. /\ p \in Packet /\ p.conn = c /\ p.user \in Account[c] /\ p.ws \in WebSocket
        /\ Open(c)
    BY <1>0, <1>1, NextPacketsOK, PacketFacts DEF message_received, NextPackets
  <2>3. PICK w \in Worker : w = WorkerOf[p.ws]
    BY <2>2
  <2>4. queue' = [queue EXCEPT ![w] = Append(queue[w], p)]
    BY <2>1, <2>3 DEF worker_index_for
  <2>5. UNCHANGED <<state, packet>>
    BY <1>1 DEF message_received, handlerVars
  <2>6. \A q \in Packet, v \in Worker : InFlight(q, v)' => InFlight(q, v) \/ q = p
    BY <1>0, <2>2, <2>4, <2>5, Arrived
  <2>7. QED
    BY <2>2, <2>5, <2>6 DEF OwnersInv, InFlightOwned, Open
<1>2. CASE \A c \in Conn : ~message_received(c)
  <2> SUFFICES ASSUME NEW p \in Packet, NEW w \in Worker, InFlight(p, w)'
               PROVE  Open(p.conn)' /\ p.user \in Account[p.conn]
    BY DEF InFlightOwned, Open
  <2>1. InFlight(p, w) /\ ~exit /\ p.conn \in Conn
    BY <1>2, NothingArrives, PacketFacts
  <2>2. Open(p.conn) /\ p.user \in Account[p.conn]
    BY <2>1 DEF OwnersInv, InFlightOwned
  <2>3. ASSUME NEW c \in Conn, connection_closed(c)
        PROVE  Open(p.conn)'
    <3>1. Answered(c)
      BY <2>3 DEF connection_closed, Orderly
    <3>2. p.conn # c
      BY <2>1, <3>1, PacketFacts DEF InFlight, Answered
    <3>3. QED
      BY <1>0, <2>1, <2>2, <2>3, <3>2 DEF connection_closed, Open, ServerTypeOK
  <2>4. ASSUME NEW c \in Conn, NEW ws \in WebSocket, connection_opened(c, ws)
        PROVE  Open(p.conn)'
    BY <1>0, <2>1, <2>2, <2>4 DEF connection_opened, Open, ServerTypeOK
  <2>5. CASE UNCHANGED state
    BY <2>2, <2>5 DEF Open
  <2>6. Open(p.conn)'
    BY <1>2, <2>1, <2>3, <2>4, <2>5 DEF Next, process, Handle, login_request,
       reconnect_request, login_attach, login_response, get_chat_messages, send_history,
       logout_request, logout_remove, logout_response, chat_message, send_to_user, connVars, vars
  <2>7. QED
    BY <2>2, <2>6
<1>3. QED
  BY <1>1, <1>2

\* Where a user is reached after a step: where it was before, at an address that
\* stays the same connection's, or where the step attaches it.
Stays(u) ==
  /\ u \in DOMAIN sessions /\ sessions'[u].ws = sessions[u].ws
  /\ conn_at'[sessions[u].ws] = conn_at[sessions[u].ws]

LEMMA SessionsStep ==
  ASSUME Orderly, OwnersInv, [Next]_vars, NEW u \in DOMAIN sessions'
  PROVE  \/ Stays(u) /\ \A w \in Worker : login_attach(w) => packet[w].user # u
         \/ \E w \in Worker : /\ login_attach(w) /\ packet[w].user = u
                              /\ sessions'[u].ws = packet[w].ws
<1>0. ServerTypeOK /\ AddressOK
  BY DEF OwnersInv, ServerInv
<1>1. ASSUME NEW w \in Worker, login_attach(w)
      PROVE  \/ packet[w].user = u /\ sessions'[u].ws = packet[w].ws
             \/ packet[w].user # u /\ Stays(u)
  <2>1. UNCHANGED conn_at
    BY <1>1 DEF login_attach, connVars
  <2>2. QED
    BY <1>1, <2>1, AttachEffect DEF Stays
<1>2. ASSUME NEW w \in Worker, logout_remove(w)
      PROVE  Stays(u)
  <2>1. UNCHANGED conn_at
    BY <1>2 DEF logout_remove, connVars
  <2>2. QED
    BY <1>2, <2>1, LogoutEffect DEF Stays
<1>3. ASSUME NEW c \in Conn, connection_closed(c)
      PROVE  Stays(u)
  <2>1. u \in DOMAIN sessions /\ sessions'[u] = sessions[u] /\ sessions[u].ws # SocketOf(c)
    BY <1>3, CloseEffect
  <2>2. conn_at' = [conn_at EXCEPT ![SocketOf(c)] = NoConn]
    BY <1>3 DEF connection_closed
  <2>3. QED
    BY <1>0, <2>1, <2>2, SessionFacts DEF Stays, ServerTypeOK
<1>4. ASSUME NEW c \in Conn, NEW ws \in WebSocket, connection_opened(c, ws)
      PROVE  Stays(u)
  <2>1. UNCHANGED sessions /\ conn_at[ws] = NoConn /\ conn_at' = [conn_at EXCEPT ![ws] = c]
    BY <1>4 DEF connection_opened, managerVars
  <2>2. sessions[u].ws # ws
    BY <2>1, SessionFacts
  <2>3. QED
    BY <1>0, <2>1, <2>2, SessionFacts DEF Stays, ServerTypeOK
<1>5. ~exit
  BY DEF exit, instance, EmptyMap
<1>6. ASSUME UNCHANGED <<sessions, conn_at>>
      PROVE  Stays(u)
  BY <1>6 DEF Stays
<1>7. Stays(u) \/ \E w \in Worker : login_attach(w)
  BY <1>2, <1>3, <1>4, <1>5, <1>6 DEF Next, message_received, process, Handle, login_request,
     reconnect_request, login_response, get_chat_messages, send_history, logout_request,
     logout_response, chat_message, send_to_user, connVars, managerVars, vars
<1>8. CASE \E w \in Worker : login_attach(w) /\ packet[w].user = u
  BY <1>1, <1>8
<1>9. CASE \A w \in Worker : login_attach(w) => packet[w].user # u
  BY <1>1, <1>7, <1>9
<1>10. QED
  BY <1>8, <1>9

LEMMA SessionsOwnedNext ==
  ASSUME Orderly, OwnersInv, [Next]_vars
  PROVE  SessionsOwned'
<1> SUFFICES ASSUME NEW u \in DOMAIN sessions'
             PROVE  /\ conn_at'[sessions'[u].ws] \in Conn
                    /\ u \in Account[conn_at'[sessions'[u].ws]]
  BY DEF SessionsOwned
<1>1. CASE Stays(u)
  BY <1>1 DEF Stays, OwnersInv, SessionsOwned
<1>2. ASSUME NEW w \in Worker, login_attach(w), packet[w].user = u, sessions'[u].ws = packet[w].ws
      PROVE  /\ conn_at'[sessions'[u].ws] \in Conn
             /\ u \in Account[conn_at'[sessions'[u].ws]]
  <2>1. UNCHANGED conn_at /\ ~At(w, "idle")
    BY <1>2 DEF login_attach, connVars, At
  <2>2. QED
    BY <1>2, <2>1, HeldFacts
<1>3. QED
  BY <1>1, <1>2, SessionsStep

LEMMA IndexCompleteNext ==
  ASSUME Orderly, OwnersInv, [Next]_vars
  PROVE  IndexComplete'
<1>1. ASSUME NEW w \in Worker, login_attach(w)
      PROVE  IndexComplete'
  <2>1. /\ ~At(w, "idle") /\ attach_session(packet[w].user, packet[w].ws)
    BY <1>1 DEF login_attach, At
  <2>2. packet[w].user \in UserID /\ packet[w].ws \in WebSocket /\ conn_at[packet[w].ws] = packet[w].conn
    BY <2>1, HeldFacts
  <2>3. \A v \in DOMAIN sessions \ {packet[w].user} : sessions[v].ws # packet[w].ws
    BY <2>1, <2>2, WhoHolds
  <2>4. QED
    BY <2>1, <2>2, <2>3, AttachExact DEF OwnersInv, ServerInv, ExactInv
<1>2. CASE exit
  BY <1>2 DEF exit, instance, EmptyMap, IndexComplete
<1>3. CASE UNCHANGED managerVars
  BY <1>3 DEF managerVars, OwnersInv, IndexComplete
<1>4. QED
  BY <1>1, <1>2, <1>3, LogoutEffect, CloseEffect DEF Next, connection_opened, message_received,
     process, Handle, login_request, reconnect_request, login_response, get_chat_messages,
     send_history, logout_request, logout_response, chat_message, send_to_user, vars

LEMMA OwnersNext ==
  ASSUME Orderly, OwnersInv, [Next]_vars
  PROVE  OwnersInv'
<1>1. ServerInv' /\ OrderInv'
  BY ServerInvNext, OrderNext DEF OwnersInv
<1>2. QED
  BY <1>1, InFlightOwnedNext, SessionsOwnedNext, IndexCompleteNext DEF OwnersInv

LEMMA OwnersInvariant ==
  ASSUME Orderly
  PROVE  Spec => []OwnersInv
<1>1. OwnersInv /\ [Next]_vars => OwnersInv'
  BY OwnersNext
<1>2. QED
  BY <1>1, OwnersInit, PTL DEF Spec

\* Nobody is online at a socket that is closed.
THEOREM NoGhosts ==
  ASSUME Orderly
  PROVE  Spec => []NoGhostSession
<1>1. OwnersInv => NoGhostSession
  BY DEF OwnersInv, SessionsOwned, NoGhostSession
<1>2. QED
  BY <1>1, OwnersInvariant, PTL

\* Each active socket is mapped back to its user although nothing in the code
\* keeps two users off one socket.
THEOREM ServerIndexComplete ==
  ASSUME Orderly
  PROVE  Spec => []IndexComplete
<1>1. OwnersInv => IndexComplete
  BY DEF OwnersInv
<1>2. QED
  BY <1>1, OwnersInvariant, PTL

------------------------------------------------------------------------------
(* How a worker moves from one step of a handler to the next. *)

Rests(w) == pc'[w] = pc[w] /\ packet'[w] = packet[w] /\ fetched'[w] = fetched[w]

LEMMA WhoMoves ==
  ASSUME ServerTypeOK, [Next]_vars, NEW w \in Worker
  PROVE  Rests(w) \/ process(w) \/ Handle(w) \/ exit
<1>1. ASSUME NEW v \in Worker, v # w, process(v)
      PROVE  Rests(w)
  BY <1>1 DEF process, Return, Rests, ServerTypeOK
<1>2. ASSUME NEW v \in Worker, v # w, Handle(v)
      PROVE  Rests(w)
  BY <1>2 DEF Handle, login_request, reconnect_request, login_attach, login_response,
     get_chat_messages, send_history, logout_request, logout_remove, logout_response,
     chat_message, send_to_user, Goto, Return, Rests, ServerTypeOK
<1>3. CASE UNCHANGED handlerVars
  BY <1>3 DEF handlerVars, Rests
<1>4. QED
  BY <1>1, <1>2, <1>3 DEF Next, connection_opened, connection_closed, message_received, vars

\* Each of three places is entered from one step only.
LEMMA WhoEnters ==
  ASSUME ServerTypeOK, [Next]_vars, NEW w \in Worker
  PROVE  /\ pc'[w] = "login_response" => Rests(w) \/ login_attach(w)
         /\ pc'[w] = "logout_response" => Rests(w) \/ logout_remove(w)
         /\ pc'[w] = "send_history" => Rests(w) \/ get_chat_messages(w)
<1>1. ASSUME process(w)
      PROVE  pc'[w] \notin {"login_response", "logout_response", "send_history"}
  <2>1. PICK p \in Packet : p = Head(queue[w])
    BY <1>1, HeadOK DEF process
  <2>2. pc'[w] = "idle" \/ (p.type # "unknown" /\ pc'[w] = FirstStep(p.type))
    BY <1>1, <2>1 DEF process, Return, ServerTypeOK
  <2>3. p.type \in PacketType
    BY PacketFacts
  <2>4. QED
    BY <2>2, <2>3 DEF FirstStep, PacketType
<1>2. ASSUME Handle(w), ~login_attach(w), ~logout_remove(w), ~get_chat_messages(w)
      PROVE  pc'[w] \notin {"login_response", "logout_response", "send_history"}
  BY <1>2 DEF Handle, login_request, reconnect_request, login_response, send_history,
     logout_request, logout_response, chat_message, send_to_user, Goto, Return, ServerTypeOK
<1>3. login_attach(w) => pc'[w] = "login_response"
  BY DEF login_attach, Goto, ServerTypeOK
<1>4. logout_remove(w) => pc'[w] \in {"logout_response", "idle"}
  BY DEF logout_remove, Goto, Return, ServerTypeOK
<1>5. get_chat_messages(w) => pc'[w] \in {"send_history", "idle"}
  BY DEF get_chat_messages, Goto, Return, ServerTypeOK
<1>6. exit => pc'[w] = "idle"
  BY DEF exit
<1>7. QED
  BY <1>1, <1>2, <1>3, <1>4, <1>5, <1>6, WhoMoves

\* A worker at one of two places leaves it only by the step named for it.
LEMMA WhoLeaves ==
  ASSUME ServerTypeOK, [Next]_vars, NEW w \in Worker
  PROVE  /\ At(w, "login_response") => Rests(w) \/ login_response(w) \/ exit
         /\ At(w, "send_to_user") => Rests(w) \/ send_to_user(w) \/ exit
  BY WhoMoves DEF process, Handle, login_request, reconnect_request, login_attach, login_response,
     get_chat_messages, send_history, logout_request, logout_remove, logout_response,
     chat_message, send_to_user, At

LEMMA ReachedOne ==
  ASSUME NEW ws, NEW c
  PROVE  c \in Reached({ws}) <=> c \in Conn /\ conn_at[ws] = c
  BY DEF Reached

------------------------------------------------------------------------------
(***************************************************************************)
(* What the holder of a session is told.  A logout response is sent after  *)
(* the session is removed; until then nobody else is attached at that      *)
(* address, since its worker is busy with the logout.                      *)
(***************************************************************************)
LoggedOut ==
  \A w \in Worker : At(w, "logout_response") =>
    \A u \in DOMAIN sessions : sessions[u].ws # packet[w].ws

HolderInv == OwnersInv /\ LoggedOut /\ HolderIsTold

LEMMA LoggedOutNext ==
  ASSUME Orderly, OwnersInv, LoggedOut, [Next]_vars
  PROVE  LoggedOut'
<1>0. ServerTypeOK
  BY DEF OwnersInv, ServerInv
<1> SUFFICES ASSUME NEW w \in Worker, pc'[w] = "logout_response",
                    NEW u \in DOMAIN sessions', sessions'[u].ws = packet'[w].ws
             PROVE  FALSE
  BY DEF LoggedOut, At
<1>1. CASE Rests(w)
  <2>1. At(w, "logout_response") /\ packet'[w] = packet[w] /\ ~At(w, "idle")
    BY <1>1 DEF Rests, At
  <2>2. ~Stays(u)
    BY <2>1 DEF Stays, LoggedOut
  <2>3. PICK v \in Worker : login_attach(v) /\ sessions'[u].ws = packet[v].ws
    BY <2>2, SessionsStep
  <2>4. ~At(v, "idle") /\ At(v, "attach_session")
    BY <2>3 DEF login_attach, At
  <2>5. packet[v].conn = packet[w].conn
    BY <2>1, <2>3, <2>4, HeldFacts
  <2>6. v = w
    BY <2>1, <2>4, <2>5, OneServes
  <2>7. QED
    BY <2>1, <2>4, <2>6 DEF At
<1>2. CASE logout_remove(w)
  <2>1. ~At(w, "idle") /\ packet'[w] = packet[w]
    BY <1>0, <1>2 DEF logout_remove, Goto, Return, At, ServerTypeOK
  <2>2. u \in DOMAIN sessions /\ u # packet[w].user /\ sessions[u].ws = packet[w].ws
    BY <1>2, <2>1, LogoutEffect
  <2>3. conn_at[sessions[u].ws] = packet[w].conn
    BY <2>1, <2>2, HeldFacts
  <2>4. QED
    BY <2>1, <2>2, <2>3, WhoHolds
<1>3. QED
  BY <1>0, <1>1, <1>2, WhoEnters

\* The client of c knows it is logged in as u, or is about to be told.
Knows(u, c) == told[c] = u \/ \E w \in Worker : At(w, "login_response") /\ packet[w].conn = c

\* What a step tells a client that still holds the session.
LEMMA ToldStays ==
  ASSUME Orderly, OwnersInv, LoggedOut, [Next]_vars,
         NEW u \in DOMAIN sessions, NEW c \in Conn, conn_at[sessions[u].ws] = c, Stays(u),
         \A w \in Worker : login_attach(w) => packet[w].user # u, u \in DOMAIN sessions'
  PROVE  told'[c] = told[c] \/ told'[c] = u
<1>0. ServerTypeOK /\ AddressOK
  BY DEF OwnersInv, ServerInv
<1>1. ASSUME NEW d \in Conn, connection_closed(d)
      PROVE  told'[c] = told[c]
  <2>1. SocketOf(d) \in WebSocket /\ conn_at[SocketOf(d)] = d
    BY <1>0, <1>1, SocketOfIs DEF connection_closed
  <2>2. conn_at'[SocketOf(d)] = NoConn
    BY <1>0, <1>1, <2>1 DEF connection_closed, ServerTypeOK
  <2>3. c # d
    BY <1>0, <2>1, <2>2, SessionFacts DEF Stays, AddressOK
  <2>4. QED
    BY <1>1, <2>3 DEF connection_closed, Gone
<1>2. ASSUME NEW w \in Worker, login_attach(w)
      PROVE  told'[c] = told[c]
  <2>1. ASSUME c \in Reached(Kicked(packet[w].user, packet[w].ws))
        PROVE  FALSE
    <3>1. packet[w].user \in DOMAIN sessions /\ conn_at[sessions[packet[w].user].ws] = c
      BY <2>1 DEF Reached, Kicked
    <3>2. sessions[u].ws = sessions[packet[w].user].ws
      BY <1>0, <3>1, SessionFacts DEF AddressOK
    <3>3. QED
      BY <1>2, <3>1, <3>2, OneUserAt
  <2>2. QED
    BY <1>2, <2>1 DEF login_attach, Tell
<1>3. ASSUME NEW w \in Worker, login_response(w)
      PROVE  told'[c] = told[c] \/ told'[c] = u
  <2>1. ~At(w, "idle")
    BY <1>3 DEF login_response, At
  <2>2. ASSUME c \in Reached({packet[w].ws})
        PROVE  packet[w].user = u
    <3>1. c = packet[w].conn
      BY <2>1, <2>2, HeldFacts, ReachedOne
    <3>2. QED
      BY <2>1, <3>1, HeldFacts, WhoHolds
  <2>3. QED
    BY <1>3, <2>2 DEF login_response, Tell
<1>4. ASSUME NEW w \in Worker, logout_response(w)
      PROVE  told'[c] = told[c]
  <2>1. ~At(w, "idle") /\ At(w, "logout_response")
    BY <1>4 DEF logout_response, At
  <2>2. ASSUME c \in Reached({packet[w].ws})
        PROVE  sessions[u].ws = packet[w].ws
    <3>1. conn_at[packet[w].ws] = c
      BY <2>2 DEF Reached
    <3>2. packet[w].conn = c
      BY <2>1, <3>1, HeldFacts
    <3>3. QED
      BY <2>1, <3>2, WhoHolds
  <2>3. c \notin Reached({packet[w].ws})
    BY <2>1, <2>2 DEF LoggedOut
  <2>4. QED
    BY <1>4, <2>3 DEF logout_response, Tell
<1>5. ~exit
  BY DEF exit, instance, EmptyMap
<1>6. QED
  BY <1>1, <1>2, <1>3, <1>4, <1>5 DEF Next, connection_opened, message_received, process, Handle,
     login_request, reconnect_request, get_chat_messages, send_history, logout_request,
     logout_remove, chat_message, send_to_user, clientVars, vars

LEMMA HolderNext ==
  ASSUME Orderly, HolderInv, [Next]_vars
  PROVE  HolderInv'
<1>0. /\ OwnersInv /\ OwnersInv' /\ LoggedOut /\ LoggedOut' /\ ServerTypeOK
      /\ HolderIsTold
  BY OwnersNext, LoggedOutNext DEF HolderInv, OwnersInv, ServerInv
<1>1. ASSUME NEW u \in DOMAIN sessions', NEW c \in Conn, conn_at'[sessions'[u].ws] = c
      PROVE  Knows(u, c)'
  <2>1. ASSUME NEW w \in Worker, login_attach(w), packet[w].user = u, sessions'[u].ws = packet[w].ws
        PROVE  Knows(u, c)'
    <3>1. pc'[w] = "login_response" /\ packet'[w] = packet[w] /\ conn_at' = conn_at /\ ~At(w, "idle")
      BY <1>0, <2>1 DEF login_attach, Goto, At, ServerTypeOK, connVars
    <3>2. packet'[w].conn = c
      BY <1>0, <1>1, <2>1, <3>1, HeldFacts
    <3>3. QED
      BY <3>1, <3>2 DEF Knows, At
  <2>2. CASE Stays(u) /\ \A w \in Worker : login_attach(w) => packet[w].user # u
    <3>1. u \in DOMAIN sessions /\ conn_at[sessions[u].ws] = c
      BY <1>1, <2>2 DEF Stays
    <3>2. told'[c] = told[c] \/ told'[c] = u
      BY <1>0, <2>2, <3>1, ToldStays
    <3>3. Knows(u, c)
      <4>1. c \in Reached({sessions[u].ws})
        BY <3>1 DEF Reached
      <4>2. QED
        BY <1>0, <3>1, <4>1 DEF HolderIsTold, Knows
    <3>4. ASSUME NEW w \in Worker, At(w, "login_response"), packet[w].conn = c
          PROVE  Knows(u, c)'
      <4>1. CASE Rests(w)
        BY <3>4, <4>1 DEF Knows, Rests, At
      <4>2. CASE login_response(w)
        <5>1. ~At(w, "idle")
          BY <3>4 DEF At
        <5>2. c \in Reached({packet[w].ws}) /\ packet[w].user = u
          BY <1>0, <3>1, <3>4, <5>1, HeldFacts, WhoHolds, ReachedOne
        <5>3. QED
          BY <4>2, <5>2 DEF login_response, Tell, Knows
      <4>3. ~exit
        BY DEF exit, instance, EmptyMap
      <4>4. QED
        BY <1>0, <3>4, <4>1, <4>2, <4>3, WhoLeaves
    <3>5. QED
      BY <3>2, <3>3, <3>4 DEF Knows
  <2>3. QED
    BY <1>0, <2>1, <2>2, SessionsStep
<1>2. HolderIsTold'
  BY <1>1, ReachedOne DEF HolderIsTold, Knows, Reached
<1>3. QED
  BY <1>0, <1>2 DEF HolderInv

\* The client that holds a session knows it, or is about to be told: no late kick
\* and no late logout response reaches it.
THEOREM HoldersTold ==
  ASSUME Orderly
  PROVE  Spec => []HolderIsTold
<1>1. Init => HolderInv
  BY OwnersInit DEF Init, ManagerInit, EmptyMap, HolderInv, LoggedOut, HolderIsTold
<1>2. HolderInv /\ [Next]_vars => HolderInv'
  BY HolderNext
<1>3. HolderInv => HolderIsTold
  BY DEF HolderInv
<1>4. QED
  BY <1>1, <1>2, <1>3, PTL DEF Spec

------------------------------------------------------------------------------
(***************************************************************************)
(* Whose messages a client is shown.  What a worker has read for the       *)
(* history is about the user of its packet, and the address it sends to is *)
(* still that of the connection the packet came from.                      *)
(***************************************************************************)
FetchedOwn ==
  \A w \in Worker : At(w, "send_history") =>
    \A m \in fetched[w] : packet[w].user \in {m.user, m.to}

SeenInv == OwnersInv /\ FetchedOwn /\ SeenByOwnerOnly

LEMMA FetchedOwnNext ==
  ASSUME OwnersInv, FetchedOwn, [Next]_vars
  PROVE  FetchedOwn'
<1>0. ServerTypeOK
  BY DEF OwnersInv, ServerInv
<1> SUFFICES ASSUME NEW w \in Worker, pc'[w] = "send_history"
             PROVE  \A m \in fetched'[w] : packet'[w].user \in {m.user, m.to}
  BY DEF FetchedOwn, At
<1>1. CASE Rests(w)
  BY <1>1 DEF Rests, FetchedOwn, At
<1>2. CASE get_chat_messages(w)
  <2>1. packet' = packet /\ fetched'[w] = messages_of(packet[w].user)
    BY <1>0, <1>2 DEF get_chat_messages, Goto, Return, ServerTypeOK
  <2>2. QED
    BY <2>1 DEF messages_of
<1>3. QED
  BY <1>0, <1>1, <1>2, WhoEnters

LEMMA SeenNext ==
  ASSUME OwnersInv, OwnersInv', FetchedOwn, SeenByOwnerOnly, [Next]_vars
  PROVE  SeenByOwnerOnly'
<1>0. ServerTypeOK
  BY DEF OwnersInv, ServerInv
<1>1. ASSUME NEW w \in Worker, send_to_user(w)
      PROVE  SeenByOwnerOnly'
  <2>1. PICK p \in Packet : p = packet[w]
    BY <1>1, HeldFacts DEF send_to_user, At
  <2>2. UNCHANGED hist
    BY <1>1 DEF send_to_user
  <2>3. ASSUME NEW c \in Conn, NEW k \in DOMAIN live'[c]
        PROVE  live'[c][k].to \in Account[c]
    <3>1. live[c] \in Seq(Packet)
      BY <1>0 DEF ServerTypeOK
    <3>2. CASE live'[c] = live[c]
      BY <2>3, <3>2 DEF SeenByOwnerOnly
    <3>3. CASE c \in Reached(DeliveredTo(p.to)) /\ live'[c] = Append(live[c], p)
      <4>1. p.to \in DOMAIN sessions /\ conn_at[sessions[p.to].ws] = c
        BY <3>3 DEF Reached, DeliveredTo
      <4>2. p.to \in Account[c]
        BY <4>1 DEF OwnersInv, SessionsOwned
      <4>3. \/ k \in DOMAIN live[c] /\ live'[c][k] = live[c][k]
            \/ live'[c][k] = p
        BY <2>3, <3>1, <3>3, AppendFacts
      <4>4. QED
        BY <4>2, <4>3 DEF SeenByOwnerOnly
    <3>4. QED
      BY <1>0, <1>1, <2>1, <3>2, <3>3 DEF send_to_user, ServerTypeOK
  <2>4. QED
    BY <2>2, <2>3 DEF SeenByOwnerOnly
<1>2. ASSUME NEW w \in Worker, send_history(w)
      PROVE  SeenByOwnerOnly'
  <2>1. UNCHANGED live /\ At(w, "send_history") /\ ~At(w, "idle")
    BY <1>2 DEF send_history, At
  <2>2. ASSUME NEW c \in Conn, NEW m \in hist'[c]
        PROVE  {m.user, m.to} \cap Account[c] # {}
    <3>1. CASE m \in hist[c]
      BY <3>1 DEF SeenByOwnerOnly
    <3>2. CASE c \in Reached({packet[w].ws}) /\ m \in fetched[w]
      <4>1. packet[w].user \in Account[c]
        BY <2>1, <3>2, HeldFacts, ReachedOne
      <4>2. QED
        BY <2>1, <3>2, <4>1 DEF FetchedOwn
    <3>3. QED
      BY <1>0, <1>2, <2>2, <3>1, <3>2 DEF send_history, ServerTypeOK
  <2>3. QED
    BY <2>1, <2>2 DEF SeenByOwnerOnly
<1>3. ASSUME NEW D, Gone(D)
      PROVE  SeenByOwnerOnly'
  BY <1>3 DEF Gone, SeenByOwnerOnly
<1>4. CASE UNCHANGED <<live, hist>>
  BY <1>4 DEF SeenByOwnerOnly
<1>5. QED
  BY <1>1, <1>2, <1>3, <1>4 DEF Next, connection_opened, connection_closed, message_received,
     process, Handle, login_request, reconnect_request, login_attach, login_response,
     get_chat_messages, logout_request, logout_remove, logout_response, chat_message, exit,
     clientVars, vars

\* A client is pushed only messages to its user and shown only messages its user
\* sent or received.
THEOREM OwnersOnly ==
  ASSUME Orderly
  PROVE  Spec => []SeenByOwnerOnly
<1>1. Init => SeenInv
  BY OwnersInit DEF Init, SeenInv, FetchedOwn, SeenByOwnerOnly, At
<1>2. SeenInv /\ [Next]_vars => SeenInv'
  BY OwnersNext, FetchedOwnNext, SeenNext DEF SeenInv
<1>3. SeenInv => SeenByOwnerOnly
  BY DEF SeenInv
<1>4. QED
  BY <1>1, <1>2, <1>3, PTL DEF Spec

------------------------------------------------------------------------------
(***************************************************************************)
(* No stored message is missed.  A message to u is covered for c if c has  *)
(* seen it, is about to be sent it with the history, or it is about to be  *)
(* pushed.  While u is reached at c, a covered message stays covered: a    *)
(* push finds the session of u, so it reaches c.                           *)
(***************************************************************************)
OnTheWay(m) == \E w \in Worker : At(w, "send_to_user") /\ packet[w] = m

ReachedAt(u, c) == u \in DOMAIN sessions /\ conn_at[sessions[u].ws] = c

Covered(c, u, S) ==
  \A m \in chat_history : m.to = u => m \in Seen(c) \/ m \in S \/ OnTheWay(m)

ListCovers ==
  \A w \in Worker : At(w, "send_history") /\ ReachedAt(packet[w].user, packet[w].conn) =>
    Covered(packet[w].conn, packet[w].user, fetched[w])

ShownCovers ==
  \A c \in Conn, u \in UserID : ReachedAt(u, c) /\ <<c, u>> \in synced => Covered(c, u, {})

ShownInv == OwnersInv /\ ListCovers /\ ShownCovers

LEMMA ShownImply == ShownInv => NothingMissed
<1> SUFFICES ASSUME ShownInv, NEW u \in DOMAIN sessions,
                    NEW c \in Reached({sessions[u].ws}), <<c, u>> \in synced
             PROVE  Covered(c, u, {})
  BY DEF NothingMissed, Covered, OnTheWay
<1>1. u \in UserID /\ c \in Conn /\ ReachedAt(u, c)
  BY SessionFacts DEF Reached, ReachedAt, ShownInv
<1>2. QED
  BY <1>1 DEF ShownInv, ShownCovers

\* What a client has seen it keeps, until it goes away.
LEMMA SeenGrows ==
  ASSUME ServerTypeOK, [Next]_vars, ~exit, NEW c \in Conn, ~connection_closed(c), NEW m \in Seen(c)
  PROVE  m \in Seen(c)'
<1>1. CASE UNCHANGED <<live, hist>>
  BY <1>1 DEF Seen
<1>2. ASSUME NEW w \in Worker, send_to_user(w)
      PROVE  m \in Seen(c)'
  <2>1. live[c] \in Seq(Packet) /\ packet[w] \in Packet
    BY <1>2, PacketOf DEF send_to_user, At, ServerTypeOK
  <2>2. live'[c] = live[c] \/ live'[c] = Append(live[c], packet[w])
    BY <1>2 DEF send_to_user, ServerTypeOK
  <2>3. \A k \in DOMAIN live[c] : k \in DOMAIN live'[c] /\ live'[c][k] = live[c][k]
    BY <2>1, <2>2
  <2>4. UNCHANGED hist
    BY <1>2 DEF send_to_user
  <2>5. QED
    BY <2>3, <2>4 DEF Seen
<1>3. ASSUME NEW w \in Worker, send_history(w)
      PROVE  m \in Seen(c)'
  BY <1>3 DEF send_history, Seen
<1>4. ASSUME NEW d \in Conn, connection_closed(d)
      PROVE  m \in Seen(c)'
  <2>1. live'[c] = live[c] /\ hist'[c] = hist[c]
    BY <1>4 DEF connection_closed, Gone
  <2>2. QED
    BY <2>1 DEF Seen
<1>5. QED
  BY <1>1, <1>2, <1>3, <1>4 DEF Next, connection_opened, message_received, process, Handle,
     login_request, reconnect_request, login_attach, login_response, get_chat_messages,
     logout_request, logout_remove, logout_response, chat_message, clientVars, vars

LEMMA CoverStays ==
  ASSUME OwnersInv, OwnersInv', [Next]_vars, NEW c \in Conn, NEW u, NEW S,
         ReachedAt(u, c), ReachedAt(u, c)', Covered(c, u, S)
  PROVE  Covered(c, u, S)'
<1>0. ServerTypeOK /\ AddressOK
  BY DEF OwnersInv, ServerInv
<1>1. ~exit
  BY DEF exit, instance, EmptyMap, ReachedAt
<1>2. ~connection_closed(c)
  <2> SUFFICES ASSUME connection_closed(c)
               PROVE  FALSE
    OBVIOUS
  <2>1. state'[c] = "closed"
    BY <1>0 DEF connection_closed, ServerTypeOK
  <2>2. \A v \in DOMAIN sessions' : sessions'[v].ws \in WebSocket
    BY DEF OwnersInv, ServerInv, ManagerInv, ManagerTypeOK, IsMap, UserSession
  <2>3. state'[c] = "open"
    BY <2>2 DEF ReachedAt, OwnersInv, ServerInv, AddressOK, Open
  <2>4. QED
    BY <2>1, <2>3
<1> SUFFICES ASSUME NEW m \in chat_history', m.to = u
             PROVE  m \in Seen(c)' \/ m \in S \/ OnTheWay(m)'
  BY DEF Covered
<1>3. CASE m \in Seen(c)
  BY <1>0, <1>1, <1>2, <1>3, SeenGrows
<1>4. ASSUME NEW w \in Worker, At(w, "send_to_user"), packet[w] = m
      PROVE  m \in Seen(c)' \/ OnTheWay(m)'
  <2>1. CASE Rests(w)
    BY <1>4, <2>1 DEF Rests, OnTheWay, At
  <2>2. CASE send_to_user(w)
    <3>1. c \in Reached(DeliveredTo(packet[w].to))
      BY <1>4 DEF Reached, DeliveredTo, ReachedAt
    <3>2. live'[c] = Append(live[c], m) /\ live[c] \in Seq(Packet) /\ m \in Packet
      BY <1>0, <1>4, <2>2, <3>1, PacketOf DEF send_to_user, ServerTypeOK, At
    <3>3. Len(live[c]) + 1 \in DOMAIN live'[c] /\ live'[c][Len(live[c]) + 1] = m
      BY <3>2
    <3>4. QED
      BY <3>3 DEF Seen
  <2>3. QED
    BY <1>0, <1>1, <1>4, <2>1, <2>2, WhoLeaves
<1>5. CASE m \notin chat_history
  <2>1. PICK w \in Worker : chat_message(w)
    BY <1>1, <1>5 DEF Next, connection_opened, connection_closed, message_received, process, Handle,
       login_request, reconnect_request, login_attach, login_response, get_chat_messages,
       send_history, logout_request, logout_remove, logout_response, send_to_user, vars
  <2>2. m = packet[w] /\ packet'[w] = packet[w] /\ pc'[w] = "send_to_user"
    BY <1>0, <1>5, <2>1 DEF chat_message, Goto, ServerTypeOK
  <2>3. QED
    BY <2>2 DEF OnTheWay, At
<1>6. QED
  BY <1>3, <1>4, <1>5 DEF Covered, OnTheWay

\* A user that is reached at c after a step was so before, unless it is attached.
LEMMA WhoIsReached ==
  ASSUME Orderly, OwnersInv, [Next]_vars, NEW u, NEW c \in Conn, ReachedAt(u, c)'
  PROVE  \/ ReachedAt(u, c) /\ \A w \in Worker : login_attach(w) => packet[w].user # u
         \/ \E w \in Worker : login_attach(w) /\ packet[w].user = u /\ packet[w].conn = c
<1>1. u \in DOMAIN sessions' /\ conn_at'[sessions'[u].ws] = c
  BY DEF ReachedAt
<1>2. ASSUME NEW w \in Worker, login_attach(w), packet[w].user = u, sessions'[u].ws = packet[w].ws
      PROVE  packet[w].conn = c
  <2>1. conn_at' = conn_at /\ ~At(w, "idle")
    BY <1>2 DEF login_attach, connVars, At
  <2>2. QED
    BY <1>1, <1>2, <2>1, HeldFacts
<1>3. Stays(u) /\ (\A w \in Worker : login_attach(w) => packet[w].user # u) => ReachedAt(u, c)
  BY <1>1 DEF Stays, ReachedAt
<1>4. QED
  BY <1>1, <1>2, <1>3, SessionsStep

LEMMA ListCoversNext ==
  ASSUME Orderly, ShownInv, OwnersInv', [Next]_vars
  PROVE  ListCovers'
<1>0. OwnersInv /\ ServerTypeOK /\ ListCovers
  BY DEF ShownInv, OwnersInv, ServerInv
<1> SUFFICES ASSUME NEW w \in Worker, pc'[w] = "send_history",
                    ReachedAt(packet[w].user, packet[w].conn)'
             PROVE  Covered(packet[w].conn, packet[w].user, fetched[w])'
  BY DEF ListCovers, At
<1>1. CASE Rests(w)
  <2>1. At(w, "send_history") /\ ~At(w, "idle") /\ packet'[w] = packet[w] /\ fetched'[w] = fetched[w]
    BY <1>1 DEF Rests, At
  <2>2. PICK c \in Conn, u \in UserID : c = packet[w].conn /\ u = packet[w].user
    BY <1>0, <2>1, HeldFacts
  <2>3. PICK S : S = fetched[w]
    OBVIOUS
  <2>4. ReachedAt(u, c)'
    BY <2>1, <2>2 DEF ReachedAt
  <2>5. ASSUME NEW v \in Worker, login_attach(v), packet[v].conn = c
        PROVE  FALSE
    <3>1. ~At(v, "idle") /\ At(v, "attach_session")
      BY <2>5 DEF login_attach, At
    <3>2. v = w
      BY <1>0, <2>1, <2>2, <2>5, <3>1, OneServes
    <3>3. QED
      BY <2>1, <3>1, <3>2 DEF At
  <2>6. ReachedAt(u, c)
    BY <1>0, <2>4, <2>5, WhoIsReached
  <2>7. Covered(c, u, S)
    BY <1>0, <2>1, <2>2, <2>6, <2>3 DEF ListCovers
  <2>8. Covered(c, u, S)'
    BY <1>0, <2>4, <2>6, <2>7, CoverStays
  <2>9. QED
    BY <2>1, <2>2, <2>8, <2>3
<1>2. CASE get_chat_messages(w)
  <2>1. packet' = packet /\ fetched'[w] = messages_of(packet[w].user) /\ chat_history' = chat_history
    BY <1>0, <1>2 DEF get_chat_messages, Goto, Return, ServerTypeOK
  <2>2. QED
    BY <2>1 DEF messages_of, Covered
<1>3. QED
  BY <1>0, <1>1, <1>2, WhoEnters

LEMMA WhoSends ==
  ASSUME [Next]_vars, NEW s \in synced', s \notin synced
  PROVE  \E w \in Worker : send_history(w) /\ s \in Reached({packet[w].ws}) \X {packet[w].user}
<1>1. ASSUME NEW w \in Worker, send_history(w)
      PROVE  s \in Reached({packet[w].ws}) \X {packet[w].user}
  BY <1>1 DEF send_history
<1>2. QED
  BY <1>1 DEF Next, connection_opened, connection_closed, message_received, process, Handle,
     login_request, reconnect_request, login_attach, login_response, get_chat_messages,
     logout_request, logout_remove, logout_response, chat_message, send_to_user, exit, Gone,
     clientVars, vars

LEMMA ShownCoversNext ==
  ASSUME Orderly, ShownInv, OwnersInv', [Next]_vars
  PROVE  ShownCovers'
<1>0. OwnersInv /\ ServerTypeOK /\ ListCovers /\ ShownCovers
  BY DEF ShownInv, OwnersInv, ServerInv
<1> SUFFICES ASSUME NEW c \in Conn, NEW u \in UserID, ReachedAt(u, c)', <<c, u>> \in synced'
             PROVE  Covered(c, u, {})'
  BY DEF ShownCovers
<1>1. ASSUME NEW w \in Worker, login_attach(w), packet[w].user = u
      PROVE  FALSE
  BY <1>1 DEF login_attach
<1>2. ReachedAt(u, c)
  BY <1>0, <1>1, WhoIsReached
<1>3. CASE <<c, u>> \in synced
  <2>1. Covered(c, u, {})
    BY <1>0, <1>2, <1>3 DEF ShownCovers
  <2>2. QED
    BY <1>0, <1>2, <2>1, CoverStays
<1>4. CASE <<c, u>> \notin synced
  <2>1. PICK w \in Worker :
          send_history(w) /\ <<c, u>> \in Reached({packet[w].ws}) \X {packet[w].user}
    BY <1>4, WhoSends
  <2>2. c \in Reached({packet[w].ws}) /\ u = packet[w].user
    BY <2>1
  <2>3. At(w, "send_history") /\ ~At(w, "idle")
    BY <2>1 DEF send_history, At
  <2>4. c = packet[w].conn
    BY <1>0, <2>2, <2>3, HeldFacts, ReachedOne
  <2>5. PICK S : S = fetched[w]
    OBVIOUS
  <2>6. Covered(c, u, S)
    BY <1>0, <1>2, <2>2, <2>3, <2>4, <2>5 DEF ListCovers
  <2>7. Covered(c, u, S)'
    BY <1>0, <1>2, <2>6, CoverStays
  <2>8. S \subseteq hist'[c]
    BY <1>0, <2>1, <2>2, <2>5 DEF send_history, ServerTypeOK
  <2>9. QED
    BY <2>7, <2>8 DEF Covered, Seen
<1>5. QED
  BY <1>3, <1>4

\* The client a user is reached at, once it was sent the history, has seen every
\* stored message to the user except one that is about to be pushed.
THEOREM MessagesSeen ==
  ASSUME Orderly
  PROVE  Spec => []NothingMissed
<1>1. Init => ShownInv
  BY OwnersInit DEF Init, ShownInv, ListCovers, ShownCovers, At
<1>2. ShownInv /\ [Next]_vars => ShownInv'
  <2> SUFFICES ASSUME ShownInv, [Next]_vars
               PROVE  ShownInv'
    OBVIOUS
  <2>1. OwnersInv'
    BY OwnersNext DEF ShownInv
  <2>2. QED
    BY <2>1, ListCoversNext, ShownCoversNext DEF ShownInv
<1>3. QED
  BY <1>1, <1>2, ShownImply, PTL DEF Spec

------------------------------------------------------------------------------
(***************************************************************************)
(* The table of Messenger.  Of its two parts that the server does not keep *)
(* itself, here is who is connected and at is where each user is reached.  *)
(***************************************************************************)
here == {c \in Conn : Open(c)}
at == [u \in DOMAIN sessions |-> conn_at[sessions[u].ws]]

\* A client that is not connected has been pushed nothing.
InboxesEmpty == \A c \in Conn : ~Open(c) => live[c] = << >>

LEMMA InboxesNext ==
  ASSUME OwnersInv, InboxesEmpty, [Next]_vars
  PROVE  InboxesEmpty'
<1>0. ServerTypeOK /\ AddressOK
  BY DEF OwnersInv, ServerInv
<1>1. ASSUME NEW w \in Worker, send_to_user(w)
      PROVE  InboxesEmpty'
  <2>1. UNCHANGED state
    BY <1>1 DEF send_to_user, connVars
  <2>2. \A c \in Reached(DeliveredTo(packet[w].to)) : Open(c)
    BY <1>0, SessionFacts DEF Reached, DeliveredTo, AddressOK
  <2>3. QED
    BY <1>1, <2>1, <2>2 DEF send_to_user, InboxesEmpty, Open
<1>2. ASSUME NEW c \in Conn, connection_closed(c) \/ \E ws \in WebSocket : connection_opened(c, ws)
      PROVE  InboxesEmpty'
  BY <1>0, <1>2 DEF connection_closed, connection_opened, Gone, clientVars, InboxesEmpty, Open, ServerTypeOK
<1>3. CASE exit
  BY <1>3 DEF exit, Gone, InboxesEmpty
<1>4. CASE UNCHANGED <<state, live>>
  BY <1>4 DEF InboxesEmpty, Open
<1>5. QED
  BY <1>1, <1>2, <1>3, <1>4 DEF Next, message_received, process, Handle, login_request,
     reconnect_request, login_attach, login_response, get_chat_messages, send_history,
     logout_request, logout_remove, logout_response, chat_message, connVars, clientVars, vars

\* Where a user is reached does not change if the session and its address do not.
LEMMA PlacesStay ==
  ASSUME DOMAIN sessions' = DOMAIN sessions, \A u \in DOMAIN sessions : Stays(u)
  PROVE  at' = at
  BY DEF at, Stays

\* Every step of the server is one of the table, or cannot be seen there.
LEMMA OpenedArrives ==
  ASSUME OwnersInv, NEW c \in Conn, NEW ws \in WebSocket, connection_opened(c, ws)
  PROVE  Clients!MessengerNext
<1>0. ServerTypeOK
  BY DEF OwnersInv, ServerInv
<1>1. here' = here \cup {c} /\ c \notin here
  BY <1>0 DEF connection_opened, here, Open, ServerTypeOK
<1>2. UNCHANGED sessions /\ conn_at[ws] = NoConn /\ conn_at' = [conn_at EXCEPT ![ws] = c]
  BY DEF connection_opened, managerVars
<1>3. \A u \in DOMAIN sessions : Stays(u)
  BY <1>0, <1>2, SessionFacts DEF Stays, ServerTypeOK
<1>4. at' = at /\ live' = live
  BY <1>2, <1>3, PlacesStay DEF connection_opened, clientVars
<1>5. Clients!Arrive(c)
  BY <1>1, <1>4 DEF Clients!Arrive, here, at
<1>6. QED
  BY <1>5 DEF Clients!MessengerNext

LEMMA ClosedLeaves ==
  ASSUME OwnersInv, NEW c \in Conn, connection_closed(c)
  PROVE  Clients!MessengerNext
<1>0. ServerTypeOK /\ AddressOK
  BY DEF OwnersInv, ServerInv
<1>1. here' = here \ {c} /\ {c} \subseteq here
  BY <1>0 DEF connection_closed, here, Open, ServerTypeOK
<1>2. \A u \in DOMAIN sessions : at[u] = c <=> sessions[u].ws = SocketOf(c)
  BY <1>0, SessionFacts, SocketOfIs DEF at, connection_closed
<1>3. DOMAIN sessions' = DOMAIN sessions \ {u \in DOMAIN sessions : at[u] \in {c}}
  BY <1>2, CloseEffect
<1>4. \A u \in DOMAIN sessions' : Stays(u)
  <2>1. conn_at' = [conn_at EXCEPT ![SocketOf(c)] = NoConn]
    BY DEF connection_closed
  <2>2. QED
    BY <1>0, <2>1, CloseEffect, SessionFacts DEF Stays, ServerTypeOK
<1>5. at' = Clients!Without(at, {u \in DOMAIN at : at[u] \in {c}})
  BY <1>3, <1>4 DEF at, Stays, Clients!Without, Clients!Restrict
<1>6. live' = [d \in Conn |-> IF d \in {c} THEN << >> ELSE live[d]]
  BY DEF connection_closed, Gone
<1>7. Clients!Leave({c})
  BY <1>1, <1>5, <1>6 DEF Clients!Leave, here, at
<1>8. QED
  BY <1>7 DEF Clients!MessengerNext

LEMMA ExitLeaves ==
  ASSUME OwnersInv, InboxesEmpty, exit
  PROVE  Clients!MessengerNext
<1>0. ServerTypeOK /\ AddressOK
  BY DEF OwnersInv, ServerInv
<1>1. here' = {}
  BY <1>0 DEF exit, here, Open, ServerTypeOK
<1>2. DOMAIN sessions' = {}
  BY DEF exit, instance, EmptyMap
<1>3. \A u \in DOMAIN at : at[u] \in here
  BY <1>0, SessionFacts DEF at, here, AddressOK
<1>4. at' = Clients!Without(at, {u \in DOMAIN at : at[u] \in here})
  BY <1>2, <1>3 DEF at, Clients!Without, Clients!Restrict
<1>5. live' = [c \in Conn |-> IF c \in here THEN << >> ELSE live[c]]
  BY DEF exit, Gone, InboxesEmpty, here
<1>6. Clients!Leave(here)
  BY <1>1, <1>4, <1>5 DEF Clients!Leave, here, at
<1>7. QED
  BY <1>6 DEF Clients!MessengerNext, Clients!Leave, here

LEMMA AttachLogsIn ==
  ASSUME OwnersInv, NEW w \in Worker, login_attach(w)
  PROVE  Clients!MessengerNext
<1>1. PICK u \in UserID, c \in Conn :
        /\ u = packet[w].user /\ c = packet[w].conn
        /\ u \in Account[c] /\ Open(c) /\ conn_at[packet[w].ws] = c
  BY HeldFacts DEF login_attach, At
<1>2. UNCHANGED <<state, conn_at, live>>
  BY DEF login_attach, connVars
<1>3. here' = here /\ c \in here
  BY <1>1, <1>2 DEF here, Open
<1>4. at' = Clients!Put(at, u, c)
  BY <1>1, <1>2, AttachEffect DEF at, Clients!Put
<1>5. Clients!LogIn(u, c)
  BY <1>1, <1>2, <1>3, <1>4 DEF Clients!LogIn, here, at
<1>6. QED
  BY <1>5 DEF Clients!MessengerNext

LEMMA RemoveLogsOut ==
  ASSUME OwnersInv, NEW w \in Worker, logout_remove(w)
  PROVE  [Clients!MessengerNext]_(Clients!messengerVars)
<1>1. PICK u \in UserID : u = packet[w].user
  BY HeldFacts DEF logout_remove, At
<1>2. UNCHANGED <<state, conn_at, live>>
  BY DEF logout_remove, connVars, clientVars
<1>3. here' = here
  BY <1>2 DEF here, Open
<1>4. CASE u \in DOMAIN sessions
  <2>1. at' = Clients!Without(at, {u})
    BY <1>1, <1>2, LogoutEffect DEF at, Clients!Without, Clients!Restrict
  <2>2. Clients!LogOut(u)
    BY <1>2, <1>3, <1>4, <2>1 DEF Clients!LogOut, here, at
  <2>3. QED
    BY <2>2 DEF Clients!MessengerNext
<1>5. CASE u \notin DOMAIN sessions
  <2>1. at' = at
    BY <1>1, <1>2, <1>5, LogoutEffect DEF at
  <2>2. QED
    BY <1>2, <1>3, <2>1 DEF Clients!messengerVars, here, at
<1>6. QED
  BY <1>4, <1>5

\* The push finds the connection of the receiver and no other, and there the
\* message is behind what was sent before it.
LEMMA PushDelivers ==
  ASSUME OwnersInv, OwnersInv', NEW w \in Worker, send_to_user(w)
  PROVE  [Clients!MessengerNext]_(Clients!messengerVars)
<1>0. ServerTypeOK
  BY DEF OwnersInv, ServerInv
<1>1. PICK m \in Packet : m = packet[w]
  BY HeldFacts DEF send_to_user, At
<1>2. UNCHANGED <<state, conn_at, sessions>>
  BY DEF send_to_user, connVars, managerVars
<1>3. here' = here /\ at' = at
  BY <1>2 DEF here, at, Open
<1>4. CASE m.to \in DOMAIN sessions
  <2>1. PICK c \in Conn : c = at[m.to] /\ Reached(DeliveredTo(m.to)) = {c}
    BY <1>4, SessionFacts DEF at, Reached, DeliveredTo
  <2>2. live' = [live EXCEPT ![c] = Append(live[c], m)]
    BY <1>0, <1>1, <2>1 DEF send_to_user, ServerTypeOK
  <2>3. live[c] \in Seq(Packet)
    BY <1>0 DEF ServerTypeOK
  <2>4. /\ live'[c] = Append(live[c], m) /\ Len(live[c]) + 1 \in DOMAIN live'[c]
        /\ live'[c][Len(live[c]) + 1] = m
        /\ \A k \in DOMAIN live[c] :
             k \in 1..((Len(live[c]) + 1) - 1) /\ live'[c][k] = live[c][k]
    BY <1>0, <2>2, <2>3 DEF ServerTypeOK
  <2>5. \A k \in DOMAIN live[c] : live[c][k].conn = m.conn => live[c][k].n < m.n
    BY <2>4 DEF OwnersInv, OrderInv, PushedInOrder
  <2>6. Clients!Deliver(m)
    BY <1>2, <1>3, <1>4, <2>1, <2>2, <2>5 DEF Clients!Deliver, Clients!InLine, here, at
  <2>7. QED
    BY <2>6 DEF Clients!MessengerNext
<1>5. CASE m.to \notin DOMAIN sessions
  <2>1. Reached(DeliveredTo(m.to)) = {}
    BY <1>5 DEF Reached, DeliveredTo
  <2>2. live' = live
    BY <1>0, <1>1, <2>1 DEF send_to_user, ServerTypeOK
  <2>3. QED
    BY <1>3, <2>2 DEF Clients!messengerVars, here, at
<1>6. QED
  BY <1>4, <1>5

LEMMA StepServesClients ==
  ASSUME OwnersInv, OwnersInv', InboxesEmpty, [Next]_vars
  PROVE  [Clients!MessengerNext]_(Clients!messengerVars)
<1>1. UNCHANGED <<state, conn_at, sessions, live>> => UNCHANGED Clients!messengerVars
  BY DEF Clients!messengerVars, Open
<1>2. QED
  BY <1>1, OpenedArrives, ClosedLeaves, ExitLeaves, AttachLogsIn, RemoveLogsOut, PushDelivers
     DEF Next, message_received, process, Handle, login_request, reconnect_request,
         login_response, get_chat_messages, send_history, logout_request, logout_response,
         chat_message, connVars, clientVars, managerVars, vars

\* To clients that behave, the server is the plain table of Messenger: each user
\* is at one connection, open and the user's own, and every pushed message goes
\* to where its receiver is at that moment, once and in line.
THEOREM MessengerImplemented ==
  ASSUME Orderly
  PROVE  Spec => ImplementsMessenger
<1>1. Init => Clients!MessengerInit /\ InboxesEmpty
  BY DEF Init, ManagerInit, Clients!MessengerInit, InboxesEmpty, Open, EmptyMap, Clients!EmptyMap
<1>2. OwnersInv /\ OwnersInv' /\ InboxesEmpty /\ [Next]_vars => InboxesEmpty'
  BY InboxesNext
<1>3. OwnersInv /\ OwnersInv' /\ InboxesEmpty /\ [Next]_vars
        => [Clients!MessengerNext]_(Clients!messengerVars)
  BY StepServesClients
<1>4. QED
  BY <1>1, <1>2, <1>3, OwnersInvariant, PTL DEF Spec, ImplementsMessenger, Clients!MessengerSpec

------------------------------------------------------------------------------
(***************************************************************************)
(* One client per user.  With one worker, as on a machine with one thread, *)
(* the kick and the response of one login are sent before the next login   *)
(* attaches.                                                               *)
(***************************************************************************)
SingleWorker == \A v, w \in Worker : v = w

\* A logout ends the session of the user it names, wherever that user is now; in
\* what follows no client sends one.
NoLogouts == "logout" \notin Requests

TypesSent == \A p \in Packet, w \in Worker : InFlight(p, w) => p.type \in Requests

LogoutPlaces == {"logout_request", "remove_session", "logout_response"}
NobodyLogsOut == \A w \in Worker : pc[w] \notin LogoutPlaces

\* The session is there until the response to its login is sent, and a client
\* that knows it is logged in is where its user is reached.
AttachedAtResponse ==
  \A w \in Worker : At(w, "login_response") => ReachedAt(packet[w].user, packet[w].conn)

ToldReached == \A c \in Conn : told[c] # NoUser => ReachedAt(told[c], c)

AloneInv == OwnersInv /\ TypesSent /\ NobodyLogsOut /\ AttachedAtResponse /\ ToldReached

LEMMA TypesSentNext ==
  ASSUME OwnersInv, TypesSent, [Next]_vars
  PROVE  TypesSent'
<1>0. ServerTypeOK /\ AddressOK
  BY DEF OwnersInv, ServerInv
<1>1. ASSUME NEW c \in Conn, message_received(c)
      PROVE  TypesSent'
  <2>1. PICK p \in NextPackets(c) : \E w \in worker_index_for(p.ws) :
          queue' = [queue EXCEPT ![w] = Append(@, p)]
    BY <1>1 DEF message_received
  <2>2. p \in Packet /\ p.type \in Requests /\ p.ws \in WebSocket
    BY <1>0, <1>1, NextPacketsOK, PacketFacts DEF message_received, NextPackets
  <2>3. PICK w \in Worker : w = WorkerOf[p.ws]
    BY <2>2
  <2>4. queue' = [queue EXCEPT ![w] = Append(queue[w], p)] /\ UNCHANGED packet
    BY <1>1, <2>1, <2>3 DEF worker_index_for, message_received, handlerVars
  <2>5. \A q \in Packet, v \in Worker : InFlight(q, v)' => InFlight(q, v) \/ q = p
    BY <1>0, <2>2, <2>4, Arrived
  <2>6. QED
    BY <2>2, <2>5 DEF TypesSent
<1>2. CASE \A c \in Conn : ~message_received(c)
  BY <1>2, NothingArrives DEF TypesSent
<1>3. QED
  BY <1>1, <1>2

LEMMA NobodyLogsOutNext ==
  ASSUME NoLogouts, OwnersInv, TypesSent, NobodyLogsOut, [Next]_vars
  PROVE  NobodyLogsOut'
<1> SUFFICES ASSUME NEW w \in Worker, pc'[w] \in LogoutPlaces
             PROVE  FALSE
  BY DEF NobodyLogsOut
<1>0. ServerTypeOK
  BY DEF OwnersInv, ServerInv
<1>1. ~Rests(w) /\ ~exit
  BY DEF Rests, exit, NobodyLogsOut, LogoutPlaces
<1>2. CASE process(w)
  <2>1. PICK p \in Packet : p = Head(queue[w])
    BY <1>0, <1>2, HeadOK DEF process
  <2>2. 1 \in DOMAIN queue[w] /\ p = queue[w][1]
    BY <1>0, <1>2, <2>1, HeadOK DEF process
  <2>3. p.type \in Requests /\ p.type \in PacketType
    BY <2>2, PacketFacts DEF TypesSent, InFlight
  <2>4. pc'[w] = "idle" \/ (p.type # "unknown" /\ pc'[w] = FirstStep(p.type))
    BY <1>0, <1>2, <2>1 DEF process, Return, ServerTypeOK
  <2>5. QED
    BY <2>3, <2>4 DEF FirstStep, PacketType, NoLogouts, LogoutPlaces
<1>3. CASE Handle(w)
  BY <1>0, <1>3 DEF Handle, login_request, reconnect_request, login_attach, login_response,
     get_chat_messages, send_history, logout_request, logout_remove, logout_response,
     chat_message, send_to_user, Goto, Return, At, NobodyLogsOut, LogoutPlaces, ServerTypeOK
<1>4. QED
  BY <1>0, <1>1, <1>2, <1>3, WhoMoves

\* A user stays at a connection until that closes, another login of the user is
\* attached, or the process ends.
LEMMA ReachedKept ==
  ASSUME OwnersInv, NobodyLogsOut, [Next]_vars, NEW u, NEW c \in Conn, ReachedAt(u, c), ~exit,
         ~connection_closed(c), \A w \in Worker : login_attach(w) => packet[w].user # u
  PROVE  ReachedAt(u, c)'
<1>0. ServerTypeOK /\ AddressOK
  BY DEF OwnersInv, ServerInv
<1>1. u \in DOMAIN sessions /\ conn_at[sessions[u].ws] = c /\ sessions[u].ws \in WebSocket /\ c # NoConn
  BY SessionFacts DEF ReachedAt
<1>2. ASSUME NEW w \in Worker, login_attach(w)
      PROVE  ReachedAt(u, c)'
  <2>1. UNCHANGED conn_at
    BY <1>2 DEF login_attach, connVars
  <2>2. QED
    BY <1>1, <1>2, <2>1, AttachEffect DEF ReachedAt
<1>3. ASSUME NEW d \in Conn, connection_closed(d)
      PROVE  ReachedAt(u, c)'
  <2>1. d # c /\ SocketOf(d) \in WebSocket /\ conn_at[SocketOf(d)] = d
    BY <1>0, <1>3, SocketOfIs DEF connection_closed
  <2>2. conn_at' = [conn_at EXCEPT ![SocketOf(d)] = NoConn]
    BY <1>3 DEF connection_closed
  <2>3. sessions[u].ws # SocketOf(d)
    BY <1>1, <2>1
  <2>4. QED
    BY <1>0, <1>1, <1>3, <2>2, <2>3, CloseEffect DEF ReachedAt, ServerTypeOK
<1>4. ASSUME NEW d \in Conn, NEW ws \in WebSocket, connection_opened(d, ws)
      PROVE  ReachedAt(u, c)'
  BY <1>0, <1>1, <1>4 DEF connection_opened, managerVars, ReachedAt, ServerTypeOK
<1>5. CASE UNCHANGED <<sessions, conn_at>>
  BY <1>5 DEF ReachedAt
<1>6. \A w \in Worker : ~logout_remove(w)
  BY DEF logout_remove, At, NobodyLogsOut, LogoutPlaces
<1>7. QED
  BY <1>2, <1>3, <1>4, <1>5, <1>6 DEF Next, message_received, process, Handle, login_request,
     reconnect_request, login_response, get_chat_messages, send_history, logout_request,
     logout_response, chat_message, send_to_user, connVars, managerVars, vars

LEMMA AttachedNext ==
  ASSUME Orderly, SingleWorker, OwnersInv, NobodyLogsOut, AttachedAtResponse, [Next]_vars
  PROVE  AttachedAtResponse'
<1>0. ServerTypeOK
  BY DEF OwnersInv, ServerInv
<1> SUFFICES ASSUME NEW w \in Worker, pc'[w] = "login_response"
             PROVE  ReachedAt(packet[w].user, packet[w].conn)'
  BY DEF AttachedAtResponse, At
<1>1. CASE login_attach(w)
  <2>1. packet'[w] = packet[w] /\ UNCHANGED conn_at /\ ~At(w, "idle")
    BY <1>1 DEF login_attach, Goto, connVars, At
  <2>2. packet[w].user \in DOMAIN sessions' /\ sessions'[packet[w].user].ws = packet[w].ws
    <3>1. /\ DOMAIN sessions' = DOMAIN sessions \cup {packet[w].user}
          /\ sessions'[packet[w].user].ws = packet[w].ws
      BY <1>1, AttachEffect
    <3>2. QED
      BY <3>1
  <2>3. conn_at[packet[w].ws] = packet[w].conn
    BY <2>1, HeldFacts
  <2>4. QED
    BY <2>1, <2>2, <2>3 DEF ReachedAt
<1>2. CASE Rests(w)
  <2>1. At(w, "login_response") /\ ~At(w, "idle") /\ packet'[w] = packet[w]
    BY <1>2 DEF Rests, At
  <2>2. PICK u \in UserID, c \in Conn : u = packet[w].user /\ c = packet[w].conn
    BY <2>1, HeldFacts
  <2>3. ReachedAt(u, c)
    BY <2>1, <2>2 DEF AttachedAtResponse
  <2>4. ~exit
    BY DEF exit
  <2>5. ~connection_closed(c)
    BY <1>0, <2>1, <2>2 DEF connection_closed, Orderly, Answered, ServerTypeOK
  <2>6. \A v \in Worker : ~login_attach(v)
    BY <2>1 DEF SingleWorker, login_attach, At
  <2>7. ReachedAt(u, c)'
    BY <2>3, <2>4, <2>5, <2>6, ReachedKept
  <2>8. QED
    BY <2>1, <2>2, <2>7 DEF ReachedAt
<1>3. QED
  BY <1>0, <1>1, <1>2, WhoEnters

LEMMA ToldReachedNext ==
  ASSUME OwnersInv, NobodyLogsOut, AttachedAtResponse, ToldReached, [Next]_vars
  PROVE  ToldReached'
<1>0. ServerTypeOK /\ AddressOK
  BY DEF OwnersInv, ServerInv
<1> SUFFICES ASSUME NEW c \in Conn, NEW u, u = told'[c], u # NoUser
             PROVE  ReachedAt(u, c)'
  BY DEF ToldReached, ReachedAt
<1>1. ASSUME NEW w \in Worker, login_response(w), told'[c] # told[c]
      PROVE  ReachedAt(u, c)'
  <2>1. At(w, "login_response") /\ ~At(w, "idle") /\ UNCHANGED <<conn_at, sessions>>
    BY <1>1 DEF login_response, At, connVars, managerVars
  <2>2. c \in Reached({packet[w].ws}) /\ u = packet[w].user
    <3>1. Tell(Reached({packet[w].ws}), packet[w].user)
      BY <1>1 DEF login_response
    <3>2. QED
      BY <1>1, <3>1 DEF Tell
  <2>3. c = packet[w].conn
    <3>1. conn_at[packet[w].ws] = packet[w].conn
      BY <2>1, HeldFacts
    <3>2. conn_at[packet[w].ws] = c
      BY <2>2, ReachedOne
    <3>3. QED
      BY <3>1, <3>2
  <2>4. QED
    BY <2>1, <2>2, <2>3 DEF AttachedAtResponse, ReachedAt
<1>2. CASE told'[c] = told[c]
  <2>1. ReachedAt(u, c)
    BY <1>2 DEF ToldReached
  <2>2. ~exit /\ ~connection_closed(c)
    BY DEF exit, connection_closed, Gone
  <2>3. ASSUME NEW w \in Worker, login_attach(w), packet[w].user = u
        PROVE  ReachedAt(u, c)'
    <3>1. c \notin Reached(Kicked(u, packet[w].ws))
      BY <2>3 DEF login_attach, Tell
    <3>2. sessions[u].ws = packet[w].ws
      BY <2>1, <3>1 DEF ReachedAt, Reached, Kicked
    <3>3. UNCHANGED conn_at
      BY <2>3 DEF login_attach, connVars
    <3>4. QED
      BY <2>1, <2>3, <3>2, <3>3, AttachEffect DEF ReachedAt
  <2>4. QED
    BY <2>1, <2>2, <2>3, ReachedKept
<1>3. told'[c] = told[c] \/ \E w \in Worker : login_response(w)
  <2>1. ASSUME NEW w \in Worker, login_attach(w) \/ logout_response(w)
        PROVE  told'[c] = told[c]
    BY <1>0, <2>1 DEF login_attach, logout_response, Tell, ServerTypeOK
  <2>2. ASSUME NEW d \in Conn, connection_closed(d)
        PROVE  told'[c] = told[c]
    BY <2>2 DEF connection_closed, Gone
  <2>3. ~exit
    BY DEF exit, Gone
  <2>4. QED
    BY <2>1, <2>2, <2>3 DEF Next, connection_opened, message_received, process, Handle,
       login_request, reconnect_request, get_chat_messages, send_history, logout_request,
       logout_remove, chat_message, send_to_user, clientVars, vars
<1>4. QED
  BY <1>1, <1>2, <1>3

\* With one worker, and as long as nobody sends a logout, no two clients believe
\* they are logged in as the same user: a client that is replaced knows it.  The
\* run server_kick shows that two workers are enough to break that.
THEOREM OneClientAlone ==
  ASSUME Orderly, SingleWorker, NoLogouts
  PROVE  Spec => []OneClientPerUser
<1>1. Init => AloneInv
  <2> SUFFICES ASSUME Init PROVE AloneInv
    OBVIOUS
  <2>1. TypesSent
    BY PacketFacts DEF Init, TypesSent, InFlight
  <2>2. QED
    BY <2>1, OwnersInit DEF Init, AloneInv, NobodyLogsOut, LogoutPlaces, AttachedAtResponse,
       ToldReached, At
<1>2. AloneInv /\ [Next]_vars => AloneInv'
  BY OwnersNext, TypesSentNext, NobodyLogsOutNext, AttachedNext, ToldReachedNext DEF AloneInv
<1>3. AloneInv => OneClientPerUser
  BY DEF AloneInv, ToldReached, ReachedAt, OneClientPerUser
<1>4. QED
  BY <1>1, <1>2, <1>3, PTL DEF Spec
==============================================================================
