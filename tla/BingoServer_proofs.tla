------------------------- MODULE BingoServer_proofs --------------------------
(***************************************************************************)
(* What the server keeps whatever its clients do, for any number of        *)
(* clients, addresses and workers: types, the soundness of the reverse     *)
(* index in the composition, who can send a user offline, and the order of *)
(* pushed messages.                                                        *)
(***************************************************************************)
EXTENDS BingoServer, UserSessionManager_proofs

USE ServerAssumption

------------------------------------------------------------------------------
(* Connections and their addresses. *)

\* An open connection is at exactly one address, and only open ones are.
AddressOK ==
  /\ \A c \in Conn : Open(c) => \E ws \in WebSocket : conn_at[ws] = c
  /\ \A ws \in WebSocket : conn_at[ws] # NoConn => Open(conn_at[ws])
  /\ \A ws, v \in WebSocket : conn_at[ws] # NoConn /\ conn_at[ws] = conn_at[v] => ws = v

LEMMA SocketOfIs ==
  ASSUME AddressOK, NEW c \in Conn, Open(c)
  PROVE  /\ SocketOf(c) \in WebSocket /\ conn_at[SocketOf(c)] = c
         /\ \A ws \in WebSocket : conn_at[ws] = c => ws = SocketOf(c)
<1>1. \E ws \in WebSocket : conn_at[ws] = c
  BY DEF AddressOK
<1>2. SocketOf(c) \in WebSocket /\ conn_at[SocketOf(c)] = c
  BY <1>1 DEF SocketOf
<1>3. QED
  BY <1>2 DEF AddressOK

\* Steps that neither open nor close a connection.
LEMMA AddressStays ==
  ASSUME AddressOK, UNCHANGED <<state, conn_at>>
  PROVE  AddressOK'
  BY DEF AddressOK, Open

LEMMA AddressNext == ServerTypeOK /\ AddressOK /\ [Next]_vars => AddressOK'
<1> SUFFICES ASSUME ServerTypeOK, AddressOK, [Next]_vars
             PROVE  AddressOK'
  OBVIOUS
<1>1. ASSUME NEW c \in Conn, NEW ws \in WebSocket, connection_opened(c, ws)
      PROVE  AddressOK'
  BY <1>1 DEF connection_opened, AddressOK, Open, ServerTypeOK
<1>2. ASSUME NEW c \in Conn, connection_closed(c)
      PROVE  AddressOK'
  <2>1. SocketOf(c) \in WebSocket /\ conn_at[SocketOf(c)] = c
    BY <1>2, SocketOfIs DEF connection_closed
  <2>2. /\ state' = [state EXCEPT ![c] = "closed"]
        /\ conn_at' = [conn_at EXCEPT ![SocketOf(c)] = NoConn]
    BY <1>2 DEF connection_closed
  <2>3. QED
    BY <2>1, <2>2 DEF AddressOK, Open, ServerTypeOK
<1>3. CASE exit
  BY <1>3 DEF exit, AddressOK, Open, ServerTypeOK
<1>4. CASE UNCHANGED <<state, conn_at>>
  BY <1>4, AddressStays
<1>5. QED
  BY <1>1, <1>2, <1>3, <1>4 DEF Next, message_received, process, Handle, login_request,
     reconnect_request, login_attach, login_response, get_chat_messages, send_history,
     logout_request, logout_remove, logout_response, chat_message, send_to_user, connVars, vars

------------------------------------------------------------------------------
(* Types. *)

\* The parts of ServerTypeOK.
NetworkOK ==
  /\ state \in [Conn -> {"new", "open", "closed"}]
  /\ conn_at \in [WebSocket -> Conn \cup {NoConn}]
  /\ sent \in [Conn -> 0..MaxPackets]
  /\ exits \in 0..MaxExits

HandlersOK ==
  /\ queue \in [Worker -> Seq(Packet)]
  /\ pc \in [Worker -> Place]
  /\ packet \in [Worker -> Packet \cup {NoPacket}]
  /\ \A w \in Worker : At(w, "idle") <=> packet[w] = NoPacket

ClientsOK ==
  /\ fetched \in [Worker -> SUBSET chat_history]
  /\ chat_history \subseteq Packet
  /\ told \in [Conn -> UserID \cup {NoUser}]
  /\ live \in [Conn -> Seq(Packet)]
  /\ hist \in [Conn -> SUBSET chat_history]
  /\ synced \subseteq Conn \X UserID

LEMMA TypeParts == ServerTypeOK <=> NetworkOK /\ HandlersOK /\ ClientsOK
  BY DEF ServerTypeOK, NetworkOK, HandlersOK, ClientsOK

LEMMA PacketFacts ==
  ASSUME NEW p \in Packet
  PROVE  /\ p # NoPacket /\ p.conn \in Conn /\ p.n \in 1..MaxPackets /\ p.ws \in WebSocket
         /\ p.type \in PacketType /\ p.user \in UserID /\ p.to \in UserID
  BY DEF Packet, NoPacket

LEMMA PacketOf ==
  ASSUME ServerTypeOK, NEW w \in Worker, ~At(w, "idle")
  PROVE  /\ packet[w] \in Packet /\ packet[w].conn \in Conn /\ packet[w].ws \in WebSocket
         /\ packet[w].user \in UserID /\ packet[w].to \in UserID
  BY PacketFacts DEF ServerTypeOK

\* A handler that returns, or goes on.
LEMMA ReturnOK ==
  ASSUME HandlersOK, NEW w \in Worker, Return(w), UNCHANGED queue
  PROVE  HandlersOK'
  BY DEF HandlersOK, Return, Place, At

LEMMA GotoOK ==
  ASSUME HandlersOK, NEW w \in Worker, ~At(w, "idle"), NEW place \in Place \ {"idle"},
         Goto(w, place), UNCHANGED queue
  PROVE  HandlersOK'
  BY DEF HandlersOK, Goto, Place, At

LEMMA TypeInit == Init => ServerTypeOK /\ AddressOK
<1> SUFFICES ASSUME Init PROVE ServerTypeOK /\ AddressOK
  OBVIOUS
<1>1. 0 \in 0..MaxPackets /\ 0 \in 0..MaxExits
  OBVIOUS
<1>2. << >> \in Seq(Packet)
  OBVIOUS
<1>3. ServerTypeOK
  BY <1>1, <1>2 DEF Init, ServerTypeOK, Place, At
<1>4. AddressOK
  BY DEF Init, AddressOK, Open
<1>5. QED
  BY <1>3, <1>4

\* Clients that go away.
LEMMA GoneOK ==
  ASSUME ClientsOK, NEW D, Gone(D), UNCHANGED chat_history,
         fetched' \in [Worker -> SUBSET chat_history]
  PROVE  ClientsOK'
<1>1. << >> \in Seq(Packet)
  OBVIOUS
<1>2. QED
  BY <1>1 DEF ClientsOK, Gone

LEMMA TypeNetwork ==
  ASSUME ServerTypeOK, AddressOK, NEW c \in Conn,
         connection_closed(c) \/ \E ws \in WebSocket : connection_opened(c, ws)
  PROVE  ServerTypeOK'
<1>0. NetworkOK /\ HandlersOK /\ ClientsOK
  BY TypeParts
<1>1. HandlersOK'
  BY <1>0 DEF connection_opened, connection_closed, HandlersOK, handlerVars, At
<1>2. ASSUME NEW ws \in WebSocket, connection_opened(c, ws)
      PROVE  NetworkOK' /\ ClientsOK'
  BY <1>0, <1>2 DEF connection_opened, NetworkOK, ClientsOK, handlerVars, clientVars
<1>3. ASSUME connection_closed(c)
      PROVE  NetworkOK' /\ ClientsOK'
  <2>1. NetworkOK'
    BY <1>0, <1>3 DEF connection_closed, NetworkOK
  <2>2. Gone({c}) /\ UNCHANGED chat_history /\ fetched' \in [Worker -> SUBSET chat_history]
    BY <1>0, <1>3 DEF connection_closed, handlerVars, ClientsOK
  <2>3. QED
    BY <1>0, <2>1, <2>2, GoneOK
<1>4. NetworkOK' /\ ClientsOK'
  BY <1>2, <1>3
<1>5. QED
  BY <1>1, <1>4 DEF ServerTypeOK, NetworkOK, HandlersOK, ClientsOK

LEMMA NextPacketsOK ==
  ASSUME ServerTypeOK, AddressOK, NEW c \in Conn, Open(c), sent[c] < MaxPackets,
         NEW p \in NextPackets(c)
  PROVE  p \in Packet /\ p.conn = c /\ p.n = sent[c] + 1 /\ p.ws = SocketOf(c)
<1>1. sent[c] + 1 \in 1..MaxPackets /\ SocketOf(c) \in WebSocket /\ Account[c] \subseteq UserID
  BY SocketOfIs DEF ServerTypeOK
<1>2. QED
  BY <1>1 DEF NextPackets, Packet

LEMMA TypeReceived ==
  ASSUME ServerTypeOK, AddressOK, NEW c \in Conn, message_received(c)
  PROVE  ServerTypeOK'
<1>0. NetworkOK /\ HandlersOK /\ ClientsOK
  BY TypeParts
<1>1. PICK p \in NextPackets(c), w \in Worker : queue' = [queue EXCEPT ![w] = Append(@, p)]
  <2>1. PICK p \in NextPackets(c) : \E w \in worker_index_for(p.ws) :
          queue' = [queue EXCEPT ![w] = Append(@, p)]
    BY DEF message_received
  <2>2. p.ws \in WebSocket
    BY SocketOfIs DEF NextPackets, message_received
  <2>3. QED
    BY <2>1, <2>2 DEF worker_index_for
<1>2. p \in Packet
  BY NextPacketsOK DEF message_received
<1>3. queue' \in [Worker -> Seq(Packet)]
  BY <1>0, <1>1, <1>2 DEF HandlersOK
<1>4. NetworkOK' /\ HandlersOK' /\ ClientsOK'
  BY <1>0, <1>3 DEF message_received, NetworkOK, HandlersOK, ClientsOK, handlerVars, clientVars, At
<1>5. QED
  BY <1>4 DEF ServerTypeOK, NetworkOK, HandlersOK, ClientsOK

LEMMA HeadOK ==
  ASSUME ServerTypeOK, NEW w \in Worker, queue[w] # << >>
  PROVE  /\ Head(queue[w]) \in Packet
         /\ queue[w] \in Seq(Packet) /\ Tail(queue[w]) \in Seq(Packet)
  BY DEF ServerTypeOK

LEMMA TypeProcess ==
  ASSUME ServerTypeOK, NEW w \in Worker, process(w)
  PROVE  ServerTypeOK'
<1>0. NetworkOK /\ HandlersOK /\ ClientsOK
  BY TypeParts
<1>1. NetworkOK' /\ ClientsOK'
  BY <1>0 DEF process, NetworkOK, ClientsOK, connVars, clientVars
<1>2. PICK p \in Packet : p = Head(queue[w])
  BY HeadOK DEF process
<1>3. queue' \in [Worker -> Seq(Packet)]
  BY <1>0, HeadOK DEF process, HandlersOK
<1>4. p # NoPacket /\ p.type \in PacketType
  BY PacketFacts
<1>5. CASE p.type # "unknown" /\ packet' = [packet EXCEPT ![w] = p]
             /\ pc' = [pc EXCEPT ![w] = FirstStep(p.type)]
  <2>1. FirstStep(p.type) \in Place \ {"idle"}
    BY <1>4, <1>5 DEF FirstStep, PacketType, Place
  <2>2. HandlersOK'
    BY <1>0, <1>3, <1>4, <1>5, <2>1 DEF HandlersOK, At
  <2>3. QED
    BY <1>1, <2>2 DEF ServerTypeOK, NetworkOK, HandlersOK, ClientsOK
<1>6. CASE Return(w)
  <2>1. HandlersOK'
    BY <1>0, <1>3, <1>6 DEF HandlersOK, Return, Place, At
  <2>2. QED
    BY <1>1, <2>1 DEF ServerTypeOK, NetworkOK, HandlersOK, ClientsOK
<1>7. QED
  BY <1>2, <1>5, <1>6 DEF process

LEMMA TypeHandle ==
  ASSUME ServerTypeOK, NEW w \in Worker, Handle(w)
  PROVE  ServerTypeOK'
<1>0. NetworkOK /\ HandlersOK /\ ClientsOK
  BY TypeParts
<1>1. /\ packet[w] \in Packet /\ packet[w].conn \in Conn /\ packet[w].user \in UserID
      /\ ~At(w, "idle")
  BY PacketOf DEF Handle, login_request, reconnect_request, login_attach, login_response,
     get_chat_messages, send_history, logout_request, logout_remove, logout_response,
     chat_message, send_to_user, At
<1>2. HandlersOK'
  <2>1. UNCHANGED queue
    BY DEF Handle, login_request, reconnect_request, login_attach, login_response,
       get_chat_messages, send_history, logout_request, logout_remove, logout_response,
       chat_message, send_to_user
  <2>2. Return(w) \/ \E place \in Place \ {"idle"} : Goto(w, place)
    BY DEF Handle, login_request, reconnect_request, login_attach, login_response,
       get_chat_messages, send_history, logout_request, logout_remove, logout_response,
       chat_message, send_to_user, Place
  <2>3. QED
    BY <1>0, <1>1, <2>1, <2>2, ReturnOK, GotoOK
<1>3. NetworkOK'
  BY <1>0 DEF Handle, login_request, reconnect_request, login_attach, login_response,
     get_chat_messages, send_history, logout_request, logout_remove, logout_response,
     chat_message, send_to_user, NetworkOK, connVars
<1>4. ClientsOK'
  <2>1. CASE UNCHANGED <<fetched, clientVars, chat_history>>
    BY <1>0, <2>1 DEF ClientsOK, clientVars
  <2>2. CASE login_attach(w) \/ login_response(w) \/ logout_response(w)
    <3>1. told' \in [Conn -> UserID \cup {NoUser}] /\ synced' \subseteq synced
      BY <1>0, <1>1, <2>2 DEF login_attach, login_response, logout_response, Tell, ClientsOK
    <3>2. UNCHANGED <<fetched, chat_history, live, hist>>
      BY <2>2 DEF login_attach, login_response, logout_response
    <3>3. QED
      BY <1>0, <3>1, <3>2 DEF ClientsOK
  <2>3. CASE get_chat_messages(w)
    <3>1. messages_of(packet[w].user) \subseteq chat_history
      BY DEF messages_of
    <3>2. fetched' \in [Worker -> SUBSET chat_history]
      BY <1>0, <2>3, <3>1 DEF get_chat_messages, ClientsOK
    <3>3. UNCHANGED <<clientVars, chat_history>>
      BY <2>3 DEF get_chat_messages
    <3>4. QED
      BY <1>0, <3>2, <3>3 DEF ClientsOK, clientVars
  <2>4. CASE send_history(w)
    <3>1. Reached({packet[w].ws}) \subseteq Conn
      BY DEF Reached
    <3>2. UNCHANGED <<chat_history, told, live>> /\ fetched' \in [Worker -> SUBSET chat_history]
      BY <1>0, <2>4 DEF send_history, ClientsOK
    <3>3. hist' \in [Conn -> SUBSET chat_history]
      BY <1>0, <2>4 DEF send_history, ClientsOK
    <3>4. synced' \subseteq Conn \X UserID
      BY <1>0, <1>1, <2>4, <3>1 DEF send_history, ClientsOK
    <3>5. QED
      BY <1>0, <3>2, <3>3, <3>4 DEF ClientsOK
  <2>5. CASE chat_message(w)
    BY <1>0, <1>1, <2>5 DEF chat_message, ClientsOK, clientVars
  <2>6. CASE send_to_user(w)
    <3>1. live' \in [Conn -> Seq(Packet)]
      <4>1. \A c \in Conn : Append(live[c], packet[w]) \in Seq(Packet)
        BY <1>0, <1>1 DEF ClientsOK
      <4>2. QED
        BY <1>0, <2>6, <4>1 DEF send_to_user, ClientsOK
    <3>2. QED
      BY <1>0, <2>6, <3>1 DEF send_to_user, ClientsOK
  <2>7. QED
    BY <2>1, <2>2, <2>3, <2>4, <2>5, <2>6 DEF Handle, login_request, reconnect_request,
       logout_request, logout_remove
<1>5. QED
  BY <1>2, <1>3, <1>4 DEF ServerTypeOK, NetworkOK, HandlersOK, ClientsOK

LEMMA TypeExit ==
  ASSUME ServerTypeOK, exit
  PROVE  ServerTypeOK'
<1>0. NetworkOK /\ HandlersOK /\ ClientsOK
  BY TypeParts
<1>1. << >> \in Seq(Packet)
  OBVIOUS
<1>2. NetworkOK' /\ HandlersOK'
  BY <1>0, <1>1 DEF exit, NetworkOK, HandlersOK, Open, Place, At
<1>3. ClientsOK'
  BY <1>0, GoneOK DEF exit
<1>4. QED
  BY <1>2, <1>3 DEF ServerTypeOK, NetworkOK, HandlersOK, ClientsOK

LEMMA TypeNext == ServerTypeOK /\ AddressOK /\ [Next]_vars => ServerTypeOK'
<1> SUFFICES ASSUME ServerTypeOK, AddressOK, [Next]_vars
             PROVE  ServerTypeOK'
  OBVIOUS
<1>1. CASE UNCHANGED vars
  BY <1>1 DEF vars, connVars, handlerVars, clientVars, ServerTypeOK, At
<1>2. CASE Next
  BY <1>2, TypeNetwork, TypeReceived, TypeProcess, TypeHandle, TypeExit DEF Next
<1>3. QED
  BY <1>1, <1>2

\* Connections, queues, handlers, messages and what clients know keep their types,
\* for any number of each.
THEOREM ServerTypes == Spec => []ServerTypeOK
<1>1. ServerTypeOK /\ AddressOK /\ [Next]_vars => (ServerTypeOK /\ AddressOK)'
  BY TypeNext, AddressNext
<1>2. QED
  BY <1>1, TypeInit, PTL DEF Spec

------------------------------------------------------------------------------
(***************************************************************************)
(* The registry inside the server.  Every step of the server is an         *)
(* operation of the class or leaves it alone, so what UserSessionManager   *)
(* keeps on its own it keeps here.                                         *)
(***************************************************************************)
ServerInv == ServerTypeOK /\ AddressOK /\ ManagerInv

LEMMA ManagerStep == ServerTypeOK /\ AddressOK /\ [Next]_vars => [ManagerNext]_managerVars
<1> SUFFICES ASSUME ServerTypeOK, AddressOK, [Next]_vars
             PROVE  [ManagerNext]_managerVars
  OBVIOUS
<1>1. ASSUME NEW c \in Conn, connection_closed(c)
      PROVE  [ManagerNext]_managerVars
  <2>1. SocketOf(c) \in WebSocket
    BY <1>1, SocketOfIs DEF connection_closed
  <2>2. remove_session_by_ws(SocketOf(c)) \/ UNCHANGED managerVars
    BY <1>1 DEF connection_closed
  <2>3. QED
    BY <2>1, <2>2 DEF ManagerNext
<1>2. ASSUME NEW w \in Worker, login_attach(w)
      PROVE  [ManagerNext]_managerVars
  <2>1. packet[w].user \in UserID /\ packet[w].ws \in WebSocket
    BY <1>2, PacketOf DEF login_attach, At
  <2>2. QED
    BY <1>2, <2>1 DEF login_attach, ManagerNext
<1>3. ASSUME NEW w \in Worker, logout_remove(w)
      PROVE  [ManagerNext]_managerVars
  <2>1. packet[w].user \in UserID
    BY <1>3, PacketOf DEF logout_remove, At
  <2>2. QED
    BY <1>3, <2>1 DEF logout_remove, ManagerNext
<1>4. CASE exit
  BY <1>4 DEF exit, ManagerNext
<1>5. CASE UNCHANGED managerVars
  BY <1>5
<1>6. QED
  BY <1>1, <1>2, <1>3, <1>4, <1>5 DEF Next, connection_opened, message_received, process, Handle,
     login_request, reconnect_request, login_response, get_chat_messages, send_history,
     logout_request, logout_response, chat_message, send_to_user, vars

LEMMA ServerInvInit == Init => ServerInv
  BY TypeInit, InitInv DEF Init, ServerInv

LEMMA ServerInvNext == ServerInv /\ [Next]_vars => ServerInv'
  BY TypeNext, AddressNext, ManagerStep, StepInv DEF ServerInv

LEMMA ServerInvariant == Spec => []ServerInv
  BY ServerInvInit, ServerInvNext, PTL DEF Spec

\* The server implements the specification of its registry: whatever threads do,
\* the two maps change only by whole operations of the class.
THEOREM ImplementsManager == Spec => ManagerSpec
<1>1. Init => ManagerInit
  BY DEF Init
<1>2. ServerInv /\ [Next]_vars => [ManagerNext]_managerVars
  BY ManagerStep DEF ServerInv
<1>3. QED
  BY <1>1, <1>2, ServerInvariant, PTL DEF Spec, ManagerSpec

\* The table of sessions and its index keep their types in the running server.
THEOREM RegistryTypes == Spec => []ManagerTypeOK
<1>1. ServerInv => ManagerTypeOK
  BY DEF ServerInv, ManagerInv
<1>2. QED
  BY <1>1, ServerInvariant, PTL

\* While workers attach and remove sessions and the event loop reports closed
\* sockets, an indexed socket is the socket its user is reached at.
THEOREM RegistryIndexSound == Spec => []IndexSound
<1>1. ServerInv => IndexSound
  BY DEF ServerInv, ManagerInv
<1>2. QED
  BY <1>1, ServerInvariant, PTL

\* How one step can send a user offline.
LEMMA OfflineOnlyBy ==
  ASSUME ServerInv, [Next]_vars, NEW u \in UserID, GoesOffline(u)
  PROVE  OwnSocketCloses(u) \/ LogoutHandled(u) \/ exits' # exits
<1>0. ServerTypeOK /\ AddressOK /\ ManagerTypeOK /\ IndexSound
  BY DEF ServerInv, ManagerInv
<1>1. u \in DOMAIN sessions /\ u \notin DOMAIN sessions'
  BY DEF GoesOffline, is_online
<1>2. ASSUME NEW v, sessions' = DropReference(v)
      PROVE  u = v
  <2>1. DropReference(v) = [k \in DOMAIN sessions \ {v} |-> sessions[k]]
    BY <1>0, DropReferenceEnds, WithoutDef
  <2>2. QED
    BY <1>1, <1>2, <2>1
<1>3. ASSUME NEW c \in Conn, connection_closed(c)
      PROVE  OwnSocketCloses(u)
  <2>1. SocketOf(c) \in WebSocket /\ conn_at[SocketOf(c)] = c
    BY <1>0, <1>3, SocketOfIs DEF connection_closed
  <2>2. conn_at'[SocketOf(c)] = NoConn
    BY <1>0, <1>3, <2>1 DEF connection_closed, ServerTypeOK
  <2>3. remove_session_by_ws(SocketOf(c))
    BY <1>1, <1>3 DEF connection_closed, managerVars
  <2>4. u = ws_index[SocketOf(c)] /\ SocketOf(c) \in DOMAIN ws_index
    BY <1>2, <2>3 DEF remove_session_by_ws
  <2>5. sessions[u].ws = SocketOf(c)
    BY <1>0, <2>4 DEF IndexSound
  <2>6. QED
    BY <2>1, <2>2, <2>5 DEF OwnSocketCloses
<1>4. ASSUME NEW w \in Worker, logout_remove(w)
      PROVE  LogoutHandled(u)
  <2>1. remove_session(packet[w].user) /\ Goto(w, "logout_response") /\ At(w, "remove_session")
    BY <1>1, <1>4 DEF logout_remove, managerVars
  <2>2. u = packet[w].user
    BY <1>2, <2>1 DEF remove_session
  <2>3. pc'[w] = "logout_response"
    BY <1>0, <2>1 DEF Goto, ServerTypeOK
  <2>4. QED
    BY <2>1, <2>2, <2>3 DEF LogoutHandled, At
<1>5. ASSUME NEW w \in Worker, login_attach(w)
      PROVE  FALSE
  <2>1. packet[w].user \in UserID /\ packet[w].ws \in WebSocket
    BY <1>0, <1>5, PacketOf DEF login_attach, At
  <2>2. DOMAIN sessions \subseteq DOMAIN sessions'
    <3>1. CASE NewSession(packet[w].user, packet[w].ws)
      BY <3>1 DEF NewSession, Put
    <3>2. CASE TakeOver(packet[w].user, packet[w].ws)
      BY <3>2 DEF TakeOver
    <3>3. QED
      BY <1>5, <3>1, <3>2 DEF login_attach, attach_session
  <2>3. QED
    BY <1>1, <2>2
<1>6. CASE exit
  BY <1>0, <1>6 DEF exit, ServerTypeOK
<1>7. CASE UNCHANGED managerVars
  BY <1>1, <1>7 DEF managerVars
<1>8. QED
  BY <1>3, <1>4, <1>5, <1>6, <1>7 DEF Next, connection_opened, message_received, process, Handle,
     login_request, reconnect_request, login_response, get_chat_messages, send_history,
     logout_request, logout_response, chat_message, send_to_user, vars

\* A user goes offline only because the user's own socket is closed, a logout of
\* that user is handled, or the process ends.
THEOREM OnlineUntilOwnEnd == Spec => StaysOnline
<1>1. ServerInv /\ [Next]_vars =>
        [\A u \in UserID : GoesOffline(u) =>
           \/ OwnSocketCloses(u)
           \/ LogoutHandled(u)
           \/ exits' # exits]_vars
  BY OfflineOnlyBy
<1>2. QED
  BY <1>1, ServerInvariant, PTL DEF Spec, StaysOnline

------------------------------------------------------------------------------
(***************************************************************************)
(* The order of pushed messages.  The packets of a connection that are     *)
(* still on their way are all in the hands of the worker of its address,   *)
(* in the order they were sent, and everything pushed was sent before      *)
(* them.  A connection never changes its address and a closed one never    *)
(* opens again, so no second worker gets any of them.                      *)
(***************************************************************************)

\* p is in the hands of w: held, or in its queue.
InFlight(p, w) == p = packet[w] \/ \E k \in DOMAIN queue[w] : p = queue[w][k]

Routed ==
  \A p \in Packet, w \in Worker : InFlight(p, w) =>
    /\ WorkerOf[p.ws] = w
    /\ p.n <= sent[p.conn]
    /\ state[p.conn] # "new"
    /\ Open(p.conn) => conn_at[p.ws] = p.conn

OneWorker ==
  \A p, q \in Packet, v, w \in Worker :
    InFlight(p, v) /\ InFlight(q, w) /\ p.conn = q.conn => v = w

QueueOrdered ==
  \A w \in Worker : \A i, j \in DOMAIN queue[w] :
    i < j /\ queue[w][i].conn = queue[w][j].conn => queue[w][i].n < queue[w][j].n

HeldFirst ==
  \A w \in Worker : \A j \in DOMAIN queue[w] :
    packet[w] # NoPacket /\ packet[w].conn = queue[w][j].conn => packet[w].n < queue[w][j].n

PushedBefore ==
  \A p \in Packet, w \in Worker : InFlight(p, w) =>
    \A c \in Conn : \A j \in DOMAIN live[c] :
      live[c][j].conn = p.conn => live[c][j].n < p.n

PushedSent == \A c \in Conn : \A j \in DOMAIN live[c] : live[c][j].n <= sent[live[c][j].conn]

LinesInv == Routed /\ OneWorker /\ QueueOrdered /\ HeldFirst
OrderInv == LinesInv /\ PushedBefore /\ PushedSent /\ PushedInOrder

LEMMA QueueFacts ==
  ASSUME ServerTypeOK, NEW w \in Worker
  PROVE  /\ DOMAIN queue[w] = 1..Len(queue[w]) /\ Len(queue[w]) \in Nat
         /\ \A k \in DOMAIN queue[w] : k \in Nat /\ queue[w][k] \in Packet
  BY DEF ServerTypeOK

LEMMA LiveFacts ==
  ASSUME ServerTypeOK, NEW c \in Conn
  PROVE  /\ DOMAIN live[c] = 1..Len(live[c]) /\ Len(live[c]) \in Nat
         /\ \A k \in DOMAIN live[c] : k \in Nat /\ live[c][k] \in Packet
  BY DEF ServerTypeOK

LEMMA TailFacts ==
  ASSUME NEW s \in Seq(Packet), s # << >>
  PROVE  /\ 1 \in DOMAIN s /\ s[1] = Head(s)
         /\ \A k \in DOMAIN Tail(s) : k \in Nat /\ k >= 1 /\ k + 1 \in DOMAIN s /\ Tail(s)[k] = s[k + 1]
  OBVIOUS

LEMMA AppendFacts ==
  ASSUME NEW s \in Seq(Packet), NEW p \in Packet
  PROVE  /\ Append(s, p) \in Seq(Packet) /\ DOMAIN s = 1..Len(s) /\ Len(s) \in Nat
         /\ \A k \in DOMAIN Append(s, p) :
              \/ k \in DOMAIN s /\ Append(s, p)[k] = s[k]
              \/ k = Len(s) + 1 /\ Append(s, p)[k] = p
  OBVIOUS

\* What is in the hands of a worker once p is appended to the queue of w.
LEMMA Arrived ==
  ASSUME ServerTypeOK, NEW p \in Packet, NEW w \in Worker,
         queue' = [queue EXCEPT ![w] = Append(queue[w], p)], UNCHANGED packet,
         NEW q \in Packet, NEW v \in Worker, InFlight(q, v)'
  PROVE  InFlight(q, v) \/ (q = p /\ v = w)
<1>1. queue[w] \in Seq(Packet) /\ queue'[w] = Append(queue[w], p)
      /\ \A x \in Worker \ {w} : queue'[x] = queue[x]
  BY DEF ServerTypeOK
<1>2. ASSUME NEW k \in DOMAIN queue'[v], q = queue'[v][k]
      PROVE  InFlight(q, v) \/ (q = p /\ v = w)
  <2>1. CASE v # w
    BY <1>1, <1>2, <2>1 DEF InFlight
  <2>2. CASE v = w
    <3>1. k \in DOMAIN Append(queue[w], p) /\ q = Append(queue[w], p)[k]
      BY <1>1, <1>2, <2>2
    <3>2. \/ k \in DOMAIN queue[w] /\ q = queue[w][k]
          \/ q = p
      BY <1>1, <3>1, AppendFacts
    <3>3. QED
      BY <2>2, <3>2 DEF InFlight
  <2>3. QED
    BY <2>1, <2>2
<1>3. QED
  BY <1>2 DEF InFlight

\* A worker that takes a packet had it in its queue.
LEMMA Taken ==
  ASSUME ServerTypeOK, NEW w \in Worker, process(w),
         NEW q \in Packet, NEW v \in Worker, InFlight(q, v)'
  PROVE  InFlight(q, v)
<1>1. queue[w] \in Seq(Packet) /\ queue[w] # << >>
  BY HeadOK DEF process
<1>2. PICK p \in Packet : p = Head(queue[w])
  BY HeadOK DEF process
<1>3. /\ queue'[w] = Tail(queue[w]) /\ \A x \in Worker \ {w} : queue'[x] = queue[x]
      /\ packet'[w] = p \/ packet'[w] = NoPacket
      /\ \A x \in Worker \ {w} : packet'[x] = packet[x]
  BY <1>2 DEF process, Return, ServerTypeOK
<1>4. 1 \in DOMAIN queue[w] /\ queue[w][1] = p
  BY <1>1, <1>2, TailFacts
<1>5. CASE v # w
  BY <1>3, <1>5 DEF InFlight
<1>6. CASE v = w /\ q = packet'[w]
  BY <1>3, <1>4, <1>6, PacketFacts DEF InFlight
<1>7. ASSUME v = w, NEW k \in DOMAIN queue'[w], q = queue'[w][k]
      PROVE  InFlight(q, w)
  <2>1. k + 1 \in DOMAIN queue[w] /\ queue'[w][k] = queue[w][k + 1]
    BY <1>1, <1>3, <1>7, TailFacts
  <2>2. QED
    BY <1>7, <2>1 DEF InFlight
<1>8. QED
  BY <1>5, <1>6, <1>7 DEF InFlight

LEMMA OrderInit == Init => OrderInv
<1> SUFFICES ASSUME Init PROVE OrderInv
  OBVIOUS
<1>1. \A p \in Packet, w \in Worker : ~InFlight(p, w)
  BY PacketFacts DEF Init, InFlight
<1>2. QED
  BY <1>1 DEF Init, OrderInv, LinesInv, Routed, OneWorker, QueueOrdered, HeldFirst, PushedBefore,
     PushedSent, PushedInOrder

\* A packet that arrives.
LEMMA LinesReceived ==
  ASSUME ServerTypeOK, ServerTypeOK', AddressOK, OrderInv, NEW c \in Conn, message_received(c)
  PROVE  OrderInv'
<1>1. PICK p \in NextPackets(c) : \E w \in worker_index_for(p.ws) :
        queue' = [queue EXCEPT ![w] = Append(@, p)]
  BY DEF message_received
<1>2. Open(c) /\ p \in Packet /\ p.conn = c /\ p.n = sent[c] + 1 /\ conn_at[p.ws] = c /\ p.ws \in WebSocket
  BY NextPacketsOK, SocketOfIs, PacketFacts DEF message_received
<1>3. PICK w \in Worker : w = WorkerOf[p.ws]
  BY <1>2
<1>4. queue' = [queue EXCEPT ![w] = Append(queue[w], p)]
  BY <1>1, <1>3 DEF worker_index_for
<1>5. /\ UNCHANGED <<state, conn_at, packet, live>>
      /\ sent' = [sent EXCEPT ![c] = sent[c] + 1]
  BY DEF message_received, handlerVars, clientVars
<1>6. \A d \in Conn : sent[d] \in Nat /\ sent'[d] \in Nat /\ sent[d] <= sent'[d]
  BY <1>5 DEF ServerTypeOK
<1>7. sent'[c] = sent[c] + 1
  BY <1>5 DEF ServerTypeOK
<1>8. queue[w] \in Seq(Packet) /\ queue'[w] = Append(queue[w], p)
      /\ \A v \in Worker \ {w} : queue'[v] = queue[v]
  BY <1>4 DEF ServerTypeOK
<1>9. ASSUME NEW q \in Packet, NEW v \in Worker, InFlight(q, v)'
      PROVE  InFlight(q, v) \/ (q = p /\ v = w)
  BY <1>2, <1>4, <1>5, <1>9, Arrived
<1>10. ASSUME NEW q \in Packet, NEW v \in Worker, InFlight(q, v), q.conn = c
       PROVE  v = w /\ q.n < p.n
  <2>1. q.n <= sent[c] /\ conn_at[q.ws] = c /\ WorkerOf[q.ws] = v /\ q.ws \in WebSocket /\ q.n \in Nat
    BY <1>2, <1>10, PacketFacts DEF OrderInv, LinesInv, Routed
  <2>2. q.ws = p.ws
    BY <1>2, <2>1, SocketOfIs
  <2>3. QED
    BY <1>2, <1>3, <1>6, <2>1, <2>2
<1>11. Routed'
  <2> SUFFICES ASSUME NEW q \in Packet, NEW v \in Worker, InFlight(q, v)'
               PROVE  /\ WorkerOf[q.ws] = v
                      /\ q.n <= sent'[q.conn]
                      /\ state'[q.conn] # "new"
                      /\ (state'[q.conn] = "open") => conn_at'[q.ws] = q.conn
    BY DEF Routed, Open
  <2>1. CASE InFlight(q, v)
    <3>1. q.n \in Nat /\ q.conn \in Conn
      BY PacketFacts
    <3>2. QED
      BY <1>5, <1>6, <2>1, <3>1 DEF OrderInv, LinesInv, Routed, Open
  <2>2. CASE q = p /\ v = w
    BY <1>2, <1>3, <1>5, <1>6, <1>7, <2>2 DEF Open
  <2>3. QED
    BY <1>9, <2>1, <2>2
<1>12. OneWorker'
  BY <1>2, <1>9, <1>10 DEF OrderInv, LinesInv, OneWorker
<1>13. QueueOrdered'
  <2> SUFFICES ASSUME NEW v \in Worker, NEW i \in DOMAIN queue'[v], NEW j \in DOMAIN queue'[v],
                      i < j, queue'[v][i].conn = queue'[v][j].conn
               PROVE  queue'[v][i].n < queue'[v][j].n
    BY DEF QueueOrdered
  <2>1. CASE v # w
    BY <1>8, <2>1 DEF OrderInv, LinesInv, QueueOrdered
  <2>2. CASE v = w
    <3>1. \/ i \in DOMAIN queue[w] /\ queue'[w][i] = queue[w][i]
          \/ i = Len(queue[w]) + 1 /\ queue'[w][i] = p
      BY <1>2, <1>8, <2>2, AppendFacts
    <3>2. \/ j \in DOMAIN queue[w] /\ queue'[w][j] = queue[w][j]
          \/ j = Len(queue[w]) + 1 /\ queue'[w][j] = p
      BY <1>2, <1>8, <2>2, AppendFacts
    <3>3. CASE i \in DOMAIN queue[w] /\ queue'[w][i] = queue[w][i] /\ queue'[w][j] = p
      <4>1. queue[w][i] \in Packet /\ InFlight(queue[w][i], w)
        BY <3>3, QueueFacts DEF InFlight
      <4>2. QED
        BY <1>2, <1>10, <2>2, <3>3, <4>1
    <3>4. QED
      BY <2>2, <3>1, <3>2, <3>3, QueueFacts DEF OrderInv, LinesInv, QueueOrdered
  <2>3. QED
    BY <2>1, <2>2
<1>14. HeldFirst'
  <2> SUFFICES ASSUME NEW v \in Worker, NEW j \in DOMAIN queue'[v],
                      packet[v] # NoPacket, packet[v].conn = queue'[v][j].conn
               PROVE  packet[v].n < queue'[v][j].n
    BY <1>5 DEF HeldFirst
  <2>1. CASE v # w \/ (j \in DOMAIN queue[w] /\ queue'[w][j] = queue[w][j])
    BY <1>8, <2>1 DEF OrderInv, LinesInv, HeldFirst
  <2>2. CASE v = w /\ queue'[w][j] = p
    <3>1. packet[w] \in Packet /\ InFlight(packet[w], w)
      BY <2>2 DEF InFlight, ServerTypeOK
    <3>2. QED
      BY <1>2, <1>10, <2>2, <3>1
  <2>3. QED
    BY <1>2, <1>8, <2>1, <2>2, AppendFacts
<1>15. PushedSent'
  <2>1. \A d \in Conn : \A k \in DOMAIN live[d] : live[d][k].n \in Nat /\ live[d][k].conn \in Conn
    BY LiveFacts, PacketFacts
  <2>2. QED
    BY <1>5, <1>6, <2>1 DEF OrderInv, PushedSent
<1>16. PushedBefore'
  <2> SUFFICES ASSUME NEW q \in Packet, NEW v \in Worker, InFlight(q, v)',
                      NEW d \in Conn, NEW j \in DOMAIN live[d], live[d][j].conn = q.conn
               PROVE  live[d][j].n < q.n
    BY <1>5 DEF PushedBefore
  <2>1. CASE InFlight(q, v)
    BY <2>1 DEF OrderInv, PushedBefore
  <2>2. CASE q = p
    <3>1. live[d][j].n <= sent[c] /\ live[d][j].n \in Nat
      BY <1>2, <2>2, LiveFacts, PacketFacts DEF OrderInv, PushedSent
    <3>2. QED
      BY <1>2, <1>6, <2>2, <3>1
  <2>3. QED
    BY <1>9, <2>1, <2>2
<1>17. PushedInOrder'
  BY <1>5 DEF OrderInv, PushedInOrder
<1>18. QED
  BY <1>11, <1>12, <1>13, <1>14, <1>15, <1>16, <1>17 DEF OrderInv, LinesInv

\* A worker takes the head of its queue, and holds it or drops it.
LEMMA LinesTaken ==
  ASSUME ServerTypeOK, OrderInv, NEW w \in Worker, process(w)
  PROVE  OrderInv'
<1>1. queue[w] \in Seq(Packet) /\ queue[w] # << >> /\ packet[w] = NoPacket
  BY HeadOK DEF process, ServerTypeOK, At
<1>2. PICK p \in Packet : p = Head(queue[w])
  BY HeadOK DEF process
<1>3. /\ queue'[w] = Tail(queue[w]) /\ \A v \in Worker \ {w} : queue'[v] = queue[v]
      /\ packet'[w] = p \/ packet'[w] = NoPacket
      /\ \A v \in Worker \ {w} : packet'[v] = packet[v]
      /\ UNCHANGED <<state, conn_at, sent, live>>
  BY <1>2 DEF process, Return, ServerTypeOK, connVars, clientVars
<1>4. 1 \in DOMAIN queue[w] /\ queue[w][1] = p /\ InFlight(p, w)
  BY <1>1, <1>2, TailFacts DEF InFlight
<1>5. \A k \in DOMAIN queue'[w] :
        k \in Nat /\ k >= 1 /\ k + 1 \in DOMAIN queue[w] /\ queue'[w][k] = queue[w][k + 1]
  BY <1>1, <1>3, TailFacts
<1>6. ASSUME NEW q \in Packet, NEW v \in Worker, InFlight(q, v)'
      PROVE  InFlight(q, v)
  BY <1>6, Taken
<1>7. Routed'
  <2> SUFFICES ASSUME NEW q \in Packet, NEW v \in Worker, InFlight(q, v)'
               PROVE  /\ WorkerOf[q.ws] = v
                      /\ q.n <= sent[q.conn]
                      /\ state[q.conn] # "new"
                      /\ Open(q.conn) => conn_at[q.ws] = q.conn
    BY <1>3 DEF Routed, Open
  <2> QED
    BY <1>6 DEF OrderInv, LinesInv, Routed
<1>8. OneWorker'
  BY <1>6 DEF OrderInv, LinesInv, OneWorker
<1>9. QueueOrdered'
  <2> SUFFICES ASSUME NEW v \in Worker, NEW i \in DOMAIN queue'[v], NEW j \in DOMAIN queue'[v],
                      i < j, queue'[v][i].conn = queue'[v][j].conn
               PROVE  queue'[v][i].n < queue'[v][j].n
    BY DEF QueueOrdered
  <2>1. CASE v # w
    BY <1>3, <2>1 DEF OrderInv, LinesInv, QueueOrdered
  <2>2. CASE v = w
    <3>1. i + 1 \in DOMAIN queue[w] /\ j + 1 \in DOMAIN queue[w] /\ i + 1 < j + 1
      BY <1>5, <2>2
    <3>2. queue[w][i + 1].conn = queue[w][j + 1].conn
      BY <1>5, <2>2
    <3>3. queue[w][i + 1].n < queue[w][j + 1].n
      BY <3>1, <3>2 DEF OrderInv, LinesInv, QueueOrdered
    <3>4. QED
      BY <1>5, <2>2, <3>3
  <2>3. QED
    BY <2>1, <2>2
<1>10. HeldFirst'
  <2> SUFFICES ASSUME NEW v \in Worker, NEW j \in DOMAIN queue'[v],
                      packet'[v] # NoPacket, packet'[v].conn = queue'[v][j].conn
               PROVE  packet'[v].n < queue'[v][j].n
    BY DEF HeldFirst
  <2>1. CASE v # w
    BY <1>3, <2>1 DEF OrderInv, LinesInv, HeldFirst
  <2>2. CASE v = w
    <3>1. packet'[w] = queue[w][1] /\ 1 \in DOMAIN queue[w]
      BY <1>3, <1>4, <2>2
    <3>2. j + 1 \in DOMAIN queue[w] /\ 1 < j + 1 /\ queue'[w][j] = queue[w][j + 1]
      BY <1>5, <2>2
    <3>3. queue[w][1].n < queue[w][j + 1].n
      BY <2>2, <3>1, <3>2 DEF OrderInv, LinesInv, QueueOrdered
    <3>4. QED
      BY <2>2, <3>1, <3>2, <3>3
  <2>3. QED
    BY <2>1, <2>2
<1>11. PushedBefore' /\ PushedSent' /\ PushedInOrder'
  BY <1>3, <1>6 DEF OrderInv, PushedBefore, PushedSent, PushedInOrder
<1>12. QED
  BY <1>7, <1>8, <1>9, <1>10, <1>11 DEF OrderInv, LinesInv

\* Steps that leave the packets of the workers in place, or let one go.
HandsFree ==
  /\ UNCHANGED <<queue, sent>>
  /\ \A w \in Worker : packet'[w] = packet[w] \/ packet'[w] = NoPacket

\* Connections that were opened stay so or close, and keep their address.
AddressesKept ==
  \A c \in Conn : state[c] # "new" =>
    /\ state'[c] # "new"
    /\ state'[c] = "open" =>
         Open(c) /\ \A ws \in WebSocket : conn_at[ws] = c => conn_at'[ws] = c

LEMMA LinesKept ==
  ASSUME ServerTypeOK, ServerTypeOK', LinesInv, HandsFree, AddressesKept
  PROVE  /\ LinesInv'
         /\ \A p \in Packet, w \in Worker : InFlight(p, w)' => InFlight(p, w)
<1>1. ASSUME NEW p \in Packet, NEW w \in Worker, InFlight(p, w)'
      PROVE  InFlight(p, w)
  BY <1>1, PacketFacts DEF InFlight, HandsFree
<1>2. Routed'
  <2> SUFFICES ASSUME NEW p \in Packet, NEW w \in Worker, InFlight(p, w)'
               PROVE  /\ WorkerOf[p.ws] = w
                      /\ p.n <= sent'[p.conn]
                      /\ state'[p.conn] # "new"
                      /\ (state'[p.conn] = "open") => conn_at'[p.ws] = p.conn
    BY DEF Routed, Open
  <2>1. p.conn \in Conn /\ p.ws \in WebSocket
    BY PacketFacts
  <2>2. /\ WorkerOf[p.ws] = w /\ p.n <= sent[p.conn] /\ state[p.conn] # "new"
        /\ Open(p.conn) => conn_at[p.ws] = p.conn
    BY <1>1 DEF LinesInv, Routed
  <2>3. QED
    BY <2>1, <2>2 DEF HandsFree, AddressesKept
<1>3. OneWorker'
  BY <1>1 DEF LinesInv, OneWorker
<1>4. QueueOrdered'
  BY DEF LinesInv, QueueOrdered, HandsFree
<1>5. HeldFirst'
  BY DEF LinesInv, HeldFirst, HandsFree
<1>6. QED
  BY <1>1, <1>2, <1>3, <1>4, <1>5 DEF LinesInv

\* Clients that are pushed nothing, or go away.
LEMMA PushedKept ==
  ASSUME OrderInv, UNCHANGED sent,
         \A p \in Packet, w \in Worker : InFlight(p, w)' => InFlight(p, w),
         \A c \in Conn : live'[c] = live[c] \/ live'[c] = << >>
  PROVE  PushedBefore' /\ PushedSent' /\ PushedInOrder'
<1>1. \A c \in Conn : \A j \in DOMAIN live'[c] : j \in DOMAIN live[c] /\ live'[c] = live[c]
  OBVIOUS
<1>2. QED
  BY <1>1 DEF OrderInv, PushedBefore, PushedSent, PushedInOrder

LEMMA OrderNext == ServerInv /\ OrderInv /\ [Next]_vars => OrderInv'
<1> SUFFICES ASSUME ServerInv, OrderInv, [Next]_vars
             PROVE  OrderInv'
  OBVIOUS
<1>0. ServerTypeOK /\ ServerTypeOK' /\ AddressOK /\ LinesInv
  BY ServerInvNext DEF ServerInv, OrderInv
<1>1. ASSUME HandsFree, AddressesKept, \A c \in Conn : live'[c] = live[c] \/ live'[c] = << >>
      PROVE  OrderInv'
  BY <1>0, <1>1, LinesKept, PushedKept DEF OrderInv, HandsFree
<1>2. ASSUME NEW c \in Conn, NEW ws \in WebSocket, connection_opened(c, ws)
      PROVE  OrderInv'
  <2>1. HandsFree /\ UNCHANGED live
    BY <1>2 DEF connection_opened, HandsFree, handlerVars, clientVars
  <2>2. AddressesKept
    BY <1>0, <1>2 DEF connection_opened, AddressesKept, Open, ServerTypeOK
  <2>3. QED
    BY <1>1, <2>1, <2>2
<1>3. ASSUME NEW c \in Conn, connection_closed(c)
      PROVE  OrderInv'
  <2>1. HandsFree /\ \A d \in Conn : live'[d] = live[d] \/ live'[d] = << >>
    BY <1>3 DEF connection_closed, HandsFree, handlerVars, Gone
  <2>2. AddressesKept
    <3>1. SocketOf(c) \in WebSocket /\ conn_at[SocketOf(c)] = c
      BY <1>0, <1>3, SocketOfIs DEF connection_closed
    <3>2. /\ state' = [state EXCEPT ![c] = "closed"]
          /\ conn_at' = [conn_at EXCEPT ![SocketOf(c)] = NoConn]
      BY <1>3 DEF connection_closed
    <3>3. QED
      BY <1>0, <3>1, <3>2 DEF AddressesKept, Open, ServerTypeOK
  <2>3. QED
    BY <1>1, <2>1, <2>2
<1>4. ASSUME NEW w \in Worker, send_to_user(w)
      PROVE  OrderInv'
  <2>1. PICK p \in Packet : p = packet[w]
    BY <1>0, <1>4, PacketOf DEF send_to_user, At
  <2>2. InFlight(p, w) /\ p # NoPacket
    BY <2>1, PacketFacts DEF InFlight
  <2>3. /\ HandsFree /\ packet'[w] = NoPacket
        /\ UNCHANGED <<state, conn_at, sent, queue>>
    BY <1>0, <1>4 DEF send_to_user, HandsFree, Return, ServerTypeOK, connVars
  <2>4. LinesInv' /\ \A q \in Packet, v \in Worker : InFlight(q, v)' => InFlight(q, v)
    BY <1>0, <2>3, LinesKept DEF AddressesKept, Open
  <2>5. ASSUME NEW c \in Conn, NEW j \in DOMAIN live'[c]
        PROVE  \/ j \in DOMAIN live[c] /\ live'[c][j] = live[c][j]
               \/ j = Len(live[c]) + 1 /\ live'[c][j] = p
    <3>1. live[c] \in Seq(Packet)
      BY <1>0 DEF ServerTypeOK
    <3>2. live'[c] = live[c] \/ live'[c] = Append(live[c], p)
      BY <1>0, <1>4, <2>1 DEF send_to_user, ServerTypeOK
    <3>3. CASE live'[c] = live[c]
      BY <2>5, <3>3
    <3>4. CASE live'[c] = Append(live[c], p)
      BY <2>5, <3>1, <3>4, AppendFacts
    <3>5. QED
      BY <3>2, <3>3, <3>4
  <2>6. ASSUME NEW q \in Packet, NEW v \in Worker, InFlight(q, v)', q.conn = p.conn
        PROVE  p.n < q.n
    <3>1. v = w
      BY <2>2, <2>4, <2>6 DEF LinesInv, OrderInv, OneWorker
    <3>2. PICK k \in DOMAIN queue[w] : q = queue[w][k]
      BY <2>3, <2>6, <3>1, PacketFacts DEF InFlight
    <3>3. QED
      BY <1>0, <2>1, <2>2, <2>6, <3>2 DEF LinesInv, HeldFirst
  <2>7. PushedBefore'
    <3> SUFFICES ASSUME NEW q \in Packet, NEW v \in Worker, InFlight(q, v)',
                        NEW c \in Conn, NEW j \in DOMAIN live'[c], live'[c][j].conn = q.conn
                 PROVE  live'[c][j].n < q.n
      BY DEF PushedBefore
    <3>1. CASE live'[c][j] = p
      BY <2>6, <3>1
    <3>2. CASE j \in DOMAIN live[c] /\ live'[c][j] = live[c][j]
      BY <2>4, <3>2 DEF OrderInv, PushedBefore
    <3>3. QED
      BY <2>5, <3>1, <3>2
  <2>8. PushedSent'
    <3> SUFFICES ASSUME NEW c \in Conn, NEW j \in DOMAIN live'[c]
                 PROVE  live'[c][j].n <= sent[live'[c][j].conn]
      BY <2>3 DEF PushedSent
    <3>1. p.n <= sent[p.conn]
      BY <1>0, <2>2 DEF LinesInv, Routed
    <3>2. QED
      BY <2>5, <3>1 DEF OrderInv, PushedSent
  <2>9. PushedInOrder'
    <3> SUFFICES ASSUME NEW c \in Conn, NEW j \in DOMAIN live'[c], NEW i \in 1..(j - 1),
                        live'[c][i].conn = live'[c][j].conn
                 PROVE  live'[c][i].n < live'[c][j].n
      BY DEF PushedInOrder
    <3>1. /\ DOMAIN live[c] = 1..Len(live[c]) /\ Len(live[c]) \in Nat
          /\ DOMAIN live'[c] = 1..Len(live'[c]) /\ Len(live'[c]) \in Nat
      <4>1. live[c] \in Seq(Packet) /\ live'[c] \in Seq(Packet)
        BY <1>0 DEF ServerTypeOK
      <4>2. QED
        BY <4>1
    <3>2. i \in DOMAIN live'[c] /\ i < j
      BY <3>1
    <3>3. i \in DOMAIN live[c] /\ live'[c][i] = live[c][i]
      BY <2>5, <3>1, <3>2
    <3>4. CASE j \in DOMAIN live[c] /\ live'[c][j] = live[c][j]
      BY <3>3, <3>4 DEF OrderInv, PushedInOrder
    <3>5. CASE live'[c][j] = p
      BY <2>2, <3>3, <3>5 DEF OrderInv, PushedBefore
    <3>6. QED
      BY <2>5, <3>4, <3>5
  <2>10. QED
    BY <2>4, <2>7, <2>8, <2>9 DEF OrderInv
<1>5. ASSUME NEW w \in Worker, Handle(w), ~send_to_user(w)
      PROVE  OrderInv'
  <2>1. UNCHANGED <<state, conn_at, sent, queue, live>>
    BY <1>5 DEF Handle, login_request, reconnect_request, login_attach, login_response,
       get_chat_messages, send_history, logout_request, logout_remove, logout_response,
       chat_message, connVars, clientVars
  <2>2. UNCHANGED packet \/ Return(w)
    BY <1>5 DEF Handle, login_request, reconnect_request, login_attach, login_response,
       get_chat_messages, send_history, logout_request, logout_remove, logout_response,
       chat_message, Goto
  <2>3. HandsFree
    BY <1>0, <2>1, <2>2 DEF HandsFree, Return, ServerTypeOK
  <2>4. QED
    BY <1>1, <2>1, <2>3 DEF AddressesKept, Open
<1>6. CASE exit
  <2>1. \A p \in Packet, w \in Worker : ~InFlight(p, w)'
    BY <1>6, PacketFacts DEF exit, InFlight
  <2>2. LinesInv'
    BY <1>6, <2>1 DEF exit, LinesInv, Routed, OneWorker, QueueOrdered, HeldFirst
  <2>3. \A c \in Conn : live'[c] = << >>
    BY <1>6 DEF exit, Gone
  <2>4. QED
    BY <2>1, <2>2, <2>3 DEF OrderInv, PushedBefore, PushedSent, PushedInOrder
<1>7. CASE UNCHANGED vars
  BY <1>1, <1>7 DEF vars, connVars, handlerVars, clientVars, HandsFree, AddressesKept, Open
<1>8. QED
  BY <1>0, <1>2, <1>3, <1>4, <1>5, <1>6, <1>7, LinesReceived, LinesTaken DEF Next

LEMMA OrderInvariant == Spec => []OrderInv
  BY ServerInvInit, ServerInvNext, OrderInit, OrderNext, PTL DEF Spec

\* Messages of one connection are pushed to a client in the order they were sent,
\* for any number of workers and any assignment of addresses to workers.
THEOREM MessagesInOrder == Spec => []PushedInOrder
<1>1. OrderInv => PushedInOrder
  BY DEF OrderInv
<1>2. QED
  BY <1>1, OrderInvariant, PTL
==============================================================================
