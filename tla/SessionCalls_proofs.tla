------------------------- MODULE SessionCalls_proofs -------------------------
(***************************************************************************)
(* If no socket is shared, the indexed registry implements the plain table *)
(* of SessionRegistry, call by call.  binding is the table an observer     *)
(* sees; Registry!Put and Registry!Without are the copies of Put and       *)
(* Without that the instance of SessionRegistry brings with it.            *)
(***************************************************************************)
EXTENDS SessionCalls, UserSessionManager_proofs

bound == [u \in DOMAIN sessions |-> sessions[u].ws]

LEMMA CallsInitRefines ==
  CallsInit => ExactInv /\ Registry!RegistryInit
<1> SUFFICES ASSUME CallsInit PROVE ExactInv /\ Registry!RegistryInit
  OBVIOUS
<1>1. ExactInv
  BY InitExact DEF CallsInit
<1>2. bound = Registry!EmptyMap
  BY DEF CallsInit, ManagerInit, EmptyMap, bound, Registry!EmptyMap
<1>3. QED
  BY <1>1, <1>2 DEF CallsInit, bound, Registry!RegistryInit

\* Every call is an operation of the registry or leaves it alone.
LEMMA CallsAreOperations ==
  ASSUME [CallsNext]_callVars
  PROVE  [ManagerNext]_managerVars
  BY DEF CallsNext, callVars, ManagerNext, managerVars, call_attach_session,
         call_remove_session, call_remove_session_by_ws, call_send_to_user,
         call_is_online, restart

\* The sockets a call sends to are the one the plain table binds the user to.
LEMMA SameSockets ==
  ASSUME NEW u
  PROVE  /\ DeliveredTo(u) = Registry!SocketsOf(u)
         /\ \A ws : Kicked(u, ws) = Registry!SocketsOf(u) \ {ws}
         /\ is_online(u) = (u \in DOMAIN bound)
  BY DEF DeliveredTo, Kicked, is_online, bound, Registry!SocketsOf

LEMMA AttachRefines ==
  ASSUME ExactInv, NEW u \in UserID, NEW ws \in WebSocket, attach_session(u, ws)
  PROVE  bound' = Registry!Put(bound, u, ws)
<1>1. \E n : sessions' = Put(sessions, u, [ws |-> ws, reference_count |-> n])
  BY TakeOverSessions DEF ExactInv, ManagerInv, attach_session, NewSession
<1>2. QED
  BY <1>1 DEF bound, Put, Registry!Put

LEMMA RemovalRefines ==
  ASSUME ExactInv, NEW u \in DOMAIN sessions,
         sessions' = Without(sessions, {u})
  PROVE  /\ bound' = Registry!Without(bound, {u})
         /\ {v \in DOMAIN bound : bound[v] = sessions[u].ws} = {u}
<1>1. bound' = Registry!Without(bound, {u})
  BY WithoutDef DEF bound, Registry!Without, Registry!Restrict
<1>2. {v \in DOMAIN bound : bound[v] = sessions[u].ws} = {u}
  BY DEF bound, ExactInv, IndexComplete
<1>3. QED
  BY <1>1, <1>2

\* Nothing is removed from the table for a key it does not have.
LEMMA NothingRemoved ==
  Registry!Without(bound, {}) = bound
  /\ \A u : u \notin DOMAIN bound => Registry!Without(bound, {u}) = bound
  BY DEF bound, Registry!Without, Registry!Restrict

LEMMA LogoutRefines ==
  ASSUME ExactInv, NEW u \in UserID, call_remove_session(u)
  PROVE  Registry!Logout(u)
<1>1. CASE /\ remove_session(u)
           /\ Answers("remove_session", <<u>>, {}, TRUE)
  <2>1. u \in DOMAIN sessions /\ sessions' = Without(sessions, {u})
    BY <1>1, RemovalEffect
  <2>2. bound' = Registry!Without(bound, {u}) /\ u \in DOMAIN bound
    BY <2>1, RemovalRefines DEF bound
  <2>3. QED
    BY <1>1, <2>2 DEF Answers, bound, Registry!Logout
<1>2. CASE /\ ~is_online(u)
           /\ Answers("remove_session", <<u>>, {}, FALSE)
           /\ UNCHANGED managerVars
  <2>1. u \notin DOMAIN bound /\ bound' = bound
    BY <1>2 DEF is_online, bound, managerVars
  <2>2. bound' = Registry!Without(bound, {u})
    BY <2>1, NothingRemoved
  <2>3. (u \in DOMAIN bound) = FALSE
    BY <2>1
  <2>4. QED
    BY <1>2, <2>2, <2>3, Zenon DEF Answers, bound, Registry!Logout
<1>3. QED
  BY <1>1, <1>2 DEF call_remove_session

LEMMA DisconnectRefines ==
  ASSUME ExactInv, NEW ws \in WebSocket, call_remove_session_by_ws(ws)
  PROVE  Registry!Disconnect(ws)
<1> DEFINE gone == {v \in DOMAIN bound : bound[v] = ws}
<1>1. SUFFICES /\ bound' = Registry!Without(bound, gone)
               /\ Answers("remove_session_by_ws", <<ws>>, {}, gone # {})
  BY DEF Answers, bound, Registry!Disconnect
<1>2. CASE /\ remove_session_by_ws(ws)
           /\ Answers("remove_session_by_ws", <<ws>>, {}, is_online(ws_index[ws]))
  <2> DEFINE u == ws_index[ws]
  <2>1. /\ u \in DOMAIN sessions
        /\ sessions[u].ws = ws
        /\ sessions' = Without(sessions, {u})
    BY <1>2, RemovalEffect
  <2>2. bound' = Registry!Without(bound, {u}) /\ gone = {u}
    BY <2>1, RemovalRefines
  <2>3. is_online(u) = (gone # {})
    BY <2>1, <2>2 DEF is_online
  <2>4. QED
    BY <1>2, <2>2, <2>3
<1>3. CASE /\ ws \notin DOMAIN ws_index
           /\ Answers("remove_session_by_ws", <<ws>>, {}, FALSE)
           /\ UNCHANGED managerVars
  <2>1. gone = {}
    BY <1>3 DEF bound, ExactInv, IndexComplete
  <2>2. bound' = bound
    BY <1>3 DEF bound, managerVars
  <2>3. bound' = Registry!Without(bound, gone)
    BY <2>1, <2>2, NothingRemoved
  <2>4. QED
    BY <1>3, <2>1, <2>3
<1>4. QED
  BY <1>2, <1>3 DEF call_remove_session_by_ws

LEMMA CallRefines ==
  ASSUME ExactInv, [CallsNext]_callVars
  PROVE  [Registry!RegistryNext]_<<bound, reply>>
<1>1. ASSUME NEW u \in UserID, NEW ws \in WebSocket, call_attach_session(u, ws)
      PROVE  Registry!Attach(u, ws)
  <2>1. bound' = Registry!Put(bound, u, ws)
    BY <1>1, AttachRefines DEF call_attach_session
  <2>2. reply' = Registry!Reply("attach_session", <<u, ws>>,
                                Registry!SocketsOf(u) \ {ws}, TRUE)
    BY <1>1, SameSockets DEF call_attach_session, Answers
  <2>3. QED
    BY <2>1, <2>2 DEF bound, Registry!Attach
<1>2. ASSUME NEW u \in UserID, call_remove_session(u)
      PROVE  Registry!Logout(u)
  BY <1>2, LogoutRefines
<1>3. ASSUME NEW u \in UserID, call_send_to_user(u)
      PROVE  Registry!Send(u)
  <2>1. bound' = bound
    BY <1>3 DEF call_send_to_user, managerVars, bound
  <2>2. QED
    BY <1>3, <2>1, SameSockets, Zenon
       DEF call_send_to_user, Answers, bound, Registry!Send
<1>4. ASSUME NEW u \in UserID, call_is_online(u)
      PROVE  Registry!IsOnline(u)
  <2>1. bound' = bound
    BY <1>4 DEF call_is_online, managerVars, bound
  <2>2. QED
    BY <1>4, <2>1, SameSockets, Zenon
       DEF call_is_online, Answers, bound, Registry!IsOnline
<1>5. ASSUME NEW ws \in WebSocket, call_remove_session_by_ws(ws)
      PROVE  Registry!Disconnect(ws)
  BY <1>5, DisconnectRefines
<1>6. CASE restart
  <2>1. bound' = Registry!EmptyMap
    BY <1>6 DEF restart, instance, EmptyMap, bound, Registry!EmptyMap
  <2>2. QED
    BY <1>6, <2>1 DEF restart, bound, Registry!Forget, Registry!RegistryNext
<1>7. CASE UNCHANGED callVars
  BY <1>7 DEF callVars, managerVars, bound
<1>8. QED
  BY <1>1, <1>2, <1>3, <1>4, <1>5, <1>6, <1>7
     DEF CallsNext, Registry!RegistryNext

\* If no socket is shared, the registry with its reverse index implements the
\* plain table: what a disconnect removes and reports, whom a takeover kicks and
\* where a payload goes are what a scan over all sessions would give.
THEOREM RegistryImplemented ==
  ASSUME SharedSocket = FALSE
  PROVE  CallsSpec => ImplementsRegistry
<1>1. ExactInv /\ [CallsNext]_callVars => ExactInv'
  BY CallsAreOperations, StepExact
<1>2. ExactInv /\ [CallsNext]_callVars => [Registry!RegistryNext]_<<bound, reply>>
  BY CallRefines
<1>3. CallsInit => ExactInv /\ Registry!RegistryInit
  BY CallsInitRefines
<1>4. QED
  BY <1>1, <1>2, <1>3, PTL
     DEF CallsSpec, ImplementsRegistry, Registry!RegistrySpec,
         Registry!registryVars, bound
==============================================================================
