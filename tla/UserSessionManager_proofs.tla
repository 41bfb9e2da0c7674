---------------------- MODULE UserSessionManager_proofs ----------------------
(***************************************************************************)
(* The registry of online users keeps its two maps together, for every set *)
(* of users and of sockets.                                                *)
(***************************************************************************)
EXTENDS UserSessionManager, TLAPS

\* The entries that Without leaves in a map.
LEMMA WithoutDef ==
  ASSUME NEW map, NEW S
  PROVE  Without(map, S) = [k \in DOMAIN map \ S |-> map[k]]
  BY DEF Without, Restrict

------------------------------------------------------------------------------
(***************************************************************************)
(* The inductive invariant.  ManagerTypeOK and IndexSound are inductive    *)
(* together whatever the clients do: every update of the index is made     *)
(* together with the update of the session it names, and reference counts  *)
(* of 1 mean that a removed session is really gone.                        *)
(***************************************************************************)
ManagerInv == ManagerTypeOK /\ IndexSound

LEMMA RecordFacts ==
  ASSUME NEW r \in UserSession, NEW ws \in WebSocket
  PROVE  [r EXCEPT !.ws = ws]
           = [ws |-> ws, reference_count |-> r.reference_count]
  BY DEF UserSession

\* A takeover replaces the socket of one session and nothing else.
LEMMA TakeOverSessions ==
  ASSUME ManagerTypeOK, NEW u \in UserID, NEW ws \in WebSocket, TakeOver(u, ws)
  PROVE  sessions' = Put(sessions, u, [ws |-> ws, reference_count |-> 1])
<1>1. /\ u \in DOMAIN sessions
      /\ sessions[u] \in UserSession
      /\ sessions[u].reference_count = 1
      /\ DOMAIN sessions \cup {u} = DOMAIN sessions
  BY DEF ManagerTypeOK, TakeOver, is_online, IsMap
<1>2. [sessions[u] EXCEPT !.ws = ws] = [ws |-> ws, reference_count |-> 1]
  BY <1>1, RecordFacts
<1>3. sessions' = [x \in DOMAIN sessions |->
                     IF x = u THEN [sessions[u] EXCEPT !.ws = ws]
                              ELSE sessions[x]]
  BY Zenon DEF TakeOver
<1>4. QED
  BY <1>1, <1>2, <1>3, Zenon DEF Put

\* With reference counts of 1, giving up a reference ends the session.
LEMMA DropReferenceEnds ==
  ASSUME ManagerTypeOK, NEW u
  PROVE  DropReference(u) = Without(sessions, {u})
<1>1. ~(is_online(u) /\ sessions[u].reference_count > 1)
  BY DEF ManagerTypeOK, is_online
<1>2. QED
  BY <1>1, Zenon DEF DropReference

LEMMA InitInv == ManagerInit => ManagerInv
  BY DEF EmptyMap, IsMap, ManagerInit, ManagerInv, ManagerTypeOK, IndexSound

LEMMA NewSessionInv ==
  ASSUME ManagerInv, NEW u \in UserID, NEW ws \in WebSocket, NewSession(u, ws)
  PROVE  ManagerInv'
<1>1. [ws |-> ws, reference_count |-> 1] \in UserSession
  BY DEF UserSession
<1>2. ManagerTypeOK'
  BY <1>1 DEF IsMap, Put, ManagerInv, ManagerTypeOK, NewSession
<1>3. IndexSound'
  BY DEF Put, ManagerInv, IndexSound, NewSession, is_online
<1>4. QED
  BY <1>2, <1>3 DEF ManagerInv

LEMMA TakeOverInv ==
  ASSUME ManagerInv, NEW u \in UserID, NEW ws \in WebSocket, TakeOver(u, ws)
  PROVE  ManagerInv'
<1> DEFINE rest == Without(ws_index, Kicked(u, ws))
<1>1. [ws |-> ws, reference_count |-> 1] \in UserSession
  BY DEF UserSession
<1>2. sessions' = Put(sessions, u, [ws |-> ws, reference_count |-> 1])
  BY TakeOverSessions DEF ManagerInv
<1>3. ws_index' = Put(rest, ws, u)
  BY DEF TakeOver
<1>4. IsMap(rest, WebSocket, UserID)
  BY WithoutDef DEF IsMap, ManagerInv, ManagerTypeOK
<1>5. ManagerTypeOK'
  BY <1>1, <1>2, <1>3, <1>4, WithoutDef DEF IsMap, Put, ManagerInv, ManagerTypeOK
<1>6. ASSUME NEW v \in DOMAIN rest, v # ws
      PROVE  v \in DOMAIN ws_index /\ rest[v] = ws_index[v] /\ ws_index[v] # u
  BY <1>6, WithoutDef DEF IsMap, ManagerInv, IndexSound, Kicked, is_online
<1>7. IndexSound'
  BY <1>2, <1>3, <1>6, WithoutDef DEF IsMap, Put, ManagerInv, IndexSound, is_online
<1>8. QED
  BY <1>5, <1>7 DEF ManagerInv

LEMMA RemoveSessionInv ==
  ASSUME ManagerInv, NEW u \in UserID, remove_session(u)
  PROVE  ManagerInv'
<1>1. /\ sessions' = Without(sessions, {u})
      /\ ws_index' = Without(ws_index, {sessions[u].ws})
  BY DropReferenceEnds DEF ManagerInv, ManagerTypeOK, remove_session, is_online
<1>2. ManagerTypeOK'
  BY <1>1, WithoutDef DEF IsMap, ManagerInv, ManagerTypeOK
<1>3. IndexSound'
  BY <1>1, WithoutDef DEF IsMap, ManagerInv, IndexSound, is_online
<1>4. QED
  BY <1>2, <1>3 DEF ManagerInv

LEMMA RemoveSessionByWsInv ==
  ASSUME ManagerInv, NEW ws \in WebSocket, remove_session_by_ws(ws)
  PROVE  ManagerInv'
<1>1. /\ sessions' = Without(sessions, {ws_index[ws]})
      /\ ws_index' = Without(ws_index, {ws})
  BY DropReferenceEnds DEF ManagerInv, remove_session_by_ws
<1>2. ManagerTypeOK'
  BY <1>1, WithoutDef DEF IsMap, ManagerInv, ManagerTypeOK
<1>3. \A v \in DOMAIN ws_index \ {ws} : ws_index[v] # ws_index[ws]
  BY DEF ManagerInv, IndexSound, remove_session_by_ws
<1>4. ASSUME NEW v \in DOMAIN ws_index', v \in DOMAIN ws_index \ {ws},
             ws_index'[v] = ws_index[v]
      PROVE  is_online(ws_index[v])' /\ sessions'[ws_index[v]].ws = v
  BY <1>1, <1>3, <1>4, WithoutDef DEF ManagerInv, IndexSound, is_online
<1>5. \A v \in DOMAIN ws_index' :
        v \in DOMAIN ws_index \ {ws} /\ ws_index'[v] = ws_index[v]
  BY <1>1, WithoutDef
<1>6. IndexSound'
  BY <1>4, <1>5 DEF IndexSound, is_online
<1>7. QED
  BY <1>2, <1>6 DEF ManagerInv

\* A new process starts with both maps empty.
LEMMA InstanceInv == instance => ManagerInv'
  BY DEF EmptyMap, IsMap, instance, ManagerInv, ManagerTypeOK, IndexSound

LEMMA StepInv == ManagerInv /\ [ManagerNext]_managerVars => ManagerInv'
<1> SUFFICES ASSUME ManagerInv, [ManagerNext]_managerVars
             PROVE  ManagerInv'
  OBVIOUS
<1>1. ASSUME NEW u \in UserID, NEW ws \in WebSocket, attach_session(u, ws)
      PROVE  ManagerInv'
  BY <1>1, NewSessionInv, TakeOverInv DEF attach_session
<1>2. ASSUME NEW u \in UserID, remove_session(u)
      PROVE  ManagerInv'
  BY <1>2, RemoveSessionInv
<1>3. ASSUME NEW ws \in WebSocket, remove_session_by_ws(ws)
      PROVE  ManagerInv'
  BY <1>3, RemoveSessionByWsInv
<1>4. CASE instance
  BY <1>4, InstanceInv
<1>5. CASE UNCHANGED managerVars
  BY <1>5 DEF managerVars, ManagerInv, ManagerTypeOK, IndexSound, is_online
<1>6. QED
  BY <1>1, <1>2, <1>3, <1>4, <1>5 DEF ManagerNext

LEMMA Invariance == ManagerSpec => []ManagerInv
<1>1. QED
  BY InitInv, StepInv, PTL DEF ManagerSpec

\* Whatever the clients do, even if they share sockets, both maps keep their
\* types and every session is held by exactly one reference, so the branches
\* for "reference_count > 1" in user_session_manager.cpp are never taken.
THEOREM TypeCorrect == ManagerSpec => []ManagerTypeOK
<1>1. ManagerInv => ManagerTypeOK
  BY DEF ManagerInv
<1>2. QED
  BY <1>1, Invariance, PTL

\* Whatever the clients do, an indexed socket is the socket its user is reached
\* at now, so the close of a socket never ends a session held elsewhere.
THEOREM IndexNeverMisleads == ManagerSpec => []IndexSound
<1>1. ManagerInv => IndexSound
  BY DEF ManagerInv
<1>2. QED
  BY <1>1, Invariance, PTL

------------------------------------------------------------------------------
(***************************************************************************)
(* Sockets that serve one user at a time.  IndexComplete needs that: a     *)
(* takeover erases the entry of the socket it leaves, which must not be    *)
(* the entry of another user on that socket.  Together with ManagerInv it  *)
(* makes the index the exact inverse of the table.                         *)
(***************************************************************************)
ExactInv == ManagerInv /\ IndexComplete

LEMMA AttachExact ==
  ASSUME ExactInv, NEW u \in UserID, NEW ws \in WebSocket, attach_session(u, ws),
         \A v \in DOMAIN sessions \ {u} : sessions[v].ws # ws
  PROVE  IndexComplete'
<1>1. CASE NewSession(u, ws)
  BY <1>1 DEF ExactInv, IndexComplete, NewSession, is_online, Put
<1>2. CASE TakeOver(u, ws)
  <2>1. sessions' = Put(sessions, u, [ws |-> ws, reference_count |-> 1])
    BY <1>2, TakeOverSessions DEF ExactInv, ManagerInv
  <2>2. ws_index' = Put(Without(ws_index, Kicked(u, ws)), ws, u)
    BY <1>2 DEF TakeOver
  <2>3. ASSUME NEW v \in DOMAIN sessions \ {u}
        PROVE  /\ sessions[v].ws \in DOMAIN ws_index \ Kicked(u, ws)
               /\ sessions[v].ws # ws
               /\ ws_index[sessions[v].ws] = v
    BY <2>3 DEF ExactInv, IndexComplete, Kicked
  <2>4. \A v \in DOMAIN sessions' \ {u} :
          v \in DOMAIN sessions \ {u} /\ sessions'[v] = sessions[v]
    BY <2>1 DEF Put
  <2>5. \A v \in DOMAIN sessions' \ {u} :
          /\ sessions'[v].ws \in DOMAIN ws_index'
          /\ ws_index'[sessions'[v].ws] = v
    BY <2>2, <2>3, <2>4, WithoutDef DEF Put
  <2>6. /\ sessions'[u].ws = ws
        /\ ws \in DOMAIN ws_index'
        /\ ws_index'[ws] = u
    BY <2>1, <2>2 DEF Put
  <2>7. QED
    BY <2>5, <2>6 DEF IndexComplete
<1>3. QED
  BY <1>1, <1>2 DEF attach_session

\* A socket in use is attached to nobody else.
LEMMA AttachUnshared ==
  ASSUME SharedSocket = FALSE, NEW u, NEW ws, attach_session(u, ws)
  PROVE  \A v \in DOMAIN sessions \ {u} : sessions[v].ws # ws
  BY DEF attach_session, Attachable

LEMMA RemoveExact ==
  ASSUME ExactInv, NEW u \in DOMAIN sessions,
         sessions' = Without(sessions, {u}),
         ws_index' = Without(ws_index, {sessions[u].ws})
  PROVE  IndexComplete'
<1>1. \A v \in DOMAIN sessions \ {u} : sessions[v].ws # sessions[u].ws
  BY DEF ExactInv, IndexComplete
<1>2. QED
  BY <1>1, WithoutDef DEF ExactInv, IndexComplete

\* Both removals drop a session and the entry of its socket, nothing else.
LEMMA RemovalEffect ==
  ASSUME ExactInv
  PROVE  /\ \A u \in UserID : remove_session(u) =>
               /\ u \in DOMAIN sessions
               /\ sessions' = Without(sessions, {u})
               /\ ws_index' = Without(ws_index, {sessions[u].ws})
         /\ \A ws \in WebSocket : remove_session_by_ws(ws) =>
               /\ ws_index[ws] \in DOMAIN sessions
               /\ sessions[ws_index[ws]].ws = ws
               /\ sessions' = Without(sessions, {ws_index[ws]})
               /\ ws_index' = Without(ws_index, {ws})
<1>1. ASSUME NEW u \in UserID, remove_session(u)
      PROVE  /\ u \in DOMAIN sessions
             /\ sessions' = Without(sessions, {u})
             /\ ws_index' = Without(ws_index, {sessions[u].ws})
  BY <1>1, DropReferenceEnds
     DEF ExactInv, ManagerInv, ManagerTypeOK, remove_session, is_online
<1>2. ASSUME NEW ws \in WebSocket, remove_session_by_ws(ws)
      PROVE  /\ ws_index[ws] \in DOMAIN sessions
             /\ sessions[ws_index[ws]].ws = ws
             /\ sessions' = Without(sessions, {ws_index[ws]})
             /\ ws_index' = Without(ws_index, {ws})
  BY <1>2, DropReferenceEnds
     DEF ExactInv, ManagerInv, IndexSound, remove_session_by_ws, is_online
<1>3. QED
  BY <1>1, <1>2

LEMMA StepExact ==
  ASSUME SharedSocket = FALSE, ExactInv, [ManagerNext]_managerVars
  PROVE  ExactInv'
<1> SUFFICES IndexComplete'
  BY StepInv DEF ExactInv
<1>1. ASSUME NEW u \in UserID, NEW ws \in WebSocket, attach_session(u, ws)
      PROVE  IndexComplete'
  BY <1>1, AttachExact, AttachUnshared
<1>2. ASSUME NEW u \in UserID, remove_session(u)
      PROVE  IndexComplete'
  BY <1>2, RemovalEffect, RemoveExact
<1>3. ASSUME NEW ws \in WebSocket, remove_session_by_ws(ws)
      PROVE  IndexComplete'
  BY <1>3, RemovalEffect, RemoveExact
<1>4. CASE instance
  <2>1. DOMAIN sessions' = {}
    BY <1>4 DEF instance, EmptyMap
  <2>2. QED
    BY <2>1 DEF IndexComplete
<1>5. CASE UNCHANGED managerVars
  BY <1>5 DEF managerVars, ExactInv, IndexComplete
<1>6. QED
  BY <1>1, <1>2, <1>3, <1>4, <1>5 DEF ManagerNext

LEMMA InitExact == ManagerInit => ExactInv
<1> SUFFICES ASSUME ManagerInit PROVE ExactInv
  OBVIOUS
<1>1. DOMAIN sessions = {}
  BY DEF ManagerInit, EmptyMap
<1>2. QED
  BY <1>1, InitInv DEF ExactInv, IndexComplete

\* If no socket is attached to a second user while it serves a first one, each
\* active socket is mapped back to its user, as the comment at
\* include/user_session_manager.h:18 says of every socket.
THEOREM ActiveSocketsIndexed ==
  ASSUME SharedSocket = FALSE
  PROVE  ManagerSpec => []IndexComplete
<1>1. ExactInv /\ [ManagerNext]_managerVars => ExactInv'
  BY StepExact
<1>2. ExactInv => IndexComplete
  BY DEF ExactInv
<1>3. QED
  BY <1>1, <1>2, InitExact, PTL DEF ManagerSpec
==============================================================================
