------------------------- MODULE UserSessionManager --------------------------
(***************************************************************************)
(* The registry of online users, src/user_session_manager.cpp: the table   *)
(* of sessions, the reverse index from sockets to users, and the           *)
(* operations that keep them together.  Every operation of the class runs  *)
(* under one mutex from its first line to its last, so an operation is one *)
(* action.  The operations arrive in any order: workers attach and remove  *)
(* sessions while the event loop reports closed sockets.                   *)
(*                                                                         *)
(* A socket is the address the class is handed: it never follows the       *)
(* pointer except to send on it.  What is sent, and to whom, is given by   *)
(* Kicked and DeliveredTo; BingoServer models the sockets themselves.      *)
(***************************************************************************)
EXTENDS Naturals, Maps

CONSTANTS
  UserID,        \* identifiers of the registered users
  WebSocket,     \* sockets the event loop hands to the server
  SharedSocket   \* TRUE if a socket may be attached to a second user while it
                 \* still serves a first one (nothing in the code forbids it)

ASSUME SharedSocketAssumption == SharedSocket \in BOOLEAN

VARIABLES
  sessions,      \* _sessions: user -> socket and reference count
  ws_index       \* _ws_index: socket -> user

managerVars == <<sessions, ws_index>>

UserSession == [ws : WebSocket, reference_count : Nat]

------------------------------------------------------------------------------
is_online(u) == u \in DOMAIN sessions

\* The previous socket of u, which attach_session(u, ws) sends kick_payload to.
Kicked(u, ws) == {sessions[v].ws : v \in DOMAIN sessions \cap {u}} \ {ws}

\* The sockets send_to_user(u, _) sends its payload to: one, or none.
DeliveredTo(u) == {sessions[v].ws : v \in DOMAIN sessions \cap {u}}

\* The table after one reference to the session of u is given up.
DropReference(u) ==
  IF is_online(u) /\ sessions[u].reference_count > 1
  THEN [sessions EXCEPT ![u].reference_count = @ - 1]
  ELSE Without(sessions, {u})

------------------------------------------------------------------------------
ManagerInit ==
  /\ sessions = EmptyMap
  /\ ws_index = EmptyMap

\* A socket in use by another user is attached to u only if sharing is allowed.
Attachable(u, ws) ==
  SharedSocket \/ \A v \in DOMAIN sessions \ {u} : sessions[v].ws # ws

NewSession(u, ws) ==
  /\ ~is_online(u)
  /\ sessions' = Put(sessions, u, [ws |-> ws, reference_count |-> 1])
  /\ ws_index' = Put(ws_index, ws, u)

\* Mutants of TakeOver: the previous socket stays indexed; the new one is never
\* indexed; the second login is counted as a second reference; the session keeps
\* its old socket.
TakeOver_StaleIndex(u, ws) ==
  /\ is_online(u)
  /\ sessions' = [sessions EXCEPT ![u].ws = ws]
  /\ ws_index' = Put(ws_index, ws, u)

TakeOver_NotIndexed(u, ws) ==
  /\ is_online(u)
  /\ sessions' = [sessions EXCEPT ![u].ws = ws]
  /\ ws_index' = Without(ws_index, Kicked(u, ws))

TakeOver_Counted(u, ws) ==
  /\ is_online(u)
  /\ sessions' = [sessions EXCEPT ![u] = [ws |-> ws,
                                         reference_count |-> @.reference_count + 1]]
  /\ ws_index' = Put(Without(ws_index, Kicked(u, ws)), ws, u)

TakeOver_SocketKept(u, ws) ==
  /\ is_online(u)
  /\ UNCHANGED sessions
  /\ ws_index' = Put(ws_index, ws, u)

TakeOver(u, ws) ==
  /\ is_online(u)
  /\ sessions' = [sessions EXCEPT ![u].ws = ws]
  /\ ws_index' = Put(Without(ws_index, Kicked(u, ws)), ws, u)

attach_session(u, ws) ==
  /\ Attachable(u, ws)
  /\ NewSession(u, ws) \/ TakeOver(u, ws)

\* Mutant: a logout that forgets the reverse index.
remove_session_IndexKept(u) ==
  /\ is_online(u)
  /\ sessions' = DropReference(u)
  /\ UNCHANGED ws_index

\* Logout.  For a user who is not online the code returns false, unchanged.
remove_session(u) ==
  /\ is_online(u)
  /\ sessions' = DropReference(u)
  /\ ws_index' = IF sessions[u].reference_count > 1
                 THEN ws_index
                 ELSE Without(ws_index, {sessions[u].ws})

\* Mutant: a disconnect that only unindexes the socket.
remove_session_by_ws_SessionKept(ws) ==
  /\ ws \in DOMAIN ws_index
  /\ UNCHANGED sessions
  /\ ws_index' = Without(ws_index, {ws})

\* Disconnect.  For a socket with no entry the code returns false, unchanged;
\* an entry that names an offline user is dropped.
remove_session_by_ws(ws) ==
  /\ ws \in DOMAIN ws_index
  /\ sessions' = DropReference(ws_index[ws])
  /\ ws_index' = Without(ws_index, {ws})

\* The singleton lives in memory only: a new process starts with it empty.
instance ==
  /\ sessions' = EmptyMap
  /\ ws_index' = EmptyMap

ManagerNext ==
  \/ \E u \in UserID, ws \in WebSocket : attach_session(u, ws)
  \/ \E u \in UserID : remove_session(u)
  \/ \E ws \in WebSocket : remove_session_by_ws(ws)
  \/ instance

ManagerSpec == ManagerInit /\ [][ManagerNext]_managerVars

------------------------------------------------------------------------------
\* Both maps hold users and sockets, and every session is held exactly once:
\* no operation of user_session_manager.cpp ever raises reference_count, so
\* its "reference_count > 1" branches, which would leave a session behind with
\* no way to reach it by socket, are never taken.
ManagerTypeOK ==
  /\ IsMap(sessions, UserID, UserSession)
  /\ IsMap(ws_index, WebSocket, UserID)
  /\ \A u \in DOMAIN sessions : sessions[u].reference_count = 1

\* The reverse index never misleads a disconnect: an indexed socket is the
\* socket its user is reached at now.  A takeover, a logout or a disconnect
\* that left the old entry behind would let the close of a socket the user has
\* long left destroy the session the user holds elsewhere.  It also shows that
\* the "out of sync" branch of remove_session_by_ws is never taken.
IndexSound ==
  \A ws \in DOMAIN ws_index :
    /\ is_online(ws_index[ws])
    /\ sessions[ws_index[ws]].ws = ws

\* Each active socket is mapped back to its user (the comment of
\* include/user_session_manager.h:18): without the entry, a disconnect finds
\* nothing and the user stays online for ever.
IndexComplete ==
  \A u \in DOMAIN sessions :
    /\ sessions[u].ws \in DOMAIN ws_index
    /\ ws_index[sessions[u].ws] = u
==============================================================================
