----------------------------- MODULE SessionCalls -----------------------------
(***************************************************************************)
(* The registry of online users as its callers see it: each call of a      *)
(* method of UserSessionManager, those that find nothing to do included,   *)
(* with what it returns and the sockets it sends to.  Its callers, the     *)
(* event loop and the workers, go by these answers: connection_closed and  *)
(* the logout handler return early on false.                               *)
(***************************************************************************)
EXTENDS UserSessionManager

VARIABLE reply   \* the last call, what it returned and whom it sent to

callVars == <<managerVars, reply>>

\* What an observer who knows nothing of the index sees of the table.
Registry == INSTANCE SessionRegistry
              WITH binding <- [u \in DOMAIN sessions |-> sessions[u].ws]

Answers(call, of, sent, returned) ==
  reply' = Registry!Reply(call, of, sent, returned)

CallsInit ==
  /\ ManagerInit
  /\ reply = Registry!NoReply

call_attach_session(u, ws) ==
  /\ attach_session(u, ws)
  /\ Answers("attach_session", <<u, ws>>, Kicked(u, ws), TRUE)

call_remove_session(u) ==
  \/ /\ remove_session(u)
     /\ Answers("remove_session", <<u>>, {}, TRUE)
  \/ /\ ~is_online(u)
     /\ Answers("remove_session", <<u>>, {}, FALSE)
     /\ UNCHANGED managerVars

call_remove_session_by_ws(ws) ==
  \/ /\ remove_session_by_ws(ws)
     /\ Answers("remove_session_by_ws", <<ws>>, {}, is_online(ws_index[ws]))
  \/ /\ ws \notin DOMAIN ws_index
     /\ Answers("remove_session_by_ws", <<ws>>, {}, FALSE)
     /\ UNCHANGED managerVars

call_send_to_user(u) ==
  /\ Answers("send_to_user", <<u>>, DeliveredTo(u), is_online(u))
  /\ UNCHANGED managerVars

call_is_online(u) ==
  /\ Answers("is_online", <<u>>, {}, is_online(u))
  /\ UNCHANGED managerVars

restart ==
  /\ instance
  /\ reply' = Registry!NoReply

CallsNext ==
  \/ \E u \in UserID, ws \in WebSocket : call_attach_session(u, ws)
  \/ \E u \in UserID :
       call_remove_session(u) \/ call_send_to_user(u) \/ call_is_online(u)
  \/ \E ws \in WebSocket : call_remove_session_by_ws(ws)
  \/ restart

CallsSpec == CallsInit /\ [][CallsNext]_callVars

\* The indexed table is the plain table of SessionRegistry, call by call: a
\* disconnect removes, and reports, what the linear scan over all sessions would;
\* a takeover moves one user and kicks the one socket it was reached at; a
\* payload goes where the user was attached last.
ImplementsRegistry == Registry!RegistrySpec
==============================================================================
