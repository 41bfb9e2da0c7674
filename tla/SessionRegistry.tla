--------------------------- MODULE SessionRegistry ---------------------------
(***************************************************************************)
(* What the registry of online users promises to the threads that call it: *)
(* one table binding each online user to the socket the user is reached    *)
(* at.  There is no reverse index, no reference count and no lock here; a  *)
(* disconnect is the linear scan over all sessions that the comment of     *)
(* include/user_session_manager.h says the reverse index replaces.  What a *)
(* call returns, and to which sockets it sends, is part of the promise.    *)
(* SessionCalls, the indexed registry with its callers, implements it.     *)
(***************************************************************************)
EXTENDS Maps

CONSTANTS UserID,     \* identifiers of the registered users
          WebSocket   \* sockets the event loop hands to the server

VARIABLES binding,    \* the socket of every online user
          reply       \* the last call, what it returned and whom it sent to

registryVars == <<binding, reply>>

Reply(call, of, sent, returned) ==
  [call |-> call, of |-> of, sent |-> sent, returned |-> returned]

NoReply == Reply("none", << >>, {}, FALSE)

\* The socket of u: one, or none.
SocketsOf(u) == {binding[v] : v \in DOMAIN binding \cap {u}}

RegistryInit ==
  /\ binding = EmptyMap
  /\ reply = NoReply

\* The user is reached at ws from now on; the socket it was reached at before is
\* told.
Attach(u, ws) ==
  /\ binding' = Put(binding, u, ws)
  /\ reply' = Reply("attach_session", <<u, ws>>, SocketsOf(u) \ {ws}, TRUE)

\* The user goes offline on request.
Logout(u) ==
  /\ binding' = Without(binding, {u})
  /\ reply' = Reply("remove_session", <<u>>, {}, u \in DOMAIN binding)

\* Every user reached at ws goes offline with it.
Disconnect(ws) ==
  LET gone == {u \in DOMAIN binding : binding[u] = ws} IN
    /\ binding' = Without(binding, gone)
    /\ reply' = Reply("remove_session_by_ws", <<ws>>, {}, gone # {})

\* A payload is sent to where the user is reached.
Send(u) ==
  /\ reply' = Reply("send_to_user", <<u>>, SocketsOf(u), u \in DOMAIN binding)
  /\ UNCHANGED binding

IsOnline(u) ==
  /\ reply' = Reply("is_online", <<u>>, {}, u \in DOMAIN binding)
  /\ UNCHANGED binding

\* A process that starts again knows nobody.
Forget ==
  /\ binding' = EmptyMap
  /\ reply' = NoReply

RegistryNext ==
  \/ \E u \in UserID, ws \in WebSocket : Attach(u, ws)
  \/ \E u \in UserID : Logout(u) \/ Send(u) \/ IsOnline(u)
  \/ \E ws \in WebSocket : Disconnect(ws)
  \/ Forget

RegistrySpec == RegistryInit /\ [][RegistryNext]_registryVars
==============================================================================
