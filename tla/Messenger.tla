------------------------------ MODULE Messenger ------------------------------
(***************************************************************************)
(* What the server is to clients that behave: a table that says at which   *)
(* connection each user is, and an inbox for each connection.  A user is   *)
(* at one connection, of his own, that is there; a message goes to where   *)
(* its receiver is at that moment and nowhere else, once, and behind those *)
(* that were sent before it on the same connection.  There are no          *)
(* addresses, queues, workers or handlers here; BingoServer implements it. *)
(***************************************************************************)
EXTENDS Naturals, Sequences, Maps

CONSTANTS
  UserID, Conn,
  Account,   \* Conn -> the users who may log in there
  Message    \* what is sent: its receiver, the connection, the place in line

VARIABLES
  present,   \* the connections that are there
  place,     \* user -> the connection the user is at
  inbox      \* conn -> the messages it was sent

messengerVars == <<present, place, inbox>>

MessengerInit ==
  /\ present = {}
  /\ place = EmptyMap
  /\ inbox = [c \in Conn |-> << >>]

Arrive(c) ==
  /\ c \notin present
  /\ present' = present \cup {c}
  /\ UNCHANGED <<place, inbox>>

\* The connections D go, and with them the users who are there and no others.
Leave(D) ==
  /\ D \subseteq present
  /\ present' = present \ D
  /\ place' = Without(place, {u \in DOMAIN place : place[u] \in D})
  /\ inbox' = [c \in Conn |-> IF c \in D THEN << >> ELSE inbox[c]]

LogIn(u, c) ==
  /\ c \in present
  /\ u \in Account[c]
  /\ place' = Put(place, u, c)
  /\ UNCHANGED <<present, inbox>>

LogOut(u) ==
  /\ u \in DOMAIN place
  /\ place' = Without(place, {u})
  /\ UNCHANGED <<present, inbox>>

\* m was sent after everything in the line that came on its connection.
InLine(line, m) ==
  \A k \in DOMAIN line : line[k].conn = m.conn => line[k].n < m.n

Deliver(m) ==
  /\ m.to \in DOMAIN place
  /\ InLine(inbox[place[m.to]], m)
  /\ inbox' = [inbox EXCEPT ![place[m.to]] = Append(@, m)]
  /\ UNCHANGED <<present, place>>

MessengerNext ==
  \/ \E c \in Conn : Arrive(c) \/ Leave({c})
  \/ Leave(present)
  \/ \E u \in UserID : LogOut(u) \/ \E c \in Conn : LogIn(u, c)
  \/ \E m \in Message : Deliver(m)

MessengerSpec == MessengerInit /\ [][MessengerNext]_messengerVars
==============================================================================
