---------------------------- MODULE MCBingoServer ----------------------------
(***************************************************************************)
(* Small instances of BingoServer: who connects, as whom, and which worker *)
(* serves which address.                                                   *)
(***************************************************************************)
EXTENDS BingoServer, TLC

CONSTANTS c1, c2, c3, u1, u2, a, b, w1, w2

\* One user on two devices, another user on a third.
TwoDevices == [c \in Conn |-> IF c = c3 THEN {u2} ELSE {u1}]

\* One client logs in as anybody, another as one user only.
SharedDevice == [c \in Conn |-> IF c = c1 THEN UserID ELSE {u1}]

\* One worker for each of two addresses.
PerSocket == [ws \in WebSocket |-> IF ws = a THEN w1 ELSE w2]

\* The two devices of one user only differ by their names, and so do the two
\* addresses together with the workers that serve them.
Swap(x, y) == x :> y @@ y :> x
Keep(x, y) == x :> x @@ y :> y
Symmetry ==
  {f @@ g : f \in {Keep(c1, c2), Swap(c1, c2)},
            g \in {Keep(a, b) @@ Keep(w1, w2), Swap(a, b) @@ Swap(w1, w2)}}
==============================================================================
