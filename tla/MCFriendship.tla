----------------------------- MODULE MCFriendship -----------------------------
(***************************************************************************)
(* A small instance of Friendship: one user on two devices that different  *)
(* workers serve, another user on a third.                                 *)
(***************************************************************************)
EXTENDS Friendship

CONSTANTS d1, d2, d3, u1, u2, w1, w2

DeviceUser == [d \in Device |-> IF d = d3 THEN u2 ELSE u1]

DeviceWorker == [d \in Device |-> IF d = d2 THEN w2 ELSE w1]
==============================================================================
