---------------------------- MODULE MutualConsent ----------------------------
(***************************************************************************)
(* What befriending promises: two users become friends only when one has   *)
(* asked the other and the other has agreed, first in the eyes of the one  *)
(* who agreed; and friends stay friends.  There are no rows, identifiers   *)
(* or statements here; Friendship implements it.                           *)
(***************************************************************************)
CONSTANT User

VARIABLES
  asked,     \* <<s, r>>: s has asked r
  agreed,    \* <<s, r>>: r has agreed to be a friend of s
  friends    \* <<u, f>>: u has f as a friend

consentVars == <<asked, agreed, friends>>

ConsentInit == asked = {} /\ agreed = {} /\ friends = {}

\* Nobody asks himself.
Ask(s, r) ==
  /\ s # r
  /\ asked' = asked \cup {<<s, r>>}
  /\ UNCHANGED <<agreed, friends>>

Agree(s, r) ==
  /\ s # r
  /\ agreed' = agreed \cup {<<s, r>>}
  /\ UNCHANGED <<asked, friends>>

Befriend(s, r) ==
  /\ <<s, r>> \in asked \cap agreed
  /\ \/ friends' = friends \cup {<<r, s>>}
     \/ <<r, s>> \in friends /\ friends' = friends \cup {<<s, r>>}
  /\ UNCHANGED <<asked, agreed>>

ConsentNext == \E s, r \in User : Ask(s, r) \/ Agree(s, r) \/ Befriend(s, r)

ConsentSpec == ConsentInit /\ [][ConsentNext]_consentVars
==============================================================================
