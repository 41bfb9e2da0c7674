----------------------------- MODULE MCAccounts ------------------------------
(* Accounts with a username that is looked for and a second field. *)
EXTENDS Accounts, TLC

CONSTANTS w1, w2, v1, v2, p1, p2, t1, t2, noProfile

MCField == {"username", "email"}
MCChecked == <<"username", "email">>
UniqueUsername == {"username"}
UniqueEmail == {"email"}

\* Workers, values, passwords and tokens only differ by their names.
Symmetry == Permutations({w1, w2}) \cup Permutations({v1, v2})
              \cup Permutations({p1, p2}) \cup Permutations({t1, t2})
==============================================================================
