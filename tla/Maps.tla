-------------------------------- MODULE Maps ---------------------------------
(***************************************************************************)
(* The two updates of std::unordered_map the server uses, on functions.    *)
(***************************************************************************)
EXTENDS Functions

\* map is a table from some of the keys K to values V.
IsMap(map, K, V) ==
  /\ DOMAIN map \subseteq K
  /\ map \in [DOMAIN map -> V]

EmptyMap == [k \in {} |-> k]

\* map[k] = v: the entry of k is replaced, or added.
Put(map, k, v) ==
  [x \in DOMAIN map \cup {k} |-> IF x = k THEN v ELSE map[x]]

\* The entries that survive the erasure of the keys in S.
Without(map, S) == Restrict(map, DOMAIN map \ S)
==============================================================================
