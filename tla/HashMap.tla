------------------------------- MODULE HashMap -------------------------------
(***************************************************************************)
(* The hash map of db/HashMap.h, which the repository ships as a binary    *)
(* library. A map is a function whose domain is the set of its keys.       *)
(* HashMap_Find of the library stores NULL for a missing key, so a lookup  *)
(* is the test k \in DOMAIN m; HashMap_Insert of a present key fails with  *)
(* MAP_KEY_DUPLICATE_ERROR and changes nothing, so callers test for it.    *)
(***************************************************************************)
EXTENDS FiniteSets

HashMap_Create == [k \in {} |-> k]

HashMap_Insert(m, k, v) == [x \in DOMAIN m \cup {k} |-> IF x = k THEN v ELSE m[x]]

HashMap_Remove(m, k) == [x \in DOMAIN m \ {k} |-> m[x]]

HashMap_Size(m) == Cardinality(DOMAIN m)

=============================================================================
