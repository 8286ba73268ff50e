------------------------------- MODULE GoMaps -------------------------------
(***************************************************************************)
(* Go maps, and objects stored by name, as functions on the keys present.  *)
(***************************************************************************)
EmptyMap == [k \in {} |-> {}]

\* m[key] = value, and delete(m, key).
Put(m, key, value) == [k \in DOMAIN m \cup {key} |-> IF k = key THEN value ELSE m[k]]
Drop(m, key) == [k \in DOMAIN m \ {key} |-> m[k]]
=============================================================================
