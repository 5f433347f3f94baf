---------------------------- MODULE MCSecretsSync ----------------------------
(* An instance of SecretsSync: two clusters with one service each, which   *)
(* both may synchronise at a time, at first with the same secret.  Either  *)
(* each has a name of its own and the keys of both are found, or both have *)
(* one name, which leads to the first, whose key alone is found.           *)
EXTENDS SecretsSync

CONSTANTS c1, c2, svc, a, b, x, y

Secrets == {<<a, x>>, <<a, y>>, <<b, x>>}
Same == [c \in Cluster |-> [s \in Service |-> <<a, x>>]]
Starts == {[config |-> Same, named |-> [c \in Cluster |-> c], found |-> Cluster],
           [config |-> Same, named |-> [c \in Cluster |-> c1], found |-> {c1}]}
==============================================================================
