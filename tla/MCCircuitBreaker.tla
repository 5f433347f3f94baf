--------------------------- MODULE MCCircuitBreaker ---------------------------
(* As many calls at once as it takes for old ones to finish, well or not,   *)
(* while probes run.                                                        *)
EXTENDS CircuitBreaker, TLC

Symmetry == Permutations(Call)
==============================================================================
