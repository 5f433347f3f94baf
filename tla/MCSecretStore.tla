----------------------------- MODULE MCSecretStore -----------------------------
(* Two commands, which may overlap or follow each other, over a name that   *)
(* may be in use.  With two attempts, two faults exhaust a method, and a    *)
(* put that fails counts three failures: one short of the threshold, as     *)
(* with the 3 attempts and the threshold of 5 of the code.                  *)
EXTENDS SecretStore
==============================================================================
