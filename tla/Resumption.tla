------------------------------ MODULE Resumption ------------------------------
(***************************************************************************)
(* What a resumable deploy promises, without files, flags and formats:     *)
(* steps run one at a time, each may run again, and a record of those that *)
(* are done survives between deploys.                                      *)
(*                                                                         *)
(* The record is written ahead: a step leaves it before it runs and enters *)
(* it again only when it is done.  The record may be lost, but only as a   *)
(* whole.  Nothing else changes it as long as it can be trusted, that is,  *)
(* until somebody undoes steps behind its back or leaves a second record.  *)
(***************************************************************************)
EXTENDS Integers

CONSTANT Step

VARIABLES done,      \* the steps that are in place
          recorded,  \* the steps that the next deploy would skip
          running,   \* the step that runs, alone, or no step
          trusted

vars == <<done, recorded, running, trusted>>

Init == /\ done \subseteq Step
        /\ recorded \subseteq Step
        /\ running = {}
        /\ trusted \in BOOLEAN
        /\ trusted => recorded = {} /\ done = {}

Begin(s) == /\ running = {}
            /\ running' = {s}
            /\ recorded' = recorded \ {s}
            /\ UNCHANGED <<done, trusted>>

Complete(s) == /\ running = {s}
               /\ running' = {}
               /\ done' = done \cup {s}
               /\ UNCHANGED <<recorded, trusted>>

(* The step fails, or the deploy dies: nothing can be said of the step.    *)
Break(s) == /\ running = {s}
            /\ running' = {}
            /\ done' = done \ {s}
            /\ UNCHANGED <<recorded, trusted>>

Record(s) == /\ running = {}
             /\ trusted => s \in done
             /\ recorded' = recorded \cup {s}
             /\ UNCHANGED <<done, running, trusted>>

Forget == /\ running = {}
          /\ recorded' = {}
          /\ UNCHANGED <<done, running, trusted>>

(* Behind the back of deploys, between two of them.                        *)
Undo == /\ running = {}
        /\ done' \subseteq done
        /\ recorded' \in {recorded, {}}
        /\ trusted' = FALSE
        /\ UNCHANGED running

(* A second record takes the place of the first.                           *)
Resurface == /\ ~trusted
             /\ running = {}
             /\ recorded' \subseteq Step
             /\ UNCHANGED <<done, running, trusted>>

Next == \/ \E s \in Step : Begin(s) \/ Complete(s) \/ Break(s) \/ Record(s)
        \/ Forget \/ Undo \/ Resurface

Spec == Init /\ [][Next]_vars
------------------------------------------------------------------------------
(* What is skipped is in place, and what runs is never also recorded.      *)
Faithful == /\ trusted => recorded \subseteq done
            /\ running \cap recorded = {}
==============================================================================
