------------------------------ MODULE MCOverlay ------------------------------
(* An instance of Overlay: two operators, one service with a descriptor    *)
(* and one without.                                                        *)
EXTENDS Overlay

CONSTANTS p1, p2, explicit, auto
==============================================================================
