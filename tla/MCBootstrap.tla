------------------------------ MODULE MCBootstrap ------------------------------
(* An operator who knows all the flags, and one who deploys again and again. *)
EXTENDS Bootstrap

JustPlain == {Plain}
================================================================================
