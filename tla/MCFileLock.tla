------------------------------ MODULE MCFileLock ------------------------------
(* One inode more than processes is enough: a process has at most one open, *)
(* and one has the name.  Operators who may break a live lock, and cautious *)
(* ones who never do.                                                       *)
EXTENDS FileLock
==============================================================================
