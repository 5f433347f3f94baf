------------------------------ MODULE WorkerPool ------------------------------
(***************************************************************************)
(* What a command that works on several jobs at a time promises, without   *)
(* goroutines, semaphore and what the work is: at most `limit' jobs are    *)
(* worked on at once, none is taken up twice, and none is begun once the   *)
(* pool has been stopped, which only a job that fails does.  Jobs are the  *)
(* entries of a list: two of them may concern the same thing.              *)
(***************************************************************************)
EXTENDS Integers, FiniteSets

CONSTANTS Job, MaxLimit

VARIABLES limit,
          working,  \* the jobs that are worked on
          over,     \* those that are done with, worked on or turned away
          stopped

vars == <<limit, working, over, stopped>>

Init == /\ limit \in 1..MaxLimit
        /\ working = {}
        /\ over = {}
        /\ stopped = FALSE

(* A command opens the pool, with one job that it works on at once or with *)
(* jobs that begin one by one.                                             *)
Open == /\ working = {} /\ over = {}
        /\ limit' \in 1..MaxLimit
        /\ working' \subseteq Job /\ Cardinality(working') <= 1
        /\ UNCHANGED <<over, stopped>>

Begin(j) == /\ ~stopped
            /\ Cardinality(working) < limit
            /\ j \notin working \cup over
            /\ working' = working \cup {j}
            /\ UNCHANGED <<limit, over, stopped>>

TurnAway(j) == /\ stopped
               /\ j \notin working \cup over
               /\ over' = over \cup {j}
               /\ UNCHANGED <<limit, working, stopped>>

(* A job is done with; if it failed it may stop the pool.                  *)
Finish(j) == /\ j \in working
             /\ working' = working \ {j}
             /\ over' = over \cup {j}
             /\ stopped \in {FALSE, stopped'}
             /\ UNCHANGED limit

(* The command ends, or dies.                                              *)
Close == /\ limit' \in 1..MaxLimit
         /\ working' = {}
         /\ over' = {}
         /\ stopped' = FALSE

Next == Open \/ Close \/ \E j \in Job : Begin(j) \/ TurnAway(j) \/ Finish(j)

Spec == Init /\ [][Next]_vars
------------------------------------------------------------------------------
(* The limit is kept, and what is over is not worked on.                   *)
Bounded == /\ Cardinality(working) <= limit
           /\ working \cap over = {}
==============================================================================
