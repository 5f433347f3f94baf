------------------------------- MODULE FileLock -------------------------------
(***************************************************************************)
(* The cluster lock as `opencenter cluster deploy' and `cluster destroy'   *)
(* take it: cmd.AcquireLockWithPrompt over the file backend of             *)
(* resilience.LockManager (internal/resilience/lock_manager.go).           *)
(*                                                                         *)
(* The lock is a file.  Its name is a directory entry that Remove unlinks; *)
(* flock binds to the inode behind an open descriptor, so a descriptor     *)
(* opened before a Remove locks a file nobody else will find.  Every       *)
(* system call is a step of its own.  Each command is a process with a     *)
(* lock manager of its own, so that the backend's in-memory map never      *)
(* holds another command's lock.                                           *)
(*                                                                         *)
(* Times are countdowns: `left' of a file is the time to the `expires'     *)
(* line of its metadata, 0 once it passed; a file without metadata has the *)
(* zero time, which has passed.                                            *)
(***************************************************************************)
EXTENDS Naturals

CONSTANTS Proc,            \* processes running deploy or destroy
          Inode,           \* files; more than processes, see Unused
          None,            \* no process, no file
          TTL,             \* ticks of the 1 hour lease
          AcquireTimeout,  \* ticks of LockConfig.AcquireTimeout
          Answers          \* what operators may do about a live lock

ASSUME NoneAssumption == None \notin Proc \cup Inode
ASSUME TimeAssumption == TTL \in Nat \ {0} /\ AcquireTimeout \in Nat
(* "break" is --break-lock or a confirmed prompt.                          *)
ASSUME AnswersAssumption == Answers \subseteq {"refuse", "break"}

VARIABLES dirent,    \* the inode the lock's path names, or None
          flock,     \* who holds the flock of each inode
          content,   \* metadata in each inode: owner and time left
          pc,        \* where each process is
          fd,        \* the inode its lock descriptor is open on, or None
          deadline,  \* ticks left of its acquire context
          residue    \* history: whether a crash or a failed write left a file

vars == <<dirent, flock, content, pc, fd, deadline, residue>>

Meta == [owner : Proc \cup {None}, left : 0..TTL]
Blank == [owner |-> None, left |-> 0]
Metadata(p) == [owner |-> p, left |-> TTL]
Live(i) == content[i].left > 0

(* Where a process has the flock of the file it has open.                  *)
Locking == {"write", "held"}

TypeOK ==
  /\ dirent \in Inode \cup {None}
  /\ flock \in [Inode -> Proc \cup {None}]
  /\ content \in [Inode -> Meta]
  /\ pc \in [Proc -> Locking \cup {"idle", "inspect", "prompt", "clean",
                       "break", "open", "flock", "retry", "remove", "rebreak"}]
  /\ fd \in [Proc -> Inode \cup {None}]
  /\ deadline \in [Proc -> 0..AcquireTimeout]
  /\ residue \in {"none", "left"}

Init == /\ dirent = None
        /\ flock = [i \in Inode |-> None]
        /\ content = [i \in Inode |-> Blank]
        /\ pc = [p \in Proc |-> "idle"]
        /\ fd = [p \in Proc |-> None]
        /\ deadline = [p \in Proc |-> 0]
        /\ residue = "none"

(* A freed inode: a file that has no name and that nobody has open.        *)
Unused == {i \in Inode : i # dirent /\ \A p \in Proc : fd[p] # i}

Go(p, from, to) == pc[p] = from /\ pc' = [pc EXCEPT ![p] = to]
------------------------------------------------------------------------------
(* The command begins.                                                     *)
Start(p) ==
  /\ Go(p, "idle", "inspect")
  /\ UNCHANGED <<dirent, flock, content, fd, deadline, residue>>

(* AcquireWithMetadata starts its context.                                 *)
StartAcquire(p) == deadline' = [deadline EXCEPT ![p] = AcquireTimeout]

(* GetLockInfo reads the file: none, an expired one, a live one.  It does  *)
(* not ask who holds the flock.                                            *)
Inspect(p) ==
  /\ \/ /\ dirent = None
        /\ Go(p, "inspect", "open")
        /\ StartAcquire(p)
     \/ /\ dirent # None
        /\ Go(p, "inspect", IF Live(dirent) THEN "prompt" ELSE "clean")
        /\ UNCHANGED deadline
  /\ UNCHANGED <<dirent, flock, content, fd, residue>>

(* The operator decides about a live lock, with a flag or at the prompt.   *)
Answer(p) ==
  /\ \/ "break" \in Answers /\ Go(p, "prompt", "break")
     \/ "refuse" \in Answers /\ Go(p, "prompt", "idle")
  /\ UNCHANGED <<dirent, flock, content, fd, deadline, residue>>

(* A file without a name and without a descriptor is gone.                 *)
Keep(files) == content' = [i \in Inode |-> IF i \in files THEN content[i]
                                                         ELSE Blank]

(* os.Remove of the lock path, whatever file it names by now.  The mutant  *)
(* forgets it.                                                             *)
RemoveForgotten == UNCHANGED <<dirent, content, residue>>
Remove == /\ dirent' = None
          /\ Keep({fd[p] : p \in Proc})
          /\ residue' = "none"

(* ForceBreak of a fresh manager: only the Remove.  Then the acquisition   *)
(* begins.                                                                 *)
ForceBreak(p) ==
  /\ Go(p, "clean", "open") \/ Go(p, "break", "open")
  /\ Remove
  /\ StartAcquire(p)
  /\ UNCHANGED <<flock, fd>>

(* OpenFile(O_CREATE|O_RDWR): the file there is, or a new empty one.       *)
OpenFile(p) ==
  /\ Go(p, "open", "flock")
  /\ \/ /\ dirent # None
        /\ fd' = [fd EXCEPT ![p] = dirent]
        /\ UNCHANGED <<dirent, content>>
     \/ /\ dirent = None
        /\ \E i \in Unused :
             /\ dirent' = i
             /\ fd' = [fd EXCEPT ![p] = i]
             /\ content' = [content EXCEPT ![i] = Blank]
  /\ UNCHANGED <<flock, deadline, residue>>

(* Closing the descriptor, or dying, gives up the flock.  The mutant leaks *)
(* the descriptor.                                                         *)
CloseLeaks(p) == /\ fd' = [fd EXCEPT ![p] = None]
                 /\ UNCHANGED <<flock, content>>
Close(p) ==
  /\ flock' = [i \in Inode |-> IF flock[i] = p THEN None ELSE flock[i]]
  /\ fd' = [fd EXCEPT ![p] = None]
  /\ Keep({dirent} \cup {fd[q] : q \in Proc \ {p}})

(* LOCK_EX is refused while another descriptor has the flock.  The mutant  *)
(* ignores the error.                                                      *)
BusyIgnored(i) == FALSE
Busy(i) == flock[i] # None

(* flock(LOCK_EX|LOCK_NB) on the descriptor; busy means closing it and     *)
(* waiting for the ticker.                                                 *)
Flock(p) ==
  /\ \/ /\ Go(p, "flock", "write")
        /\ ~Busy(fd[p])
        /\ flock' = [flock EXCEPT ![fd[p]] = p]
        /\ UNCHANGED <<fd, content>>
     \/ /\ Go(p, "flock", "retry")
        /\ Busy(fd[p])
        /\ Close(p)
  /\ UNCHANGED <<dirent, deadline, residue>>

(* The metadata is written, the context cancelled, and the command has its *)
(* lock.                                                                   *)
EndAcquire(p) == deadline' = [deadline EXCEPT ![p] = 0]

WriteMetadata(p) ==
  /\ Go(p, "write", "held")
  /\ content' = [content EXCEPT ![fd[p]] = Metadata(p)]
  /\ EndAcquire(p)
  /\ UNCHANGED <<dirent, flock, fd, residue>>

(* WriteAt fails: the file stays behind, and the attempt failed.           *)
WriteFails(p) ==
  /\ Go(p, "write", "retry")
  /\ Close(p)
  /\ residue' = "left"
  /\ UNCHANGED <<dirent, deadline>>

(* The ticker fires before the context is noticed to be done.              *)
Retry(p) ==
  /\ Go(p, "retry", "open")
  /\ UNCHANGED <<dirent, flock, content, fd, deadline, residue>>

(* The context of AcquireWithMetadata is done.  The mutant has no timeout. *)
ContextNever(p) == FALSE
ContextDone(p) == deadline[p] = 0

AcquireTimesOut(p) ==
  /\ ContextDone(p)
  /\ Go(p, "retry", "idle")
  /\ UNCHANGED <<dirent, flock, content, fd, deadline, residue>>

(* The command ends, well or not, and its deferred Release unlocks and     *)
(* closes the file ...                                                     *)
ReleaseUnlock(p) ==
  /\ Go(p, "held", "remove")
  /\ Close(p)
  /\ UNCHANGED <<dirent, deadline, residue>>

(* ... and then removes the path.  A deploy is done; a destroy goes on to  *)
(* force-break the lock.                                                   *)
ReleaseRemove(p) ==
  /\ Go(p, "remove", "idle") \/ Go(p, "remove", "rebreak")
  /\ Remove
  /\ UNCHANGED <<flock, fd, deadline>>

DestroyForceBreak(p) ==
  /\ Go(p, "rebreak", "idle")
  /\ Remove
  /\ UNCHANGED <<flock, fd, deadline>>

(* The process is killed: the kernel drops its flock, the file remains.    *)
Crash(p) ==
  /\ pc[p] # "idle"
  /\ pc' = [pc EXCEPT ![p] = "idle"]
  /\ Close(p)
  /\ EndAcquire(p)
  /\ residue' = "left"
  /\ UNCHANGED dirent

(* A clock that goes on below zero, and one that stops there.              *)
LessUnclamped(n) == n - 1
Less(n) == IF n = 0 THEN 0 ELSE n - 1

Tick == /\ content' = [i \in Inode |-> [owner |-> content[i].owner,
                                       left |-> Less(content[i].left)]]
        /\ deadline' = [p \in Proc |-> Less(deadline[p])]
        /\ UNCHANGED <<dirent, flock, pc, fd, residue>>

(* The steps of a process that is inside AcquireWithMetadata.              *)
Acquiring(p) == OpenFile(p) \/ Flock(p) \/ WriteMetadata(p)
                \/ WriteFails(p) \/ Retry(p)

Next == \/ \E p \in Proc :
             \/ Start(p) \/ Inspect(p) \/ Answer(p) \/ ForceBreak(p)
             \/ Acquiring(p) \/ AcquireTimesOut(p) \/ ReleaseUnlock(p)
             \/ ReleaseRemove(p) \/ DestroyForceBreak(p) \/ Crash(p)
        \/ Tick

Spec == Init /\ [][Next]_vars

(* Time passes, a process inside an acquisition goes on, and the select of *)
(* the retry loop, which picks a ready case at random, does not ignore a   *)
(* context that is done for ever.  Operators need not answer, and holders  *)
(* need not finish.                                                        *)
Fairness == /\ WF_vars(Tick)
            /\ \A p \in Proc : /\ WF_vars(Acquiring(p))
                               /\ SF_vars(AcquireTimesOut(p))

FairSpec == Spec /\ Fairness
------------------------------------------------------------------------------
(* A command that has the lock finds its own name in its lock file, for as *)
(* long as it holds it: nobody else holds that file, and what `cluster     *)
(* describe' and the prompt show of it is true.                            *)
HolderNamed ==
  \A p \in Proc : pc[p] = "held" => content[fd[p]].owner = p

(* No flock outlives its use: a process that failed, was refused, was      *)
(* killed or is done locks nobody out.                                     *)
NoFlockLeaks ==
  \A i \in Inode : flock[i] # None => /\ fd[flock[i]] = i
                                      /\ pc[flock[i]] \in Locking

(* The processes that will still remove the lock's path.                   *)
Removers == {p \in Proc : pc[p] \in Locking \cup {"remove"}}

(* A lock file that is not left from a crash or a failed write belongs to  *)
(* a command that will remove it: to whoever still tries to lock that very *)
(* file, or to one that already has a lock.  So when all commands have     *)
(* ended, no lock is left to stop the next one.                            *)
NoStaleFile ==
  dirent # None =>
    \/ residue = "left"
    \/ Removers # {}
    \/ \E p \in Proc : pc[p] = "flock" /\ fd[p] = dirent

(* AcquireWithMetadata returns, with the lock or an error, whatever other  *)
(* processes do, unless the process dies.                                  *)
AcquireEnds ==
  \A p \in Proc : pc[p] = "open" ~> pc[p] \in {"held", "idle"}

(* The lock is there "to prevent concurrent operations" (lock_manager.go,  *)
(* LockManager): no two commands hold it while both leases are live.       *)
MutualExclusion ==
  \A p, q \in Proc : /\ pc[p] = "held" /\ Live(fd[p])
                     /\ pc[q] = "held" /\ Live(fd[q])
                     => p = q
==============================================================================
