---------------------------- MODULE FileLockProofs ----------------------------
(***************************************************************************)
(* Proofs about the file lock, for any processes, files and times.         *)
(*                                                                         *)
(* IInv adds to the properties what ties a process to its descriptor: the  *)
(* file is open exactly while it is being locked, written or held, and a   *)
(* process at write or held has its flock.                                 *)
(***************************************************************************)
EXTENDS FileLock, TLAPS

Opened == Locking \cup {"flock"}

Descriptors ==
  /\ \A p \in Proc : pc[p] \in Opened => fd[p] \in Inode
  /\ \A p \in Proc : pc[p] \notin Opened => fd[p] = None
  /\ \A p \in Proc : pc[p] \in Locking => flock[fd[p]] = p

IInv == TypeOK /\ Descriptors /\ NoFlockLeaks /\ HolderNamed /\ NoStaleFile

USE NoneAssumption, TimeAssumption DEF Locking, Opened, Busy
------------------------------------------------------------------------------
(* Metadata as files have it, and what removing files leaves.              *)
LEMMA MetaType ==
  /\ Blank \in Meta
  /\ \A p \in Proc : Metadata(p) \in Meta
  /\ content \in [Inode -> Meta] =>
       \A files : Keep(files) => content' \in [Inode -> Meta]
<1>1. Blank \in Meta /\ \A p \in Proc : Metadata(p) \in Meta
  BY DEF Blank, Metadata, Meta
<1>2. ASSUME content \in [Inode -> Meta], NEW files, Keep(files)
      PROVE  content' \in [Inode -> Meta]
  BY <1>1, <1>2 DEF Keep
<1> QED
  BY <1>1, <1>2

(* A countdown stays in its range.                                         *)
LEMMA LessType == \A m \in Nat : \A n \in 0..m : Less(n) \in 0..m
BY DEF Less

LEMMA InitIInv == Init => IInv
<1> SUFFICES ASSUME Init PROVE IInv
  OBVIOUS
<1> USE DEF Init
<1>1. TypeOK
  BY MetaType DEF TypeOK
<1>2. Descriptors /\ NoFlockLeaks
  BY DEF Descriptors, NoFlockLeaks
<1>3. HolderNamed /\ NoStaleFile
  BY DEF HolderNamed, NoStaleFile
<1> QED
  BY <1>1, <1>2, <1>3 DEF IInv

LEMMA TypeNext == IInv /\ [Next]_vars => TypeOK'
<1> SUFFICES ASSUME IInv, [Next]_vars PROVE TypeOK'
  OBVIOUS
<1> USE DEF IInv, TypeOK
<1>0. content \in [Inode -> Meta]
  OBVIOUS
<1>1. ASSUME NEW p \in Proc, \/ Start(p) \/ Inspect(p) \/ Answer(p)
                            \/ Retry(p) \/ AcquireTimesOut(p)
      PROVE  TypeOK'
  BY <1>1 DEF Start, Inspect, Answer, Retry, AcquireTimesOut, Go, StartAcquire
<1>2. ASSUME NEW p \in Proc,
             ForceBreak(p) \/ ReleaseRemove(p) \/ DestroyForceBreak(p)
      PROVE  TypeOK'
  <2>1. content' \in [Inode -> Meta]
    BY <1>0, <1>2, MetaType
    DEF ForceBreak, ReleaseRemove, DestroyForceBreak, Remove
  <2> QED
    BY <1>2, <2>1 DEF ForceBreak, ReleaseRemove, DestroyForceBreak, Remove,
                      Go, StartAcquire
<1>3. ASSUME NEW p \in Proc, OpenFile(p) PROVE TypeOK'
  <2>1. content' \in [Inode -> Meta]
    BY <1>0, <1>3, MetaType DEF OpenFile
  <2> QED
    BY <1>3, <2>1 DEF OpenFile, Go, Unused
<1>4. ASSUME NEW p \in Proc,
             Flock(p) \/ WriteFails(p) \/ ReleaseUnlock(p) \/ Crash(p)
      PROVE  TypeOK'
  <2>1. content' \in [Inode -> Meta]
    BY <1>0, <1>4, MetaType
    DEF Flock, WriteFails, ReleaseUnlock, Crash, Close
  <2>2. flock' \in [Inode -> Proc \cup {None}]
    BY <1>4 DEF Flock, WriteFails, ReleaseUnlock, Crash, Close
  <2> QED
    BY <1>4, <2>1, <2>2 DEF Flock, WriteFails, ReleaseUnlock, Crash, Close,
                            Go, EndAcquire
<1>5. ASSUME NEW p \in Proc, WriteMetadata(p) PROVE TypeOK'
  <2>1. content' \in [Inode -> Meta]
    BY <1>0, <1>5, MetaType DEF WriteMetadata
  <2> QED
    BY <1>5, <2>1 DEF WriteMetadata, Go, EndAcquire
<1>6. CASE Tick
  <2>1. ASSUME NEW i \in Inode
        PROVE  [owner |-> content[i].owner, left |-> Less(content[i].left)]
                 \in Meta
    <3>1. content[i].owner \in Proc \cup {None} /\ content[i].left \in 0..TTL
      BY <1>0 DEF Meta
    <3>2. Less(content[i].left) \in 0..TTL
      BY <3>1, LessType
    <3> QED
      BY <3>1, <3>2 DEF Meta
  <2>2. content' \in [Inode -> Meta]
    BY <1>6, <2>1 DEF Tick
  <2>3. deadline' \in [Proc -> 0..AcquireTimeout]
    BY <1>6, LessType DEF Tick
  <2> QED
    BY <1>6, <2>2, <2>3 DEF Tick
<1>7. CASE UNCHANGED vars
  BY <1>7 DEF vars
<1> QED
  BY <1>1, <1>2, <1>3, <1>4, <1>5, <1>6, <1>7 DEF Next, Acquiring

LEMMA DescriptorsNext ==
  IInv /\ [Next]_vars => (Descriptors /\ NoFlockLeaks)'
<1> SUFFICES ASSUME IInv, [Next]_vars PROVE (Descriptors /\ NoFlockLeaks)'
  OBVIOUS
<1> USE DEF IInv, TypeOK, Descriptors, NoFlockLeaks
<1>1. ASSUME NEW p \in Proc, \/ Start(p) \/ Inspect(p) \/ Answer(p)
                            \/ Retry(p) \/ AcquireTimesOut(p)
      PROVE  (Descriptors /\ NoFlockLeaks)'
  BY <1>1 DEF Start, Inspect, Answer, Retry, AcquireTimesOut, Go
<1>2. ASSUME NEW p \in Proc,
             ForceBreak(p) \/ ReleaseRemove(p) \/ DestroyForceBreak(p)
      PROVE  (Descriptors /\ NoFlockLeaks)'
  BY <1>2 DEF ForceBreak, ReleaseRemove, DestroyForceBreak, Go
<1>3. ASSUME NEW p \in Proc, OpenFile(p)
      PROVE  (Descriptors /\ NoFlockLeaks)'
  BY <1>3 DEF OpenFile, Go, Unused
<1>4. ASSUME NEW p \in Proc, Flock(p) PROVE (Descriptors /\ NoFlockLeaks)'
  BY <1>4 DEF Flock, Go, Close
<1>5. ASSUME NEW p \in Proc, WriteMetadata(p)
      PROVE  (Descriptors /\ NoFlockLeaks)'
  BY <1>5 DEF WriteMetadata, Go
<1>6. ASSUME NEW p \in Proc, WriteFails(p) \/ ReleaseUnlock(p)
      PROVE  (Descriptors /\ NoFlockLeaks)'
  BY <1>6 DEF WriteFails, ReleaseUnlock, Go, Close
<1>7. ASSUME NEW p \in Proc, Crash(p) PROVE (Descriptors /\ NoFlockLeaks)'
  BY <1>7 DEF Crash, Close
<1>8. CASE Tick \/ UNCHANGED vars
  BY <1>8 DEF Tick, vars
<1> QED
  BY <1>1, <1>2, <1>3, <1>4, <1>5, <1>6, <1>7, <1>8 DEF Next, Acquiring

LEMMA HolderNamedNext == IInv /\ [Next]_vars => HolderNamed'
<1> SUFFICES ASSUME IInv, [Next]_vars PROVE HolderNamed'
  OBVIOUS
<1> USE DEF IInv, TypeOK, Descriptors, HolderNamed
<1>1. ASSUME NEW p \in Proc, \/ Start(p) \/ Inspect(p) \/ Answer(p)
                            \/ Retry(p) \/ AcquireTimesOut(p)
      PROVE  HolderNamed'
  BY <1>1 DEF Start, Inspect, Answer, Retry, AcquireTimesOut, Go
<1>2. ASSUME NEW p \in Proc,
             ForceBreak(p) \/ ReleaseRemove(p) \/ DestroyForceBreak(p)
      PROVE  HolderNamed'
  BY <1>2 DEF ForceBreak, ReleaseRemove, DestroyForceBreak, Go, Remove, Keep
<1>3. ASSUME NEW p \in Proc, OpenFile(p) PROVE HolderNamed'
  BY <1>3 DEF OpenFile, Go, Unused
<1>4. ASSUME NEW p \in Proc, Flock(p) PROVE HolderNamed'
  BY <1>4 DEF Flock, Go, Close, Keep
<1>5. ASSUME NEW p \in Proc, WriteMetadata(p) PROVE HolderNamed'
  BY <1>5 DEF WriteMetadata, Go, Metadata
<1>6. ASSUME NEW p \in Proc, WriteFails(p) \/ ReleaseUnlock(p)
      PROVE  HolderNamed'
  BY <1>6 DEF WriteFails, ReleaseUnlock, Go, Close, Keep
<1>7. ASSUME NEW p \in Proc, Crash(p) PROVE HolderNamed'
  BY <1>7 DEF Crash, Close, Keep
<1>8. CASE Tick
  BY <1>8 DEF Tick
<1>9. CASE UNCHANGED vars
  BY <1>9 DEF vars
<1> QED
  BY <1>1, <1>2, <1>3, <1>4, <1>5, <1>6, <1>7, <1>8, <1>9
  DEF Next, Acquiring

LEMMA NoStaleFileNext == IInv /\ [Next]_vars => NoStaleFile'
<1> SUFFICES ASSUME IInv, [Next]_vars PROVE NoStaleFile'
  OBVIOUS
<1> USE DEF IInv, TypeOK, Descriptors, NoStaleFile, Removers
<1>1. ASSUME NEW p \in Proc, \/ Start(p) \/ Inspect(p) \/ Answer(p)
                            \/ Retry(p) \/ AcquireTimesOut(p)
      PROVE  NoStaleFile'
  BY <1>1 DEF Start, Inspect, Answer, Retry, AcquireTimesOut, Go
<1>2. ASSUME NEW p \in Proc,
             ForceBreak(p) \/ ReleaseRemove(p) \/ DestroyForceBreak(p)
      PROVE  NoStaleFile'
  BY <1>2 DEF ForceBreak, ReleaseRemove, DestroyForceBreak, Remove
<1>3. ASSUME NEW p \in Proc, OpenFile(p) PROVE NoStaleFile'
  BY <1>3 DEF OpenFile, Go
<1>4. ASSUME NEW p \in Proc, Flock(p) PROVE NoStaleFile'
  BY <1>4 DEF Flock, Go, Close, NoFlockLeaks
<1>5. ASSUME NEW p \in Proc, WriteMetadata(p) PROVE NoStaleFile'
  BY <1>5 DEF WriteMetadata, Go
<1>6. ASSUME NEW p \in Proc, WriteFails(p) \/ ReleaseUnlock(p)
      PROVE  NoStaleFile'
  BY <1>6 DEF WriteFails, ReleaseUnlock, Go
<1>7. ASSUME NEW p \in Proc, Crash(p) PROVE NoStaleFile'
  BY <1>7 DEF Crash
<1>8. CASE Tick \/ UNCHANGED vars
  BY <1>8 DEF Tick, vars
<1> QED
  BY <1>1, <1>2, <1>3, <1>4, <1>5, <1>6, <1>7, <1>8 DEF Next, Acquiring

LEMMA IInvAlways == Spec => []IInv
<1>1. IInv /\ [Next]_vars => IInv'
  BY TypeNext, DescriptorsNext, HolderNamedNext, NoStaleFileNext DEF IInv
<1> QED
  BY InitIInv, <1>1, PTL DEF Spec

(* The type invariant.                                                     *)
THEOREM TypeCorrect == Spec => []TypeOK
<1>1. IInv => TypeOK
  BY DEF IInv
<1> QED
  BY <1>1, IInvAlways, PTL

(* A holder's lock file always names the holder, however many processes    *)
(* open, break and remove the path meanwhile.                              *)
THEOREM HolderNamedCorrect == Spec => []HolderNamed
<1>1. IInv => HolderNamed
  BY DEF IInv
<1> QED
  BY <1>1, IInvAlways, PTL

(* No process that is not locking or holding has a flock.                  *)
THEOREM NoFlockLeaksCorrect == Spec => []NoFlockLeaks
<1>1. IInv => NoFlockLeaks
  BY DEF IInv
<1> QED
  BY <1>1, IInvAlways, PTL

(* A lock file is left behind only by a crash or a failed write.           *)
THEOREM NoStaleFileCorrect == Spec => []NoStaleFile
<1>1. IInv => NoStaleFile
  BY DEF IInv
<1> QED
  BY <1>1, IInvAlways, PTL
==============================================================================
