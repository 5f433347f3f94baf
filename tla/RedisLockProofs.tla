--------------------------- MODULE RedisLockProofs ---------------------------
(***************************************************************************)
(* Proofs about the Redis lock, for any clients, tokens, ttl and timeout.  *)
(*                                                                         *)
(* Types are inductive together with the fact that a token in use was      *)
(* generated (Typed).  LeaseBacked needs more: tokens in use are distinct, *)
(* a delete that is still under way names no token in use (Tokens), and a  *)
(* client whose reply is on its way owns the key already (ReplyBacked).    *)
(***************************************************************************)
EXTENDS RedisLock, TLAPS

(* The clients whose token is in a request or in a lock object.            *)
Active == Holding \cup Waiting

TokensUsed == /\ \A c \in Client : pc[c] \in Active => token[c] \in used
              /\ \A m \in late : m.token \in used

Typed == TypeOK /\ TokensUsed

Tokens ==
  /\ \A c, d \in Client : /\ pc[c] \in Active
                          /\ pc[d] \in Active
                          /\ token[c] = token[d]
                          => c = d
  /\ \A m \in late : m.op = "del" =>
       \A c \in Client : pc[c] \in Active => token[c] # m.token

Replied == {"granted", "extended"}

ReplyBacked ==
  \A c \in Client : pc[c] \in Replied /\ pend[c] > 0 /\ token[c] \notin broken
                    => /\ store.token = token[c]
                       /\ store.left >= pend[c]

IInv == Typed /\ Tokens /\ LeaseBacked /\ ReplyBacked

USE TokenAssumption, TimeAssumption
    DEF Vacant, LeaseFromRequest, KeyTTL, Pending, Replied
------------------------------------------------------------------------------
(* A request a client waits for is a well-formed one of its token.         *)
LEMMA OutstandingIsRequest ==
  ASSUME Typed, NEW c \in Client, pc[c] \in Pending
  PROVE  /\ Outstanding(c) \in Request
         /\ Outstanding(c).token = token[c]
         /\ token[c] \in used
         /\ Outstanding(c).op = "del" <=> pc[c] = "releasing"
<1>1. token[c] \in used /\ token[c] \in Token
  BY DEF Typed, TypeOK, TokensUsed, Active
<1>2. OpAt[pc[c]] \in {"setnx", "del", "pexpire"}
  BY DEF OpAt, Waiting
<1>3. OpAt[pc[c]] = "del" <=> pc[c] = "releasing"
  BY DEF OpAt, Waiting
<1> QED
  BY <1>1, <1>2, <1>3 DEF Outstanding, Request

LEMMA TypedInit == Init => Typed
BY DEF Init, Typed, TypeOK, TokensUsed, NoKey, Waiting, Active, Holding

LEMMA TypedNext == Typed /\ [Next]_vars => Typed'
<1> SUFFICES ASSUME Typed, [Next]_vars PROVE Typed'
  OBVIOUS
<1> USE DEF Typed, TypeOK, TokensUsed, Waiting, Holding, Active
<1>1. ASSUME NEW c \in Client, ClientStep(c) PROVE Typed'
  <2>1. CASE Acquire(c)
    BY <2>1 DEF Acquire
  <2>2. CASE SendSetNX(c)
    BY <2>2 DEF SendSetNX
  <2>3. CASE ServerSetNX(c)
    BY <2>3 DEF ServerSetNX, Key
  <2>4. CASE AcquireTimesOut(c)
    BY <2>4 DEF AcquireTimesOut
  <2>5. CASE SendRefresh(c)
    BY <2>5 DEF SendRefresh
  <2>6. CASE ServerRefresh(c)
    BY <2>6 DEF ServerRefresh, Key
  <2>7. CASE SendRelease(c)
    BY <2>7 DEF SendRelease
  <2>8. CASE ServerRelease(c)
    BY <2>8 DEF ServerRelease, CompareAndDelete, NoKey
  <2>9. CASE GiveUp(c)
    BY <2>9, OutstandingIsRequest DEF GiveUp, Abandoned, AfterError
  <2>10. CASE ReceiveReply(c)
    BY <2>10 DEF ReceiveReply
  <2> QED
    BY <1>1, <2>1, <2>2, <2>3, <2>4, <2>5, <2>6, <2>7, <2>8, <2>9,
       <2>10
    DEF ClientStep
<1>2. ASSUME NEW c \in Client, Crash(c) PROVE Typed'
  BY <1>2, OutstandingIsRequest DEF Crash, Abandoned
<1>3. ASSUME NEW m \in late, ServerLate(m) PROVE Typed'
  BY <1>3 DEF ServerLate, CompareAndDelete, Key, NoKey, Request
<1>4. CASE ForceBreak
  BY <1>4 DEF ForceBreak, NoKey
<1>5. CASE Expire
  BY <1>5 DEF Expire, NoKey
<1>6. CASE Tick
  BY <1>6 DEF Tick, Less
<1>7. CASE UNCHANGED vars
  BY <1>7 DEF vars
<1> QED
  BY <1>1, <1>2, <1>3, <1>4, <1>5, <1>6, <1>7 DEF Next

(* The type invariant: countdowns stay in range, and the tokens in the     *)
(* store, in requests and in lock objects are tokens.                      *)
THEOREM TypeCorrect == Spec => []TypeOK
<1>1. Typed => TypeOK
  BY DEF Typed
<1> QED
  BY <1>1, TypedInit, TypedNext, PTL DEF Spec
------------------------------------------------------------------------------
LEMMA TokensNext == Typed /\ Tokens /\ [Next]_vars => Tokens'
<1> SUFFICES ASSUME Typed, Tokens, [Next]_vars PROVE Tokens'
  OBVIOUS
<1> USE DEF Tokens, Waiting, Holding, Active
<1>0. pc \in [Client -> {"idle", "trying", "held"} \cup Waiting]
      /\ token \in [Client -> Token \cup {NoToken}]
  BY DEF Typed, TypeOK
<1>1. ASSUME NEW c \in Client, ClientStep(c) PROVE Tokens'
  <2>1. CASE Acquire(c)
    BY <1>0, <2>1 DEF Acquire
  <2>2. CASE SendSetNX(c)
    BY <1>0, <2>2 DEF SendSetNX, Typed, TokensUsed
  <2>3. CASE ServerSetNX(c)
    BY <1>0, <2>3 DEF ServerSetNX
  <2>4. CASE AcquireTimesOut(c)
    BY <1>0, <2>4 DEF AcquireTimesOut
  <2>5. CASE SendRefresh(c)
    BY <1>0, <2>5 DEF SendRefresh
  <2>6. CASE ServerRefresh(c)
    BY <1>0, <2>6 DEF ServerRefresh
  <2>7. CASE SendRelease(c)
    BY <1>0, <2>7 DEF SendRelease
  <2>8. CASE ServerRelease(c)
    BY <1>0, <2>8 DEF ServerRelease
  <2>9. CASE GiveUp(c)
    BY <1>0, <2>9, OutstandingIsRequest DEF GiveUp, Abandoned, AfterError
  <2>10. CASE ReceiveReply(c)
    BY <1>0, <2>10 DEF ReceiveReply
  <2> QED
    BY <1>1, <2>1, <2>2, <2>3, <2>4, <2>5, <2>6, <2>7, <2>8, <2>9,
       <2>10
    DEF ClientStep
<1>2. ASSUME NEW c \in Client, Crash(c) PROVE Tokens'
  BY <1>0, <1>2, OutstandingIsRequest DEF Crash, Abandoned
<1>3. ASSUME NEW m \in late, ServerLate(m) PROVE Tokens'
  BY <1>3 DEF ServerLate
<1>4. CASE ForceBreak \/ Expire \/ Tick \/ UNCHANGED vars
  BY <1>4 DEF ForceBreak, Expire, Tick, vars
<1> QED
  BY <1>1, <1>2, <1>3, <1>4 DEF Next

LEMMA LeaseBackedNext == IInv /\ [Next]_vars => LeaseBacked'
<1> SUFFICES ASSUME IInv, [Next]_vars PROVE LeaseBacked'
  OBVIOUS
<1> USE DEF IInv, LeaseBacked, Relies, Holding
<1>0. TypeOK /\ \A c \in Client : Relies(c) => token[c] \in Token
  BY DEF Typed, TypeOK, TokensUsed, Active
<1>1. ASSUME NEW c \in Client, ClientStep(c) PROVE LeaseBacked'
  <2> USE <1>0 DEF TypeOK, Waiting
  <2>1. CASE Acquire(c)
    BY <2>1 DEF Acquire
  <2>2. CASE SendSetNX(c)
    BY <2>2 DEF SendSetNX
  <2>3. CASE ServerSetNX(c)
    BY <2>3 DEF ServerSetNX, Key
  <2>4. CASE AcquireTimesOut(c)
    BY <2>4 DEF AcquireTimesOut
  <2>5. CASE SendRefresh(c)
    BY <2>5 DEF SendRefresh
  <2>6. CASE ServerRefresh(c)
    BY <2>6 DEF ServerRefresh, Key
  <2>7. CASE SendRelease(c)
    BY <2>7 DEF SendRelease
  <2>8. CASE ServerRelease(c)
    BY <2>8 DEF ServerRelease, CompareAndDelete, Tokens, Active
  <2>9. CASE GiveUp(c)
    BY <2>9 DEF GiveUp, Abandoned, AfterError
  <2>10. CASE ReceiveReply(c)
    BY <2>10 DEF ReceiveReply, ReplyBacked
  <2> QED
    BY <1>1, <2>1, <2>2, <2>3, <2>4, <2>5, <2>6, <2>7, <2>8, <2>9,
       <2>10
    DEF ClientStep
<1>2. ASSUME NEW c \in Client, Crash(c) PROVE LeaseBacked'
  BY <1>0, <1>2 DEF Crash, TypeOK, Waiting
<1>3. ASSUME NEW m \in late, ServerLate(m) PROVE LeaseBacked'
  BY <1>0, <1>3 DEF ServerLate, CompareAndDelete, Key, Tokens, Active, TypeOK
<1>4. CASE ForceBreak
  BY <1>0, <1>4 DEF ForceBreak, NoKey, TypeOK
<1>5. CASE Expire
  BY <1>0, <1>5 DEF Expire, TypeOK
<1>6. CASE Tick
  BY <1>0, <1>6 DEF Tick, Less, TypeOK
<1>7. CASE UNCHANGED vars
  BY <1>7 DEF vars
<1> QED
  BY <1>1, <1>2, <1>3, <1>4, <1>5, <1>6, <1>7 DEF Next

LEMMA ReplyBackedNext == IInv /\ [Next]_vars => ReplyBacked'
<1> SUFFICES ASSUME IInv, [Next]_vars PROVE ReplyBacked'
  OBVIOUS
<1> USE DEF IInv, ReplyBacked
<1>0. TypeOK /\ \A c \in Client : pc[c] \in Replied => token[c] \in Token
  BY DEF Typed, TypeOK, TokensUsed, Active, Waiting
<1>1. ASSUME NEW c \in Client, ClientStep(c) PROVE ReplyBacked'
  <2> USE <1>0 DEF TypeOK, Waiting
  <2>1. CASE Acquire(c)
    BY <2>1 DEF Acquire
  <2>2. CASE SendSetNX(c)
    BY <2>2 DEF SendSetNX
  <2>3. CASE ServerSetNX(c)
    BY <2>3 DEF ServerSetNX, Key
  <2>4. CASE AcquireTimesOut(c)
    BY <2>4 DEF AcquireTimesOut
  <2>5. CASE SendRefresh(c)
    BY <2>5 DEF SendRefresh
  <2>6. CASE ServerRefresh(c)
    BY <2>6 DEF ServerRefresh, Key
  <2>7. CASE SendRelease(c)
    BY <2>7 DEF SendRelease
  <2>8. CASE ServerRelease(c)
    BY <2>8 DEF ServerRelease, CompareAndDelete, Tokens, Active
  <2>9. CASE GiveUp(c)
    BY <2>9 DEF GiveUp, Abandoned, AfterError
  <2>10. CASE ReceiveReply(c)
    BY <2>10 DEF ReceiveReply
  <2> QED
    BY <1>1, <2>1, <2>2, <2>3, <2>4, <2>5, <2>6, <2>7, <2>8, <2>9,
       <2>10
    DEF ClientStep
<1>2. ASSUME NEW c \in Client, Crash(c) PROVE ReplyBacked'
  BY <1>0, <1>2 DEF Crash, TypeOK, Waiting
<1>3. ASSUME NEW m \in late, ServerLate(m) PROVE ReplyBacked'
  BY <1>0, <1>3 DEF ServerLate, CompareAndDelete, Key, Tokens, Active, TypeOK
<1>4. CASE ForceBreak
  BY <1>0, <1>4 DEF ForceBreak, NoKey, TypeOK
<1>5. CASE Expire
  BY <1>0, <1>5 DEF Expire, TypeOK
<1>6. CASE Tick
  BY <1>0, <1>6 DEF Tick, Less, TypeOK
<1>7. CASE UNCHANGED vars
  BY <1>7 DEF vars
<1> QED
  BY <1>1, <1>2, <1>3, <1>4, <1>5, <1>6, <1>7 DEF Next

LEMMA IInvAlways == Spec => []IInv
<1>1. Init => IInv
  BY TypedInit
  DEF Init, IInv, Tokens, LeaseBacked, ReplyBacked, Relies, Active, Holding,
      Waiting
<1>2. IInv /\ [Next]_vars => IInv'
  BY TypedNext, TokensNext, LeaseBackedNext, ReplyBackedNext DEF IInv
<1> QED
  BY <1>1, <1>2, PTL DEF Spec

(* A client that relies on its lock owns the key for at least as long as   *)
(* it thinks, whatever requests arrive late and whoever crashes.           *)
THEOREM LeaseBackedCorrect == Spec => []LeaseBacked
<1>1. IInv => LeaseBacked
  BY DEF IInv
<1> QED
  BY <1>1, IInvAlways, PTL

(* No two clients rely on the lock at the same time.                       *)
THEOREM ExclusiveCorrect == Spec => []Exclusive
<1>1. IInv => Exclusive
  BY DEF IInv, Exclusive, LeaseBacked, Relies, Tokens, Active
<1> QED
  BY <1>1, IInvAlways, PTL
------------------------------------------------------------------------------
(* What the refinement needs besides: a SetNX that was not executed yet is *)
(* for a token that neither the store nor a lock object has.               *)
Fresh ==
  /\ \A c \in Client : pc[c] = "acquiring" => store.token # token[c]
  /\ \A m \in late : m.op = "setnx" =>
       /\ store.token # m.token
       /\ \A c \in Client : pc[c] \in Active => token[c] # m.token
  /\ store.token \in used \cup {NoToken}

LEMMA FreshNext == Typed /\ Tokens /\ Fresh /\ [Next]_vars => Fresh'
<1> SUFFICES ASSUME Typed, Tokens, Fresh, [Next]_vars PROVE Fresh'
  OBVIOUS
<1> USE DEF Fresh, Waiting, Holding, Active
<1>0. /\ TypeOK
      /\ TokensUsed
      /\ pc \in [Client -> {"idle", "trying", "held"} \cup Waiting]
      /\ token \in [Client -> Token \cup {NoToken}]
  BY DEF Typed, TypeOK
<1>1. ASSUME NEW c \in Client, ClientStep(c) PROVE Fresh'
  <2>1. CASE Acquire(c)
    BY <1>0, <2>1 DEF Acquire
  <2>2. CASE SendSetNX(c)
    BY <1>0, <2>2 DEF SendSetNX, TokensUsed, TypeOK
  <2>3. CASE ServerSetNX(c)
    BY <1>0, <2>3 DEF ServerSetNX, Key, Tokens, TokensUsed
  <2>4. CASE AcquireTimesOut(c)
    BY <1>0, <2>4 DEF AcquireTimesOut
  <2>5. CASE SendRefresh(c)
    BY <1>0, <2>5 DEF SendRefresh
  <2>6. CASE ServerRefresh(c)
    BY <1>0, <2>6 DEF ServerRefresh, Key
  <2>7. CASE SendRelease(c)
    BY <1>0, <2>7 DEF SendRelease
  <2>8. CASE ServerRelease(c)
    BY <1>0, <2>8 DEF ServerRelease, CompareAndDelete, NoKey, TokensUsed,
                      TypeOK, Request
  <2>9. CASE GiveUp(c)
    <3>1. pc[c] \in Pending =>
            /\ Outstanding(c).op = "setnx" <=> pc[c] = "acquiring"
            /\ Outstanding(c).token = token[c]
      BY DEF Outstanding, OpAt
    <3> QED
      BY <1>0, <2>9, <3>1 DEF GiveUp, Abandoned, AfterError, Tokens
  <2>10. CASE ReceiveReply(c)
    BY <1>0, <2>10 DEF ReceiveReply
  <2> QED
    BY <1>1, <2>1, <2>2, <2>3, <2>4, <2>5, <2>6, <2>7, <2>8, <2>9,
       <2>10
    DEF ClientStep
<1>2. ASSUME NEW c \in Client, Crash(c) PROVE Fresh'
  <2>1. pc[c] \in Pending =>
          /\ Outstanding(c).op = "setnx" <=> pc[c] = "acquiring"
          /\ Outstanding(c).token = token[c]
    BY <1>0 DEF Outstanding, OpAt
  <2> QED
    BY <1>0, <1>2, <2>1 DEF Crash, Abandoned, Tokens
<1>3. ASSUME NEW m \in late, ServerLate(m) PROVE Fresh'
  BY <1>0, <1>3 DEF ServerLate, CompareAndDelete, Key, NoKey, TypeOK, Request,
                    TokensUsed
<1>4. CASE ForceBreak \/ Expire
  BY <1>0, <1>4 DEF ForceBreak, Expire, NoKey, TypeOK, TokensUsed, Request
<1>5. CASE Tick \/ UNCHANGED vars
  BY <1>0, <1>5 DEF Tick, vars
<1> QED
  BY <1>1, <1>2, <1>3, <1>4, <1>5 DEF Next

(* Those who are sure are the owner of the key, or nobody.                 *)
LEMMA SureIsOwner ==
  ASSUME IInv
  PROVE  /\ Sure \in {{}, {store.token}}
         /\ Sure # {} => store.token # NoToken /\ store.left > 0
<1>1. \A c \in Client : Relies(c) =>
        /\ token[c] = store.token
        /\ token[c] # NoToken
        /\ store.left > 0
  BY DEF IInv, LeaseBacked, Relies, Typed, TypeOK, TokensUsed, Active, Holding
<1> QED
  BY <1>1 DEF Sure

(* The step of a client that neither gains a lock nor decides a token.     *)
LEMMA QuietStep ==
  ASSUME IInv, store'.token = store.token, used \ Undecided = (used \ Undecided)',
         \A c \in Client : Relies(c)' => Relies(c) /\ token'[c] = token[c]
  PROVE  [Lease!Next]_(Lease!vars)
<1>1. Sure' \subseteq Sure
  BY DEF Sure
<1>2. Sure' = Sure \/ Sure' = {}
  BY <1>1, SureIsOwner
<1>3. CASE Sure' = {}
  <2>1. Lease!Doubt
    BY <1>3 DEF Lease!Doubt
  <2> QED
    BY <2>1 DEF Lease!Next
<1> QED
  BY <1>2, <1>3 DEF Lease!vars

(* Every step of the backend is a step of the lease lock, or none.         *)
LEMMA StepRefines ==
  ASSUME IInv, Fresh, [Next]_vars
  PROVE  [Lease!Next]_(Lease!vars)
<1> USE DEF IInv
<1>0. /\ TypeOK
      /\ TokensUsed
      /\ pc \in [Client -> {"idle", "trying", "held"} \cup Waiting]
      /\ token \in [Client -> Token \cup {NoToken}]
      /\ est \in [Client -> 0..TTL]
  BY DEF Typed, TypeOK
<1>1. ASSUME NEW c \in Client, ClientStep(c) PROVE [Lease!Next]_(Lease!vars)
  <2> USE <1>0 DEF Waiting, Relies, Holding
  <2>1. CASE Acquire(c)
    <3>1. (used \ Undecided)' = used \ Undecided
      BY <2>1 DEF Acquire, Undecided
    <3> QED
      BY <2>1, <3>1, QuietStep DEF Acquire
  <2>2. CASE SendSetNX(c)
    <3>1. (used \ Undecided)' = used \ Undecided
      BY <2>2 DEF SendSetNX, Undecided, TokensUsed, Active
    <3> QED
      BY <2>2, <3>1, QuietStep DEF SendSetNX
  <2>3. CASE ServerSetNX(c)
    <3>1. token[c] \in used /\ token[c] \in Token /\ token[c] \in Undecided
      BY <2>3 DEF ServerSetNX, Undecided, TokensUsed, TypeOK, Active
    <3>2. Undecided' = Undecided \ {token[c]}
      BY <2>3 DEF ServerSetNX, Undecided, Tokens, Fresh, Active, Request
    <3>3. (used \ Undecided)' = (used \ Undecided) \cup {token[c]}
      BY <2>3, <3>1, <3>2 DEF ServerSetNX
    <3>4. CASE store.token = NoToken
      <4>1. store'.token = token[c]
        BY <2>3, <3>4 DEF ServerSetNX, Key
      <4>2. Sure' = Sure
        BY <2>3 DEF ServerSetNX, Sure
      <4>3. Lease!Grant(token[c])
        BY <3>1, <3>3, <3>4, <4>1, <4>2 DEF Lease!Grant
      <4> QED
        BY <3>1, <4>3 DEF Lease!Next
    <3>5. CASE store.token # NoToken
      <4>1. UNCHANGED <<store, Sure>>
        BY <2>3, <3>5 DEF ServerSetNX, Sure
      <4>2. Lease!Refuse(token[c])
        BY <3>1, <3>3, <3>5, <4>1 DEF Lease!Refuse
      <4> QED
        BY <3>1, <4>2 DEF Lease!Next
    <3> QED
      BY <3>4, <3>5
  <2>4. CASE AcquireTimesOut(c)
    <3>1. (used \ Undecided)' = used \ Undecided
      BY <2>4 DEF AcquireTimesOut, Undecided
    <3> QED
      BY <2>4, <3>1, QuietStep DEF AcquireTimesOut
  <2>5. CASE SendRefresh(c)
    <3>1. (used \ Undecided)' = used \ Undecided
      BY <2>5 DEF SendRefresh, Undecided
    <3> QED
      BY <2>5, <3>1, QuietStep DEF SendRefresh
  <2>6. CASE ServerRefresh(c)
    <3>1. (used \ Undecided)' = used \ Undecided
      BY <2>6 DEF ServerRefresh, Undecided
    <3>2. store'.token = store.token
      BY <2>6 DEF ServerRefresh, Key
    <3> QED
      BY <2>6, <3>1, <3>2, QuietStep DEF ServerRefresh
  <2>7. CASE SendRelease(c)
    <3>1. (used \ Undecided)' = used \ Undecided
      BY <2>7 DEF SendRelease, Undecided
    <3> QED
      BY <2>7, <3>1, QuietStep DEF SendRelease
  <2>8. CASE ServerRelease(c)
    <3>1. (used \ Undecided)' = used \ Undecided
      BY <2>8 DEF ServerRelease, Undecided
    <3>2. CASE store.token = token[c]
      <4>1. store'.token = NoToken /\ store.token # NoToken
        BY <2>8, <3>2 DEF ServerRelease, CompareAndDelete, NoKey, TokensUsed,
                          TypeOK, Active
      <4>2. Sure = {} /\ Sure' = {}
        BY <2>8, <3>2 DEF ServerRelease, Sure, LeaseBacked, Tokens, Active
      <4>3. Lease!End
        BY <3>1, <4>1, <4>2 DEF Lease!End
      <4> QED
        BY <4>3 DEF Lease!Next
    <3>3. CASE store.token # token[c]
      BY <2>8, <3>1, <3>3, QuietStep DEF ServerRelease, CompareAndDelete
    <3> QED
      BY <3>2, <3>3
  <2>9. CASE GiveUp(c)
    <3>1. (used \ Undecided)' = used \ Undecided
      BY <2>9 DEF GiveUp, Abandoned, Undecided, AfterError, Outstanding, OpAt
    <3> QED
      BY <2>9, <3>1, QuietStep DEF GiveUp, Abandoned, AfterError
  <2>10. CASE ReceiveReply(c)
    <3>1. (used \ Undecided)' = used \ Undecided
      BY <2>10 DEF ReceiveReply, Undecided
    <3>2. CASE pend[c] > 0 /\ token[c] \notin broken
      <4>1. store.token = token[c] /\ token[c] # NoToken
        BY <2>10, <3>2 DEF ReceiveReply, ReplyBacked, TokensUsed, TypeOK, Active
      <4>2. \A d \in Client : d # c => ~Relies(d)
        BY <2>10, <4>1 DEF LeaseBacked, Tokens, Active, ReceiveReply
      <4>3. Relies(c)' /\ \A d \in Client : d # c => ~Relies(d)'
        BY <2>10, <3>2, <4>2 DEF ReceiveReply
      <4>4. Sure' = {token[c]}
        BY <2>10, <4>3 DEF ReceiveReply, Sure
      <4>5. Lease!Renew
        BY <2>10, <3>1, <4>1, <4>4 DEF ReceiveReply, Lease!Renew
      <4> QED
        BY <4>5 DEF Lease!Next
    <3>3. CASE ~(pend[c] > 0 /\ token[c] \notin broken)
      BY <2>10, <3>1, <3>3, QuietStep DEF ReceiveReply
    <3> QED
      BY <3>2, <3>3
  <2> QED
    BY <1>1, <2>1, <2>2, <2>3, <2>4, <2>5, <2>6, <2>7, <2>8, <2>9,
       <2>10
    DEF ClientStep
<1>2. ASSUME NEW c \in Client, Crash(c) PROVE [Lease!Next]_(Lease!vars)
  <2>1. (used \ Undecided)' = used \ Undecided
    BY <1>0, <1>2
    DEF Crash, Abandoned, Undecided, Outstanding, OpAt, Waiting
  <2> QED
    BY <1>0, <1>2, <2>1, QuietStep DEF Crash, Relies, Holding
<1>3. ASSUME NEW m \in late, ServerLate(m) PROVE [Lease!Next]_(Lease!vars)
  <2> USE <1>0, <1>3
  <2>0. /\ UNCHANGED <<Sure, used>>
        /\ m.token \in used /\ m.token \in Token
    BY DEF ServerLate, Sure, Relies, Holding, TokensUsed, TypeOK
  <2>1. CASE m.op = "setnx"
    <3>1. m = [op |-> "setnx", token |-> m.token] /\ m.token \in Undecided
      BY <2>0, <2>1 DEF TypeOK, Request, Undecided
    <3>2. Undecided' = Undecided \ {m.token}
      BY <2>0, <2>1, <3>1 DEF ServerLate, Undecided, Fresh, Active, Waiting
    <3>3. (used \ Undecided)' = (used \ Undecided) \cup {m.token}
      BY <2>0, <3>1, <3>2
    <3>4. Lease!Grant(m.token) \/ Lease!Refuse(m.token)
      BY <2>0, <2>1, <3>1, <3>3
      DEF ServerLate, Key, Lease!Grant, Lease!Refuse
    <3> QED
      BY <2>0, <3>4 DEF Lease!Next
  <2>2. CASE m.op # "setnx"
    <3>1. (used \ Undecided)' = used \ Undecided
      BY <2>0, <2>2 DEF ServerLate, Undecided
    <3>2. CASE store'.token = store.token
      BY <2>0, <3>1, <3>2 DEF Lease!vars
    <3>3. CASE store'.token # store.token
      <4>1. m.op = "del" /\ store.token = m.token /\ store'.token = NoToken
        BY <2>2, <3>3 DEF ServerLate, CompareAndDelete, Key, NoKey
      <4>2. Sure = {}
        BY <4>1 DEF Sure, LeaseBacked, Relies, Tokens, Active
      <4>3. Lease!End
        BY <2>0, <3>1, <3>3, <4>1, <4>2 DEF Lease!End
      <4> QED
        BY <4>3 DEF Lease!Next
    <3> QED
      BY <3>2, <3>3
  <2> QED
    BY <2>1, <2>2
<1>4. CASE ForceBreak
  <2>1. (used \ Undecided)' = used \ Undecided
    BY <1>4 DEF ForceBreak, Undecided
  <2>2. Sure' = {} /\ store'.token = NoToken
    BY <1>4 DEF ForceBreak, Sure, Relies, LeaseBacked, NoKey
  <2>3. Lease!Break
    BY <2>1, <2>2 DEF Lease!Break
  <2> QED
    BY <2>3 DEF Lease!Next
<1>5. CASE Expire
  <2>1. (used \ Undecided)' = used \ Undecided
    BY <1>5 DEF Expire, Undecided
  <2>2. Sure = {} /\ Sure' = Sure
    BY <1>5, SureIsOwner DEF Expire, Sure, Relies
  <2>3. Lease!End
    BY <1>5, <2>1, <2>2 DEF Expire, NoKey, Lease!End
  <2> QED
    BY <2>3 DEF Lease!Next
<1>6. CASE Tick
  <2>1. (used \ Undecided)' = used \ Undecided
    BY <1>6 DEF Tick, Undecided
  <2>2. \A c \in Client : Relies(c)' => Relies(c) /\ token'[c] = token[c]
    BY <1>0, <1>6 DEF Tick, Less, Relies, Holding
  <2>3. Sure' = Sure \/ Sure' = {}
    BY <2>2, SureIsOwner DEF Sure
  <2>4. store'.token = store.token
    BY <1>6 DEF Tick
  <2> QED
    BY <2>1, <2>3, <2>4 DEF Lease!Doubt, Lease!Next, Lease!vars
<1>7. CASE UNCHANGED vars
  BY <1>7 DEF vars, Lease!vars, Sure, Undecided, Relies
<1> QED
  BY <1>1, <1>2, <1>3, <1>4, <1>5, <1>6, <1>7 DEF Next

(* The Redis backend implements the lock with leases: a lease ends only    *)
(* when nobody relies on it or by ForceBreak, and no acquisition is        *)
(* granted twice.                                                          *)
THEOREM LeaseImplemented == Spec => ImplementsLease
<1>1. Init => Lease!Init /\ Fresh
  BY DEF Init, NoKey, Lease!Init, Sure, Relies, Holding, Undecided, Fresh,
         Active, Waiting
<1>2. Spec => []Fresh
  <2>1. IInv => Typed /\ Tokens
    BY DEF IInv
  <2> QED
    BY <1>1, <2>1, IInvAlways, FreshNext, PTL DEF Spec
<1>3. IInv /\ Fresh /\ [Next]_vars => [Lease!Next]_(Lease!vars)
  BY StepRefines
<1> QED
  BY <1>1, <1>2, <1>3, IInvAlways, PTL DEF Spec, ImplementsLease, Lease!Spec

(* Who relies on a lock owns it, by one acquisition.                       *)
LEMMA LeaseOwned == Lease!Spec => []Lease!Owned
<1>1. Lease!Init => Lease!Owned
  BY DEF Lease!Init, Lease!Owned
<1>2. ASSUME Lease!Owned, [Lease!Next]_(Lease!vars)
      PROVE  Lease!Owned'
  BY <1>2 DEF Lease!Owned, Lease!Next, Lease!vars, Lease!Grant, Lease!Refuse,
              Lease!Renew, Lease!Doubt, Lease!End, Lease!Break
<1> QED
  BY <1>1, <1>2, PTL DEF Lease!Spec

THEOREM OwnedCorrect == Spec => []Lease!Owned
BY LeaseImplemented, LeaseOwned, PTL DEF ImplementsLease

(* A token that was refused, or whose key expired, was deleted or broken,  *)
(* never has the key again: a SetNX that the network delivers late grants  *)
(* nothing that a client has already given up and lost.                    *)
THEOREM NeverAgainCorrect == Spec => Lease!NeverAgain
<1>1. ASSUME [Lease!Next]_(Lease!vars), NEW t \in Token,
             t \in used \ Undecided, store.token # t
      PROVE  (store.token)' # t
  BY <1>1 DEF Lease!Next, Lease!vars, Lease!Grant, Lease!Refuse,
              Lease!Renew, Lease!Doubt, Lease!End, Lease!Break
<1>2. [Lease!Next]_(Lease!vars) =>
        [\A t \in Token : t \in used \ Undecided /\ store.token # t
                          => (store.token)' # t]_(Lease!vars)
  BY <1>1
<1> QED
  BY <1>2, LeaseImplemented, PTL DEF ImplementsLease, Lease!Spec, Lease!NeverAgain
==============================================================================
