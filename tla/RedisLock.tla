------------------------------ MODULE RedisLock ------------------------------
(***************************************************************************)
(* The Redis backend of resilience.LockManager                             *)
(* (internal/resilience/lock_manager.go), for one resource: clients that   *)
(* acquire, refresh and release, the server's key, requests that are given *)
(* up and that the server may still execute later, replies that take their *)
(* time or never come, crashes, and operators that force-break the lock.   *)
(*                                                                         *)
(* Times are countdowns.  `store.left' is what Redis keeps for the key;    *)
(* `deadline' is what is left of the AcquireTimeout context; `est' is a    *)
(* history variable: how long the holder may still rely on the lock by its *)
(* own clock, counted from the moment it SENT the request that the server  *)
(* accepted (redisLock.acquiredAt is read before SetNX).  A holder         *)
(* refreshes with the ttl it acquired the lock with.                       *)
(***************************************************************************)
EXTENDS Naturals

CONSTANTS Client,         \* processes that use the lock
          Token,          \* payload tokens, "owner:UnixNano"
          NoToken,        \* no key in the store
          TTL,            \* lease length, in ticks
          AcquireTimeout  \* LockConfig.AcquireTimeout, in ticks

ASSUME TokenAssumption == NoToken \notin Token
ASSUME TimeAssumption == TTL \in Nat \ {0} /\ AcquireTimeout \in Nat

VARIABLES store,     \* the key: its token and the ticks it has left
          late,      \* requests given up by their sender, perhaps not lost
          pc,        \* where each client is
          token,     \* token of the client's request or lock
          pend,      \* ticks left of TTL since the client's last request
          est,       \* ticks the client may still rely on its lock
          deadline,  \* ticks left of the client's acquire context
          used,      \* tokens generated so far
          broken     \* tokens whose key a ForceBreak deleted

vars == <<store, late, pc, token, pend, est, deadline, used, broken>>

Request == [op : {"setnx", "del", "pexpire"}, token : Token]

NoKey == [token |-> NoToken, left |-> 0]
Key(t) == [token |-> t, left |-> TTL]

(* Where a client holds a lock object it has not released.                 *)
Holding == {"held", "refreshing", "extended"}
(* Where its request is on its way to the server, and which it is, and     *)
(* where the server did what it asked and the reply is on its way.         *)
Pending == {"acquiring", "refreshing", "releasing"}
Waiting == Pending \cup {"granted", "extended"}
OpAt == [acquiring |-> "setnx", refreshing |-> "pexpire", releasing |-> "del"]
AfterError == [acquiring |-> "trying", granted |-> "trying",
               refreshing |-> "held", extended |-> "held",
               releasing |-> "idle"]
Outstanding(c) == [op |-> OpAt[pc[c]], token |-> token[c]]
Abandoned(c) == IF pc[c] \in Pending THEN late \cup {Outstanding(c)} ELSE late

TypeOK == /\ store \in [token : Token \cup {NoToken}, left : 0..TTL]
          /\ late \subseteq Request
          /\ pc \in [Client -> {"idle", "trying", "held"} \cup Waiting]
          /\ token \in [Client -> Token \cup {NoToken}]
          /\ pend \in [Client -> 0..TTL]
          /\ est \in [Client -> 0..TTL]
          /\ deadline \in [Client -> 0..AcquireTimeout]
          /\ used \subseteq Token
          /\ broken \subseteq Token

Init == /\ store = NoKey
        /\ late = {}
        /\ pc = [c \in Client |-> "idle"]
        /\ token = [c \in Client |-> NoToken]
        /\ pend = [c \in Client |-> 0]
        /\ est = [c \in Client |-> 0]
        /\ deadline = [c \in Client |-> 0]
        /\ used = {}
        /\ broken = {}
------------------------------------------------------------------------------
(* AcquireWithMetadata starts its context and tries at once.               *)
Acquire(c) ==
  /\ pc[c] = "idle"
  /\ pc' = [pc EXCEPT ![c] = "trying"]
  /\ deadline' = [deadline EXCEPT ![c] = AcquireTimeout]
  /\ UNCHANGED <<store, late, token, pend, est, used, broken>>

(* redisLockBackend.acquire: a payload with a fresh token goes out as      *)
(* SetNX with the ttl.                                                     *)
SendSetNX(c) ==
  /\ pc[c] = "trying"
  /\ \E t \in Token \ used :
       /\ token' = [token EXCEPT ![c] = t]
       /\ used' = used \cup {t}
  /\ pc' = [pc EXCEPT ![c] = "acquiring"]
  /\ pend' = [pend EXCEPT ![c] = TTL]
  /\ UNCHANGED <<store, late, est, deadline, broken>>

(* NX: only if there is no key.  The mutant is SET without NX.             *)
VacantAlways == TRUE
Vacant == store.token = NoToken

(* SetNX stores the payload if there is no key; otherwise the attempt      *)
(* fails and the loop waits for its ticker.                                *)
ServerSetNX(c) ==
  /\ pc[c] = "acquiring"
  /\ \/ /\ Vacant
        /\ store' = Key(token[c])
        /\ pc' = [pc EXCEPT ![c] = "granted"]
     \/ /\ ~Vacant
        /\ pc' = [pc EXCEPT ![c] = "trying"]
        /\ UNCHANGED store
  /\ UNCHANGED <<late, token, pend, est, deadline, used, broken>>

(* A lease counts from when its request was sent: acquiredAt is read before *)
(* SetNX goes out.  The mutant reads it when the reply is there.           *)
LeaseFromReply(c) == TTL
LeaseFromRequest(c) == pend[c]

(* The reply arrives: the client has its lock, or has extended it.         *)
ReceiveReply(c) ==
  /\ pc[c] \in {"granted", "extended"}
  /\ pc' = [pc EXCEPT ![c] = "held"]
  /\ est' = [est EXCEPT ![c] = LeaseFromRequest(c)]
  /\ UNCHANGED <<store, late, token, pend, deadline, used, broken>>

(* The acquire context is done between two attempts.                       *)
AcquireTimesOut(c) ==
  /\ pc[c] = "trying"
  /\ deadline[c] = 0
  /\ pc' = [pc EXCEPT ![c] = "idle"]
  /\ UNCHANGED <<store, late, token, pend, est, deadline, used, broken>>

(* Refresh sends the compare-and-expire script.                            *)
SendRefresh(c) ==
  /\ pc[c] = "held"
  /\ pc' = [pc EXCEPT ![c] = "refreshing"]
  /\ pend' = [pend EXCEPT ![c] = TTL]
  /\ UNCHANGED <<store, late, token, est, deadline, used, broken>>

(* compareAndExpireScript: the ttl is renewed only if the value is still   *)
(* the caller's; otherwise Refresh returns an error.  The caller keeps its *)
(* lock object either way.                                                 *)
ServerRefresh(c) ==
  /\ pc[c] = "refreshing"
  /\ \/ /\ store.token = token[c]
        /\ store' = Key(token[c])
        /\ pc' = [pc EXCEPT ![c] = "extended"]
     \/ /\ store.token # token[c]
        /\ pc' = [pc EXCEPT ![c] = "held"]
        /\ UNCHANGED store
  /\ UNCHANGED <<late, token, pend, est, deadline, used, broken>>

(* Release sends the compare-and-delete script; the caller is done with    *)
(* the lock whatever comes back.                                           *)
SendRelease(c) ==
  /\ pc[c] = "held"
  /\ pc' = [pc EXCEPT ![c] = "releasing"]
  /\ est' = [est EXCEPT ![c] = 0]
  /\ UNCHANGED <<store, late, token, pend, deadline, used, broken>>

(* compareAndDeleteScript.  The mutant is a plain DEL.                     *)
DeleteUnchecked(t) == store' = NoKey
CompareAndDelete(t) == store' = IF store.token = t THEN NoKey ELSE store

ServerRelease(c) ==
  /\ pc[c] = "releasing"
  /\ CompareAndDelete(token[c])
  /\ pc' = [pc EXCEPT ![c] = "idle"]
  /\ UNCHANGED <<late, token, pend, est, deadline, used, broken>>

(* The request fails for the client (network error, context done): acquire *)
(* goes back to its loop, Refresh and Release return the error.  What the  *)
(* server did is done; what it did not do it may still do at a later time. *)
GiveUp(c) ==
  /\ pc[c] \in Waiting
  /\ late' = Abandoned(c)
  /\ pc' = [pc EXCEPT ![c] = AfterError[@]]
  /\ UNCHANGED <<store, token, pend, est, deadline, used, broken>>

(* The server executes a request nobody waits for any more.                *)
ServerLate(m) ==
  /\ m \in late
  /\ late' = late \ {m}
  /\ \/ /\ m.op = "setnx"
        /\ store' = IF Vacant THEN Key(m.token) ELSE store
     \/ /\ m.op = "pexpire"
        /\ store' = IF store.token = m.token THEN Key(m.token) ELSE store
     \/ /\ m.op = "del"
        /\ CompareAndDelete(m.token)
  /\ UNCHANGED <<pc, token, pend, est, deadline, used, broken>>

(* ForceBreak deletes the key, whoever owns it.                            *)
ForceBreak ==
  /\ store.token # NoToken
  /\ store' = NoKey
  /\ broken' = broken \cup {store.token}
  /\ UNCHANGED <<late, pc, token, pend, est, deadline, used>>

(* A process dies; what it sent may still arrive.  Its successor starts    *)
(* with nothing.                                                           *)
Crash(c) ==
  /\ pc[c] # "idle"
  /\ pc' = [pc EXCEPT ![c] = "idle"]
  /\ est' = [est EXCEPT ![c] = 0]
  /\ late' = Abandoned(c)
  /\ UNCHANGED <<store, token, pend, deadline, used, broken>>

(* Redis drops a key whose ttl ran out.                                    *)
Expire ==
  /\ store.token # NoToken
  /\ store.left = 0
  /\ store' = NoKey
  /\ UNCHANGED <<late, pc, token, pend, est, deadline, used, broken>>

(* A clock that goes on below zero, and one that stops there.              *)
LessUnclamped(n) == n - 1
Less(n) == IF n = 0 THEN 0 ELSE n - 1

(* The key's own clock.  The mutant stores the key without a ttl.          *)
NoTTL(n) == n
KeyTTL(n) == Less(n)

Tick ==
  /\ store.token # NoToken => store.left > 0
  /\ store' = [token |-> store.token, left |-> KeyTTL(store.left)]
  /\ pend' = [c \in Client |-> Less(pend[c])]
  /\ est' = [c \in Client |-> Less(est[c])]
  /\ deadline' = [c \in Client |-> Less(deadline[c])]
  /\ UNCHANGED <<late, pc, token, used, broken>>

ClientStep(c) == \/ Acquire(c) \/ SendSetNX(c) \/ ServerSetNX(c)
                 \/ ReceiveReply(c) \/ AcquireTimesOut(c)
                 \/ SendRefresh(c) \/ ServerRefresh(c)
                 \/ SendRelease(c) \/ ServerRelease(c) \/ GiveUp(c)

Next == \/ \E c \in Client : ClientStep(c) \/ Crash(c)
        \/ \E m \in late : ServerLate(m)
        \/ ForceBreak \/ Expire \/ Tick

Spec == Init /\ [][Next]_vars

(* Time passes and the server expires keys.  Nobody has to refresh,         *)
(* release, break, or finish what he began.                                *)
Fairness == WF_vars(Tick) /\ WF_vars(Expire)

FairSpec == Spec /\ Fairness
------------------------------------------------------------------------------
(* The clients whose lock is good by everything they can know.             *)
Relies(c) == pc[c] \in Holding /\ est[c] > 0 /\ token[c] \notin broken

(* A client that acquired or refreshed its lock less than a ttl ago, by    *)
(* its own clock, still owns the key, for at least as long as it thinks:   *)
(* nothing but a ForceBreak takes it away, no late request of anybody and  *)
(* no other client's release or refresh.                                   *)
LeaseBacked ==
  \A c \in Client : Relies(c) => /\ store.token = token[c]
                                 /\ store.left >= est[c]

(* Two clients never rely on the lock at the same time.                    *)
Exclusive == \A c, d \in Client : Relies(c) /\ Relies(d) => c = d

(* The lease lock the backend implements: the key's token has the lease,   *)
(* the clients that rely on their lock are sure of it, and a token is      *)
(* decided once its SetNX has been executed.                               *)
Sure == {token[c] : c \in {d \in Client : Relies(d)}}
Undecided == {t \in used : [op |-> "setnx", token |-> t] \in late
                \/ \E c \in Client : pc[c] = "acquiring" /\ token[c] = t}

Lease == INSTANCE LeaseLock WITH
           holder <- store.token, sure <- Sure, spent <- used \ Undecided

(* Every behaviour of the backend is one the lease lock allows: a lease    *)
(* ends only when its owner no longer relies on it or by ForceBreak, and   *)
(* no token is granted twice, however late a SetNX arrives.                *)
ImplementsLease == Lease!Spec

(* A key whose client is gone, gave up, or never heard of its success does *)
(* not lock the resource out: it disappears.                               *)
Orphan(t) == /\ store.token = t
             /\ \A c \in Client :
                  token[c] = t => pc[c] \notin Holding \cup {"granted"}
OrphanLapses ==
  \A t \in Token : Orphan(t) ~> store.token # t
==============================================================================
