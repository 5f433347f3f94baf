------------------------------ MODULE LeaseLock ------------------------------
(***************************************************************************)
(* What a lock with leases promises to the callers of                      *)
(* resilience.LockManager, whatever the backend.  A token identifies one   *)
(* successful acquisition.  `sure' holds the tokens whose owner is         *)
(* entitled to act on the lock: it was granted, its owner has not given it *)
(* up, its time has not run out by the owner's own reckoning, and nobody   *)
(* forcefully broke it.                                                    *)
(***************************************************************************)
CONSTANTS Token,    \* identities of acquisitions
          NoToken   \* "nobody"

VARIABLES holder,   \* the acquisition that owns the resource, or NoToken
          sure,     \* the acquisitions whose owner may act on the resource
          spent     \* the acquisitions decided, granted or refused

vars == <<holder, sure, spent>>

Init == /\ holder = NoToken
        /\ sure = {}
        /\ spent = {}

(* A free resource is given to an acquisition that was never decided; its  *)
(* owner is still to learn of it.                                          *)
Grant(t) == /\ holder = NoToken
            /\ t \notin spent
            /\ holder' = t
            /\ spent' = spent \cup {t}
            /\ UNCHANGED sure

(* A refused acquisition is decided for good.                              *)
Refuse(t) == /\ holder # NoToken
             /\ t \notin spent
             /\ spent' = spent \cup {t}
             /\ UNCHANGED <<holder, sure>>

(* The owner of the current lease learns that it has it, or extended it.   *)
Renew == /\ holder # NoToken
         /\ sure' = {holder}
         /\ UNCHANGED <<holder, spent>>

(* An owner stops relying on the lease: it ran out or was given up.        *)
Doubt == /\ sure' = {}
         /\ UNCHANGED <<holder, spent>>

(* The lease ends only when nobody relies on it ...                        *)
End == /\ holder # NoToken
       /\ sure = {}
       /\ holder' = NoToken
       /\ UNCHANGED <<sure, spent>>

(* ... or because somebody breaks it, which ends all reliance on it.       *)
Break == /\ holder' = NoToken
         /\ sure' = {}
         /\ UNCHANGED spent

Next == \/ \E t \in Token : Grant(t) \/ Refuse(t)
        \/ Renew \/ Doubt \/ End \/ Break

Spec == Init /\ [][Next]_vars
------------------------------------------------------------------------------
(* Who may act on the resource owns it, by an acquisition that was decided. *)
Owned == /\ sure \subseteq {holder} \ {NoToken}
         /\ holder \in spent \cup {NoToken}

(* An acquisition that was refused, or has lost the lock, never owns it.   *)
NeverAgain == [][\A t \in Token : t \in spent /\ holder # t => holder' # t]_vars
==============================================================================
