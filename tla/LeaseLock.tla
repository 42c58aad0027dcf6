----------------------------- MODULE LeaseLock -----------------------------
(***************************************************************************)
(* What the Lease of one availability zone promises to the agents that use *)
(* it, with every API call of internal/lease hidden: a lock with one       *)
(* holder, taken in one step, that is lost by expiry, by release, or to an *)
(* agent of the zone itself when the holder is a stand-in from another     *)
(* zone.  Lease.tla implements it; Failover.tla uses it as its lock.       *)
(***************************************************************************)

CONSTANTS Agents,   \* holder identities: the POD_NAME of each agent
          Callers,  \* the goroutines that call the lease manager
          AgentOf,  \* the agent each caller belongs to
          Own,      \* the agents that run in the zone of this Lease
          None      \* no holder: the Lease object does not exist

VARIABLES holder,  \* who the Lease names, or None
          live,    \* the Lease has not expired
          sure     \* callers told "held" by an answer that has not expired

lockVars == <<holder, live, sure>>

CallersOf(a) == {c \in Callers : AgentOf[c] = a}

LockTypeOK ==
    /\ holder \in Agents \cup {None}
    /\ live \in BOOLEAN
    /\ sure \subseteq Callers

LockInit == holder = None /\ live = FALSE /\ sure = {}

(* The only way to become the holder: the Lease is free, already one's own,*)
(* expired, or held by a stand-in while one runs in the zone itself.       *)
CanTake(a) ==
    \/ holder \in {None, a}
    \/ ~live
    \/ a \in Own /\ holder \notin Own

(* Taking and renewing are one abstract step.  The answer may get lost, and*)
(* a caller so slow that the time it writes is already past leaves an      *)
(* expired Lease: hence the free choice of live and of its own answer.     *)
Take(c) ==
    /\ CanTake(AgentOf[c])
    /\ holder' = AgentOf[c]
    /\ live' \in BOOLEAN
    /\ sure' \in {sure, sure \cup {c}, sure \ {c}}

Deny(c) ==
    /\ sure' = sure \ {c}
    /\ UNCHANGED <<holder, live>>

Free(a) ==
    /\ holder = a
    /\ holder' = None
    /\ live' = FALSE
    /\ sure' \in {sure, sure \ CallersOf(a)}

TimePasses ==
    /\ live' \in {live, FALSE}
    /\ sure' \subseteq sure
    /\ UNCHANGED holder

LockNext ==
    \/ \E c \in Callers : Take(c) \/ Deny(c)
    \/ \E a \in Agents : Free(a)
    \/ TimePasses

LockSpec == LockInit /\ [][LockNext]_lockVars
=============================================================================
