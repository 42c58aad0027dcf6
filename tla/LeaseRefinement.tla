-------------------------- MODULE LeaseRefinement --------------------------
(***************************************************************************)
(* Lease implements LeaseLock, for any agents, zones, goroutines and       *)
(* durations: each request of a call is one step of the lock, or none.     *)
(***************************************************************************)
EXTENDS LeaseProofs

-----------------------------------------------------------------------------
(* What a step does to the Lease and to what the callers were told.        *)

Quiet == UNCHANGED <<lease, grant>>
Denied(c) == lease' = lease /\ Told(c, Dead)
Killed(a) ==
    /\ lease' = lease
    /\ grant' = [c \in Callers |-> IF Me(c) = a THEN Dead ELSE grant[c]]
Aged == Expires /\ grant' = [c \in Callers |-> Older(grant[c])]
Taken(c) ==
    /\ IsWritten(c) \/ IsRenewed(c)
    /\ Told(c, lease'.age) \/ Told(c, Dead)
Freed(c) ==
    /\ IsDeleted(c)
    /\ grant' = [d \in Callers |-> IF Me(d) = Me(c) THEN Dead ELSE grant[d]]

(* A write stores the time the call read at its start.                     *)
LEMMA WritesAge ==
    ASSUME IInv, NEW c \in Callers
    PROVE  WrittenBy(c).age = call[c].age /\ RenewedBy(c).age = call[c].age
<1>1. lease \in Leases
  BY DEF IInv, TypeOK
<1> QED
  BY <1>1 DEF WrittenBy, RenewedBy, Leases

(* A request changes the Lease and the caller's belief in one of three     *)
(* ways,                                                                   *)
LEMMA CallStep ==
    ASSUME IInv, NEW c \in Callers,
           Renew(c) \/ Acquire(c) \/ Create(c) \/ CreateExists(c) \/ Release(c)
    PROVE  Quiet \/ Denied(c) \/ Taken(c) \/ Freed(c)
<1>0. ReadingHolds(c, call[c]) /\ call[c].age \in Ages
  BY RecordTypes DEF IInv, SnapshotSound
<1>a. WrittenBy(c).age = call[c].age /\ RenewedBy(c).age = call[c].age
  BY WritesAge
<1>1. CASE Renew(c)
  BY <1>0, <1>a, <1>1 DEF Renew, RenewGet, RenewUpdate, RenewConflict, RenewReget, At, Quiet,
                    Denied, Written, ReadingHolds, Taken, IsRenewed
<1>2. CASE Acquire(c)
  BY <1>0, <1>a, <1>2, AllowedWrite DEF Acquire, AcquireGet, AcquireUpdate, AcquireConflict, At,
                                  Quiet, Denied, Written, Taken, IsWritten
<1>3. CASE Create(c) \/ CreateExists(c)
  BY <1>0, <1>a, <1>3 DEF Create, CreateExists, Denied, Written, Taken, IsWritten
<1>4. CASE Release(c)
  BY <1>0, <1>4 DEF Release, ReleaseGet, ReleaseDelete, ReleaseStale, Deleted, Written,
                    ReadingHolds, Quiet, Freed, IsDeleted
<1> QED
  BY <1>1, <1>2, <1>3, <1>4

(* and so does one that fails, whether or not it was applied.              *)
LEMMA FaultStep ==
    ASSUME IInv, NEW c \in Callers, Fail(c) \/ LoseAnswer(c) \/ Abandon(c)
    PROVE  Quiet \/ Denied(c) \/ Taken(c) \/ Freed(c)
<1>0. /\ ReadingHolds(c, call[c]) /\ Dead \in Ages
      /\ grant \in [Callers -> Ages]
  BY AgesType DEF IInv, SnapshotSound, TypeOK
<1>1. CASE Fail(c) \/ Abandon(c)
  BY <1>0, <1>1 DEF Fail, Abandon, ToldError, Told, Quiet, Denied
<1>2. CASE LoseAnswer(c)
  <2>1. CASE call[c].pc = "create" /\ Absent /\ Written(c, WrittenBy(c)) /\ Told(c, Dead)
    BY <1>0, <2>1 DEF Written, Taken, IsWritten
  <2>2. CASE /\ call[c].pc = "update" /\ call[c].fresh /\ Told(c, Dead)
             /\ call[c].op = "Renew" /\ Written(c, RenewedBy(c))
    BY <1>0, <2>2 DEF Written, Taken, IsRenewed, ReadingHolds
  <2>3. CASE /\ call[c].pc = "update" /\ call[c].fresh /\ Told(c, Dead)
             /\ call[c].op # "Renew" /\ Written(c, WrittenBy(c))
    BY <1>0, <2>3, AllowedWrite DEF Written, Taken, IsWritten
  <2>4. CASE Deleted(c)
    BY <1>0, <2>4 DEF Deleted, Written, ReadingHolds, Freed, IsDeleted
  <2> QED
    BY <1>2, <2>1, <2>2, <2>3, <2>4 DEF LoseAnswer
<1> QED
  BY <1>1, <1>2

(* Every step of the system has one of these shapes.                       *)
LEMMA Shape ==
    ASSUME IInv, [Next]_vars
    PROVE  \/ Quiet \/ Aged
           \/ \E a \in Agents : Killed(a)
           \/ \E c \in Callers : Denied(c) \/ Taken(c) \/ Freed(c)
<1>1. ASSUME NEW c \in Callers, NEW op \in Ops, Begin(c, op) PROVE Quiet
  BY <1>1 DEF Begin, Quiet
<1>2. ASSUME NEW a \in Agents, Crash(a) PROVE Killed(a)
  BY <1>2 DEF Crash, Killed
<1>3. ASSUME NEW a \in Agents, Restart(a) PROVE Quiet
  BY <1>3 DEF Restart, Quiet
<1>4. Tick => Aged
  BY DEF Tick, Aged, Expires
<1>5. UNCHANGED vars => Quiet
  BY DEF vars, Quiet
<1> QED
  BY <1>1, <1>2, <1>3, <1>4, <1>5, CallStep, FaultStep DEF Next

-----------------------------------------------------------------------------
(* Each shape is a step of the lock.                                       *)

live == lease.holder # None /\ ~IsExpired
sure == {c \in Callers : grant[c] <= Dur}

(* What an answer does to the callers that are sure of the Lease.          *)
LEMMA ToldSure ==
    ASSUME TypeOK, NEW c \in Callers, NEW age \in Ages, Told(c, age)
    PROVE  /\ sure' = IF age <= Dur THEN sure \cup {c} ELSE sure \ {c}
  BY DEF TypeOK, Told, sure

(* Nobody becomes sure by growing older.                                   *)
LEMMA OlderIsOlder == \A age \in Ages : Older(age) <= Dur => age <= Dur
  BY LeaseAssumption DEF Ages, Older, Dead

(* Every step is a step of the lock or a stutter.                          *)
LEMMA LockStep == IInv /\ [Next]_vars => [Lock!LockNext]_(Lock!lockVars)
<1> SUFFICES ASSUME IInv, [Next]_vars PROVE [Lock!LockNext]_(Lock!lockVars)
  OBVIOUS
<1> USE LeaseAssumption
<1>0. /\ TypeOK /\ lease \in Leases /\ grant \in [Callers -> Ages]
      /\ ~(Dead <= Dur) /\ Dead \in Ages
  BY AgesType DEF IInv, TypeOK, Dead
<1>1. CASE Quiet
  BY <1>1 DEF Quiet, Lock!lockVars, IsExpired
<1>2. ASSUME NEW c \in Callers, Denied(c) PROVE Lock!Deny(c)
  <2>1. sure' = sure \ {c} /\ lease' = lease
    BY <1>0, <1>2, ToldSure DEF Denied
  <2> QED
    BY <2>1 DEF Lock!Deny, sure, IsExpired
<1>3. ASSUME NEW a \in Agents, Killed(a) PROVE Lock!TimePasses
  <2>1. sure' \subseteq sure /\ lease' = lease
    BY <1>0, <1>3 DEF Killed, sure
  <2> QED
    BY <2>1 DEF Lock!TimePasses, sure, IsExpired
<1>4. CASE Aged
  <2>1. sure' \subseteq sure
    BY <1>0, <1>4, OlderIsOlder DEF Aged, sure
  <2>2. lease'.holder = lease.holder /\ lease'.age = Older(lease.age) /\ lease.age \in Ages
    BY <1>0, <1>4 DEF Aged, Expires, Leases
  <2>3. IsExpired => IsExpired'
    <3>1. \A age \in Ages : age > Dur => Older(age) > Dur
      BY DEF Ages, Older, Dead
    <3> QED
      BY <2>2, <3>1 DEF IsExpired
  <2>4. live' \in {live, FALSE}
    BY <2>2, <2>3 DEF live
  <2> QED
    BY <2>1, <2>2, <2>4 DEF Lock!LockNext, Lock!TimePasses, sure, live
<1>5. ASSUME NEW c \in Callers, Taken(c) PROVE Lock!Take(c)
  <2>0. lease'.age \in Ages
    BY TypeStep DEF TypeOK, Leases
  <2>1. PICK age \in Ages : Told(c, age)
    BY <1>0, <1>5, <2>0 DEF Taken
  <2>2. sure' \in {sure, sure \cup {c}, sure \ {c}}
    BY <1>0, <2>1, ToldSure
  <2>3. lease'.holder = Me(c)
    BY <1>0, <1>5, WritesLabel DEF Taken, IsWritten, IsRenewed, Mine
  <2>4. \/ lease.holder \in {None, Me(c)} \/ ~live
        \/ Me(c) \in Own /\ lease.holder \notin Own
    BY <1>5 DEF Taken, IsWritten, IsRenewed, Absent, Mine, live
  <2>5. live' \in BOOLEAN
    BY DEF live
  <2> QED
    BY <2>2, <2>3, <2>4, <2>5 DEF Lock!Take, Lock!CanTake, sure, live, Me
<1>6. ASSUME NEW c \in Callers, Freed(c) PROVE Lock!Free(Me(c)) /\ Me(c) \in Agents
  <2>1. lease.holder = Me(c) /\ lease'.holder = None /\ Me(c) \in Agents
    BY <1>0, <1>6 DEF Freed, IsDeleted, Mine, NoLease, Me
  <2>2. ~live'
    BY <2>1 DEF live
  <2>3. sure' = sure \ Lock!CallersOf(Me(c))
    BY <1>0, <1>6 DEF Freed, sure, Lock!CallersOf, Me
  <2> QED
    BY <2>1, <2>2, <2>3 DEF Lock!Free, sure, live
<1> QED
  BY <1>1, <1>2, <1>3, <1>4, <1>5, <1>6, Shape DEF Lock!LockNext

(* The calls of internal/lease, request by request and with every fault,   *)
(* behave as the lock of LeaseLock.                                        *)
THEOREM LeaseIsLock == Spec => ImplementsLock
<1>1. Init => Lock!LockInit
  <2> SUFFICES ASSUME Init PROVE Lock!LockInit
    OBVIOUS
  <2>1. lease.holder = None /\ \A c \in Callers : ~(grant[c] <= Dur)
    BY LeaseAssumption DEF Init, NoLease, Dead
  <2> QED
    BY <2>1 DEF Lock!LockInit
<1> QED
  BY <1>1, LockStep, InductiveInvariant, PTL DEF Spec, ImplementsLock, Lock!LockSpec

=============================================================================
