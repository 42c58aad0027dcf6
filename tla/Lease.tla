------------------------------- MODULE Lease -------------------------------
(***************************************************************************)
(* internal/lease: the Kubernetes Lease "kube-nat-<az>" of ONE availability *)
(* zone, and the goroutines that run Renew, Acquire and Release on it.     *)
(*                                                                         *)
(* Each call is a sequence of API requests (Get, then Create, Update or    *)
(* Delete); the requests of different callers interleave, any request may  *)
(* fail, and the answer of a write that was applied may be lost.           *)
(*                                                                         *)
(* Time is kept as ages.  age counts the ticks since a RenewTime, up to    *)
(* Dead == Dur + 1, where it is expired and stays so: IsExpired compares   *)
(* nothing else, so the cap loses nothing and needs no horizon.  Clocks of *)
(* the agents are taken to agree.                                          *)
(*                                                                         *)
(* resourceVersion is only compared for equality: a snapshot is "fresh"    *)
(* until some write or delete touches the Lease.                           *)
(***************************************************************************)
EXTENDS Naturals

CONSTANTS Agents,    \* holder identities (POD_NAME)
          Callers,   \* goroutines: lease loop, reconcile loop, drain, peers
          AgentOf,   \* the agent a caller belongs to
          AZs,       \* availability zones
          HomeAZ,    \* the zone each agent runs in
          AZ,        \* the zone of this Lease
          Dur,       \* LeaseDurationSeconds, in ticks
          Attempts,  \* updates one Renew tries (3 in the code)
          None       \* no holder, no label

ASSUME LeaseAssumption ==
    /\ AgentOf \in [Callers -> Agents]
    /\ HomeAZ \in [Agents -> AZs]
    /\ AZ \in AZs
    /\ Dur \in Nat
    /\ Attempts \in Nat \ {0}
    /\ None \notin Agents \cup AZs

VARIABLES lease,   \* the stored object: holder, home-az label, age
          call,    \* the call each caller is executing
          grant,   \* age of the RenewTime of each caller's last "true"
          up       \* agents whose process runs

vars == <<lease, call, grant, up>>

Dead == Dur + 1
Ages == 0..Dead
Own == {a \in Agents : HomeAZ[a] = AZ}
Me(c) == AgentOf[c]

Pcs == {"idle", "get", "create", "update", "reget", "delete"}
Ops == {"Renew", "Acquire", "Release"}

(* What the model keeps of the Lease object and of a call under way.       *)
Leases == [holder : Agents \cup {None}, home : AZs \cup {None}, age : Ages]
Calls == [pc : Pcs, op : Ops, age : Ages, fresh : BOOLEAN,
          tries : 0..Attempts, awaited : BOOLEAN]

TypeOK ==
    /\ lease \in Leases
    /\ call \in [Callers -> Calls]
    /\ grant \in [Callers -> Ages]
    /\ up \subseteq Agents

NoLease == [holder |-> None, home |-> None, age |-> Dead]
Idle == [pc |-> "idle", op |-> "Renew", age |-> 0, fresh |-> FALSE, tries |-> 0,
         awaited |-> TRUE]

Init ==
    /\ lease = NoLease
    /\ call = [c \in Callers |-> Idle]
    /\ grant = [c \in Callers |-> Dead]
    /\ up = Agents

-----------------------------------------------------------------------------
(* Helpers of the calls.                                                   *)

Absent == lease.holder = None
Mine(c) == lease.holder = Me(c)
IsExpired_Never == lease.age > Dur + 1
IsExpired == lease.age > Dur
HeldByForeignFailover(c) == HomeAZ[Me(c)] = AZ /\ lease.home \notin {None, AZ}

(* The call of c goes on as r.                                             *)
Goto(c, r) == call' = [call EXCEPT ![c] = r]
(* The call of c returns, and what it tells the caller.                    *)
Return(c) == Goto(c, Idle)
Told(c, age) == grant' = [grant EXCEPT ![c] = age]

(* A write reaches the API server: every snapshot but none is current.     *)
(* c returns, the others keep what they do with a stale snapshot.          *)
Written(c, l) ==
    /\ lease' = l
    /\ call' = [d \in Callers |-> IF d = c THEN Idle
                                  ELSE [call[d] EXCEPT !.fresh = FALSE]]

(* What a successful Create or Update leaves: the caller's identity, its   *)
(* zone as label, and the time it read when the call began.                *)
WrittenBy_NoLabel(c) == [lease EXCEPT !.holder = Me(c), !.age = call[c].age]
WrittenBy(c) == [holder |-> Me(c), home |-> HomeAZ[Me(c)], age |-> call[c].age]

(* Renew puts its time and label into the object it read, holder included. *)
RenewedBy(c) == [lease EXCEPT !.home = HomeAZ[Me(c)], !.age = call[c].age]

-----------------------------------------------------------------------------
(* The requests.                                                           *)

At(c, pc, op) == call[c].awaited /\ call[c].pc = pc /\ call[c].op = op
Begin(c, op) ==
    /\ Me(c) \in up
    /\ call[c].pc = "idle"
    /\ Goto(c, [Idle EXCEPT !.pc = "get", !.op = op])
    /\ UNCHANGED <<lease, grant, up>>

Read(c, pc) == Goto(c, [call[c] EXCEPT !.pc = pc, !.fresh = pc \in {"update", "delete"}])

RenewGet_AnyHolder(c) ==
    /\ At(c, "get", "Renew")
    /\ Read(c, IF Absent THEN "create" ELSE "update")
    /\ UNCHANGED <<lease, grant, up>>

RenewGet(c) ==
    /\ At(c, "get", "Renew")
    /\ \/ Absent /\ Read(c, "create") /\ UNCHANGED grant
       \/ ~Absent /\ ~Mine(c) /\ Return(c) /\ Told(c, Dead)
       \/ Mine(c) /\ Read(c, "update") /\ UNCHANGED grant
    /\ UNCHANGED <<lease, up>>

RenewUpdate(c) ==
    /\ At(c, "update", "Renew")
    /\ call[c].fresh
    /\ Written(c, RenewedBy(c))
    /\ Told(c, call[c].age)
    /\ UNCHANGED up

RenewConflict(c) ==
    /\ At(c, "update", "Renew")
    /\ ~call[c].fresh
    /\ Goto(c, [call[c] EXCEPT !.pc = "reget", !.tries = @ + 1])
    /\ UNCHANGED <<lease, grant, up>>

RenewReget_NoLimit(c) ==
    /\ At(c, "reget", "Renew")
    /\ \/ Mine(c) /\ Read(c, "update") /\ UNCHANGED grant
       \/ ~Mine(c) /\ Return(c) /\ Told(c, Dead)
    /\ UNCHANGED <<lease, up>>

RenewReget(c) ==
    /\ At(c, "reget", "Renew")
    /\ \/ /\ Mine(c) /\ call[c].tries < Attempts
          /\ Read(c, "update")
          /\ UNCHANGED grant
       \/ /\ ~Mine(c) \/ call[c].tries = Attempts
          /\ Return(c) /\ Told(c, Dead)
    /\ UNCHANGED <<lease, up>>

AcquireGet(c) ==
    /\ At(c, "get", "Acquire")
    /\ \/ Absent /\ Read(c, "create") /\ UNCHANGED grant
       \/ /\ ~Absent
          /\ Mine(c) \/ IsExpired \/ HeldByForeignFailover(c)
          /\ Read(c, "update")
          /\ UNCHANGED grant
       \/ /\ ~Absent /\ ~Mine(c) /\ ~IsExpired /\ ~HeldByForeignFailover(c)
          /\ Return(c) /\ Told(c, Dead)
    /\ UNCHANGED <<lease, up>>

AcquireUpdate_Blind(c) ==
    /\ At(c, "update", "Acquire")
    /\ Written(c, WrittenBy(c))
    /\ Told(c, call[c].age)
    /\ UNCHANGED up

AcquireUpdate(c) ==
    /\ At(c, "update", "Acquire")
    /\ call[c].fresh
    /\ Written(c, WrittenBy(c))
    /\ Told(c, call[c].age)
    /\ UNCHANGED up

AcquireConflict(c) ==
    /\ At(c, "update", "Acquire")
    /\ ~call[c].fresh
    /\ Return(c) /\ Told(c, Dead)
    /\ UNCHANGED <<lease, up>>

(* create, on behalf of Renew and of Acquire.                              *)
Create(c) ==
    /\ At(c, "create", call[c].op)
    /\ Absent
    /\ Written(c, WrittenBy(c))
    /\ Told(c, call[c].age)
    /\ UNCHANGED up

CreateExists(c) ==
    /\ At(c, "create", call[c].op)
    /\ ~Absent
    /\ Return(c) /\ Told(c, Dead)
    /\ UNCHANGED <<lease, up>>

ReleaseGet(c) ==
    /\ At(c, "get", "Release")
    /\ \/ Mine(c) /\ Read(c, "delete")
       \/ ~Mine(c) /\ Return(c)
    /\ UNCHANGED <<lease, grant, up>>

Deleted_NoPrecondition(c) ==
    /\ call[c].pc = "delete"
    /\ Written(c, NoLease)
    /\ grant' = [d \in Callers |-> IF Me(d) = Me(c) THEN Dead ELSE grant[d]]

(* The agent that deletes its Lease has given it up in all its goroutines. *)
Deleted(c) ==
    /\ call[c].pc = "delete" /\ call[c].fresh
    /\ Written(c, NoLease)
    /\ grant' = [d \in Callers |-> IF Me(d) = Me(c) THEN Dead ELSE grant[d]]

ReleaseDelete(c) ==
    /\ At(c, "delete", "Release")
    /\ Deleted(c)
    /\ UNCHANGED up

(* NotFound and Conflict are ignored.                                      *)
ReleaseStale(c) ==
    /\ At(c, "delete", "Release")
    /\ ~call[c].fresh
    /\ Return(c)
    /\ UNCHANGED <<lease, grant, up>>

-----------------------------------------------------------------------------
(* Faults and time.                                                        *)

Writing(c) == call[c].pc \in {"create", "update", "delete"}

(* What c learns from an error: Renew and Acquire return false, and Release*)
(* returns nothing its caller acts on.                                     *)
ToldError(c) == Told(c, IF call[c].op = "Release" THEN grant[c] ELSE Dead)

(* A request fails and nothing was written: the call returns the error.    *)
Fail(c) ==
    /\ call[c].pc # "idle"
    /\ Return(c)
    /\ ToldError(c)
    /\ UNCHANGED <<lease, up>>

(* A write is applied, but its caller sees an error or waits no more.      *)
LoseAnswer(c) ==
    /\ \/ /\ call[c].pc = "create" /\ Absent
          /\ Written(c, WrittenBy(c))
          /\ Told(c, Dead)
       \/ /\ call[c].pc = "update" /\ call[c].fresh
          /\ Written(c, IF call[c].op = "Renew" THEN RenewedBy(c) ELSE WrittenBy(c))
          /\ Told(c, Dead)
       \/ Deleted(c)
    /\ UNCHANGED up

(* The context of the call ends (shutdown, the 3 s of a release) while its *)
(* write is on the way.                                                    *)
Abandon(c) ==
    /\ Writing(c) /\ call[c].awaited
    /\ Goto(c, [call[c] EXCEPT !.awaited = FALSE])
    /\ ToldError(c)
    /\ UNCHANGED <<lease, up>>

(* The process of a dies; writes already sent may still be applied.        *)
Crash(a) ==
    /\ a \in up
    /\ up' = up \ {a}
    /\ call' = [c \in Callers |->
                   IF Me(c) # a THEN call[c]
                   ELSE IF Writing(c) THEN [call[c] EXCEPT !.awaited = FALSE]
                   ELSE Idle]
    /\ grant' = [c \in Callers |-> IF Me(c) = a THEN Dead ELSE grant[c]]
    /\ UNCHANGED lease

(* The container restarts in the same pod, under the same POD_NAME.        *)
Restart(a) ==
    /\ a \notin up
    /\ up' = up \cup {a}
    /\ UNCHANGED <<lease, call, grant>>

Older(age) == IF age < Dead THEN age + 1 ELSE Dead

(* Once everything has expired nothing changes any more.                   *)
Tick ==
    /\ lease' = [lease EXCEPT !.age = Older(@)]
    /\ call' = [c \in Callers |-> IF call[c].pc = "idle" \/ call[c].op = "Release"
                                  THEN call[c]
                                  ELSE [call[c] EXCEPT !.age = Older(@)]]
    /\ grant' = [c \in Callers |-> Older(grant[c])]
    /\ UNCHANGED up

-----------------------------------------------------------------------------
Renew(c) == RenewGet(c) \/ RenewUpdate(c) \/ RenewConflict(c) \/ RenewReget(c)
Acquire(c) == AcquireGet(c) \/ AcquireUpdate(c) \/ AcquireConflict(c)
Release(c) == ReleaseGet(c) \/ ReleaseDelete(c) \/ ReleaseStale(c)

Next ==
    \/ \E c \in Callers :
          \/ \E op \in Ops : Begin(c, op)
          \/ Renew(c) \/ Acquire(c) \/ Create(c) \/ CreateExists(c) \/ Release(c)
          \/ Fail(c) \/ LoseAnswer(c) \/ Abandon(c)
    \/ \E a \in Agents : Crash(a) \/ Restart(a)
    \/ Tick

Spec == Init /\ [][Next]_vars

(* Every loop of an agent keeps ticking for as long as the agent runs, so  *)
(* it calls Acquire again and again, each request is answered or fails,    *)
(* and one that is sent again and again does not fail for ever.            *)
Fairness ==
    \A c \in Callers :
       /\ SF_vars(Begin(c, "Acquire"))
       /\ SF_vars(AcquireGet(c)) /\ SF_vars(AcquireUpdate(c)) /\ SF_vars(Create(c))
       /\ WF_vars(Renew(c) \/ Acquire(c) \/ CreateExists(c) \/ Release(c))
       /\ WF_vars(~call[c].awaited /\ (Fail(c) \/ LoseAnswer(c)))

FairSpec == Spec /\ Fairness /\ WF_vars(Tick)

-----------------------------------------------------------------------------
(* Properties.                                                             *)

(* A Lease goes from one holder to another only when the old one let it    *)
(* expire, or was a stand-in from another zone and an agent of this zone   *)
(* takes over (Acquire, lease.go:128-137).  A renewal never does it, and   *)
(* neither does a write decided on an out-of-date reading.                 *)
NeverStolen ==
    [][lease.holder # None /\ lease'.holder \notin {None, lease.holder}
         => \/ IsExpired
            \/ lease.holder \notin Own /\ lease'.holder \in Own]_vars

(* The Lease disappears only while a goroutine of its holder has a Release *)
(* under way (the precondition of the Delete, lease.go:156-160).           *)
OnlyHolderReleases ==
    [][lease.holder # None /\ lease'.holder = None
         => \E c \in Callers : Mine(c) /\ call[c].op = "Release" /\ call[c].pc = "delete"]_vars

(* What a call concluded from its reading stays true until its write, as   *)
(* long as the reading is current: the check of lease.go:60, 123-133 or 153*)
(* and the compare-and-set that follows act as one step.                   *)
ReadingHolds(c, r) ==
    /\ r.pc \in {"get", "update"} => r.tries < Attempts
    /\ r.pc = "update" => r.op \in {"Renew", "Acquire"}
    /\ r.pc = "delete" => r.op = "Release"
    /\ r.fresh =>
         /\ r.pc \in {"update", "delete"}
         /\ \/ Mine(c)
            \/ /\ r.op = "Acquire" /\ ~Absent
               /\ IsExpired \/ HeldByForeignFailover(c)

(* The label says where the holder runs (setHomeAZ on every write).        *)
LabelOfHolder == lease.home = IF Absent THEN None ELSE HomeAZ[lease.holder]

(* Together: what the decisions of Renew, Acquire and Release rest on.     *)
SnapshotSound == LabelOfHolder /\ \A c \in Callers : ReadingHolds(c, call[c])

(* The inductive invariant.                                                *)
IInv == TypeOK /\ SnapshotSound

(* An agent of the zone that was told it holds the Lease, by an answer     *)
(* whose RenewTime has not expired, is the holder: no two agents of a zone *)
(* both believe in a live Lease (lease.go:38-40, agent.go:245-247).        *)
GrantIsHeld ==
    \A c \in Callers : Me(c) \in Own /\ grant[c] <= Dur => Mine(c)

(* When the holder is gone for good, and some agent stays up, the Lease    *)
(* does not stay with it: ListExpiredAZs and Acquire find it expired.      *)
DeadHolderReplaced ==
    (\E b \in Agents : <>[](b \in up)) =>
       \A a \in Agents :
          (lease.holder = a /\ a \notin up) ~> (lease.holder # a \/ a \in up)

(* Seen from outside, the calls behave as the one-step lock of LeaseLock.  *)
Lock == INSTANCE LeaseLock WITH
           holder <- lease.holder,
           live <- lease.holder # None /\ ~IsExpired,
           sure <- {c \in Callers : grant[c] <= Dur}

(* Refinement: every step of every call is a Take, a Deny, a Free, the     *)
(* passing of time, or hidden.                                             *)
ImplementsLock == Lock!LockSpec
=============================================================================
