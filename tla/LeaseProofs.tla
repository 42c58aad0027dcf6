---------------------------- MODULE LeaseProofs ----------------------------
(***************************************************************************)
(* Theorems about Lease, for any agents, zones, goroutines and durations.  *)
(***************************************************************************)
EXTENDS Lease, TLAPS

-----------------------------------------------------------------------------
(* What the helpers return.                                                *)

(* Ages stay between 0 and Dead.                                           *)
LEMMA AgesType ==
    /\ Dead \in Ages /\ 0 \in Ages
    /\ \A age \in Ages : Older(age) \in Ages
  BY LeaseAssumption DEF Ages, Dead, Older

(* Calls and Leases that the actions build are well typed.                 *)
LEMMA RecordTypes ==
    ASSUME TypeOK, NEW c \in Callers
    PROVE  /\ Me(c) \in Agents
           /\ NoLease \in Leases
           /\ Idle \in Calls
           /\ WrittenBy(c) \in Leases
           /\ RenewedBy(c) \in Leases
           /\ \A pc \in Pcs : [call[c] EXCEPT !.pc = pc, !.fresh = pc \in {"update", "delete"}] \in Calls
           /\ \A op \in Ops : [Idle EXCEPT !.pc = "get", !.op = op] \in Calls
           /\ [call[c] EXCEPT !.awaited = FALSE] \in Calls
           /\ [call[c] EXCEPT !.fresh = FALSE] \in Calls
           /\ call[c].tries < Attempts =>
                [call[c] EXCEPT !.pc = "reget", !.tries = @ + 1] \in Calls
           /\ call[c].age \in Ages
           /\ call[c].op \in Ops
<1> USE LeaseAssumption, AgesType DEF TypeOK, Leases, Calls
<1>1. Me(c) \in Agents /\ HomeAZ[Me(c)] \in AZs
  BY DEF Me
<1>2. NoLease \in Leases /\ WrittenBy(c) \in Leases
  BY <1>1 DEF NoLease, WrittenBy
<1>3. RenewedBy(c) \in Leases
  BY <1>1 DEF RenewedBy
<1>4. Idle \in Calls
  BY DEF Idle, Pcs, Ops
<1>5. ASSUME NEW pc \in Pcs
      PROVE  [call[c] EXCEPT !.pc = pc, !.fresh = pc \in {"update", "delete"}] \in Calls
  <2>1. (pc \in {"update", "delete"}) \in BOOLEAN
    OBVIOUS
  <2> DEFINE f == pc \in {"update", "delete"}
  <2>2. f \in BOOLEAN
    OBVIOUS
  <2> HIDE DEF f
  <2>3. [call[c] EXCEPT !.pc = pc, !.fresh = f] \in Calls
    BY <2>2, <1>5
  <2> QED
    BY <2>3 DEF f
<1>6. ASSUME NEW op \in Ops PROVE [Idle EXCEPT !.pc = "get", !.op = op] \in Calls
  BY <1>4, <1>6 DEF Pcs
<1>7. [call[c] EXCEPT !.awaited = FALSE] \in Calls /\ [call[c] EXCEPT !.fresh = FALSE] \in Calls
  OBVIOUS
<1>8. ASSUME call[c].tries < Attempts
      PROVE  [call[c] EXCEPT !.pc = "reget", !.tries = @ + 1] \in Calls
  <2> DEFINE n == call[c].tries + 1
  <2>1. n \in 0..Attempts
    BY <1>8
  <2>2. "reget" \in Pcs
    BY DEF Pcs
  <2> HIDE DEF n
  <2>3. [call[c] EXCEPT !.pc = "reget", !.tries = n] \in Calls
    BY <2>1, <2>2
  <2> QED
    BY <2>3 DEF n
<1> QED
  BY <1>1, <1>2, <1>3, <1>4, <1>5, <1>6, <1>7, <1>8

(* What the helper actions do to the types of the variables.               *)
LEMMA HelperTypes ==
    ASSUME TypeOK, NEW c \in Callers
    PROVE  /\ \A r \in Calls : Goto(c, r) => call' \in [Callers -> Calls]
           /\ Return(c) => call' \in [Callers -> Calls]
           /\ \A pc \in Pcs : Read(c, pc) => call' \in [Callers -> Calls]
           /\ \A age \in Ages : Told(c, age) => grant' \in [Callers -> Ages]
           /\ \A l \in Leases : Written(c, l) =>
                /\ lease' \in Leases
                /\ call' \in [Callers -> Calls]
           /\ Deleted(c) =>
                /\ lease' \in Leases
                /\ call' \in [Callers -> Calls]
                /\ grant' \in [Callers -> Ages]
<1> USE DEF TypeOK
<1>1. ASSUME NEW r \in Calls, Goto(c, r) PROVE call' \in [Callers -> Calls]
  BY <1>1 DEF Goto
<1>2. Return(c) => call' \in [Callers -> Calls]
  BY <1>1, RecordTypes DEF Return
<1>3. ASSUME NEW pc \in Pcs, Read(c, pc) PROVE call' \in [Callers -> Calls]
  BY <1>1, <1>3, RecordTypes DEF Read
<1>4. ASSUME NEW age \in Ages, Told(c, age) PROVE grant' \in [Callers -> Ages]
  BY <1>4 DEF Told
<1>5. ASSUME NEW l \in Leases, Written(c, l)
      PROVE  lease' \in Leases /\ call' \in [Callers -> Calls]
  BY <1>5, RecordTypes DEF Written
<1>6. ASSUME Deleted(c)
      PROVE  /\ lease' \in Leases
             /\ call' \in [Callers -> Calls]
             /\ grant' \in [Callers -> Ages]
  BY <1>5, <1>6, RecordTypes, AgesType DEF Deleted
<1> QED
  BY <1>1, <1>2, <1>3, <1>4, <1>5, <1>6

-----------------------------------------------------------------------------
(* Whatever a step does to the Lease and the calls, each variable keeps    *)
(* its type: Renew, Acquire and Release with faults, crashes and time.     *)
LEMMA TypeStep == IInv /\ [Next]_vars => TypeOK'
<1> SUFFICES ASSUME TypeOK, SnapshotSound, [Next]_vars PROVE TypeOK'
  BY DEF IInv
<1> USE AgesType, RecordTypes, HelperTypes DEF TypeOK
<1>1. ASSUME NEW c \in Callers, NEW op \in Ops, Begin(c, op) PROVE TypeOK'
  BY <1>1 DEF Begin
<1>2. ASSUME NEW c \in Callers, Renew(c) PROVE TypeOK'
  <2>1. CASE RenewGet(c)
    BY <2>1 DEF RenewGet, Pcs
  <2>2. CASE RenewUpdate(c)
    BY <2>2 DEF RenewUpdate
  <2>3. CASE RenewConflict(c)
    <3>1. call[c].tries < Attempts
      BY <2>3 DEF RenewConflict, At, SnapshotSound, ReadingHolds
    <3> QED
      BY <2>3, <3>1 DEF RenewConflict
  <2>4. CASE RenewReget(c)
    BY <2>4 DEF RenewReget, Pcs
  <2> QED
    BY <1>2, <2>1, <2>2, <2>3, <2>4 DEF Renew
<1>3. ASSUME NEW c \in Callers, Acquire(c) PROVE TypeOK'
  <2>1. CASE AcquireGet(c)
    BY <2>1 DEF AcquireGet, Pcs
  <2>2. CASE AcquireUpdate(c)
    BY <2>2 DEF AcquireUpdate
  <2>3. CASE AcquireConflict(c)
    BY <2>3 DEF AcquireConflict
  <2> QED
    BY <1>3, <2>1, <2>2, <2>3 DEF Acquire
<1>4. ASSUME NEW c \in Callers, Create(c) \/ CreateExists(c) PROVE TypeOK'
  BY <1>4 DEF Create, CreateExists
<1>5. ASSUME NEW c \in Callers, Release(c) PROVE TypeOK'
  BY <1>5 DEF Release, ReleaseGet, ReleaseDelete, ReleaseStale, Pcs
<1>6. ASSUME NEW c \in Callers, Fail(c) PROVE TypeOK'
  BY <1>6 DEF Fail, ToldError
<1>7. ASSUME NEW c \in Callers, LoseAnswer(c) PROVE TypeOK'
  BY <1>7 DEF LoseAnswer
<1>8. ASSUME NEW c \in Callers, Abandon(c) PROVE TypeOK'
  BY <1>8 DEF Abandon, ToldError
<1>9. ASSUME NEW a \in Agents, Crash(a) \/ Restart(a) PROVE TypeOK'
  BY <1>9 DEF Crash, Restart
<1>10. CASE Tick
  <2>1. lease' \in Leases
    BY <1>10 DEF Tick, Leases
  <2>2. ASSUME NEW c \in Callers PROVE [call[c] EXCEPT !.age = Older(@)] \in Calls
    BY DEF Calls
  <2> QED
    BY <1>10, <2>1, <2>2 DEF Tick
<1>11. CASE UNCHANGED vars
  BY <1>11 DEF vars
<1> QED
  BY <1>1, <1>2, <1>3, <1>4, <1>5, <1>6, <1>7, <1>8, <1>9, <1>10, <1>11 DEF Next

-----------------------------------------------------------------------------
(* The readings of the calls.                                              *)

(* A write leaves no fresh reading behind.                                 *)
LEMMA WrittenSound ==
    ASSUME IInv, NEW c \in Callers, NEW l \in Leases, Written(c, l),
           l.home = IF l.holder = None THEN None ELSE HomeAZ[l.holder]
    PROVE  SnapshotSound'
<1>1. lease' = l
  BY DEF Written
<1>2. LabelOfHolder'
  BY <1>1 DEF LabelOfHolder, Absent
<1>3. ASSUME NEW d \in Callers PROVE ReadingHolds(d, call[d])'
  <2>1. call[d] \in Calls /\ ReadingHolds(d, call[d])
    BY DEF IInv, TypeOK, SnapshotSound
  <2>2. CASE d = c
    <3>1. call'[d] = Idle
      BY <2>2 DEF Written
    <3> QED
      BY <3>1 DEF Idle, ReadingHolds
  <2>3. CASE d # c
    <3>1. call'[d] = [call[d] EXCEPT !.fresh = FALSE]
      BY <2>3 DEF Written
    <3>2. /\ call'[d].fresh = FALSE /\ call'[d].pc = call[d].pc
          /\ call'[d].op = call[d].op /\ call'[d].tries = call[d].tries
      BY <2>1, <3>1 DEF Calls
    <3> QED
      BY <2>1, <3>2 DEF ReadingHolds
  <2> QED
    BY <2>2, <2>3
<1> QED
  BY <1>2, <1>3 DEF SnapshotSound

(* A call that goes on alone keeps the others' readings as they are.       *)
LEMMA GotoSound ==
    ASSUME IInv, NEW c \in Callers, NEW r \in Calls, Goto(c, r), ReadingHolds(c, r),
           UNCHANGED lease
    PROVE  SnapshotSound'
<1>1. LabelOfHolder'
  BY DEF IInv, SnapshotSound, LabelOfHolder, Absent
<1>2. ASSUME NEW d \in Callers PROVE ReadingHolds(d, call[d])'
  <2>1. ReadingHolds(d, call'[d])
    BY DEF IInv, TypeOK, SnapshotSound, Goto
  <2> QED
    BY <2>1 DEF ReadingHolds, Mine, Absent, IsExpired, HeldByForeignFailover
<1> QED
  BY <1>1, <1>2 DEF SnapshotSound

(* A call that returns keeps no reading.                                   *)
LEMMA ReturnSound ==
    ASSUME IInv, NEW c \in Callers, Return(c), UNCHANGED lease
    PROVE  SnapshotSound'
<1>1. Idle \in Calls /\ ReadingHolds(c, Idle)
  <2>1. Idle \in Calls
    BY RecordTypes DEF IInv
  <2>2. ReadingHolds(c, Idle)
    BY DEF ReadingHolds, Idle
  <2> QED
    BY <2>1, <2>2
<1> QED
  BY <1>1, GotoSound DEF Return

(* Create, Update and Renew leave the label of the holder's zone.          *)
LEMMA WritesLabel ==
    ASSUME IInv, NEW c \in Callers
    PROVE  /\ WrittenBy(c).home = HomeAZ[WrittenBy(c).holder]
           /\ WrittenBy(c).holder = Me(c)
           /\ WrittenBy(c).holder # None
           /\ RenewedBy(c).holder = lease.holder
           /\ RenewedBy(c).home = HomeAZ[Me(c)]
           /\ NoLease.home = None /\ NoLease.holder = None
<1>1. Me(c) \in Agents /\ Me(c) # None
  BY RecordTypes, LeaseAssumption DEF IInv
<1>2. lease \in Leases
  BY DEF IInv, TypeOK
<1> QED
  BY <1>1, <1>2 DEF WrittenBy, RenewedBy, NoLease, Leases

(* A call that has read the Lease and goes on to pc.                       *)
LEMMA ReadSound ==
    ASSUME IInv, NEW c \in Callers, NEW pc \in {"create", "update", "delete"}, Read(c, pc),
           pc = "update" =>
             /\ call[c].tries < Attempts
             /\ \/ call[c].op = "Renew" /\ Mine(c)
                \/ /\ call[c].op = "Acquire" /\ ~Absent
                   /\ Mine(c) \/ IsExpired \/ HeldByForeignFailover(c),
           pc = "delete" => call[c].op = "Release" /\ Mine(c),
           UNCHANGED lease
    PROVE  SnapshotSound'
<1> DEFINE f == pc \in {"update", "delete"}
           r == [call[c] EXCEPT !.pc = pc, !.fresh = f]
<1>1. call[c] \in Calls /\ r \in Calls
  BY RecordTypes DEF IInv, TypeOK, Pcs
<1>2. r.pc = pc /\ r.fresh = f /\ r.op = call[c].op /\ r.tries = call[c].tries
  BY <1>1 DEF Calls
<1>3. ReadingHolds(c, r)
  BY <1>2 DEF ReadingHolds
<1> HIDE DEF r
<1> QED
  BY <1>1, <1>3, GotoSound DEF Read, r

(* Every step keeps what the readings say.                                 *)
LEMMA SnapshotStep == IInv /\ [Next]_vars => SnapshotSound'
<1> SUFFICES ASSUME IInv, [Next]_vars PROVE SnapshotSound'
  OBVIOUS
<1>0. ASSUME NEW c \in Callers PROVE call[c] \in Calls /\ ReadingHolds(c, call[c])
  BY DEF IInv, TypeOK, SnapshotSound
<1> USE RecordTypes DEF IInv
<1>1. ASSUME NEW c \in Callers, NEW op \in Ops, Begin(c, op) PROVE SnapshotSound'
  <2> DEFINE r == [Idle EXCEPT !.pc = "get", !.op = op]
  <2>1. r \in Calls
    OBVIOUS
  <2>2. r.pc = "get" /\ r.fresh = FALSE /\ r.tries = 0
    BY DEF Idle
  <2> HIDE DEF r
  <2>3. ReadingHolds(c, r)
    BY ONLY <2>2, LeaseAssumption DEF ReadingHolds
  <2> USE DEF r
  <2> QED
    BY <1>1, <2>1, <2>3, GotoSound DEF Begin
<1>2. ASSUME NEW c \in Callers, Renew(c) PROVE SnapshotSound'
  <2>1. CASE RenewGet(c)
    BY <2>1, <1>0, ReadSound, ReturnSound DEF RenewGet, At, ReadingHolds
  <2>2. CASE RenewUpdate(c)
    <3>1. Mine(c)
      BY <2>2, <1>0 DEF RenewUpdate, At, ReadingHolds
    <3> QED
      BY <2>2, <3>1, WrittenSound, WritesLabel, LeaseAssumption DEF RenewUpdate, Mine
  <2>3. CASE RenewConflict(c)
    <3> DEFINE r == [call[c] EXCEPT !.pc = "reget", !.tries = @ + 1]
    <3>1. r \in Calls
      BY <2>3, <1>0 DEF RenewConflict, At, ReadingHolds
    <3>2. r.pc = "reget" /\ r.fresh = FALSE
      BY <2>3, <1>0 DEF RenewConflict, At, Calls
    <3>3. ReadingHolds(c, r)
      BY <3>2 DEF ReadingHolds
    <3> QED
      BY <2>3, <3>1, <3>3, GotoSound DEF RenewConflict
  <2>4. CASE RenewReget(c)
    BY <2>4, ReadSound, ReturnSound DEF RenewReget, At
  <2> QED
    BY <1>2, <2>1, <2>2, <2>3, <2>4 DEF Renew
<1>3. ASSUME NEW c \in Callers, Acquire(c) PROVE SnapshotSound'
  <2>1. CASE AcquireGet(c)
    BY <2>1, <1>0, ReadSound, ReturnSound DEF AcquireGet, At, ReadingHolds
  <2>2. CASE AcquireUpdate(c)
    BY <2>2, WrittenSound, WritesLabel DEF AcquireUpdate
  <2>3. CASE AcquireConflict(c)
    BY <2>3, ReturnSound DEF AcquireConflict
  <2> QED
    BY <1>3, <2>1, <2>2, <2>3 DEF Acquire
<1>4. ASSUME NEW c \in Callers, Create(c) \/ CreateExists(c) PROVE SnapshotSound'
  BY <1>4, WrittenSound, WritesLabel, ReturnSound DEF Create, CreateExists
<1>5. ASSUME NEW c \in Callers, Release(c) PROVE SnapshotSound'
  <2>1. CASE ReleaseGet(c)
    BY <2>1, ReadSound, ReturnSound DEF ReleaseGet, At
  <2>2. CASE ReleaseDelete(c)
    BY <2>2, WrittenSound, WritesLabel DEF ReleaseDelete, Deleted
  <2>3. CASE ReleaseStale(c)
    BY <2>3, ReturnSound DEF ReleaseStale
  <2> QED
    BY <1>5, <2>1, <2>2, <2>3 DEF Release
<1>6. ASSUME NEW c \in Callers, Fail(c) PROVE SnapshotSound'
  BY <1>6, ReturnSound DEF Fail
<1>7. ASSUME NEW c \in Callers, LoseAnswer(c) PROVE SnapshotSound'
  <2>1. CASE call[c].pc = "update" /\ call[c].fresh /\ call[c].op = "Renew"
                /\ Written(c, RenewedBy(c))
    <3>1. Mine(c)
      BY <2>1, <1>0 DEF ReadingHolds
    <3> QED
      BY <2>1, <3>1, WrittenSound, WritesLabel, LeaseAssumption DEF Mine
  <2>2. CASE Written(c, WrittenBy(c))
    BY <2>2, WrittenSound, WritesLabel
  <2>3. CASE Deleted(c)
    BY <2>3, WrittenSound, WritesLabel DEF Deleted
  <2> QED
    BY <1>7, <2>1, <2>2, <2>3 DEF LoseAnswer
<1>8. ASSUME NEW c \in Callers, Abandon(c) PROVE SnapshotSound'
  <2> DEFINE r == [call[c] EXCEPT !.awaited = FALSE]
  <2>1. r \in Calls
    OBVIOUS
  <2>2. r.pc = call[c].pc /\ r.fresh = call[c].fresh /\ r.op = call[c].op /\ r.tries = call[c].tries
    BY <1>0 DEF Calls
  <2>3. ReadingHolds(c, r)
    BY <1>0, <2>2 DEF ReadingHolds
  <2> QED
    BY <1>8, <2>1, <2>3, GotoSound DEF Abandon
<1>9. ASSUME UNCHANGED lease,
             \A c \in Callers : call'[c] \in {call[c], Idle, [call[c] EXCEPT !.awaited = FALSE]}
      PROVE  SnapshotSound'
  <2>1. LabelOfHolder'
    BY <1>9 DEF SnapshotSound, LabelOfHolder, Absent
  <2>2. ASSUME NEW c \in Callers PROVE ReadingHolds(c, call[c])'
    <3>1. \/ call'[c] = Idle
          \/ /\ call'[c].pc = call[c].pc /\ call'[c].fresh = call[c].fresh
             /\ call'[c].op = call[c].op /\ call'[c].tries = call[c].tries
      <4>1. call[c] \in Calls
        BY <1>0
      <4>2. call'[c] \in {call[c], Idle, [call[c] EXCEPT !.awaited = FALSE]}
        BY <1>9
      <4> QED
        BY ONLY <4>1, <4>2 DEF Calls
    <3>2. ReadingHolds(c, Idle)
      BY ONLY TRUE DEF ReadingHolds, Idle
    <3>3. ReadingHolds(c, call'[c])
      BY ONLY <3>1, <3>2, <1>0 DEF ReadingHolds
    <3> QED
      BY ONLY <3>3, <1>9 DEF ReadingHolds, Mine, Absent, IsExpired, HeldByForeignFailover
  <2> QED
    BY <2>1, <2>2 DEF SnapshotSound
<1>10. ASSUME NEW a \in Agents, Crash(a) \/ Restart(a) PROVE SnapshotSound'
  BY <1>9, <1>10 DEF Crash, Restart
<1>11. CASE Tick
  <2>1. /\ lease'.holder = lease.holder /\ lease'.home = lease.home
        /\ lease.age > Dur => lease'.age > Dur
    <3>1. lease \in Leases /\ lease' = [lease EXCEPT !.age = Older(@)]
      BY <1>11 DEF Tick, TypeOK
    <3>2. lease.age > Dur => Older(lease.age) > Dur
      <4>1. lease.age \in Ages
        BY <3>1 DEF Leases
      <4> QED
        BY ONLY <4>1, LeaseAssumption DEF Older, Ages, Dead
    <3> QED
      BY <3>1, <3>2 DEF Leases
  <2>2. LabelOfHolder'
    BY <2>1 DEF SnapshotSound, LabelOfHolder, Absent
  <2>3. ASSUME NEW c \in Callers PROVE ReadingHolds(c, call[c])'
    <3>1. /\ call'[c].pc = call[c].pc /\ call'[c].fresh = call[c].fresh
          /\ call'[c].op = call[c].op /\ call'[c].tries = call[c].tries
      BY <1>11, <1>0 DEF Tick, Calls
    <3> QED
      BY <1>0, <2>1, <3>1 DEF ReadingHolds, Mine, Absent, IsExpired, HeldByForeignFailover
  <2> QED
    BY <2>2, <2>3 DEF SnapshotSound
<1>12. CASE UNCHANGED vars
  BY <1>9, <1>12 DEF vars
<1> QED
  BY <1>1, <1>2, <1>3, <1>4, <1>5, <1>6, <1>7, <1>8, <1>10, <1>11, <1>12 DEF Next

(* The invariant holds in every reachable state.                           *)
LEMMA InductiveInvariant == Spec => []IInv
<1>1. Init => TypeOK
  BY AgesType, LeaseAssumption DEF Init, TypeOK, NoLease, Idle, Leases, Calls, Pcs, Ops
<1>2. Init => SnapshotSound
  BY LeaseAssumption DEF Init, SnapshotSound, LabelOfHolder, ReadingHolds, NoLease, Idle, Absent
<1>3. IInv /\ [Next]_vars => IInv'
  BY TypeStep, SnapshotStep DEF IInv
<1> QED
  BY <1>1, <1>2, <1>3, PTL DEF Spec, IInv

-----------------------------------------------------------------------------
(* Every reachable state is well typed.                                    *)
THEOREM TypeCorrect == Spec => []TypeOK
  BY InductiveInvariant, PTL DEF IInv

(* What Renew, Acquire and Release conclude from their reading holds until *)
(* they write, as long as the resourceVersion they read is current.        *)
THEOREM ReadingsHold == Spec => []SnapshotSound
  BY InductiveInvariant, PTL DEF IInv

-----------------------------------------------------------------------------
(* What can happen to the Lease in one step.                               *)

Expires == lease' = [lease EXCEPT !.age = Older(@)]
IsWritten(c) ==
    /\ lease' = WrittenBy(c)
    /\ \/ Absent \/ Mine(c) \/ IsExpired
       \/ Me(c) \in Own /\ lease.holder \notin Own
IsRenewed(c) == Mine(c) /\ lease' = RenewedBy(c)
IsDeleted(c) ==
    /\ Mine(c) /\ call[c].op = "Release" /\ call[c].pc = "delete"
    /\ lease' = NoLease

(* A write of Acquire or Create is allowed when it reaches the server.     *)
LEMMA AllowedWrite ==
    ASSUME IInv, NEW c \in Callers, call[c].pc = "update", call[c].fresh, call[c].op # "Renew"
    PROVE  \/ Absent \/ Mine(c) \/ IsExpired
           \/ Me(c) \in Own /\ lease.holder \notin Own
<1>1. ReadingHolds(c, call[c]) /\ LabelOfHolder /\ Me(c) \in Agents
  BY RecordTypes DEF IInv, SnapshotSound
<1>2. CASE HeldByForeignFailover(c) /\ ~Absent
  BY <1>1, <1>2 DEF HeldByForeignFailover, LabelOfHolder, Own
<1> QED
  BY <1>1, <1>2 DEF ReadingHolds

(* What a step may do to the Lease: write it for a caller entitled to it,  *)
(* renew it for its holder, delete it for its holder, or let it age.       *)
LEMMA LeaseStep ==
    ASSUME IInv, [Next]_vars
    PROVE  \/ UNCHANGED lease
           \/ Expires
           \/ \E c \in Callers : IsWritten(c) \/ IsRenewed(c) \/ IsDeleted(c)
<1>0. ASSUME NEW c \in Callers PROVE ReadingHolds(c, call[c])
  BY DEF IInv, SnapshotSound
<1>1. ASSUME NEW c \in Callers, NEW op \in Ops, Begin(c, op) PROVE UNCHANGED lease
  BY <1>1 DEF Begin
<1>2. ASSUME NEW c \in Callers, Renew(c) PROVE UNCHANGED lease \/ IsRenewed(c)
  BY <1>0, <1>2 DEF Renew, RenewGet, RenewUpdate, RenewConflict, RenewReget, At,
                    Written, ReadingHolds, IsRenewed
<1>3. ASSUME NEW c \in Callers, Acquire(c) PROVE UNCHANGED lease \/ IsWritten(c)
  BY <1>3, AllowedWrite DEF Acquire, AcquireGet, AcquireUpdate, AcquireConflict, At,
                            Written, IsWritten
<1>4. ASSUME NEW c \in Callers, Create(c) \/ CreateExists(c)
      PROVE  UNCHANGED lease \/ IsWritten(c)
  BY <1>4 DEF Create, CreateExists, Written, IsWritten
<1>5. ASSUME NEW c \in Callers, Deleted(c) PROVE IsDeleted(c)
  BY <1>0, <1>5 DEF Deleted, Written, ReadingHolds, IsDeleted
<1>6. ASSUME NEW c \in Callers, Release(c) PROVE UNCHANGED lease \/ IsDeleted(c)
  BY <1>5, <1>6 DEF Release, ReleaseGet, ReleaseDelete, ReleaseStale
<1>7. ASSUME NEW c \in Callers, Fail(c) \/ Abandon(c) PROVE UNCHANGED lease
  BY <1>7 DEF Fail, Abandon
<1>8. ASSUME NEW c \in Callers, LoseAnswer(c)
      PROVE  IsWritten(c) \/ IsRenewed(c) \/ IsDeleted(c)
  <2>1. CASE call[c].pc = "create" /\ Absent /\ Written(c, WrittenBy(c))
    BY <2>1 DEF Written, IsWritten
  <2>2. CASE /\ call[c].pc = "update" /\ call[c].fresh
             /\ call[c].op = "Renew" /\ Written(c, RenewedBy(c))
    BY <1>0, <2>2 DEF Written, IsRenewed, ReadingHolds
  <2>3. CASE /\ call[c].pc = "update" /\ call[c].fresh
             /\ call[c].op # "Renew" /\ Written(c, WrittenBy(c))
    BY <2>3, AllowedWrite DEF Written, IsWritten
  <2> QED
    BY <1>5, <1>8, <2>1, <2>2, <2>3 DEF LoseAnswer
<1>9. ASSUME NEW a \in Agents, Crash(a) \/ Restart(a) PROVE UNCHANGED lease
  BY <1>9 DEF Crash, Restart
<1>10. Tick => Expires
  BY DEF Tick, Expires
<1>11. UNCHANGED vars => UNCHANGED lease
  BY DEF vars
<1> QED
  BY <1>1, <1>2, <1>3, <1>4, <1>6, <1>7, <1>8, <1>9, <1>10, <1>11 DEF Next

(* No step takes a live Lease away from its holder, except an agent of the *)
(* zone from a stand-in (Acquire), whatever the interleaving of requests.  *)
THEOREM HolderKeepsLease == Spec => NeverStolen
<1>1. ASSUME IInv, [Next]_vars,
             lease.holder # None, lease'.holder \notin {None, lease.holder}
      PROVE  IsExpired \/ (lease.holder \notin Own /\ lease'.holder \in Own)
  <2>1. lease \in Leases
    BY <1>1 DEF IInv, TypeOK
  <2>2. ~Expires
    BY <1>1, <2>1 DEF Expires, Leases
  <2>3. ASSUME NEW c \in Callers, IsRenewed(c) \/ IsDeleted(c) PROVE FALSE
    BY <1>1, <2>3, WritesLabel DEF IsRenewed, IsDeleted
  <2>4. PICK c \in Callers : IsWritten(c)
    BY <1>1, <2>2, <2>3, LeaseStep
  <2>5. lease'.holder = Me(c)
    BY <1>1, <2>4, WritesLabel DEF IsWritten
  <2> QED
    BY <1>1, <2>4, <2>5 DEF IsWritten, Absent, Mine
<1>2. IInv /\ [Next]_vars =>
        [lease.holder # None /\ lease'.holder \notin {None, lease.holder}
           => \/ IsExpired
              \/ lease.holder \notin Own /\ lease'.holder \in Own]_vars
  BY <1>1
<1> QED
  BY <1>2, InductiveInvariant, PTL DEF Spec, NeverStolen

(* The Lease is deleted only by a Release of its own holder.               *)
THEOREM OnlyHolderDeletes == Spec => OnlyHolderReleases
<1>1. ASSUME IInv, [Next]_vars, lease.holder # None, lease'.holder = None
      PROVE  \E c \in Callers : Mine(c) /\ call[c].op = "Release" /\ call[c].pc = "delete"
  <2>1. lease \in Leases
    BY <1>1 DEF IInv, TypeOK
  <2>2. ~Expires
    BY <1>1, <2>1 DEF Expires, Leases
  <2>3. ASSUME NEW c \in Callers, IsRenewed(c) \/ IsWritten(c) PROVE FALSE
    BY <1>1, <2>3, WritesLabel DEF IsRenewed, IsWritten
  <2>4. PICK c \in Callers : IsDeleted(c)
    BY <1>1, <2>2, <2>3, LeaseStep
  <2> QED
    BY <2>4 DEF IsDeleted
<1>2. IInv /\ [Next]_vars =>
        [lease.holder # None /\ lease'.holder = None
           => \E c \in Callers : Mine(c) /\ call[c].op = "Release" /\ call[c].pc = "delete"]_vars
  BY <1>1
<1> QED
  BY <1>2, InductiveInvariant, PTL DEF Spec, OnlyHolderReleases
=============================================================================
