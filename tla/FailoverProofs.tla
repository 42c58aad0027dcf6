--------------------------- MODULE FailoverProofs ---------------------------
(***************************************************************************)
(* Theorems about Failover, for any agents of the zone and stand-ins, any  *)
(* route tables and any number of crashes, drains, exits and failed calls. *)
(***************************************************************************)
EXTENDS Failover, TLAPS

-----------------------------------------------------------------------------
(* What a step does to the Lease.                                          *)

Takes(a) == CanAcquire(a) /\ TakeLease(a)
Frees(a) == holder = a /\ FreeLease /\ (a \in draining \/ status[a] # "up")
Expires == holder' = holder /\ live' = FALSE
LockTurn == UNCHANGED lock \/ \E a \in Agents : Takes(a) \/ Frees(a)
LockMove == LockTurn \/ Expires

(* The loops of an agent of the zone only take the Lease.                  *)
LEMMA OwnMove ==
    ASSUME NEW a \in Own, NEW l \in Loops, ServeOwn(a, l) \/ OwnFaults(a, l)
    PROVE  LockTurn
<1>1. a \in Agents
  BY FailoverAssumption
<1>2. CASE OwnTick(a, l) \/ NotHeld(a, l) \/ ClaimFault(a, l)
  BY <1>2 DEF OwnTick, NotHeld, ClaimFault, LockTurn
<1>3. CASE Held(a, l) \/ EnsureFault(a, l)
  BY <1>1, <1>3 DEF Held, EnsureFault, LockTurn, Takes
<1>4. CASE DiscoverOwn(a, l) \/ ClaimOwn(a, l) \/ ConfirmOwn(a, l)
  BY <1>4 DEF DiscoverOwn, ClaimOwn, ConfirmOwn, LockTurn
<1> QED
  BY <1>2, <1>3, <1>4 DEF ServeOwn, OwnFaults

(* So does a stand-in: sweep, report, takeover, renewal and their          *)
(* failures.                                                               *)
LEMMA StandInMove ==
    ASSUME NEW a \in Foreign, NEW l \in Loops,
           StandIn(a) \/ Takeover(a, l) \/ StandInFaults(a, l)
    PROVE  LockTurn
<1>1. a \in Agents
  BY DEF Foreign
<1>2. CASE StandInRenew(a) \/ RenewFault(a)
  BY <1>1, <1>2 DEF StandInRenew, RenewFault, TakeFor, LockTurn, Takes, CanAcquire
<1>3. CASE StandInAsk(a) \/ StandInYield(a) \/ LookAround(a)
  BY <1>3 DEF StandInAsk, StandInYield, LookAround, StandInTick, Vacate, Sweep, Check, LockTurn
<1>4. CASE ReadFault(a) \/ DiscoverPeer(a) \/ OnFailure(a)
  BY <1>4 DEF ReadFault, DiscoverPeer, OnFailure, LockTurn
<1>5. CASE Acquire(a, l) \/ AcquireFault(a, l)
  BY <1>1, <1>5 DEF Acquire, AcquireFault, TakeFor, LockTurn, Takes
<1>6. CASE ClaimForeign(a, l) \/ Register(a, l)
  BY <1>6 DEF ClaimForeign, Register, LockTurn
<1>7. CASE DiscoverFault(a, l) \/ ClaimSkipped(a, l)
  BY <1>7 DEF DiscoverFault, ClaimSkipped, LockTurn
<1> QED
  BY <1>2, <1>3, <1>4, <1>5, <1>6, <1>7 DEF StandIn, KeepCover, Takeover, StandInFaults

(* No step of any actor changes the Lease in another way; a Lease is freed *)
(* only by its holder, and only when that is draining or has been told to  *)
(* stop.                                                                   *)
LEMMA LockMoves ==
    ASSUME StandDownFlagged, [Next]_vars
    PROVE  LockMove /\ (LockTurn \/ Expire)
<1>1. ASSUME NEW a \in Agents, DrainRelease(a) PROVE LockTurn
  BY <1>1 DEF DrainRelease, At, Release, LockTurn, Frees, StandDownFlagged
<1>2. ASSUME NEW a \in Agents, StopRelease(a) PROVE LockTurn
  BY <1>2 DEF StopRelease, Release, LockTurn, Frees
<1>3. ASSUME NEW a \in Agents, DrainCheck(a) \/ DrainFault(a) PROVE LockTurn
  BY <1>3 DEF DrainCheck, DrainFault, LockTurn
<1>4. ASSUME NEW a \in Agents, Start(a) \/ StartUnprimed(a) \/ Crash(a) \/ Stop(a)
      PROVE  LockTurn
  BY <1>4 DEF Start, StartUnprimed, Crash, Stop, LockTurn
<1>5. ASSUME NEW a \in Agents, Exit(a) \/ StopFault(a) \/ Cordon(a) PROVE LockTurn
  BY <1>5 DEF Exit, StopFault, Cordon, LockTurn
<1>6. Expire => Expires
  BY DEF Expire, Expires
<1>7. UNCHANGED vars => LockTurn
  BY DEF vars, LockTurn
<1>8. {"lease", "reconcile", "peer"} \subseteq Loops
  BY DEF Loops
<1> QED
  BY <1>1, <1>2, <1>3, <1>4, <1>5, <1>6, <1>7, <1>8, OwnMove, StandInMove
     DEF Next, Drain, Shutdown, LockMove

-----------------------------------------------------------------------------
(* The loops use the Lease as the lock of LeaseLock.  This needs no more   *)
(* than the flag of a stand-down.                                          *)

(* Each of these moves is a step of LeaseLock.                             *)
LEMMA LockStep == LockMove => [Lock!LockNext]_(Lock!lockVars)
<1> USE DEF Lock!LockNext
<1>1. UNCHANGED lock => UNCHANGED Lock!lockVars
  BY DEF lock, Lock!lockVars
<1>2. ASSUME NEW a \in Agents, Takes(a) PROVE Lock!Take(a)
  BY <1>2 DEF Takes, CanAcquire, CanRenew, TakeLease, Lock!Take, Lock!CanTake
<1>3. ASSUME NEW a \in Agents, Frees(a) PROVE Lock!Free(a)
  BY <1>3 DEF Frees, FreeLease, Lock!Free
<1>4. Expires => Lock!TimePasses
  BY DEF Expires, Lock!TimePasses
<1> QED
  BY <1>1, <1>2, <1>3, <1>4 DEF LockMove, LockTurn

(* A live Lease of an own agent goes only by that agent's own release.     *)
LEMMA KeepStep ==
    ASSUME LockMove, live, holder \in Own, holder' # holder
    PROVE  holder \in draining \/ status[holder] # "up"
<1>1. holder \in Agents /\ holder # None
  BY FailoverAssumption
<1>2. ASSUME NEW a \in Agents, Takes(a) PROVE FALSE
  BY <1>1, <1>2 DEF Takes, CanAcquire, CanRenew, TakeLease
<1> QED
  BY <1>2 DEF LockMove, LockTurn, Frees, Expires, lock

-----------------------------------------------------------------------------
(* The parts of TypeOK.                                                    *)

LockTyped == holder \in Agents \cup {None} /\ live \in BOOLEAN
RouteTyped == route \in [Tables -> Agents \cup {None}]
WorldTyped ==
    /\ status \in [Agents -> Statuses]
    /\ cordoned \subseteq Agents /\ draining \subseteq Agents
    /\ watch \in [Foreign -> Own \cup {None}]
BooksTyped == owned \subseteq Own /\ covers \in [Agents -> SUBSET Tables]
TaskTyped == task \in [Agents \X Loops -> Tasks]
LeftTyped == left \in [crashes : 0..MaxCrashes, stops : 0..MaxStops, cordons : 0..MaxCordons,
                       stalls : 0..MaxStalls, faults : 0..MaxFaults]
DownForgets == \A a \in Agents : status[a] = "down" => Forgotten(a)

(* TypeOK, conjunct by conjunct.                                           *)
LEMMA Parts ==
    TypeOK <=> /\ LockTyped /\ RouteTyped /\ WorldTyped /\ BooksTyped
               /\ TaskTyped /\ LeftTyped /\ DownForgets
  BY DEF TypeOK, LockTyped, RouteTyped, WorldTyped, BooksTyped, TaskTyped, LeftTyped,
         DownForgets

(* The moves keep the Lease well typed.                                    *)
LEMMA LockType == LockTyped /\ LockMove => LockTyped'
  BY DEF LockTyped, LockMove, LockTurn, lock, Takes, Frees, TakeLease, FreeLease, Expires

(* Spending a bound keeps it a natural number.                             *)
LEMMA SpendType ==
    ASSUME LeftTyped, NEW kind \in {"crashes", "stops", "cordons", "stalls", "faults"},
           UNCHANGED left \/ Spend(kind)
    PROVE  LeftTyped'
<1>1. /\ MaxCrashes \in Nat /\ MaxStops \in Nat /\ MaxCordons \in Nat
      /\ MaxStalls \in Nat /\ MaxFaults \in Nat
  BY FailoverAssumption
<1>2. CASE UNCHANGED left
  BY <1>2 DEF LeftTyped
<1>3. CASE Spend(kind)
  <2>1. left[kind] > 0 /\ left' = [left EXCEPT ![kind] = left[kind] - 1]
    BY <1>3 DEF Spend
  <2> QED
    BY <1>1, <2>1 DEF LeftTyped
<1> QED
  BY <1>2, <1>3

(* The tasks that the actions build are tasks.                             *)
LEMMA TaskTypes ==
    /\ Idle \in Tasks /\ Idle.pc = "idle"
    /\ \A pc \in Pcs : AtPc(pc) \in Tasks
    /\ \A pc \in Pcs, S \in SUBSET Tables : [AtPc(pc) EXCEPT !.todo = S] \in Tasks
    /\ \A r \in Tasks, S, D \in SUBSET Tables :
          /\ [r EXCEPT !.todo = S] \in Tasks
          /\ [r EXCEPT !.todo = S, !.done = D] \in Tasks
<1>1. Idle \in Tasks /\ Idle.pc = "idle"
  BY DEF Idle, Tasks, Pcs
<1>2. \A pc \in Pcs : AtPc(pc) \in Tasks
  BY <1>1 DEF AtPc, Tasks
<1>3. \A r \in Tasks, S, D \in SUBSET Tables :
         [r EXCEPT !.todo = S] \in Tasks /\ [r EXCEPT !.todo = S, !.done = D] \in Tasks
  BY DEF Tasks
<1> QED
  BY <1>1, <1>2, <1>3

(* The places the actions send a goroutine to.                             *)
LEMMA Places ==
    /\ Idle.pc = "idle" /\ Idle.todo = {} /\ Idle.done = {}
    /\ \A pc : AtPc(pc).pc = pc /\ AtPc(pc).todo = {}
    /\ \A pc, S : [AtPc(pc) EXCEPT !.todo = S].pc = pc
                  /\ [AtPc(pc) EXCEPT !.todo = S].todo = S
    /\ \A r \in Tasks : \A S, D : /\ [r EXCEPT !.todo = S].pc = r.pc
                                  /\ [r EXCEPT !.todo = S, !.done = D].pc = r.pc
  BY DEF Idle, AtPc, Tasks

-----------------------------------------------------------------------------
(* What a step of one goroutine of a may change.                           *)

Moves(a, l) == \E r \in Tasks : task' = [task EXCEPT ![<<a, l>>] = r]
OnlyOf(a) ==
    /\ TaskTyped'
    /\ \A b \in Agents \ {a}, m \in Loops : TaskOf(b, m)' = TaskOf(b, m)
    /\ TaskOf(a, "drain")'.pc = "release" => TaskOf(a, "drain").pc = "release"
Local(a) ==
    /\ Running(a)
    /\ UNCHANGED <<status, cordoned, draining>>
    /\ watch' \in [Foreign -> Own \cup {None}]
    /\ \A b \in Foreign \ {a} : watch'[b] = watch[b]
    /\ owned' \subseteq Own /\ owned' \subseteq owned \cup {a}
    /\ \E S \in SUBSET Tables : covers' = [covers EXCEPT ![a] = S]

(* A goroutine that moves is one of its agent's.                           *)
LEMMA OneMoves ==
    ASSUME TypeOK, NEW a \in Agents, NEW l \in Loops, Moves(a, l),
           l = "drain" => TaskOf(a, l)'.pc = "idle"
    PROVE  OnlyOf(a)
<1>0. TaskTyped /\ "drain" \in Loops
  BY Parts DEF Loops
<1>1. TaskTyped' /\ \A b \in Agents, m \in Loops :
                       <<b, m>> # <<a, l>> => TaskOf(b, m)' = TaskOf(b, m)
  BY <1>0 DEF TaskTyped, Moves, TaskOf
<1> QED
  BY <1>0, <1>1 DEF OnlyOf

(* A step of a running process in its own books and goroutines preserves   *)
(* the invariant, unless it starts a release.                              *)
LEMMA LocalStep ==
    ASSUME IInv, NEW a \in Agents, Local(a), OnlyOf(a)
    PROVE  /\ WorldTyped' /\ BooksTyped' /\ TaskTyped' /\ DownForgets' /\ StandDownFlagged'
<1>0. /\ WorldTyped /\ BooksTyped /\ TaskTyped /\ DownForgets /\ StandDownFlagged
  BY Parts DEF IInv
<1>1. WorldTyped'
  BY <1>0 DEF WorldTyped, Local
<1>2. BooksTyped'
  BY <1>0 DEF BooksTyped, Local
<1>4. ASSUME NEW b \in Agents, status'[b] = "down" PROVE Forgotten(b)'
  <2>1. b # a /\ Forgotten(b)
    BY <1>0, <1>4 DEF Local, Running, DownForgets
  <2>2. b \notin draining' \cup owned'
    BY <2>1 DEF Forgotten, Local
  <2>3. covers'[b] = {}
    BY <1>0, <2>1 DEF Forgotten, Local, BooksTyped
  <2>4. \A m \in Loops : TaskOf(b, m)' = Idle
    BY <2>1 DEF Forgotten, OnlyOf
  <2>5. Idle' = Idle
    BY DEF Idle
  <2>6. b \in Foreign => watch'[b] = None
    BY <1>0, <2>1 DEF Forgotten, Local, WorldTyped
  <2> QED
    BY <2>2, <2>3, <2>4, <2>5, <2>6 DEF Forgotten
<1>5. ASSUME NEW b \in Agents, TaskOf(b, "drain")'.pc = "release" PROVE b \in draining'
  <2>1. TaskOf(b, "drain").pc = "release"
    BY <1>5 DEF OnlyOf, Loops
  <2> QED
    BY <1>0, <2>1 DEF StandDownFlagged, Local
<1> QED
  BY <1>1, <1>2, <1>4, <1>5 DEF DownForgets, StandDownFlagged, OnlyOf

(* Where the goroutine goes next.                                          *)
LEMMA Goes ==
    ASSUME TypeOK, NEW a \in Agents, NEW l \in Loops
    PROVE  /\ \A r \in Tasks : Goto(a, l, r) \/ Continue(a, l, r) => Moves(a, l)
           /\ Finish(a, l) => Moves(a, l)
           /\ UNCHANGED task => Moves(a, l)
           /\ TaskOf(a, l) \in Tasks
           /\ TaskOf(a, l).todo \in SUBSET Tables /\ TaskOf(a, l).done \in SUBSET Tables
<1> USE DEF Unless
<1>1. task \in [Agents \X Loops -> Tasks] /\ Idle \in Tasks /\ <<a, l>> \in Agents \X Loops
  BY TaskTypes DEF TypeOK
<1>2. \A r \in Tasks : Goto(a, l, r) \/ Continue(a, l, r) => Moves(a, l)
  BY <1>1 DEF Goto, Continue, Moves
<1>3. Finish(a, l) => Moves(a, l)
  BY <1>1 DEF Finish, Goto, Moves
<1>4. UNCHANGED task => Moves(a, l)
  <2>1. task = [task EXCEPT ![<<a, l>>] = task[<<a, l>>]]
    BY <1>1
  <2> QED
    BY <1>1, <2>1 DEF Moves
<1>5. TaskOf(a, l) \in Tasks
  BY <1>1 DEF TaskOf
<1> QED
  BY <1>2, <1>3, <1>4, <1>5 DEF Tasks

(* What it does to the books.                                              *)
LEMMA Keeps ==
    ASSUME TypeOK, NEW a \in Agents, Running(a), UNCHANGED <<status, cordoned, draining>>,
           watch' = watch \/ \E w \in Own \cup {None} : watch' = [watch EXCEPT ![a] = w]
    PROVE  /\ UNCHANGED books => Local(a)
           /\ Drop(a) => Local(a)
           /\ \A S \in SUBSET Tables : Cover(a, S) => Local(a)
           /\ a \in Own /\ owned' = owned \cup {a} /\ UNCHANGED covers => Local(a)
<1>1. /\ owned \subseteq Own /\ covers \in [Agents -> SUBSET Tables]
      /\ watch \in [Foreign -> Own \cup {None}]
  BY DEF TypeOK
<1>3. /\ watch' \in [Foreign -> Own \cup {None}]
      /\ \A b \in Foreign \ {a} : watch'[b] = watch[b]
  BY <1>1
<1>2. covers' = covers => \E S \in SUBSET Tables : covers' = [covers EXCEPT ![a] = S]
  <2>1. covers = [covers EXCEPT ![a] = covers[a]] /\ covers[a] \in SUBSET Tables
    BY <1>1
  <2> QED
    BY <2>1
<1> QED
  BY <1>1, <1>2, <1>3 DEF Local, books, Drop, Cover

(* Every step of the own-zone loops is such a step,                        *)
LEMMA OwnStep ==
    ASSUME IInv, NEW a \in Own, NEW l \in {"lease", "reconcile"},
           ServeOwn(a, l) \/ OwnFaults(a, l)
    PROVE  Local(a) /\ Moves(a, l) /\ RouteTyped' /\ LeftTyped'
<1> USE FailoverAssumption
<1>0. /\ TypeOK /\ a \in Agents /\ l \in Loops /\ LeftTyped
      /\ route \in [Tables -> Agents \cup {None}]
  BY Parts DEF IInv, Loops, RouteTyped
<1>a. ASSUME route' = route PROVE RouteTyped'
  BY <1>0, <1>a DEF RouteTyped
<1>b. UNCHANGED left \/ Spend("faults") => LeftTyped'
  BY <1>0, SpendType
<1>c. MayFail(a, l) => UNCHANGED left \/ Spend("faults")
  BY DEF MayFail
<1>d. /\ AtPc("ensure") \in Tasks /\ AtPc("discover") \in Tasks /\ Idle \in Tasks
      /\ \A S \in SUBSET Tables : [AtPc("claim") EXCEPT !.todo = S] \in Tasks
  BY TaskTypes DEF Pcs
<1>e. StandBy(a, l) => Finish(a, l) /\ (Drop(a) \/ UNCHANGED books)
  BY DEF StandBy
<1>1. CASE OwnTick(a, l)
  <2>1. /\ Running(a) /\ (UNCHANGED books \/ Drop(a))
        /\ UNCHANGED <<status, cordoned, draining, watch, route, left>>
        /\ Goto(a, l, AtPc("ensure")) \/ UNCHANGED task
    BY <1>1 DEF OwnTick, At, world
  <2> QED
    BY <2>1, <1>0, <1>a, <1>b, <1>d, Goes, Keeps
<1>2. CASE Held(a, l)
  <2>1. /\ Running(a) /\ UNCHANGED books
        /\ UNCHANGED <<status, cordoned, draining, watch, route, left>>
        /\ Continue(a, l, Idle) \/ Continue(a, l, AtPc("discover"))
    BY <1>2 DEF Held, At, world
  <2> QED
    BY <2>1, <1>0, <1>a, <1>b, <1>d, Goes, Keeps
<1>3. CASE NotHeld(a, l) \/ EnsureFault(a, l)
  <2>1. /\ Running(a) /\ StandBy(a, l)
        /\ UNCHANGED <<status, cordoned, draining, watch, route>>
        /\ UNCHANGED left \/ MayFail(a, l)
    BY <1>3 DEF NotHeld, EnsureFault, At, world
  <2> QED
    BY <2>1, <1>0, <1>a, <1>b, <1>c, <1>e, Goes, Keeps
<1>4. CASE DiscoverOwn(a, l)
  <2>1. /\ Running(a) /\ UNCHANGED books
        /\ UNCHANGED <<status, cordoned, draining, watch, route, left>>
        /\ \E S \in SUBSET Tables : Continue(a, l, [AtPc("claim") EXCEPT !.todo = S])
    BY <1>4 DEF DiscoverOwn, At, world
  <2> QED
    BY <2>1, <1>0, <1>a, <1>b, <1>d, Goes, Keeps
<1>5. CASE ClaimOwn(a, l)
  <2>1. /\ Running(a) /\ UNCHANGED books
        /\ UNCHANGED <<status, cordoned, draining, watch, left>>
    BY <1>5 DEF ClaimOwn, At, world
  <2>2. PICK t \in TaskOf(a, l).todo :
           /\ route' = [route EXCEPT ![t] = a]
           /\ Continue(a, l, [TaskOf(a, l) EXCEPT !.todo = TaskOf(a, l).todo \ {t}])
    BY <1>5 DEF ClaimOwn
  <2>3. RouteTyped'
    BY <2>2, <1>0 DEF RouteTyped
  <2>4. [TaskOf(a, l) EXCEPT !.todo = TaskOf(a, l).todo \ {t}] \in Tasks
    <3>1. TaskOf(a, l).todo \ {t} \in SUBSET Tables
      BY <1>0, Goes
    <3> QED
      BY <3>1, <1>0, Goes, TaskTypes
  <2>5. Moves(a, l)
    BY <2>2, <2>4, <1>0, Goes
  <2> QED
    BY <2>1, <2>3, <2>5, <1>0, <1>b, Keeps
<1>6. CASE ConfirmOwn(a, l)
  <2>1. /\ Running(a) /\ owned' = owned \cup {a} /\ UNCHANGED covers
        /\ UNCHANGED <<status, cordoned, draining, watch, route, left>>
        /\ Finish(a, l)
    BY <1>6 DEF ConfirmOwn, At, world
  <2> QED
    BY <2>1, <1>0, <1>a, <1>b, Goes, Keeps
<1>7. CASE ClaimFault(a, l)
  <2>1. /\ Running(a) /\ UNCHANGED books
        /\ UNCHANGED <<status, cordoned, draining, watch, route>>
        /\ Finish(a, l) /\ MayFail(a, l)
    BY <1>7 DEF ClaimFault, At, world
  <2> QED
    BY <2>1, <1>0, <1>a, <1>b, <1>c, Goes, Keeps
<1> QED
  BY <1>1, <1>2, <1>3, <1>4, <1>5, <1>6, <1>7 DEF ServeOwn, OwnFaults

(* So is taking the Lease, whichever calls are refused for it,             *)
LEMMA Takers ==
    ASSUME TypeOK, NEW a \in Agents, NEW l \in Loops \ {"drain"}, NEW r \in Tasks,
           TakeFor(a, l, r)
    PROVE  OnlyOf(a)
<1>0. TaskTyped /\ Idle \in Tasks
  BY Parts, TaskTypes
<1>1. PICK S \in SUBSET Overtakable(a, l) :
         task' = [p \in Agents \X Loops |->
                    IF p = <<a, l>> THEN r
                    ELSE IF p[1] = a /\ p[2] \in S THEN Refused(p[2]) ELSE task[p]]
  BY DEF TakeFor
<1>2. \A m : Refused(m) \in Tasks /\ Refused(m).pc # "release"
  BY TaskTypes, Places DEF Refused, Pcs
<1>3. TaskTyped'
  BY <1>0, <1>1, <1>2 DEF TaskTyped
<1>4. \A b \in Agents \ {a}, m \in Loops : TaskOf(b, m)' = TaskOf(b, m)
  BY <1>1 DEF TaskOf
<1>5. TaskOf(a, "drain")' \in {TaskOf(a, "drain"), Refused("drain")}
  BY <1>1 DEF TaskOf, Loops
<1> QED
  BY <1>2, <1>3, <1>4, <1>5 DEF OnlyOf

(* and so is every step of a stand-in.                                     *)
LEMMA StandInStep ==
    ASSUME IInv, NEW a \in Foreign, NEW k \in {"reconcile", "peer"},
           StandIn(a) \/ Takeover(a, k) \/ StandInFaults(a, k)
    PROVE  Local(a) /\ OnlyOf(a) /\ RouteTyped' /\ LeftTyped'
<1> USE FailoverAssumption
<1>0. /\ TypeOK /\ a \in Agents /\ k \in Loops \ {"drain"} /\ LeftTyped
      /\ "lease" \in Loops \ {"drain"} /\ "reconcile" \in Loops \ {"drain"}
      /\ "peer" \in Loops \ {"drain"}
      /\ route \in [Tables -> Agents \cup {None}]
  BY Parts DEF IInv, Loops, RouteTyped, Foreign
<1>a. ASSUME route' = route PROVE RouteTyped'
  BY <1>0, <1>a DEF RouteTyped
<1>b. UNCHANGED left \/ Spend("faults") => LeftTyped'
  BY <1>0, SpendType
<1>c. \A l : MayFail(a, l) => UNCHANGED left \/ Spend("faults")
  BY DEF MayFail
<1>d. /\ Idle \in Tasks /\ Vacated(a) \in Tasks /\ AllTables \in Tasks
      /\ \A pc \in {"renew", "yield", "check", "acquire", "idle"} : AtPc(pc) \in Tasks
      /\ \A S \in SUBSET Tables : [AtPc("vacate") EXCEPT !.todo = S] \in Tasks
  BY TaskTypes DEF Pcs, Vacated, AllTables
<1>e. covers[a] \in SUBSET Tables
  BY <1>0 DEF TypeOK
<1>f. ASSUME NEW l \in Loops \ {"drain"}, Moves(a, l) PROVE OnlyOf(a)
  BY <1>0, <1>f, OneMoves
<1>1. CASE StandInAsk(a)
  <2>1. /\ Running(a) /\ UNCHANGED books
        /\ UNCHANGED <<status, cordoned, draining, watch, route, left>>
        /\ Goto(a, "lease", AtPc("renew"))
    BY <1>1 DEF StandInAsk, At, world
  <2>2. Moves(a, "lease")
    BY <2>1, <1>0, <1>d, Goes
  <2> QED
    BY <2>1, <2>2, <1>0, <1>a, <1>b, <1>f, Keeps
<1>14. CASE StandInRenew(a) \/ RenewFault(a)
  <2>1. /\ Running(a) /\ UNCHANGED books
        /\ UNCHANGED <<status, cordoned, draining, watch, route>>
        /\ UNCHANGED left \/ MayFail(a, "lease")
        /\ \/ Goto(a, "lease", AtPc("yield")) \/ Finish(a, "lease")
           \/ TakeFor(a, "lease", Idle)
    BY <1>14 DEF StandInRenew, RenewFault, At, world
  <2>2. OnlyOf(a)
    BY <2>1, <1>0, <1>d, <1>f, Goes, Takers
  <2> QED
    BY <2>1, <2>2, <1>0, <1>a, <1>b, <1>c, Keeps
<1>2. CASE StandInYield(a)
  <2>1. /\ Running(a) /\ Cover(a, {})
        /\ UNCHANGED <<status, cordoned, draining, watch, route, left>>
        /\ Finish(a, "lease")
    BY <1>2 DEF StandInYield, At, world
  <2>2. Moves(a, "lease")
    BY <2>1, <1>0, Goes
  <2> QED
    BY <2>1, <2>2, <1>0, <1>a, <1>b, <1>f, Keeps
<1>3. CASE StandInTick(a)
  <2> DEFINE r == IF Astray(a) = {} THEN Vacated(a)
                  ELSE [AtPc("vacate") EXCEPT !.todo = Astray(a)]
  <2>1. /\ Running(a) /\ UNCHANGED books
        /\ UNCHANGED <<status, cordoned, draining, watch, route, left>>
        /\ Goto(a, "reconcile", r)
    BY <1>3 DEF StandInTick, At, world
  <2>2. Astray(a) \in SUBSET Tables
    BY <1>e DEF Astray
  <2>3. r \in Tasks
    BY <2>2, <1>d
  <2> HIDE DEF r
  <2>4. Moves(a, "reconcile")
    BY <2>1, <2>3, <1>0, Goes
  <2> QED
    BY <2>1, <2>4, <1>0, <1>a, <1>b, <1>f, Keeps
<1>4. CASE Vacate(a)
  <2>1. /\ Running(a) /\ Cover(a, covers[a] \ TaskOf(a, "reconcile").todo)
        /\ UNCHANGED <<status, cordoned, draining, watch, route, left>>
        /\ Continue(a, "reconcile", Vacated(a))
    BY <1>4 DEF Vacate, At, world
  <2>2. Moves(a, "reconcile")
    BY <2>1, <1>0, <1>d, Goes
  <2>3. covers[a] \ TaskOf(a, "reconcile").todo \in SUBSET Tables
    BY <1>e
  <2> QED
    BY <2>1, <2>2, <2>3, <1>0, <1>a, <1>b, <1>f, Keeps
<1>5. CASE Sweep(a) \/ Check(a)
  <2>1. /\ Running(a) /\ UNCHANGED books
        /\ UNCHANGED <<status, cordoned, draining, watch, route, left>>
        /\ \E pc \in {"check", "acquire", "idle"} : Continue(a, "reconcile", AtPc(pc))
    BY <1>5 DEF Sweep, Check, At, world
  <2>2. Moves(a, "reconcile")
    BY <2>1, <1>0, <1>d, Goes
  <2> QED
    BY <2>1, <2>2, <1>0, <1>a, <1>b, <1>f, Keeps
<1>6. CASE ReadFault(a)
  <2>1. /\ Running(a) /\ UNCHANGED books /\ MayFail(a, "reconcile")
        /\ UNCHANGED <<status, cordoned, draining, watch, route>>
        /\ Goto(a, "reconcile", Vacated(a)) \/ Finish(a, "reconcile")
    BY <1>6 DEF ReadFault, At, world
  <2>2. Moves(a, "reconcile")
    BY <2>1, <1>0, <1>d, Goes
  <2> QED
    BY <2>1, <2>2, <1>0, <1>a, <1>b, <1>c, <1>f, Keeps
<1>7. CASE OnFailure(a) \/ DiscoverPeer(a)
  <2>1. /\ Running(a) /\ UNCHANGED books
        /\ UNCHANGED <<status, cordoned, draining, route, left>>
        /\ \E w \in Own \cup {None} : watch' = [watch EXCEPT ![a] = w]
        /\ UNCHANGED task \/ \E pc \in {"acquire", "idle"} : Goto(a, "peer", AtPc(pc))
    BY <1>7 DEF OnFailure, DiscoverPeer, At
  <2>2. Moves(a, "peer")
    BY <2>1, <1>0, <1>d, Goes
  <2> QED
    BY <2>1, <2>2, <1>0, <1>a, <1>b, <1>f, Keeps
<1>8. CASE Acquire(a, k) \/ AcquireFault(a, k)
  <2>1. /\ Running(a) /\ UNCHANGED books
        /\ UNCHANGED <<status, cordoned, draining, watch, route>>
        /\ UNCHANGED left \/ MayFail(a, k)
        /\ \/ TakeFor(a, k, Unless(a, k, AllTables)) \/ TakeFor(a, k, Idle)
           \/ Finish(a, k)
    BY <1>8 DEF Acquire, AcquireFault, At, world
  <2>2. Unless(a, k, AllTables) \in Tasks
    BY <1>d DEF Unless
  <2>3. OnlyOf(a)
    BY <2>1, <2>2, <1>0, <1>d, <1>f, Goes, Takers
  <2> QED
    BY <2>1, <2>3, <1>0, <1>a, <1>b, <1>c, Keeps
<1>10. CASE DiscoverFault(a, k)
  <2>1. /\ Running(a) /\ UNCHANGED books /\ MayFail(a, k)
        /\ UNCHANGED <<status, cordoned, draining, watch, route>>
        /\ Finish(a, k)
    BY <1>10 DEF DiscoverFault, world
  <2>2. Moves(a, k)
    BY <2>1, <1>0, Goes
  <2> QED
    BY <2>1, <2>2, <1>0, <1>a, <1>b, <1>c, <1>f, Keeps
<1>11. CASE ClaimForeign(a, k)
  <2> DEFINE r(t) == [TaskOf(a, k) EXCEPT
                        !.todo = IF Cancelled(a, k) THEN {} ELSE TaskOf(a, k).todo \ {t},
                        !.done = TaskOf(a, k).done \cup {t}]
  <2>1. /\ Running(a) /\ UNCHANGED books
        /\ UNCHANGED <<status, cordoned, draining, watch, left>>
    BY <1>11 DEF ClaimForeign, At, world
  <2>2. PICK t \in TaskOf(a, k).todo : route' = [route EXCEPT ![t] = a] /\ Goto(a, k, r(t))
    BY <1>11 DEF ClaimForeign
  <2>3. /\ TaskOf(a, k) \in Tasks
        /\ (IF Cancelled(a, k) THEN {} ELSE TaskOf(a, k).todo \ {t}) \in SUBSET Tables
        /\ TaskOf(a, k).done \cup {t} \in SUBSET Tables
    BY <1>0, Goes
  <2>4. r(t) \in Tasks
    BY <2>3, TaskTypes
  <2> HIDE DEF r
  <2>5. Moves(a, k)
    BY <2>2, <2>4, <1>0, Goes
  <2>6. RouteTyped'
    BY <2>2, <1>0 DEF RouteTyped
  <2> QED
    BY <2>1, <2>5, <2>6, <1>0, <1>b, <1>f, Keeps
<1>12. CASE ClaimSkipped(a, k)
  <2>1. /\ Running(a) /\ UNCHANGED books /\ MayFail(a, k)
        /\ UNCHANGED <<status, cordoned, draining, watch, route>>
    BY <1>12 DEF ClaimSkipped, At, world
  <2>2. PICK t \in TaskOf(a, k).todo :
           Goto(a, k, [TaskOf(a, k) EXCEPT !.todo = TaskOf(a, k).todo \ {t}])
    BY <1>12 DEF ClaimSkipped
  <2>3. TaskOf(a, k) \in Tasks /\ TaskOf(a, k).todo \ {t} \in SUBSET Tables
    BY <1>0, Goes
  <2>4. [TaskOf(a, k) EXCEPT !.todo = TaskOf(a, k).todo \ {t}] \in Tasks
    BY <2>3, TaskTypes
  <2>5. Moves(a, k)
    BY <2>2, <2>4, <1>0, Goes
  <2> QED
    BY <2>1, <2>5, <1>0, <1>a, <1>b, <1>c, <1>f, Keeps
<1>13. CASE Register(a, k)
  <2>1. /\ Running(a) /\ Cover(a, covers[a] \cup TaskOf(a, k).done)
        /\ UNCHANGED <<status, cordoned, draining, watch, route, left>>
        /\ Finish(a, k)
    BY <1>13 DEF Register, At, world
  <2>2. Moves(a, k) /\ TaskOf(a, k).done \in SUBSET Tables
    BY <2>1, <1>0, Goes
  <2>3. covers[a] \cup TaskOf(a, k).done \in SUBSET Tables
    BY <2>2, <1>e
  <2> QED
    BY <2>1, <2>2, <2>3, <1>0, <1>a, <1>b, <1>f, Keeps
<1> QED
  BY <1>1, <1>2, <1>3, <1>4, <1>5, <1>6, <1>7, <1>8, <1>10, <1>11, <1>12, <1>13, <1>14
     DEF StandIn, KeepCover, LookAround, Takeover, StandInFaults

-----------------------------------------------------------------------------
(* The drain monitor, and the life of a process.                           *)

Kept == /\ WorldTyped' /\ BooksTyped' /\ TaskTyped' /\ DownForgets' /\ StandDownFlagged'
        /\ RouteTyped' /\ LeftTyped'

(* The drain monitor: the only goroutine whose release the flag must       *)
(* precede.                                                                *)
LEMMA DrainStep ==
    ASSUME IInv, NEW a \in Agents, Drain(a) \/ DrainFault(a)
    PROVE  Kept
<1> USE FailoverAssumption
<1>0. /\ TypeOK /\ "drain" \in Loops /\ LeftTyped /\ RouteTyped
      /\ WorldTyped /\ BooksTyped /\ TaskTyped /\ DownForgets /\ StandDownFlagged
  BY Parts DEF IInv, Loops
<1>1. CASE DrainCheck(a)
  <2>1. /\ Running(a) /\ TaskOf(a, "drain").pc = "idle"
        /\ UNCHANGED <<status, cordoned, watch, owned, covers, route, left>>
        /\ \/ draining' = draining \cup {a} /\ Goto(a, "drain", AtPc("release"))
           \/ draining' = draining \ {a} /\ UNCHANGED task
    BY <1>1 DEF DrainCheck, At, world, books
  <2>2. AtPc("release") \in Tasks
    BY TaskTypes DEF Pcs
  <2>3. TaskTyped' /\ \A b \in Agents, m \in Loops :
                         <<b, m>> # <<a, "drain">> => TaskOf(b, m)' = TaskOf(b, m)
    BY <2>1, <2>2, <1>0 DEF TaskTyped, Goto, TaskOf
  <2>4. WorldTyped' /\ BooksTyped' /\ RouteTyped' /\ LeftTyped'
    BY <2>1, <1>0 DEF WorldTyped, BooksTyped, RouteTyped, LeftTyped
  <2>5. ASSUME NEW b \in Agents, status'[b] = "down" PROVE Forgotten(b)'
    <3>1. b # a /\ Forgotten(b)
      BY <2>1, <2>5, <1>0 DEF Running, DownForgets
    <3>2. \A m \in Loops : TaskOf(b, m)' = Idle
      BY <3>1, <2>3 DEF Forgotten
    <3>3. Idle' = Idle
      BY DEF Idle
    <3> QED
      BY <3>1, <3>2, <3>3, <2>1 DEF Forgotten
  <2>6. ASSUME NEW b \in Agents, TaskOf(b, "drain")'.pc = "release" PROVE b \in draining'
    <3>1. CASE b = a
      BY <3>1, <2>1, <2>6 DEF TaskOf
    <3>2. CASE b # a
      BY <3>2, <2>1, <2>3, <2>6, <1>0 DEF StandDownFlagged
    <3> QED
      BY <3>1, <3>2
  <2> QED
    BY <2>3, <2>4, <2>5, <2>6 DEF Kept, DownForgets, StandDownFlagged
<1>2. CASE DrainRelease(a) \/ DrainFault(a)
  <2>1. /\ Running(a) /\ UNCHANGED books /\ Finish(a, "drain")
        /\ UNCHANGED <<status, cordoned, draining, watch, route>>
        /\ UNCHANGED left \/ Spend("faults")
    BY <1>2 DEF DrainRelease, DrainFault, At, world
  <2>2. Local(a) /\ Moves(a, "drain")
    BY <2>1, <1>0, Goes, Keeps
  <2>3. TaskOf(a, "drain")'.pc = "idle"
    BY <2>1, <1>0, TaskTypes DEF Finish, Goto, TaskOf, TaskTyped
  <2>4. RouteTyped' /\ LeftTyped'
    BY <2>1, <1>0, SpendType DEF RouteTyped
  <2> QED
    BY <2>2, <2>3, <2>4, <1>0, OneMoves, LocalStep DEF Kept, IInv
<1> QED
  BY <1>1, <1>2 DEF Drain

(* A process that is gone takes its flag and its release with it.          *)
LEMMA GoneStep ==
    ASSUME IInv, NEW a \in Agents, Running(a), Gone(a), UNCHANGED <<cordoned, route>>, LeftTyped'
    PROVE  Kept
<1> USE FailoverAssumption
<1>0. /\ RouteTyped /\ WorldTyped /\ BooksTyped /\ TaskTyped /\ DownForgets /\ StandDownFlagged
      /\ Idle \in Tasks /\ Idle' = Idle /\ Idle.pc = "idle"
  BY Parts, TaskTypes DEF IInv, Idle
<1>1. /\ status' = [status EXCEPT ![a] = "down"]
      /\ draining' = draining \ {a} /\ owned' = owned \ {a}
      /\ covers' = [covers EXCEPT ![a] = {}]
      /\ task' = [p \in Agents \X Loops |-> IF p[1] = a THEN Idle ELSE task[p]]
      /\ watch' = [f \in Foreign |-> IF f = a THEN None ELSE watch[f]]
  BY DEF Gone
<1>2. WorldTyped' /\ BooksTyped' /\ RouteTyped'
  BY <1>0, <1>1 DEF WorldTyped, BooksTyped, RouteTyped, Statuses
<1>3. TaskTyped'
  BY <1>0, <1>1 DEF TaskTyped
<1>4. \A b \in Agents, m \in Loops :
         TaskOf(b, m)' = IF b = a THEN Idle ELSE TaskOf(b, m)
  BY <1>1 DEF TaskOf
<1>5. ASSUME NEW b \in Agents, status'[b] = "down" PROVE Forgotten(b)'
  <2>1. b = a \/ Forgotten(b)
    BY <1>0, <1>1, <1>5 DEF DownForgets, WorldTyped
  <2>2. b \notin draining' /\ b \notin owned' /\ covers'[b] = {}
    BY <2>1, <1>0, <1>1 DEF Forgotten, BooksTyped
  <2>3. b \in Foreign => watch'[b] = None
    BY <2>1, <1>1 DEF Forgotten
  <2>4. \A m \in Loops : TaskOf(b, m)' = Idle
    BY <2>1, <1>4 DEF Forgotten
  <2> QED
    BY <2>2, <2>3, <2>4, <1>0 DEF Forgotten
<1>6. ASSUME NEW b \in Agents, TaskOf(b, "drain")'.pc = "release" PROVE b \in draining'
  <2>1. b # a /\ TaskOf(b, "drain").pc = "release"
    BY <1>0, <1>4, <1>6 DEF Loops
  <2> QED
    BY <2>1, <1>0, <1>1 DEF StandDownFlagged
<1> QED
  BY <1>2, <1>3, <1>5, <1>6 DEF Kept, DownForgets, StandDownFlagged

(* A process that starts on a cordoned node has the flag up before it      *)
(* releases.                                                               *)
LEMMA StartStep ==
    ASSUME IInv, NEW a \in Agents, Start(a) \/ StartUnprimed(a)
    PROVE  Kept
<1> USE FailoverAssumption
<1>0. /\ RouteTyped /\ WorldTyped /\ BooksTyped /\ TaskTyped /\ DownForgets /\ StandDownFlagged
      /\ LeftTyped /\ TypeOK /\ Idle' = Idle
      /\ {"drain", "reconcile"} \subseteq Loops
      /\ AtPc("release") \in Tasks /\ AtPc("ensure") \in Tasks
  BY Parts, TaskTypes DEF IInv, Idle, Pcs, Loops
<1>1. /\ status' = [status EXCEPT ![a] = "up"]
      /\ UNCHANGED <<books, cordoned, watch, route>>
      /\ UNCHANGED left \/ Spend("faults")
      /\ \/ draining' = draining \cup {a} /\ Goto(a, "drain", AtPc("release"))
         \/ draining' = draining /\ (UNCHANGED task \/ Goto(a, "reconcile", AtPc("ensure")))
  BY DEF Start, StartUnprimed
<1>2. WorldTyped' /\ BooksTyped' /\ RouteTyped' /\ LeftTyped'
  BY <1>0, <1>1, SpendType DEF WorldTyped, BooksTyped, RouteTyped, Statuses, books
<1>3. TaskTyped' /\ \A b \in Agents \ {a}, m \in Loops : TaskOf(b, m)' = TaskOf(b, m)
  BY <1>0, <1>1 DEF TaskTyped, Goto, TaskOf
<1>4. ASSUME NEW b \in Agents, status'[b] = "down" PROVE Forgotten(b)'
  <2>1. b # a /\ Forgotten(b)
    BY <1>0, <1>1, <1>4 DEF DownForgets, WorldTyped
  <2>2. \A m \in Loops : TaskOf(b, m)' = Idle
    BY <2>1, <1>3 DEF Forgotten
  <2> QED
    BY <2>1, <2>2, <1>0, <1>1 DEF Forgotten, books
<1>5. ASSUME NEW b \in Agents, TaskOf(b, "drain")'.pc = "release" PROVE b \in draining'
  <2>1. CASE b # a
    BY <2>1, <1>0, <1>1, <1>3, <1>5 DEF StandDownFlagged
  <2>2. CASE draining' = draining /\ (UNCHANGED task \/ Goto(a, "reconcile", AtPc("ensure")))
    <3>1. TaskOf(b, "drain")' = TaskOf(b, "drain")
      BY <2>2, <1>0 DEF Goto, TaskOf, TaskTyped
    <3> QED
      BY <3>1, <2>2, <1>0, <1>5 DEF StandDownFlagged
  <2> QED
    BY <2>1, <2>2, <1>1
<1> QED
  BY <1>2, <1>3, <1>4, <1>5 DEF Kept, DownForgets, StandDownFlagged

(* The remaining steps change neither books nor goroutines.                *)
LEMMA IdleStep ==
    ASSUME IInv, UNCHANGED <<books, watch, route, draining, task>>,
           cordoned' \subseteq Agents,
           UNCHANGED status
             \/ \E a \in Agents, s \in Statuses \ {"down"} :
                   Running(a) /\ status' = [status EXCEPT ![a] = s],
           LeftTyped'
    PROVE  Kept
<1>0. /\ RouteTyped /\ WorldTyped /\ BooksTyped /\ TaskTyped /\ DownForgets /\ StandDownFlagged
      /\ Idle' = Idle
  BY Parts DEF IInv, Idle
<1>1. WorldTyped' /\ BooksTyped' /\ RouteTyped' /\ TaskTyped'
  BY <1>0 DEF WorldTyped, BooksTyped, RouteTyped, TaskTyped, books
<1>2. \A b \in Agents : status'[b] = "down" => status[b] = "down"
  BY <1>0 DEF WorldTyped, Running
<1>3. \A b \in Agents : Forgotten(b) => Forgotten(b)'
  BY <1>0 DEF Forgotten, books, TaskOf
<1>4. StandDownFlagged'
  BY <1>0 DEF StandDownFlagged, TaskOf
<1> QED
  BY <1>0, <1>1, <1>2, <1>3, <1>4 DEF Kept, DownForgets

(* The remaining steps of a process: crash, stop, release, exit, cordon.   *)
LEMMA LifeStep ==
    ASSUME IInv, NEW a \in Agents,
           \/ Crash(a) \/ Exit(a) \/ Stop(a) \/ StopRelease(a) \/ StopFault(a) \/ Cordon(a)
    PROVE  Kept
<1>0. LeftTyped /\ WorldTyped
  BY Parts DEF IInv
<1>1. CASE Crash(a) \/ Exit(a)
  <2>1. /\ Running(a) /\ Gone(a) /\ UNCHANGED <<cordoned, route>>
        /\ UNCHANGED left \/ Spend("crashes")
    BY <1>1 DEF Crash, Exit, Running
  <2>2. LeftTyped'
    BY <2>1, <1>0, SpendType
  <2> QED
    BY <2>1, <2>2, GoneStep
<1>2. CASE Stop(a)
  <2>1. LeftTyped'
    BY <1>0, <1>2, SpendType DEF Stop
  <2> QED
    BY <1>0, <1>2, <2>1, IdleStep DEF Stop, Running, Statuses, WorldTyped
<1>3. CASE StopRelease(a) \/ StopFault(a)
  <2>1. LeftTyped'
    BY <1>0, <1>3, SpendType DEF StopRelease, StopFault
  <2> QED
    BY <1>0, <1>3, <2>1, IdleStep DEF StopRelease, StopFault, Running, Statuses, WorldTyped
<1>4. CASE Cordon(a)
  <2>1. LeftTyped'
    BY <1>0, <1>4, SpendType DEF Cordon
  <2> QED
    BY <1>0, <1>4, <2>1, IdleStep DEF Cordon, WorldTyped
<1> QED
  BY <1>1, <1>2, <1>3, <1>4

-----------------------------------------------------------------------------
(* Every step preserves the invariant.                                     *)
LEMMA InvStep == IInv /\ [Next]_vars => IInv'
<1> SUFFICES ASSUME IInv, [Next]_vars PROVE IInv'
  OBVIOUS
<1> USE FailoverAssumption
<1>0. /\ StandDownFlagged /\ LockTyped /\ LeftTyped /\ WorldTyped
  BY Parts DEF IInv
<1>1. LockTyped'
  BY <1>0, LockMoves, LockType
<1>2. ASSUME NEW a \in Own, NEW l \in {"lease", "reconcile"}, ServeOwn(a, l) \/ OwnFaults(a, l)
      PROVE  Kept
  <2>1. a \in Agents /\ l \in Loops /\ l # "drain"
    BY DEF Loops
  <2>2. Local(a) /\ Moves(a, l) /\ RouteTyped' /\ LeftTyped'
    BY <1>2, OwnStep
  <2> QED
    BY <2>1, <2>2, OneMoves, LocalStep DEF Kept, IInv
<1>3. ASSUME NEW a \in Foreign, NEW k \in {"reconcile", "peer"},
             StandIn(a) \/ Takeover(a, k) \/ StandInFaults(a, k)
      PROVE  Kept
  <2>1. Local(a) /\ OnlyOf(a) /\ RouteTyped' /\ LeftTyped'
    BY <1>3, StandInStep
  <2>2. a \in Agents
    BY DEF Foreign
  <2> QED
    BY <2>1, <2>2, LocalStep DEF Kept
<1>4. ASSUME NEW a \in Agents, Drain(a) \/ DrainFault(a) PROVE Kept
  BY <1>4, DrainStep
<1>5. ASSUME NEW a \in Agents, Start(a) \/ StartUnprimed(a) PROVE Kept
  BY <1>5, StartStep
<1>6. ASSUME NEW a \in Agents, Crash(a) \/ Stop(a) \/ Shutdown(a) \/ StopFault(a) \/ Cordon(a)
      PROVE  Kept
  BY <1>6, LifeStep DEF Shutdown
<1>7. ASSUME Expire PROVE Kept
  <2>1. LeftTyped'
    BY <1>0, <1>7, SpendType DEF Expire
  <2> QED
    BY <1>0, <1>7, <2>1, IdleStep DEF Expire, world, WorldTyped
<1>8. ASSUME UNCHANGED vars PROVE Kept
  <2>1. LeftTyped'
    BY <1>0, <1>8, SpendType DEF vars
  <2> QED
    BY <1>0, <1>8, <2>1, IdleStep DEF vars, world, WorldTyped
<1>9. Kept => IInv'
  <2>1. TypeOK' <=> /\ LockTyped' /\ RouteTyped' /\ WorldTyped' /\ BooksTyped'
                    /\ TaskTyped' /\ LeftTyped' /\ DownForgets'
    BY Parts, PTL
  <2> QED
    BY <1>1, <2>1 DEF Kept, IInv
<1> QED
  BY <1>2, <1>3, <1>4, <1>5, <1>6, <1>7, <1>8, <1>9 DEF Next

(* The invariant holds in every reachable state.                           *)
LEMMA InductiveInvariant == Spec => []IInv
<1>1. Init => IInv
  <2> SUFFICES ASSUME Init PROVE IInv
    OBVIOUS
  <2>1. Idle \in Tasks /\ Idle.pc = "idle"
    BY TaskTypes
  <2>2. LeftTyped
    BY FailoverAssumption DEF Init, Bounds, LeftTyped
  <2>3. LockTyped /\ RouteTyped /\ WorldTyped /\ BooksTyped /\ TaskTyped
    BY <2>1 DEF Init, LockTyped, RouteTyped, WorldTyped, BooksTyped, TaskTyped, Statuses
  <2>4. \A a \in Agents, l \in Loops : TaskOf(a, l) = Idle
    BY DEF Init, TaskOf
  <2>5. DownForgets
    BY <2>4 DEF Init, DownForgets, Forgotten
  <2>6. StandDownFlagged
    BY <2>1, <2>4 DEF StandDownFlagged, Loops
  <2> QED
    BY <2>2, <2>3, <2>5, <2>6, Parts DEF IInv
<1> QED
  BY <1>1, InvStep, PTL DEF Spec

(* Every reachable state is well typed; a process that does not run has    *)
(* nothing in memory.                                                      *)
THEOREM TypeCorrect == Spec => []TypeOK
  BY InductiveInvariant, PTL DEF IInv

(* Whenever the stand-down is about to release the Lease, the flag that    *)
(* stops the loops is up.                                                  *)
THEOREM FlagBeforeRelease == Spec => []StandDownFlagged
  BY InductiveInvariant, PTL DEF IInv

(* The agent of the zone keeps a live Lease until it stands down or is told*)
(* to stop, whatever its loops, its replacement and stand-ins do.          *)
THEOREM OwnAgentKeepsLease == Spec => ServingKeepsLease
<1>1. IInv /\ [Next]_vars =>
        [live /\ holder \in Own /\ holder' # holder
           => holder \in draining \/ status[holder] # "up"]_vars
  BY LockMoves, KeepStep DEF IInv
<1> QED
  BY <1>1, InductiveInvariant, PTL DEF Spec, ServingKeepsLease

(* Loops, takeovers and releases use the Lease as the lock of LeaseLock,   *)
(* which internal/lease implements.                                        *)
THEOREM FailoverUsesLock == Spec => UsesLock
<1>1. Init => Lock!LockInit
  BY DEF Init, Lock!LockInit
<1>2. IInv /\ [Next]_vars => [Lock!LockNext]_(Lock!lockVars)
  BY LockMoves, LockStep DEF IInv
<1> QED
  BY <1>1, <1>2, InductiveInvariant, PTL DEF Spec, UsesLock, Lock!LockSpec
-----------------------------------------------------------------------------
(* What a step does to goroutines, routes and books of others: the         *)
(* footprint of the agent that takes it.                                   *)

Turn(b, l, r) ==
    \A c \in Agents, m \in Loops :
       TaskOf(c, m)' = IF c = b /\ m = l THEN r ELSE TaskOf(c, m)
Claiming(b, l) == TaskOf(b, l).pc \in {"discover", "claim"}
MayWrite(b) == \E l \in Loops : TaskOf(b, l).pc = "claim"
MayTake(b) == b \in Foreign \/ \E l \in Loops : TaskOf(b, l).pc = "ensure"
Footprint(b) ==
    /\ \A c \in Agents \ {b} :
          covers'[c] = covers[c] /\ \A l \in Loops : TaskOf(c, l)' = TaskOf(c, l)
    /\ \A l \in Loops : Claiming(b, l)' => Claiming(b, l) \/ holder' = b
    /\ \A t \in Tables : route'[t] = route[t] \/ (route'[t] = b /\ MayWrite(b))
    /\ holder' \in {holder, None} \/ (holder' = b /\ MayTake(b))
    /\ draining' \subseteq draining \cup cordoned

(* Where a goroutine goes, all the others stay.                            *)
LEMMA Turns ==
    ASSUME TypeOK, NEW b \in Agents, NEW l \in Loops
    PROVE  /\ \A r : Goto(b, l, r) => Turn(b, l, r)
           /\ \A r : Continue(b, l, r) => Turn(b, l, r) \/ Turn(b, l, Idle)
           /\ Finish(b, l) => Turn(b, l, Idle)
           /\ UNCHANGED task => Turn(b, l, TaskOf(b, l))
<1>1. \A r : Goto(b, l, r) => Turn(b, l, r)
  BY DEF TypeOK, Goto, Turn, TaskOf
<1>2. UNCHANGED task => Turn(b, l, TaskOf(b, l))
  BY DEF Turn, TaskOf
<1> QED
  BY <1>1, <1>2 DEF Continue, Unless, Finish

(* A step of one goroutine that starts no claim without taking the Lease   *)
(* leaves such a footprint.                                                *)
LEMMA OneTurn ==
    ASSUME TypeOK, NEW b \in Agents, NEW l \in Loops, NEW r,
           Turn(b, l, r), r.pc \in {"discover", "claim"} => Claiming(b, l) \/ holder' = b,
           \A c \in Agents \ {b} : covers'[c] = covers[c]
    PROVE  /\ \A c \in Agents \ {b} :
                 covers'[c] = covers[c] /\ \A m \in Loops : TaskOf(c, m)' = TaskOf(c, m)
           /\ \A m \in Loops : Claiming(b, m)' => Claiming(b, m) \/ holder' = b
  BY DEF Turn, Claiming

(* The own-zone loops.                                                     *)
LEMMA OwnFootprint ==
    ASSUME IInv, NEW b \in Own, NEW l \in {"lease", "reconcile"},
           ServeOwn(b, l) \/ OwnFaults(b, l)
    PROVE  Footprint(b)
<1> USE FailoverAssumption
<1>0. TypeOK /\ b \in Agents /\ l \in Loops /\ TaskOf(b, l) \in Tasks
  BY Goes DEF IInv, Loops
<1>1. CASE OwnTick(b, l)
  <2>1. Turn(b, l, AtPc("ensure")) \/ Turn(b, l, TaskOf(b, l))
    BY <1>0, <1>1, Turns DEF OwnTick
  <2> QED
    BY <1>0, <1>1, <2>1, OneTurn, Places
       DEF OwnTick, Footprint, books, lock, Drop, Claiming
<1>2. CASE Held(b, l)
  <2>1. \E r : Turn(b, l, r) /\ holder' = b
    BY <1>0, <1>2, Turns DEF Held, TakeLease
  <2> QED
    BY <1>0, <1>2, <2>1, OneTurn DEF Held, At, TakeLease, Footprint, MayTake, books
<1>3. CASE NotHeld(b, l) \/ EnsureFault(b, l)
  <2>1. /\ Turn(b, l, Idle) /\ UNCHANGED <<covers, route, draining>>
        /\ holder' \in {holder, b} /\ TaskOf(b, l).pc = "ensure"
    BY <1>0, <1>3, Turns
       DEF NotHeld, EnsureFault, StandBy, At, TakeLease, Drop, books, lock
  <2> QED
    BY <1>0, <2>1, OneTurn, Places DEF Footprint, MayTake
<1>4. CASE DiscoverOwn(b, l)
  <2>1. /\ \E r : Turn(b, l, r) /\ Claiming(b, l)
        /\ UNCHANGED <<covers, route, draining, holder>>
    BY <1>0, <1>4, Turns DEF DiscoverOwn, At, Claiming, books, lock
  <2> QED
    BY <1>0, <2>1, OneTurn DEF Footprint
<1>5. CASE ClaimOwn(b, l)
  <2>1. /\ \E r : Turn(b, l, r) /\ TaskOf(b, l).pc = "claim"
        /\ \E t \in Tables : route' = [route EXCEPT ![t] = b]
        /\ UNCHANGED <<covers, draining, holder>>
    BY <1>0, <1>5, Turns, Goes DEF ClaimOwn, At, books, lock
  <2> QED
    BY <1>0, <2>1, OneTurn DEF Footprint, MayWrite, Claiming, TypeOK
<1>6. CASE ConfirmOwn(b, l) \/ ClaimFault(b, l)
  <2>1. Turn(b, l, Idle) /\ UNCHANGED <<covers, route, draining, holder>>
    BY <1>0, <1>6, Turns DEF ConfirmOwn, ClaimFault, books, lock
  <2> QED
    BY <1>0, <2>1, OneTurn, Places DEF Footprint
<1> QED
  BY <1>1, <1>2, <1>3, <1>4, <1>5, <1>6 DEF ServeOwn, OwnFaults

(* Taking the Lease changes goroutines of the agent that takes it.         *)
LEMMA TakeTurn ==
    ASSUME TypeOK, NEW b \in Agents, NEW l \in Loops, NEW r, TakeFor(b, l, r)
    PROVE  /\ holder' = b
           /\ \A c \in Agents \ {b}, m \in Loops : TaskOf(c, m)' = TaskOf(c, m)
           /\ TaskOf(b, l)' = r
           /\ \A m \in Loops \ {l} :
                 \/ TaskOf(b, m)' = TaskOf(b, m)
                 \/ m \in Overtakable(b, l) /\ TaskOf(b, m)' = Refused(m)
  BY DEF TakeFor, TakeLease, TaskOf

(* The goroutines of a stand-in.                                           *)
LEMMA StandInFootprint ==
    ASSUME IInv, NEW b \in Foreign, NEW k \in {"reconcile", "peer"},
           StandIn(b) \/ Takeover(b, k) \/ StandInFaults(b, k)
    PROVE  Footprint(b)
<1>0. /\ TypeOK /\ b \in Agents /\ k \in Loops /\ TaskOf(b, k) \in Tasks
      /\ {"lease", "reconcile", "peer"} \subseteq Loops
  BY Goes DEF IInv, Loops, Foreign
<1>1. CASE StandInAsk(b)
  <2>1. Turn(b, "lease", AtPc("renew")) /\ UNCHANGED <<covers, route, draining, holder>>
    BY <1>0, <1>1, Turns DEF StandInAsk, books, lock
  <2> QED
    BY <1>0, <2>1, OneTurn, Places DEF Footprint
<1>a. ASSUME NEW l \in Loops, NEW r, TakeFor(b, l, r), UNCHANGED <<covers, route, draining>>
      PROVE  Footprint(b)
  BY <1>0, <1>a, TakeTurn DEF Footprint, MayTake
<1>12. CASE StandInRenew(b) \/ RenewFault(b)
  <2>1. /\ \/ Turn(b, "lease", AtPc("yield")) /\ UNCHANGED holder
           \/ Turn(b, "lease", Idle) /\ UNCHANGED holder
           \/ TakeFor(b, "lease", Idle)
        /\ UNCHANGED <<covers, route, draining>>
    BY <1>0, <1>12, Turns DEF StandInRenew, RenewFault, books, lock
  <2> QED
    BY <1>0, <1>a, <2>1, OneTurn, Places DEF Footprint
<1>2. CASE StandInYield(b)
  <2>1. /\ Turn(b, "lease", Idle) /\ \E S : covers' = [covers EXCEPT ![b] = S]
        /\ UNCHANGED <<route, draining, holder>>
    BY <1>0, <1>2, Turns DEF StandInYield, Cover, lock
  <2> QED
    BY <1>0, <2>1, OneTurn, Places DEF Footprint, TypeOK
<1>3. CASE StandInTick(b)
  <2> DEFINE r == IF Astray(b) = {} THEN Vacated(b)
                  ELSE [AtPc("vacate") EXCEPT !.todo = Astray(b)]
  <2>1. Goto(b, "reconcile", r) /\ UNCHANGED <<covers, route, draining, holder>>
    BY <1>3 DEF StandInTick, books, lock
  <2>2. r.pc \notin {"discover", "claim"}
    BY Places DEF Vacated
  <2> HIDE DEF r
  <2>3. Turn(b, "reconcile", r)
    BY <1>0, <2>1, Turns
  <2> QED
    BY <1>0, <2>1, <2>2, <2>3, OneTurn DEF Footprint
<1>4. CASE Vacate(b)
  <2>1. /\ Turn(b, "reconcile", Vacated(b)) \/ Turn(b, "reconcile", Idle)
        /\ \E S : covers' = [covers EXCEPT ![b] = S]
        /\ UNCHANGED <<route, draining, holder>>
    BY <1>0, <1>4, Turns DEF Vacate, Cover, lock
  <2>2. Vacated(b).pc \notin {"discover", "claim"}
    BY Places DEF Vacated
  <2> QED
    BY <1>0, <2>1, <2>2, OneTurn, Places DEF Footprint, TypeOK
<1>5. CASE Sweep(b) \/ Check(b) \/ ReadFault(b)
  <2>1. /\ \E pc \in {"check", "acquire", "sweep", "idle"} :
              Turn(b, "reconcile", AtPc(pc)) \/ Turn(b, "reconcile", Idle)
        /\ UNCHANGED <<covers, route, draining, holder>>
    BY <1>0, <1>5, Turns DEF Sweep, Check, ReadFault, Vacated, books, lock
  <2> QED
    BY <1>0, <2>1, OneTurn, Places DEF Footprint
<1>6. CASE OnFailure(b) \/ DiscoverPeer(b)
  <2>1. /\ \/ \E pc \in {"acquire", "idle"} : Turn(b, "peer", AtPc(pc))
           \/ Turn(b, "peer", TaskOf(b, "peer"))
        /\ UNCHANGED <<covers, route, draining, holder>>
    BY <1>0, <1>6, Turns DEF OnFailure, DiscoverPeer, books, lock
  <2> QED
    BY <1>0, <2>1, OneTurn, Places DEF Footprint, Claiming
<1>7. CASE Acquire(b, k) \/ AcquireFault(b, k)
  <2>1. /\ \/ Turn(b, k, Idle) /\ UNCHANGED holder
           \/ \E r : TakeFor(b, k, r)
        /\ UNCHANGED <<covers, route, draining>>
    BY <1>0, <1>7, Turns DEF Acquire, AcquireFault, books, lock
  <2> QED
    BY <1>0, <1>a, <2>1, OneTurn, Places DEF Footprint
<1>8. CASE ClaimSkipped(b, k)
  <2>1. /\ \E r : Turn(b, k, r) /\ Claiming(b, k)
        /\ UNCHANGED <<covers, route, draining, holder>>
    BY <1>0, <1>8, Turns DEF ClaimSkipped, At, Claiming, books, lock
  <2> QED
    BY <1>0, <2>1, OneTurn DEF Footprint
<1>9. CASE DiscoverFault(b, k)
  <2>1. Turn(b, k, Idle) /\ UNCHANGED <<covers, route, draining, holder>>
    BY <1>0, <1>9, Turns DEF DiscoverFault, books, lock
  <2> QED
    BY <1>0, <2>1, OneTurn, Places DEF Footprint
<1>10. CASE ClaimForeign(b, k)
  <2>1. /\ \E r : Turn(b, k, r) /\ TaskOf(b, k).pc = "claim"
        /\ \E t \in Tables : route' = [route EXCEPT ![t] = b]
        /\ UNCHANGED <<covers, draining, holder>>
    BY <1>0, <1>10, Turns, Goes DEF ClaimForeign, At, books, lock
  <2> QED
    BY <1>0, <2>1, OneTurn DEF Footprint, MayWrite, Claiming, TypeOK
<1>11. CASE Register(b, k)
  <2>1. /\ Turn(b, k, Idle) /\ \E S : covers' = [covers EXCEPT ![b] = S]
        /\ UNCHANGED <<route, draining, holder>>
    BY <1>0, <1>11, Turns DEF Register, Cover, lock
  <2> QED
    BY <1>0, <2>1, OneTurn, Places DEF Footprint, TypeOK
<1> QED
  BY <1>1, <1>2, <1>3, <1>4, <1>5, <1>6, <1>7, <1>8, <1>9, <1>10, <1>11, <1>12
     DEF StandIn, KeepCover, LookAround, Takeover, StandInFaults

(* Drain monitor and process life.                                         *)
LEMMA LifeFootprint ==
    ASSUME IInv, NEW b \in Agents,
           \/ Drain(b) \/ DrainFault(b) \/ Start(b) \/ StartUnprimed(b) \/ Crash(b)
           \/ Stop(b) \/ Shutdown(b) \/ StopFault(b) \/ Cordon(b)
    PROVE  Footprint(b)
<1>0. TypeOK /\ {"drain", "reconcile"} \subseteq Loops
  BY DEF IInv, Loops
<1>1. CASE DrainCheck(b)
  <2>1. /\ Turn(b, "drain", AtPc("release")) \/ Turn(b, "drain", TaskOf(b, "drain"))
        /\ UNCHANGED <<covers, route, holder>> /\ draining' \subseteq draining \cup cordoned
    BY <1>0, <1>1, Turns DEF DrainCheck, books, lock
  <2> QED
    BY <1>0, <2>1, OneTurn, Places DEF Footprint, Claiming
<1>2. CASE DrainRelease(b) \/ DrainFault(b)
  <2>1. /\ Turn(b, "drain", Idle) /\ UNCHANGED <<covers, route, draining>>
        /\ holder' \in {holder, None}
    BY <1>0, <1>2, Turns DEF DrainRelease, DrainFault, Release, FreeLease, books, lock
  <2> QED
    BY <1>0, <2>1, OneTurn, Places DEF Footprint
<1>3. CASE Start(b) \/ StartUnprimed(b)
  <2>1. /\ \/ Turn(b, "drain", AtPc("release")) \/ Turn(b, "reconcile", AtPc("ensure"))
           \/ Turn(b, "reconcile", TaskOf(b, "reconcile"))
        /\ UNCHANGED <<covers, route, holder>> /\ draining' \subseteq draining \cup cordoned
    BY <1>0, <1>3, Turns DEF Start, StartUnprimed, books, lock
  <2> QED
    BY <1>0, <2>1, OneTurn, Places DEF Footprint, Claiming
<1>4. CASE Crash(b) \/ Exit(b)
  <2>1. /\ \A c \in Agents, m \in Loops : TaskOf(c, m)' = IF c = b THEN Idle ELSE TaskOf(c, m)
        /\ covers' = [covers EXCEPT ![b] = {}]
        /\ UNCHANGED <<route, holder>> /\ draining' \subseteq draining
    BY <1>4 DEF Crash, Exit, Gone, TaskOf, lock
  <2> QED
    BY <1>0, <2>1, Places DEF Footprint, Claiming, TypeOK
<1>5. CASE Stop(b) \/ StopRelease(b) \/ StopFault(b) \/ Cordon(b)
  <2>1. UNCHANGED <<covers, route, draining, task>> /\ holder' \in {holder, None}
    BY <1>5 DEF Stop, StopRelease, StopFault, Cordon, Release, FreeLease, books, lock
  <2> QED
    BY <2>1 DEF Footprint, Claiming, TaskOf
<1> QED
  BY <1>1, <1>2, <1>3, <1>4, <1>5 DEF Drain, Shutdown

(* Every step is of one agent and leaves its footprint, except that time   *)
(* passes or nothing happens.                                              *)
LEMMA Footprints ==
    ASSUME IInv, [Next]_vars
    PROVE  \/ \E b \in Agents : Footprint(b)
           \/ UNCHANGED <<covers, route, draining, task, holder>>
<1>1. Own \subseteq Agents /\ Foreign \subseteq Agents
  BY FailoverAssumption DEF Foreign
<1>2. Expire \/ UNCHANGED vars => UNCHANGED <<covers, route, draining, task, holder>>
  BY DEF Expire, vars, books, lock
<1> QED
  BY <1>1, <1>2, OwnFootprint, StandInFootprint, LifeFootprint DEF Next
-----------------------------------------------------------------------------
(* Nobody gets the Lease of an agent that is well, and no claim is started *)
(* that is not its own.                                                    *)

(* What the live Lease of such an agent needs: an agent of the zone is not *)
(* preempted, and a stand-in renews while it covers the zone.              *)
Keeper(a) == a \in Own \/ (covers[a] # {} /\ holder' \notin Own)

LEMMA FirmLock ==
    ASSUME IInv, [Next]_vars, NEW a \in Agents, Firm(a), Undisturbed(a), Keeper(a)
    PROVE  holder' = a /\ live' = TRUE
<1>0. LeftTyped /\ LockTyped
  BY Parts DEF IInv
<1>1. a # None /\ None \notin Own
  BY FailoverAssumption
<1>2. ASSUME NEW b \in Agents, Takes(b) PROVE holder' = a /\ live' = TRUE
  BY <1>1, <1>2 DEF Takes, CanAcquire, CanRenew, TakeLease, Firm, Keeper
<1>3. ASSUME NEW b \in Agents, Frees(b) PROVE FALSE
  BY <1>3 DEF Frees, Firm
<1>4. ASSUME Expire PROVE FALSE
  <2>1. Renewing(holder)
    BY DEF Firm, Keeper, Renewing
  <2>2. Spend("stalls")
    BY <1>4, <2>1 DEF Expire
  <2>3. left.stalls \in Nat /\ left'.stalls = left.stalls - 1
    BY <1>0, <2>2 DEF Spend, LeftTyped
  <2> QED
    BY <2>3 DEF Undisturbed
<1>5. UNCHANGED lock => holder' = a /\ live' = TRUE
  BY <1>0 DEF Firm, lock, LockTyped
<1> QED
  BY <1>2, <1>3, <1>4, <1>5, LockMoves DEF LockTurn, IInv

LEMMA FirmStep ==
    ASSUME IInv, [Next]_vars, NEW a \in Agents, Firm(a), Undisturbed(a), Keeper(a)
    PROVE  Firm(a)' /\ Late(a)' \subseteq Late(a)
<1>1. holder' = a /\ live' = TRUE
  BY FirmLock
<1>2. draining' \subseteq draining \cup cordoned
  BY Footprints DEF Footprint
<1>3. Firm(a)'
  BY <1>1, <1>2 DEF Firm, Undisturbed
<1>4. ASSUME NEW c \in Agents \ {a}, NEW l \in Loops, Claiming(c, l)' PROVE Claiming(c, l)
  <2>1. CASE UNCHANGED task
    BY <1>4, <2>1 DEF Claiming, TaskOf
  <2>2. ASSUME NEW b \in Agents, Footprint(b) PROVE Claiming(c, l)
    <3>1. c # b => TaskOf(c, l)' = TaskOf(c, l)
      BY <2>2 DEF Footprint
    <3>2. c = b => Claiming(c, l)
      BY <2>2, <1>1, <1>4 DEF Footprint
    <3> QED
      BY <3>1, <3>2, <1>4 DEF Claiming
  <2> QED
    BY <2>1, <2>2, Footprints
<1>5. \A p \in Agents \X Loops : p \in Late(a) <=> p[1] # a /\ Claiming(p[1], p[2])
  BY DEF Late, Claiming, TaskOf
<1>6. \A p \in Agents \X Loops : p \in Late(a)' <=> p[1] # a /\ Claiming(p[1], p[2])'
  BY DEF Late, Claiming, TaskOf
<1>7. Late(a)' \subseteq Agents \X Loops
  BY DEF Late
<1> QED
  BY <1>3, <1>4, <1>5, <1>6, <1>7

(* A route changes only by a claim under way.                              *)
LEMMA RouteStep ==
    ASSUME IInv, [Next]_vars, NEW t \in Tables, NEW a \in Agents, route'[t] \notin {route[t], a}
    PROVE  \E p \in Late(a) : route'[t] = p[1]
<1>1. PICK b \in Agents : Footprint(b)
  BY Footprints
<1>2. route'[t] = b /\ b # a /\ MayWrite(b)
  BY <1>1 DEF Footprint
<1>3. PICK l \in Loops : TaskOf(b, l).pc = "claim"
  BY <1>2 DEF MayWrite
<1>4. <<b, l>> \in Late(a)
  BY <1>2, <1>3 DEF Late, TaskOf
<1> QED
  BY <1>2, <1>4

(* A healthy agent of the zone keeps its live Lease, and only claims that  *)
(* were on their way can still repoint its routes.                         *)
THEOREM OnlyLateClaimsDisturb == Spec => OnlyLateClaims
<1>1. IInv /\ [Next]_vars =>
        [\A a \in Own : Firm(a) /\ Undisturbed(a) =>
            /\ Firm(a)' /\ Late(a)' \subseteq Late(a)
            /\ \A t \in Tables : \/ route'[t] \in {route[t], a}
                                  \/ \E p \in Late(a) : route'[t] = p[1]]_vars
  BY FirmStep, RouteStep, FailoverAssumption DEF Keeper
<1> QED
  BY <1>1, InductiveInvariant, PTL DEF Spec, OnlyLateClaims

-----------------------------------------------------------------------------
(* A stand-in that covers the zone.                                        *)

(* What it has registered, and what its goroutines would drop.             *)
WellCovered(f) ==
    /\ covers[f] = Tables
    /\ TaskOf(f, "lease").pc # "yield"
    /\ TaskOf(f, "reconcile").pc = "vacate" => TaskOf(f, "reconcile").todo = {}

(* Its own steps keep it: it has no table to vacate, no reason to yield,   *)
(* and a takeover under way only adds tables.                              *)
LEMMA CoverStep ==
    ASSUME IInv, NEW f \in Foreign, WellCovered(f), ServedBy(f),
           NEW k \in {"reconcile", "peer"},
           StandIn(f) \/ Takeover(f, k) \/ StandInFaults(f, k)
    PROVE  WellCovered(f)' \/ Overtaken(f)
<1>0. /\ TypeOK /\ f \in Agents /\ k \in Loops /\ TaskOf(f, k) \in Tasks
      /\ {"lease", "reconcile", "peer"} \subseteq Loops
      /\ TaskOf(f, k).done \subseteq Tables
  BY Goes DEF IInv, Loops, Foreign
<1>1. CASE StandInAsk(f)
  <2>1. Turn(f, "lease", AtPc("renew")) /\ UNCHANGED covers
    BY <1>0, <1>1, Turns DEF StandInAsk, books
  <2> QED
    BY <1>0, <2>1, Places DEF WellCovered, Turn
<1>12. CASE StandInRenew(f) \/ RenewFault(f)
  <2>1. /\ Turn(f, "lease", Idle) \/ TakeFor(f, "lease", Idle)
        /\ UNCHANGED covers
    BY <1>0, <1>12, Turns DEF StandInRenew, RenewFault, CanRenew, ServedBy, books
  <2>2. TaskOf(f, "lease")' = Idle /\ (TaskOf(f, "reconcile")' = TaskOf(f, "reconcile")
                                      \/ TaskOf(f, "reconcile")' = Refused("reconcile"))
    BY <1>0, <2>1, TakeTurn DEF Turn
  <2> QED
    BY <2>1, <2>2, Places DEF WellCovered, Refused
<1>2. CASE StandInYield(f)
  BY <1>2 DEF StandInYield, At, WellCovered
<1>3. CASE StandInTick(f)
  <2>1. Astray(f) = {}
    BY DEF Astray, WellCovered, ServedBy
  <2>2. Turn(f, "reconcile", Vacated(f)) /\ UNCHANGED covers
    BY <1>0, <1>3, <2>1, Turns DEF StandInTick, books
  <2> QED
    BY <1>0, <2>2, Places DEF WellCovered, Turn, Vacated
<1>4. CASE Vacate(f)
  <2>1. /\ Turn(f, "reconcile", Vacated(f)) \/ Turn(f, "reconcile", Idle)
        /\ covers' = [covers EXCEPT ![f] = covers[f] \ TaskOf(f, "reconcile").todo]
        /\ TaskOf(f, "reconcile").pc = "vacate"
    BY <1>0, <1>4, Turns DEF Vacate, Cover, At
  <2>2. covers'[f] = Tables
    BY <1>0, <2>1 DEF WellCovered, TypeOK
  <2> QED
    BY <1>0, <2>1, <2>2, Places DEF WellCovered, Turn, Vacated
<1>5. CASE Register(f, k)
  <2>1. /\ Turn(f, k, Idle)
        /\ covers' = [covers EXCEPT ![f] = covers[f] \cup TaskOf(f, k).done]
    BY <1>0, <1>5, Turns DEF Register, Cover
  <2>2. covers'[f] = Tables
    BY <1>0, <2>1 DEF WellCovered, TypeOK
  <2> QED
    BY <1>0, <2>1, <2>2, Places DEF WellCovered, Turn
<1>6. ASSUME NEW l \in {"reconcile", "peer"}, NEW r, Turn(f, l, r), r.pc # "vacate",
             UNCHANGED covers
      PROVE  WellCovered(f)'
  BY <1>0, <1>6 DEF WellCovered, Turn
<1>7. CASE Sweep(f) \/ Check(f) \/ ReadFault(f)
  <2>1. /\ \E pc \in {"check", "acquire", "sweep", "idle"} :
              Turn(f, "reconcile", AtPc(pc)) \/ Turn(f, "reconcile", Idle)
        /\ UNCHANGED covers
    BY <1>0, <1>7, Turns DEF Sweep, Check, ReadFault, Vacated, books
  <2> QED
    BY <2>1, <1>6, Places
<1>8. CASE OnFailure(f)
  <2>1. (\E pc \in {"acquire", "idle"} : Turn(f, "peer", AtPc(pc))) /\ UNCHANGED covers
    BY <1>0, <1>8, Turns DEF OnFailure, books
  <2> QED
    BY <2>1, <1>6, Places
<1>13. CASE DiscoverPeer(f)
  BY <1>13 DEF DiscoverPeer, books, WellCovered, TaskOf
<1>9. ASSUME NEW r, TakeFor(f, k, r), TaskOf(f, k).pc = "acquire", r.pc \in {"idle", "claim"},
             UNCHANGED covers
      PROVE  WellCovered(f)' \/ Overtaken(f)
  <2>1. CASE TaskOf(f, "lease")' = TaskOf(f, "lease")
    BY <1>0, <1>9, <2>1, TakeTurn, Places DEF WellCovered, Refused
  <2>2. CASE TaskOf(f, "lease")' # TaskOf(f, "lease")
    <3>1. /\ "lease" \in Overtakable(f, k) /\ TaskOf(f, "lease")' = Refused("lease")
          /\ TaskOf(f, k)' = r
      BY <1>0, <1>9, <2>2, TakeTurn
    <3>2. TaskOf(f, "lease").pc = "renew" /\ TaskOf(f, "lease")'.pc = "yield"
      BY <3>1, Places DEF Overtakable, Refused
    <3> QED
      BY <1>0, <1>9, <3>1, <3>2 DEF Overtaken
  <2> QED
    BY <2>1, <2>2
<1>10. CASE Acquire(f, k) \/ AcquireFault(f, k) \/ DiscoverFault(f, k)
  <2>1. CASE Turn(f, k, Idle) /\ UNCHANGED covers
    BY <2>1, <1>6, Places
  <2>2. CASE /\ TakeFor(f, k, Idle) \/ TakeFor(f, k, AllTables)
             /\ TaskOf(f, k).pc = "acquire" /\ UNCHANGED covers
    <3>1. Idle.pc = "idle" /\ AllTables.pc = "claim"
      BY Places DEF AllTables
    <3> QED
      BY <2>2, <3>1, <1>9
  <2> QED
    BY <1>0, <1>10, <2>1, <2>2, Turns
       DEF Acquire, AcquireFault, DiscoverFault, Unless, At, books
<1>11. CASE ClaimForeign(f, k) \/ ClaimSkipped(f, k)
  <2>1. TaskOf(f, k).pc = "claim" /\ UNCHANGED covers
    BY <1>11 DEF ClaimForeign, ClaimSkipped, At, books
  <2>2. PICK S, D : \/ Goto(f, k, [TaskOf(f, k) EXCEPT !.todo = S])
                    \/ Goto(f, k, [TaskOf(f, k) EXCEPT !.todo = S, !.done = D])
    BY <1>11 DEF ClaimForeign, ClaimSkipped
  <2>3. /\ [TaskOf(f, k) EXCEPT !.todo = S].pc = "claim"
        /\ [TaskOf(f, k) EXCEPT !.todo = S, !.done = D].pc = "claim"
    BY <1>0, <2>1, Places
  <2>4. PICK r : Goto(f, k, r) /\ r.pc = "claim"
    BY <2>2, <2>3
  <2>5. Turn(f, k, r) /\ r.pc # "vacate"
    BY <2>4, <1>0, Turns
  <2> QED
    BY <2>1, <2>5, <1>6
<1> QED
  BY <1>1, <1>2, <1>3, <1>4, <1>5, <1>7, <1>8, <1>10, <1>11, <1>12, <1>13
     DEF StandIn, KeepCover, LookAround, Takeover, StandInFaults

(* It goes on as long as it is well and no agent of the zone has the Lease.*)
LEMMA CoverKept ==
    ASSUME IInv, [Next]_vars, NEW f \in Foreign, Covering(f), Undisturbed(f), holder' \notin Own
    PROVE  Covering(f)' \/ Overtaken(f)
<1>0. /\ f \in Agents /\ Firm(f) /\ Late(f) = {} /\ ServedBy(f) /\ WellCovered(f)
      /\ {"lease", "reconcile"} \subseteq Loops
  BY DEF Covering, WellCovered, Foreign, Loops
<1>1. Firm(f)' /\ Late(f)' = {}
  <2>1. Keeper(f)
    BY <1>0, FailoverAssumption DEF Keeper, WellCovered
  <2> QED
    BY <1>0, <2>1, FirmStep
<1>2. ServedBy(f)'
  <2>1. \A t \in Tables : route'[t] = f
    BY <1>0, RouteStep DEF ServedBy
  <2> QED
    BY <1>1, <2>1 DEF ServedBy, Firm
<1>3. ASSUME NEW b \in Agents \ {f}, Footprint(b) PROVE WellCovered(f)'
  BY <1>0, <1>3 DEF Footprint, WellCovered
<1>4. ASSUME UNCHANGED <<covers, task>> PROVE WellCovered(f)'
  BY <1>0, <1>4 DEF WellCovered, TaskOf
<1>5. ASSUME NEW k \in {"reconcile", "peer"},
             StandIn(f) \/ Takeover(f, k) \/ StandInFaults(f, k)
      PROVE  WellCovered(f)' \/ Overtaken(f)
  BY <1>0, <1>5, CoverStep
<1>6. ASSUME Drain(f) \/ DrainFault(f) \/ Start(f) \/ StartUnprimed(f) PROVE WellCovered(f)'
  <2>1. /\ UNCHANGED covers
        /\ \/ \E r : Goto(f, "drain", r)
           \/ UNCHANGED task
    BY <1>0, <1>6 DEF Drain, DrainCheck, DrainRelease, DrainFault, Start, StartUnprimed, Finish,
         Firm, books, Foreign
  <2>2. \A r : Goto(f, "drain", r) => /\ TaskOf(f, "lease")' = TaskOf(f, "lease")
                                     /\ TaskOf(f, "reconcile")' = TaskOf(f, "reconcile")
    BY DEF Goto, TaskOf, IInv, TypeOK
  <2> QED
    BY <1>0, <1>4, <2>1, <2>2 DEF WellCovered
<1>7. ASSUME Crash(f) \/ Exit(f) PROVE FALSE
  BY <1>0, <1>7 DEF Crash, Exit, Gone, Undisturbed, IInv, TypeOK
<1>8. ASSUME NEW b \in Agents, Stop(b) \/ StopRelease(b) \/ StopFault(b) \/ Cordon(b)
      PROVE  WellCovered(f)'
  BY <1>4, <1>8 DEF Stop, StopRelease, StopFault, Cordon, books
<1>9. Expire \/ UNCHANGED vars => UNCHANGED <<covers, task>>
  BY DEF Expire, vars, books
<1>10. WellCovered(f)' \/ Overtaken(f)
  <2>1. CASE \E b \in Agents \ {f} : Footprint(b)
    BY <2>1, <1>3
  <2>2. CASE ~\E b \in Agents \ {f} : Footprint(b)
    <3>1. ASSUME NEW b \in Own, NEW l \in {"lease", "reconcile"},
                 ServeOwn(b, l) \/ OwnFaults(b, l)
          PROVE  FALSE
      BY <3>1, <2>2, OwnFootprint, FailoverAssumption DEF Foreign
    <3>2. ASSUME NEW b \in Foreign, NEW k \in {"reconcile", "peer"},
                 StandIn(b) \/ Takeover(b, k) \/ StandInFaults(b, k)
          PROVE  b = f
      BY <3>2, <2>2, StandInFootprint DEF Foreign
    <3>3. ASSUME NEW b \in Agents,
                 \/ Drain(b) \/ DrainFault(b) \/ Start(b) \/ StartUnprimed(b) \/ Crash(b)
                 \/ Stop(b) \/ Shutdown(b) \/ StopFault(b) \/ Cordon(b)
          PROVE  b = f
      BY <3>3, <2>2, LifeFootprint
    <3> QED
      BY <3>1, <3>2, <3>3, <1>4, <1>5, <1>6, <1>7, <1>8, <1>9 DEF Next, Shutdown
  <2> QED
    BY <2>1, <2>2
<1> QED
  BY <1>1, <1>2, <1>10 DEF Covering, WellCovered

(* A stand-in that covers the zone is not brought to drop it by reports and*)
(* takeovers, its own or others'.                                          *)
THEOREM StandInGoesOn == Spec => CoverStays
<1>1. IInv /\ [Next]_vars =>
        [\A f \in Foreign :
            Covering(f) /\ Undisturbed(f) /\ holder' \notin Own
                => Covering(f)' \/ Overtaken(f)]_vars
  BY CoverKept
<1> QED
  BY <1>1, InductiveInvariant, PTL DEF Spec, CoverStays

-----------------------------------------------------------------------------
(* A drained agent.                                                        *)

(* No goroutine of an agent that has stood down starts a round.            *)
LEMMA OutStep ==
    ASSUME IInv, [Next]_vars, NEW a \in Own, StoodDown(a), a \in draining'
    PROVE  /\ StoodDown(a)'
           /\ \A t \in Tables : route'[t] = a => route[t] = a
<1>0. /\ a \in Agents /\ a # None /\ a \notin Foreign /\ a \in draining /\ holder # a
      /\ \A l \in Loops : TaskOf(a, l).pc = "idle"
      /\ Loops = {"lease", "reconcile", "peer", "drain"} /\ status[a] # "down"
  BY FailoverAssumption DEF StoodDown, Foreign, IInv, TypeOK, Forgotten, Loops
<1>1. \/ \E b \in Agents : Footprint(b)
      \/ UNCHANGED <<covers, route, draining, task, holder>>
  BY Footprints
<1>2. holder' # a
  BY <1>0, <1>1 DEF Footprint, MayTake
<1>3. \A t \in Tables : route'[t] = a => route[t] = a
  BY <1>0, <1>1 DEF Footprint, MayWrite
<1>4. (\A l \in Loops : TaskOf(a, l)' = TaskOf(a, l)) => StoodDown(a)'
  BY <1>0, <1>2 DEF StoodDown
<1>5. ASSUME NEW b \in Agents \ {a}, Footprint(b) PROVE StoodDown(a)'
  BY <1>0, <1>4, <1>5 DEF Footprint
<1>6. UNCHANGED task => StoodDown(a)'
  BY <1>4 DEF TaskOf
<1>7. ASSUME NEW l \in {"lease", "reconcile"}, ServeOwn(a, l) \/ OwnFaults(a, l)
      PROVE  UNCHANGED task
  BY <1>0, <1>7 DEF ServeOwn, OwnFaults, OwnTick, Held, NotHeld, DiscoverOwn, ClaimOwn,
       ConfirmOwn, EnsureFault, ClaimFault, At
<1>8. ASSUME Drain(a) \/ DrainFault(a) \/ Start(a) \/ StartUnprimed(a) PROVE FALSE
  BY <1>0, <1>8 DEF Drain, DrainCheck, DrainRelease, DrainFault, Start, StartUnprimed, At
<1>9. ASSUME Crash(a) \/ Exit(a) PROVE FALSE
  BY <1>9 DEF Crash, Exit, Gone
<1>10. ASSUME NEW b \in Agents, Stop(b) \/ StopRelease(b) \/ StopFault(b) \/ Cordon(b)
       PROVE  UNCHANGED task
  BY <1>10 DEF Stop, StopRelease, StopFault, Cordon
<1>11. Expire \/ UNCHANGED vars => UNCHANGED task
  BY DEF Expire, vars
<1>12. StoodDown(a)'
  <2>1. CASE \E b \in Agents \ {a} : Footprint(b)
    BY <2>1, <1>5
  <2>2. CASE ~\E b \in Agents \ {a} : Footprint(b)
    <3>1. ASSUME NEW b \in Own, NEW l \in {"lease", "reconcile"},
                 ServeOwn(b, l) \/ OwnFaults(b, l)
          PROVE  b = a
      BY <3>1, <2>2, OwnFootprint, FailoverAssumption
    <3>2. ASSUME NEW b \in Foreign, NEW k \in {"reconcile", "peer"},
                 StandIn(b) \/ Takeover(b, k) \/ StandInFaults(b, k)
          PROVE  FALSE
      BY <3>2, <2>2, <1>0, StandInFootprint DEF Foreign
    <3>3. ASSUME NEW b \in Agents,
                 \/ Drain(b) \/ DrainFault(b) \/ Start(b) \/ StartUnprimed(b) \/ Crash(b)
                 \/ Stop(b) \/ Shutdown(b) \/ StopFault(b) \/ Cordon(b)
          PROVE  b = a
      BY <3>3, <2>2, LifeFootprint
    <3> QED
      BY <3>1, <3>2, <3>3, <1>6, <1>7, <1>8, <1>9, <1>10, <1>11 DEF Next, Shutdown
  <2> QED
    BY <2>1, <2>2
<1> QED
  BY <1>3, <1>12

(* A drained agent that has stood down takes back neither Lease nor route. *)
THEOREM DrainedIsOut == Spec => StoodDownStaysOut
<1>1. IInv /\ [Next]_vars =>
        [\A a \in Own : StoodDown(a) /\ a \in draining' =>
            StoodDown(a)' /\ \A t \in Tables : route'[t] = a => route[t] = a]_vars
  BY OutStep
<1> QED
  BY <1>1, InductiveInvariant, PTL DEF Spec, StoodDownStaysOut
=============================================================================
