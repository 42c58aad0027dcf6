------------------------------ MODULE Failover ------------------------------
(***************************************************************************)
(* Who serves ONE availability zone: the agents of the zone (Own), agents  *)
(* of other zones that stand in for them, the zone's Lease and the EC2     *)
(* default routes of its route tables.                                     *)
(*                                                                         *)
(* An agent is several goroutines that share its state: the lease loop, the*)
(* reconcile loop, the peer callbacks and the drain monitor (agent.Run).   *)
(* Every Lease call and EC2 call is a step of its own, and so are the      *)
(* checks of flags and books between two calls: whatever was checked may   *)
(* have changed when it is acted on.  The calls on the Lease are one step  *)
(* each: Lease.tla shows that they behave as the lock of LeaseLock, whose  *)
(* steps UsesLock compares these with.                                     *)
(*                                                                         *)
(* The agents run in auto mode.  The bounds Max... say how often the world *)
(* misbehaves in one behaviour.                                            *)
(***************************************************************************)
EXTENDS Naturals

CONSTANTS Agents,     \* agents, by POD_NAME
          Own,        \* those that run in the zone
          Tables,     \* the zone's managed route tables
          None,       \* no Lease holder; a route to no agent
          MaxCrashes, \* bound: processes that die without a word
          MaxStops,   \* bound: SIGTERMs and spot interruptions
          MaxCordons, \* bound: changes of a node's cordon or disruption taint
          MaxStalls,  \* bound: expiries of a Lease whose holder still renews
          MaxFaults   \* bound: failed Lease and EC2 calls

ASSUME FailoverAssumption ==
    /\ Own \subseteq Agents
    /\ Tables # {}
    /\ None \notin Agents
    /\ {MaxCrashes, MaxStops, MaxCordons, MaxStalls, MaxFaults} \subseteq Nat

VARIABLES holder,    \* the agent the Lease names; None: no Lease object
          live,      \* the Lease has not expired
          route,     \* the agent each table's default route points at
          status,    \* life of each process
          cordoned,  \* agents whose node is cordoned or being disrupted
          draining,  \* agents whose drain monitor has seen it (isDraining)
          owned,     \* agents with ownedTables not empty
          covers,    \* foreignOwnedTables of each agent, for this zone
          watch,     \* the agent of the zone a stand-in's peer client watches
          task,      \* what each goroutine is doing
          left       \* what remains of each bound

lock == <<holder, live>>
books == <<owned, covers>>
world == <<status, cordoned, watch>>
vars == <<lock, books, world, route, draining, task, left>>

Foreign == Agents \ Own
Loops == {"lease", "reconcile", "peer", "drain"}
Statuses == {"up", "stopping", "released", "down"}
Pcs == {"idle", "ensure", "discover", "claim", "renew", "yield", "vacate", "sweep",
        "check", "acquire", "release"}
Bounds == [crashes |-> MaxCrashes, stops |-> MaxStops, cordons |-> MaxCordons,
           stalls |-> MaxStalls, faults |-> MaxFaults]

Tasks == [pc : Pcs, todo : SUBSET Tables, done : SUBSET Tables]
Idle == [pc |-> "idle", todo |-> {}, done |-> {}]
AtPc(pc) == [Idle EXCEPT !.pc = pc]
TaskOf(a, l) == task[<<a, l>>]

(* A process that does not run has nothing in memory.                      *)
Forgotten(a) ==
    /\ a \notin draining \cup owned
    /\ covers[a] = {}
    /\ a \in Foreign => watch[a] = None
    /\ \A l \in Loops : TaskOf(a, l) = Idle

TypeOK ==
    /\ holder \in Agents \cup {None}
    /\ live \in BOOLEAN
    /\ route \in [Tables -> Agents \cup {None}]
    /\ status \in [Agents -> Statuses]
    /\ cordoned \subseteq Agents /\ draining \subseteq Agents
    /\ owned \subseteq Own
    /\ watch \in [Foreign -> Own \cup {None}]
    /\ covers \in [Agents -> SUBSET Tables]
    /\ task \in [Agents \X Loops -> Tasks]
    /\ left \in [crashes : 0..MaxCrashes, stops : 0..MaxStops, cordons : 0..MaxCordons,
                 stalls : 0..MaxStalls, faults : 0..MaxFaults]
    /\ \A a \in Agents : status[a] = "down" => Forgotten(a)

(* Agents start one by one: none runs yet.                                 *)
Init ==
    /\ holder = None /\ live = FALSE
    /\ route = [t \in Tables |-> None]
    /\ status = [a \in Agents |-> "down"]
    /\ cordoned = {} /\ draining = {} /\ owned = {}
    /\ watch = [f \in Foreign |-> None]
    /\ covers = [a \in Agents |-> {}]
    /\ task = [p \in Agents \X Loops |-> Idle]
    /\ left = Bounds

-----------------------------------------------------------------------------
(* Helpers.                                                                *)

Running(a) == status[a] # "down"
At(a, l, pc) == Running(a) /\ TaskOf(a, l).pc = pc
Goto(a, l, r) == task' = [task EXCEPT ![<<a, l>>] = r]
Finish(a, l) == Goto(a, l, Idle)

Spend(kind) == left[kind] > 0 /\ left' = [left EXCEPT ![kind] = @ - 1]

(* The context of the two loops is cancelled when the process is told to   *)
(* stop: the call under way may still be applied, the next one fails.  Peer*)
(* callbacks and the drain monitor's release have contexts of their own.   *)
Cancelled(a, l) == status[a] # "up" /\ l \in {"lease", "reconcile"}
Unless(a, l, r) == IF Cancelled(a, l) THEN Idle ELSE r
Continue(a, l, r) == Goto(a, l, Unless(a, l, r))
MayFail(a, l) == IF Cancelled(a, l) THEN UNCHANGED left ELSE Spend("faults")

Drop(a) == owned' = owned \ {a} /\ UNCHANGED covers
Cover_Adds(a, tables) ==
    covers' = [covers EXCEPT ![a] = @ \cup tables] /\ UNCHANGED owned
Cover(a, tables) == covers' = [covers EXCEPT ![a] = tables] /\ UNCHANGED owned

TakeLease(a) == holder' = a /\ live' = TRUE
FreeLease == holder' = None /\ live' = FALSE

(* Renew on behalf of a succeeds, and so does Acquire: the latter also on  *)
(* an expired Lease and, in the agent's own zone, on a stand-in's.         *)
CanRenew(a) == holder \in {None, a}
CanAcquire_AnyHolder(a) == CanRenew(a) \/ ~live \/ a \in Own
CanAcquire_NoPreemption(a) == CanRenew(a) \/ ~live
CanAcquire_NoExpiry(a) == CanRenew(a) \/ (a \in Own /\ holder \notin Own)
CanAcquire(a) == CanRenew(a) \/ ~live \/ (a \in Own /\ holder \notin Own)

-----------------------------------------------------------------------------
(* Serving the own zone: lease loop and reconcile loop of an agent of Own. *)

(* A draining agent does nothing in the lease loop, and forgets its tables *)
(* in the reconcile loop.                                                  *)
OwnTick_IgnoresDrain(a, l) ==
    /\ status[a] = "up" /\ At(a, l, "idle")
    /\ Goto(a, l, AtPc("ensure"))
    /\ UNCHANGED <<books, lock, world, route, draining, left>>

OwnTick(a, l) ==
    /\ status[a] = "up" /\ At(a, l, "idle")
    /\ \/ a \notin draining /\ Goto(a, l, AtPc("ensure")) /\ UNCHANGED books
       \/ a \in draining /\ l = "reconcile" /\ Drop(a) /\ UNCHANGED task
    /\ UNCHANGED <<lock, world, route, draining, left>>

(* ensureOwnLease: Renew, then Acquire.  The lease loop claims only while  *)
(* OwnClaimPending; the reconcile loop always looks at the routes.         *)
Held(a, l) ==
    /\ At(a, l, "ensure") /\ CanAcquire(a)
    /\ TakeLease(a)
    /\ Continue(a, l, IF l = "lease" /\ a \in owned THEN Idle ELSE AtPc("discover"))
    /\ UNCHANGED <<books, world, route, draining, left>>

StandBy(a, l) ==
    /\ Finish(a, l)
    /\ IF l = "reconcile" THEN Drop(a) ELSE UNCHANGED books

NotHeld(a, l) ==
    /\ At(a, l, "ensure") /\ ~CanAcquire(a)
    /\ StandBy(a, l)
    /\ UNCHANGED <<lock, world, route, draining, left>>

(* The calls fail, lose a race, or succeed without the agent hearing of it.*)
EnsureFault(a, l) ==
    /\ At(a, l, "ensure") /\ MayFail(a, l)
    /\ \/ UNCHANGED lock
       \/ CanAcquire(a) /\ TakeLease(a)
    /\ StandBy(a, l)
    /\ UNCHANGED <<world, route, draining>>

(* ClaimOwnRouteTables: read all routes, repoint those that point away, and*)
(* then record the tables as owned.                                        *)
DiscoverOwn(a, l) ==
    /\ At(a, l, "discover")
    /\ Continue(a, l, [AtPc("claim") EXCEPT !.todo = {t \in Tables : route[t] # a}])
    /\ UNCHANGED <<lock, books, world, route, draining, left>>

ClaimOwn(a, l) ==
    /\ At(a, l, "claim")
    /\ \E t \in TaskOf(a, l).todo :
          /\ route' = [route EXCEPT ![t] = a]
          /\ Continue(a, l, [TaskOf(a, l) EXCEPT !.todo = @ \ {t}])
    /\ UNCHANGED <<lock, books, world, draining, left>>

ConfirmOwn(a, l) ==
    /\ At(a, l, "claim") /\ TaskOf(a, l).todo = {}
    /\ owned' = owned \cup {a}
    /\ Finish(a, l)
    /\ UNCHANGED <<lock, covers, world, route, draining, left>>

(* An EC2 error ends the claim; the tables recorded before stay recorded.  *)
ClaimFault(a, l) ==
    /\ At(a, l, "discover") \/ At(a, l, "claim")
    /\ MayFail(a, l)
    /\ Finish(a, l)
    /\ UNCHANGED <<lock, books, world, route, draining>>

ServeOwn(a, l) ==
    \/ OwnTick(a, l) \/ Held(a, l) \/ NotHeld(a, l)
    \/ DiscoverOwn(a, l) \/ ClaimOwn(a, l) \/ ConfirmOwn(a, l)

-----------------------------------------------------------------------------
(* Standing in for the zone: an agent of another zone.                     *)

(* Lease loop: an agent that is not draining renews what it covers.        *)
StandInAsk_NotCovering(a) ==
    /\ a \in Foreign /\ status[a] = "up" /\ At(a, "lease", "idle")
    /\ a \notin draining /\ holder = a
    /\ Goto(a, "lease", AtPc("renew"))
    /\ UNCHANGED <<lock, books, world, route, draining, left>>

StandInAsk(a) ==
    /\ a \in Foreign /\ status[a] = "up" /\ At(a, "lease", "idle")
    /\ a \notin draining /\ covers[a] # {}
    /\ Goto(a, "lease", AtPc("renew"))
    /\ UNCHANGED <<lock, books, world, route, draining, left>>

(* A call of a stand-in takes the Lease, and its goroutine goes on.  A call*)
(* that another of its goroutines makes at the same time may be refused for*)
(* it: the Lease exists by the time it creates it, or changes before it    *)
(* updates it (a Renew: three times).  The caller takes this for a loss.   *)
Overtakable(a, l) ==
    {m \in Loops \ {l} : TaskOf(a, m).pc = IF m = "lease" THEN "renew" ELSE "acquire"}
Refused(l) == AtPc(IF l = "lease" THEN "yield" ELSE "idle")
TakeFor(a, l, r) ==
    /\ TakeLease(a)
    /\ \E S \in SUBSET Overtakable(a, l) :
          task' = [p \in Agents \X Loops |->
                     IF p = <<a, l>> THEN r
                     ELSE IF p[1] = a /\ p[2] \in S THEN Refused(p[2]) ELSE task[p]]

(* It keeps the Lease, or learns that it is another's.                     *)
StandInRenew(a) ==
    /\ At(a, "lease", "renew")
    /\ \/ CanRenew(a) /\ TakeFor(a, "lease", Idle)
       \/ ~CanRenew(a) /\ UNCHANGED lock /\ Goto(a, "lease", AtPc("yield"))
    /\ UNCHANGED <<books, world, route, draining, left>>

(* An error is logged, and the zone stays covered.                         *)
RenewFault(a) ==
    /\ At(a, "lease", "renew") /\ MayFail(a, "lease")
    /\ \/ UNCHANGED lock /\ Finish(a, "lease")
       \/ CanRenew(a) /\ TakeFor(a, "lease", Idle)
    /\ UNCHANGED <<books, world, route, draining>>

(* ReleaseForeignAZ drops whatever is registered by now.                   *)
StandInYield(a) ==
    /\ At(a, "lease", "yield")
    /\ Cover(a, {})
    /\ Finish(a, "lease")
    /\ UNCHANGED <<lock, world, route, draining, left>>

(* Reconcile loop, ReconcileForeign: read the routes of what is covered,   *)
(* and vacate the tables that point elsewhere.  An agent that is draining  *)
(* does not sweep.                                                         *)
Astray(a) == {t \in covers[a] : route[t] # a}
Vacated(a) == AtPc(IF a \in draining THEN "idle" ELSE "sweep")

StandInTick(a) ==
    /\ a \in Foreign /\ status[a] = "up" /\ At(a, "reconcile", "idle")
    /\ Goto(a, "reconcile", IF Astray(a) = {} THEN Vacated(a)
                            ELSE [AtPc("vacate") EXCEPT !.todo = Astray(a)])
    /\ UNCHANGED <<lock, books, world, route, draining, left>>

Vacate(a) ==
    /\ At(a, "reconcile", "vacate")
    /\ Cover(a, covers[a] \ TaskOf(a, "reconcile").todo)
    /\ Continue(a, "reconcile", Vacated(a))
    /\ UNCHANGED <<lock, world, route, draining, left>>

(* The sweep lists the Leases: one that does not exist is not listed.      *)
Sweep(a) ==
    /\ At(a, "reconcile", "sweep")
    /\ Continue(a, "reconcile", AtPc(IF holder # None /\ ~live THEN "check" ELSE "idle"))
    /\ UNCHANGED <<lock, books, world, route, draining, left>>

(* A zone it covers is passed over (CoversAZ); takeover looks at the flag. *)
Check(a) ==
    /\ At(a, "reconcile", "check")
    /\ Continue(a, "reconcile",
                AtPc(IF covers[a] = {} /\ a \notin draining THEN "acquire" ELSE "idle"))
    /\ UNCHANGED <<lock, books, world, route, draining, left>>

(* The routes, or the Leases, cannot be read in this round.                *)
ReadFault(a) ==
    /\ a \in Foreign /\ MayFail(a, "reconcile")
    /\ \/ /\ status[a] = "up" /\ At(a, "reconcile", "idle") /\ covers[a] # {}
          /\ Goto(a, "reconcile", Vacated(a))
       \/ At(a, "reconcile", "sweep") /\ Finish(a, "reconcile")
    /\ UNCHANGED <<lock, books, world, route, draining>>

(* Discovery connects to an agent of the zone that is listed, unless a     *)
(* client watches one already (connectedAZs).  A pod whose process is down *)
(* may still be listed.                                                    *)
DiscoverPeer(a) ==
    /\ a \in Foreign /\ Running(a) /\ watch[a] = None
    /\ \E o \in Own : watch' = [watch EXCEPT ![a] = o]
    /\ UNCHANGED <<lock, books, status, cordoned, route, draining, task, left>>

(* The client reports its peer dead, and ends; it may also be a network    *)
(* problem.  A draining agent takes nothing over.                          *)
OnFailure_NoTakeover(a) ==
    /\ a \in Foreign /\ At(a, "peer", "idle") /\ watch[a] # None
    /\ watch' = [watch EXCEPT ![a] = None]
    /\ UNCHANGED <<lock, books, status, cordoned, route, draining, task, left>>

OnFailure(a) ==
    /\ a \in Foreign /\ At(a, "peer", "idle") /\ watch[a] # None
    /\ watch' = [watch EXCEPT ![a] = None]
    /\ Goto(a, "peer", AtPc(IF a \in draining THEN "idle" ELSE "acquire"))
    /\ UNCHANGED <<lock, books, status, cordoned, route, draining, left>>

(* takeover, called by the sweep (l is "reconcile") and by OnFailure.  The *)
(* route tables of the zone are discovered when the Lease is taken: their  *)
(* list, unlike their routes, does not change.                             *)
AllTables == [AtPc("claim") EXCEPT !.todo = Tables]
Acquire(a, l) ==
    /\ At(a, l, "acquire")
    /\ \/ CanAcquire(a) /\ TakeFor(a, l, Unless(a, l, AllTables))
       \/ ~CanAcquire(a) /\ UNCHANGED lock /\ Finish(a, l)
    /\ UNCHANGED <<books, world, route, draining, left>>

AcquireFault(a, l) ==
    /\ At(a, l, "acquire") /\ MayFail(a, l)
    /\ \/ UNCHANGED lock /\ Finish(a, l)
       \/ CanAcquire(a) /\ TakeFor(a, l, Idle)
    /\ UNCHANGED <<books, world, route, draining>>

(* DiscoverRouteTables fails: no table is claimed.                         *)
DiscoverFault(a, l) ==
    /\ TaskOf(a, l) = AllTables /\ Running(a) /\ MayFail(a, l)
    /\ Finish(a, l)
    /\ UNCHANGED <<lock, books, world, route, draining>>

ClaimForeign(a, l) ==
    /\ At(a, l, "claim")
    /\ \E t \in TaskOf(a, l).todo :
          /\ route' = [route EXCEPT ![t] = a]
          /\ Goto(a, l, [TaskOf(a, l) EXCEPT !.todo = IF Cancelled(a, l) THEN {} ELSE @ \ {t},
                                        !.done = @ \cup {t}])
    /\ UNCHANGED <<lock, books, world, draining, left>>

(* A table whose claim fails is skipped.                                   *)
ClaimSkipped(a, l) ==
    /\ At(a, l, "claim") /\ MayFail(a, l)
    /\ \E t \in TaskOf(a, l).todo : Goto(a, l, [TaskOf(a, l) EXCEPT !.todo = @ \ {t}])
    /\ UNCHANGED <<lock, books, world, route, draining>>

Register_Overwrites(a, l) ==
    /\ At(a, l, "claim") /\ TaskOf(a, l).todo = {}
    /\ Cover(a, TaskOf(a, l).done)
    /\ Finish(a, l)
    /\ UNCHANGED <<lock, world, route, draining, left>>

Register(a, l) ==
    /\ At(a, l, "claim") /\ TaskOf(a, l).todo = {}
    /\ Cover(a, covers[a] \cup TaskOf(a, l).done)
    /\ Finish(a, l)
    /\ UNCHANGED <<lock, world, route, draining, left>>

Takeover(a, l) == Acquire(a, l) \/ ClaimForeign(a, l) \/ Register(a, l)

-----------------------------------------------------------------------------
(* The drain monitor.  The flag is set before onDrain releases the Lease;  *)
(* the other goroutines run in between.                                    *)

DrainCheck_NoFlag(a) ==
    /\ status[a] = "up" /\ At(a, "drain", "idle")
    /\ a \in cordoned \ draining
    /\ Goto(a, "drain", AtPc("release"))
    /\ UNCHANGED <<lock, books, world, route, draining, left>>

DrainCheck(a) ==
    /\ status[a] = "up" /\ At(a, "drain", "idle")
    /\ \/ /\ a \in cordoned \ draining
          /\ draining' = draining \cup {a}
          /\ Goto(a, "drain", AtPc("release"))
       \/ /\ a \in draining \ cordoned
          /\ draining' = draining \ {a}
          /\ UNCHANGED task
    /\ UNCHANGED <<lock, books, world, route, left>>

(* Release deletes the Lease of the agent's own zone, if it is the holder. *)
Release(a) == IF holder = a THEN FreeLease ELSE UNCHANGED lock

DrainRelease(a) ==
    /\ At(a, "drain", "release")
    /\ IF a \in Own THEN Release(a) ELSE UNCHANGED lock
    /\ Finish(a, "drain")
    /\ UNCHANGED <<books, world, route, draining, left>>

DrainFault(a) ==
    /\ At(a, "drain", "release") /\ Spend("faults")
    /\ Finish(a, "drain")
    /\ UNCHANGED <<lock, books, world, route, draining>>

-----------------------------------------------------------------------------
(* Life of a process.                                                      *)

(* What the process kept in memory is gone.                                *)
Gone(a) ==
    /\ status' = [status EXCEPT ![a] = "down"]
    /\ draining' = draining \ {a}
    /\ owned' = owned \ {a}
    /\ covers' = [covers EXCEPT ![a] = {}]
    /\ watch' = [f \in Foreign |-> IF f = a THEN None ELSE watch[f]]
    /\ task' = [p \in Agents \X Loops |-> IF p[1] = a THEN Idle ELSE task[p]]

(* Startup primes the drain flag and serves the own zone before the loops. *)
Start(a) ==
    /\ status[a] = "down"
    /\ status' = [status EXCEPT ![a] = "up"]
    /\ IF a \in cordoned
         THEN draining' = draining \cup {a} /\ Goto(a, "drain", AtPc("release"))
         ELSE /\ UNCHANGED draining
              /\ IF a \in Own THEN Goto(a, "reconcile", AtPc("ensure"))
                             ELSE UNCHANGED task
    /\ UNCHANGED <<lock, books, cordoned, watch, route, left>>

(* Prime cannot read the node: the agent serves until a check succeeds.    *)
StartUnprimed(a) ==
    /\ status[a] = "down" /\ a \in cordoned /\ Spend("faults")
    /\ status' = [status EXCEPT ![a] = "up"]
    /\ IF a \in Own THEN Goto(a, "reconcile", AtPc("ensure")) ELSE UNCHANGED task
    /\ UNCHANGED <<lock, books, cordoned, watch, route, draining>>

Crash(a) ==
    /\ Running(a) /\ Spend("crashes")
    /\ Gone(a)
    /\ UNCHANGED <<lock, cordoned, route>>

(* SIGTERM or a spot notice: no loop starts another round, the running ones*)
(* end at their next call, and the peer clients go on until the exit.      *)
Stop(a) ==
    /\ status[a] = "up" /\ Spend("stops")
    /\ status' = [status EXCEPT ![a] = "stopping"]
    /\ UNCHANGED <<lock, books, cordoned, watch, route, draining, task>>

(* Release the own Lease, and those of the zones it covers.                *)
StopRelease(a) ==
    /\ status[a] = "stopping"
    /\ status' = [status EXCEPT ![a] = "released"]
    /\ IF a \in Own \/ covers[a] # {} THEN Release(a) ELSE UNCHANGED lock
    /\ UNCHANGED <<books, cordoned, watch, route, draining, task, left>>

(* Each fails at most once in a process, which no bound counts.            *)
StopFault(a) ==
    /\ status[a] = "stopping"
    /\ status' = [status EXCEPT ![a] = "released"]
    /\ UNCHANGED <<lock, books, cordoned, watch, route, draining, task, left>>

Exit(a) ==
    /\ status[a] = "released"
    /\ Gone(a)
    /\ UNCHANGED <<lock, cordoned, route, left>>

(* kubectl cordon or uncordon, or the provisioner's disruption taint.      *)
Cordon(a) ==
    /\ Spend("cordons")
    /\ cordoned' = IF a \in cordoned THEN cordoned \ {a} ELSE cordoned \cup {a}
    /\ UNCHANGED <<lock, books, status, watch, route, draining, task>>

(* The agent keeps renewing the Lease, or is on the way to doing so.       *)
Renewing(a) ==
    /\ status[a] = "up" /\ a \notin draining
    /\ \/ a \in Own
       \/ covers[a] # {}
       \/ \E l \in Loops : TaskOf(a, l).pc \in {"discover", "claim"}

(* Time runs out for a Lease that nobody renews; for one that is renewed   *)
(* only if the renewals are late.                                          *)
Expire ==
    /\ live
    /\ live' = FALSE
    /\ \/ ~Renewing(holder) /\ UNCHANGED left
       \/ Renewing(holder) /\ Spend("stalls")
    /\ UNCHANGED <<holder, books, world, route, draining, task>>

-----------------------------------------------------------------------------
OwnFaults(a, l) == EnsureFault(a, l) \/ ClaimFault(a, l)
StandInFaults(a, l) == AcquireFault(a, l) \/ DiscoverFault(a, l) \/ ClaimSkipped(a, l)
KeepCover(a) == StandInAsk(a) \/ StandInRenew(a) \/ StandInYield(a)
LookAround(a) == StandInTick(a) \/ Vacate(a) \/ Sweep(a) \/ Check(a)
StandIn(a) ==
    \/ KeepCover(a) \/ LookAround(a)
    \/ RenewFault(a) \/ ReadFault(a)
    \/ DiscoverPeer(a) \/ OnFailure(a)
Drain(a) == DrainCheck(a) \/ DrainRelease(a)
Shutdown(a) == StopRelease(a) \/ Exit(a)

Next ==
    \/ \E a \in Own, l \in {"lease", "reconcile"} : ServeOwn(a, l) \/ OwnFaults(a, l)
    \/ \E a \in Foreign :
          \/ StandIn(a)
          \/ \E l \in {"reconcile", "peer"} : Takeover(a, l) \/ StandInFaults(a, l)
    \/ \E a \in Agents :
          \/ Drain(a) \/ DrainFault(a)
          \/ Start(a) \/ StartUnprimed(a) \/ Crash(a)
          \/ Stop(a) \/ Shutdown(a) \/ StopFault(a) \/ Cordon(a)
    \/ Expire

Spec == Init /\ [][Next]_vars

(* Tickers fire for as long as the process runs, calls return, a broken    *)
(* peer connection is reported, a process that was told to stop exits, and *)
(* the clock runs.  Nothing makes a process start, or the world misbehave. *)
WatchesDead(a) == watch[a] # None /\ ~Running(watch[a])
Fairness ==
    /\ \A a \in Own, l \in {"lease", "reconcile"} : WF_vars(ServeOwn(a, l))
    /\ \A a \in Foreign :
         /\ WF_vars(KeepCover(a))
         /\ WF_vars(LookAround(a) \/ Takeover(a, "reconcile"))
         /\ WF_vars((WatchesDead(a) /\ OnFailure(a)) \/ Takeover(a, "peer"))
    /\ \A a \in Agents : WF_vars(Drain(a)) /\ WF_vars(Shutdown(a))
    /\ WF_vars(Expire /\ UNCHANGED left)

FairSpec == Spec /\ Fairness

-----------------------------------------------------------------------------
(* Properties.                                                             *)

Healthy(a) == status[a] = "up" /\ a \notin cordoned
ServedBy(a) == holder = a /\ \A t \in Tables : route[t] = a
StandInServes == \E f \in Foreign : status[f] = "up" /\ ServedBy(f)

(* The own agent keeps a live Lease until it stands down: the flag that    *)
(* stops its loops is up before the Lease goes (drain.go:41-43, 106-111),  *)
(* and nobody takes it from an agent that serves (agent.go:245-247).       *)
ServingKeepsLease ==
    [][live /\ holder \in Own /\ holder' # holder
         => holder \in draining \/ status[holder] # "up"]_vars

(* A stand-down that is about to release the Lease has the flag up: the    *)
(* flag is set before onDrain is called and only a later check takes it    *)
(* back (drain.go:106-115).                                                *)
StandDownFlagged ==
    \A a \in Agents : TaskOf(a, "drain").pc = "release" => a \in draining

(* Once an agent of the zone that is healthy holds the live Lease, nobody  *)
(* else gets it or starts on the routes: only claims that were on their way*)
(* before can still repoint a route, and they become fewer, until the agent*)
(* dies, is told to stop or cordoned, or renews too late                   *)
(* (agent.go:245-247, 633-635, 651).                                       *)
Late(a) == {p \in Agents \X Loops : p[1] # a /\ task[p].pc \in {"discover", "claim"}}
Firm(a) ==
    /\ status[a] = "up" /\ a \notin cordoned \cup draining
    /\ holder = a /\ live
Undisturbed(a) ==
    status'[a] = "up" /\ a \notin cordoned' /\ left'.stalls = left.stalls
OnlyLateClaims ==
    [][\A a \in Own : Firm(a) /\ Undisturbed(a) =>
          /\ Firm(a)' /\ Late(a)' \subseteq Late(a)
          /\ \A t \in Tables : \/ route'[t] \in {route[t], a}
                                \/ \E p \in Late(a) : route'[t] = p[1]]_vars

(* A stand-in that covers the whole zone, and has not been told otherwise, *)
(* goes on doing so, whatever reports and takeovers of its own or of other *)
(* stand-ins come late, until an agent of the zone takes the Lease.  There *)
(* is one exception: its own takeover may overtake its renewal, and it then*)
(* yields to itself (agent.go:266-280, 560-592; lease.go:50-51, 97;        *)
(* reconciler.go:185-200).                                                 *)
Covering(f) ==
    /\ Firm(f) /\ Late(f) = {} /\ ServedBy(f) /\ covers[f] = Tables
    /\ TaskOf(f, "lease").pc # "yield"
    /\ TaskOf(f, "reconcile").pc = "vacate" => TaskOf(f, "reconcile").todo = {}
Overtaken(f) ==
    /\ TaskOf(f, "lease").pc = "renew" /\ TaskOf(f, "lease")'.pc = "yield"
    /\ \E l \in Loops : TaskOf(f, l).pc = "acquire" /\ TaskOf(f, l)'.pc # "acquire"
CoverStays ==
    [][\A f \in Foreign :
          Covering(f) /\ Undisturbed(f) /\ holder' \notin Own
            => Covering(f)' \/ Overtaken(f)]_vars

(* A draining agent that has stood down, with no round of its loops still  *)
(* under way, stays out: it takes back neither the Lease nor a route while *)
(* the flag is up (agent.go:249-251, 260, 295-298).                        *)
StoodDown(a) ==
    /\ a \in draining /\ holder # a
    /\ \A l \in Loops : TaskOf(a, l).pc = "idle"
StoodDownStaysOut ==
    [][\A a \in Own : StoodDown(a) /\ a \in draining' =>
          StoodDown(a)' /\ \A t \in Tables : route'[t] = a => route[t] = a]_vars

(* The inductive invariant.                                                *)
IInv == TypeOK /\ StandDownFlagged

(* Every step on the Lease is a step of LeaseLock, which is what Lease.tla *)
(* implements: the loops, the takeover and both releases use it as a lock. *)
Lock == INSTANCE LeaseLock WITH
           Callers <- Agents, AgentOf <- [a \in Agents |-> a], sure <- {}
UsesLock == Lock!LockSpec

(* Once some agent of the zone stays healthy, the zone ends up with one of *)
(* its own agents, and stays there: that agent holds the Lease and every   *)
(* route points at it, and no stand-in goes on believing that it covers the*)
(* zone, whatever crashes, drains, late claims and stand-ins came before   *)
(* (agent.go:205-208, 275-280, 284-287).                                   *)
OwnZoneServed ==
    <>[](\E a \in Own : Healthy(a)) =>
       <>[]((\E a \in Own : Healthy(a) /\ ServedBy(a)) /\ \A f \in Foreign : covers[f] = {})

(* A zone without a running agent, whose Lease still names somebody, comes *)
(* to be covered by a stand-in that knows it does, unless an agent of the  *)
(* zone is back: after a crash of its agent or of a stand-in, a takeover   *)
(* that failed half-way, and books that a vacate, a yield or a renewal     *)
(* overtaken by the own takeover emptied (agent.go:266-280, 331-345).  What*)
(* is covered are the tables whose claim went through.                     *)
KnowinglyCovers(f) ==
    /\ status[f] = "up" /\ holder = f /\ covers[f] # {}
    /\ \A t \in covers[f] : route[t] = f
StandInCovers ==
    <>[](\E f \in Foreign : Healthy(f)) =>
       ((holder # None /\ \A o \in Own : ~Running(o))
          ~> ((\E f \in Foreign : KnowinglyCovers(f)) \/ \E o \in Own : Running(o)))

(* A zone whose agent has released its Lease on its way out is taken over  *)
(* by stand-ins that watch it (README.md:97, agent.go:425-427), if no call *)
(* fails from then on: the takeover that follows a report is not repeated. *)
GracefulHandover ==
    \A n \in 0..MaxFaults :
       (/\ holder = None /\ left.faults = n /\ Foreign # {}
        /\ \E a \in Own : /\ status[a] = "released"
                           /\ \A f \in Foreign : Healthy(f) /\ watch[f] = a)
         ~> \/ StandInServes
            \/ \E b \in Own : Running(b) /\ status[b] # "released"
            \/ left.faults # n

(* A zone whose agent stands down because its node drains is taken over by *)
(* a stand-in if there is no other agent of the zone (drain.go:26-28).     *)
DrainHandover ==
    (\E a \in Own : a \in draining /\ holder = None
        /\ \A t \in Tables : route[t] = a
        /\ Foreign # {} /\ \A f \in Foreign : Healthy(f))
      ~> (StandInServes \/ \E b \in Own : b \notin draining)

(* Once the stand-down of a draining agent has released its Lease, the     *)
(* agent does not create it again (agent.go:249-251).                      *)
DrainedStaysOut ==
    [][\A a \in Own \cap draining :
          TaskOf(a, "drain").pc = "idle" /\ holder # a => holder' # a]_vars
=============================================================================
