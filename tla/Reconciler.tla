----------------------------- MODULE Reconciler -----------------------------
(***************************************************************************)
(* The reconciler of ONE agent: what it remembers about the route tables of*)
(* its own zone, and the callers that share that memory without an order:  *)
(* the lease loop, the reconcile loop, which also publishes what is owned, *)
(* and the HTTP endpoints /claim and /release.                             *)
(*                                                                         *)
(* The memory is under a mutex, but no caller holds it across an EC2 call: *)
(* each call, and each section under the mutex, is a step.  The Lease is   *)
(* reduced to whether this agent holds it (serving); Failover.tla and      *)
(* Lease.tla say when it does.                                             *)
(***************************************************************************)
EXTENDS Naturals

CONSTANTS Tables,       \* route tables of the zone
          Nats,         \* NAT gateways of their VPC
          NearNats,     \* those in the agent's own zone
          Me,           \* this agent's instance
          Other,        \* the instance of another agent
          None,         \* no route; no target remembered
          MaxEvents     \* bound: requests to /claim and /release, losses of the
                        \* Lease, failed calls, NAT gateways deleted, tags
                        \* changed and restarts, all in all

ASSUME ReconcilerAssumption ==
    /\ NearNats \subseteq Nats
    /\ Me # Other /\ {Me, Other} \cap (Nats \cup {None}) = {}
    /\ None \notin Nats
    /\ MaxEvents \in Nat

VARIABLES mode,    \* KUBE_NAT_MODE
          serving, \* the agent holds its zone's Lease and does not drain
          route,   \* target of each table's default route
          tagged,  \* tables that carry the management tags
          nats,    \* NAT gateways that are available
          owned,   \* ownedTables
          target,  \* originalNatGW
          vpc,     \* tables with an entry in rtbVpcID
          gauge,   \* tables whose ownership gauge is 1
          task,    \* what each caller is doing
          pointed, \* tables that have pointed here while this process ran
          left     \* what remains of the bound

memory == <<owned, target, vpc>>
world == <<mode, serving, tagged, nats>>
vars == <<memory, world, route, gauge, task, pointed, left>>

Loops == {"lease", "reconcile"}
Claimers == Loops \cup {"claim"}
Callers == Claimers \cup {"release"}
Pcs == {"idle", "pending", "discover", "claim", "cache", "lookup", "store",
        "restore", "relookup", "publish"}
Targets == Nats \cup {None}
NoTargets == [t \in Tables |-> None]

(* A caller's local variables: the tables still to do and the one a lookup *)
(* is for; the tables discovered (for /release: its copy of rtbVpcID); the *)
(* NAT gateway read or looked up for each (its copy of originalNatGW).     *)
Tasks == [pc : Pcs, todo : SUBSET Tables, hand : Tables \cup {None},
          tables : SUBSET Tables, seen : [Tables -> Targets]]
Idle == [pc |-> "idle", todo |-> {}, hand |-> None, tables |-> {}, seen |-> NoTargets]
AtPc(pc) == [Idle EXCEPT !.pc = pc]

TypeOK ==
    /\ mode \in {"auto", "manual"}
    /\ serving \in BOOLEAN
    /\ route \in [Tables -> Targets \cup {Me, Other}]
    /\ tagged \subseteq Tables /\ nats \subseteq Nats
    /\ owned \subseteq Tables /\ vpc \subseteq Tables
    /\ gauge \subseteq Tables /\ pointed \subseteq Tables
    /\ target \in [Tables -> Targets]
    /\ task \in [Callers -> Tasks]
    /\ left \in 0..MaxEvents

(* The routes may be anywhere when the process starts.                     *)
Init ==
    /\ mode \in {"auto", "manual"}
    /\ serving = FALSE
    /\ route \in [Tables -> Targets \cup {Me, Other}]
    /\ tagged = Tables /\ nats = Nats
    /\ owned = {} /\ vpc = {} /\ gauge = {}
    /\ pointed = {t \in Tables : route[t] = Me}
    /\ target = NoTargets
    /\ task = [c \in Callers |-> Idle]
    /\ left = MaxEvents

-----------------------------------------------------------------------------
At(c, pc) == task[c].pc = pc
Goto(c, r) == task' = [task EXCEPT ![c] = r]
Finish(c) == Goto(c, IF c = "reconcile" THEN AtPc("publish") ELSE Idle)
Spend == left > 0 /\ left' = left - 1

(* An EC2 call that points t's default route at x: create, else replace.   *)
Point(t, x) ==
    /\ route' = [route EXCEPT ![t] = x]
    /\ pointed' = IF x = Me THEN pointed \cup {t} ELSE pointed

OwnClaimPending == mode # "manual" /\ owned = {}
CanFallbackToNAT == owned # {} /\ \A t \in owned : target[t] # None

(* LookupNatGateway prefers the zone's own gateways among those available. *)
Lookup == IF nats \cap NearNats # {} THEN nats \cap NearNats ELSE nats

-----------------------------------------------------------------------------
(* Who calls, and when.                                                    *)

(* The lease loop asks after the Lease call whether a claim is pending.    *)
LeaseTick ==
    /\ At("lease", "idle") /\ serving
    /\ Goto("lease", AtPc("pending"))
    /\ UNCHANGED <<memory, world, route, gauge, pointed, left>>

Pending ==
    /\ At("lease", "pending")
    /\ IF OwnClaimPending THEN Goto("lease", AtPc("discover")) ELSE Finish("lease")
    /\ UNCHANGED <<memory, world, route, gauge, pointed, left>>

(* The reconcile loop looks at the routes in every tick.  When the Lease is*)
(* not its own it stands by: DropOwnTables, and a gauge of 0 for each.     *)
ReconcileTick_TrustsBooks ==
    /\ At("reconcile", "idle")
    /\ IF serving
         THEN /\ Goto("reconcile", AtPc(IF OwnClaimPending THEN "discover" ELSE "publish"))
              /\ UNCHANGED <<owned, gauge>>
         ELSE /\ owned' = {} /\ gauge' = gauge \ owned
              /\ Finish("reconcile")
    /\ UNCHANGED <<target, vpc, world, route, pointed, left>>

ReconcileTick ==
    /\ At("reconcile", "idle")
    /\ IF serving
         THEN Goto("reconcile", AtPc("discover")) /\ UNCHANGED <<owned, gauge>>
         ELSE /\ owned' = {} /\ gauge' = gauge \ owned
              /\ Finish("reconcile")
    /\ UNCHANGED <<target, vpc, world, route, pointed, left>>

(* updateMetrics, at the end of every tick, also after an error.           *)
Publish ==
    /\ At("reconcile", "publish")
    /\ gauge' = gauge \cup owned
    /\ Goto("reconcile", Idle)
    /\ UNCHANGED <<memory, world, route, pointed, left>>

(* POST /claim: in any mode, whether or not the agent holds the Lease.     *)
ClaimRequest ==
    /\ At("claim", "idle") /\ Spend
    /\ Goto("claim", AtPc("discover"))
    /\ UNCHANGED <<memory, world, route, gauge, pointed>>

-----------------------------------------------------------------------------
(* ClaimOwnRouteTables (the loops) and ClaimRouteTables (/claim).          *)

(* The loops write only in auto mode, and only routes that point away.     *)
ToClaim(c) ==
    CASE c = "claim" -> tagged
      [] c # "claim" /\ mode = "manual" -> {}
      [] OTHER -> {t \in tagged : route[t] # Me}

(* With nothing left to claim a loop turns to the fallback targets.        *)
ToCache(r) == [r EXCEPT !.pc = "cache", !.todo = r.tables]
GotoClaim(c, r) == Goto(c, IF r.todo = {} /\ c # "claim" THEN ToCache(r) ELSE r)

Discover_AnyTarget(c) ==
    /\ At(c, "discover")
    /\ IF tagged = {}
         THEN Finish(c)
         ELSE GotoClaim(c, [AtPc("claim") EXCEPT
                 !.todo = ToClaim(c),
                 !.tables = tagged,
                 !.seen = [t \in Tables |-> IF t \in tagged THEN route[t] ELSE None]])
    /\ UNCHANGED <<memory, world, route, gauge, pointed, left>>

Discover_OnlyAway(c) ==
    /\ At(c, "discover")
    /\ IF tagged = {}
         THEN Finish(c)
         ELSE GotoClaim(c, [AtPc("claim") EXCEPT
                 !.todo = ToClaim(c),
                 !.tables = ToClaim(c),
                 !.seen = [t \in Tables |->
                             IF t \in tagged /\ route[t] \in Nats THEN route[t] ELSE None]])
    /\ UNCHANGED <<memory, world, route, gauge, pointed, left>>

Discover(c) ==
    /\ At(c, "discover")
    /\ IF tagged = {}
         THEN Finish(c)
         ELSE GotoClaim(c, [AtPc("claim") EXCEPT
                 !.todo = ToClaim(c),
                 !.tables = tagged,
                 !.seen = [t \in Tables |->
                             IF t \in tagged /\ route[t] \in Nats THEN route[t] ELSE None]])
    /\ UNCHANGED <<memory, world, route, gauge, pointed, left>>

Claim(c) ==
    /\ At(c, "claim")
    /\ \E t \in task[c].todo :
          /\ Point(t, Me)
          /\ GotoClaim(c, [task[c] EXCEPT !.todo = @ \ {t}])
    /\ UNCHANGED <<memory, world, gauge, left>>

(* An error ends the claim, whether or not the route was written; what was *)
(* recorded as owned stays.                                                *)
ClaimFault_Skips(c) ==
    /\ At(c, "discover") \/ At(c, "claim")
    /\ Spend
    /\ \/ /\ At(c, "discover") /\ Finish(c)
       \/ /\ At(c, "claim")
          /\ \E t \in task[c].todo : GotoClaim(c, [task[c] EXCEPT !.todo = @ \ {t}])
    /\ UNCHANGED <<memory, world, route, gauge, pointed>>

ClaimFault(c) ==
    /\ At(c, "discover") \/ At(c, "claim")
    /\ Spend
    /\ \/ UNCHANGED <<route, pointed>>
       \/ \E t \in task[c].todo : Point(t, Me)
    /\ Finish(c)
    /\ UNCHANGED <<memory, world, gauge>>

(* /claim records the tables before it looks for fallback targets, the     *)
(* loops after it (Confirm).                                               *)
Claimed ==
    /\ At("claim", "claim") /\ task["claim"].todo = {}
    /\ owned' = task["claim"].tables
    /\ Goto("claim", ToCache(task["claim"]))
    /\ UNCHANGED <<target, vpc, world, route, gauge, pointed, left>>

(* On to the next table.                                                   *)
Done(c, t) ==
    Goto(c, [task[c] EXCEPT !.pc = "cache", !.todo = @ \ {t}, !.hand = None, !.seen[t] = None])

(* cacheFallbackTargets, one table under the mutex: the first NAT gateway  *)
(* seen is kept; without one, look it up with the mutex released.          *)
Cache_LateVpc(c) ==
    /\ At(c, "cache")
    /\ \E t \in task[c].todo :
          /\ target' = IF target[t] = None THEN [target EXCEPT ![t] = task[c].seen[t]] ELSE target
          /\ vpc' = IF task[c].seen[t] # None THEN vpc ELSE vpc \cup {t}
          /\ IF target'[t] = None
               THEN Goto(c, [task[c] EXCEPT !.pc = "lookup", !.hand = t])
               ELSE Done(c, t)
    /\ UNCHANGED <<owned, world, route, gauge, pointed, left>>

Cache_NoLookup(c) ==
    /\ At(c, "cache")
    /\ \E t \in task[c].todo :
          /\ vpc' = vpc \cup {t}
          /\ target' = IF target[t] = None THEN [target EXCEPT ![t] = task[c].seen[t]] ELSE target
          /\ Done(c, t)
    /\ UNCHANGED <<owned, world, route, gauge, pointed, left>>

Cache(c) ==
    /\ At(c, "cache")
    /\ \E t \in task[c].todo :
          /\ vpc' = vpc \cup {t}
          /\ target' = IF target[t] = None THEN [target EXCEPT ![t] = task[c].seen[t]] ELSE target
          /\ IF target'[t] = None
               THEN Goto(c, [task[c] EXCEPT !.pc = "lookup", !.hand = t])
               ELSE Done(c, t)
    /\ UNCHANGED <<owned, world, route, gauge, pointed, left>>

LookupAnswers(c) ==
    /\ At(c, "lookup")
    /\ \E n \in Lookup :
          Goto(c, [task[c] EXCEPT !.pc = "store", !.seen[task[c].hand] = n])
    /\ UNCHANGED <<memory, world, route, gauge, pointed, left>>

(* No NAT gateway, or the call fails: the table is left without a target.  *)
LookupFails(c) ==
    /\ At(c, "lookup")
    /\ IF nats = {} THEN UNCHANGED left ELSE Spend
    /\ Done(c, task[c].hand)
    /\ UNCHANGED <<memory, world, route, gauge, pointed>>

(* Another caller may have stored a target meanwhile.                      *)
Store_Overwrites(c) ==
    /\ At(c, "store")
    /\ target' = [target EXCEPT ![task[c].hand] = task[c].seen[task[c].hand]]
    /\ Done(c, task[c].hand)
    /\ UNCHANGED <<owned, vpc, world, route, gauge, pointed, left>>

Store(c) ==
    /\ At(c, "store")
    /\ LET t == task[c].hand IN
       target' = IF target[t] = None THEN [target EXCEPT ![t] = task[c].seen[t]] ELSE target
    /\ Done(c, task[c].hand)
    /\ UNCHANGED <<owned, vpc, world, route, gauge, pointed, left>>

(* The end of a claim.                                                     *)
Confirm(c) ==
    /\ At(c, "cache") /\ task[c].todo = {}
    /\ IF c # "claim" /\ mode # "manual" THEN owned' = task[c].tables ELSE UNCHANGED owned
    /\ Finish(c)
    /\ UNCHANGED <<target, vpc, world, route, gauge, pointed, left>>

ClaimTables(c) ==
    \/ Discover(c) \/ Claim(c) \/ (c = "claim" /\ Claimed)
    \/ Cache(c) \/ LookupAnswers(c) \/ Store(c) \/ Confirm(c)

-----------------------------------------------------------------------------
(* ReleaseRouteTables (/release).                                          *)

(* It works on copies of what was owned and known when it began.           *)
ReleaseRequest ==
    /\ At("release", "idle") /\ Spend
    /\ IF owned = {}
         THEN UNCHANGED task
         ELSE Goto("release", [AtPc("restore") EXCEPT !.todo = owned, !.tables = vpc, !.seen = target])
    /\ UNCHANGED <<memory, world, route, gauge, pointed>>

(* Point the route back at the target; without one look it up, and without *)
(* a VPC to look in skip the table.                                        *)
Restore(c) ==
    /\ At(c, "restore")
    /\ \E t \in task[c].todo :
          \/ /\ task[c].seen[t] \in nats
             /\ Point(t, task[c].seen[t])
             /\ Goto(c, [task[c] EXCEPT !.todo = @ \ {t}])
          \/ /\ task[c].seen[t] = None
             /\ Goto(c, IF t \in task[c].tables
                          THEN [task[c] EXCEPT !.pc = "relookup", !.hand = t]
                          ELSE [task[c] EXCEPT !.todo = @ \ {t}])
             /\ UNCHANGED <<route, pointed>>
    /\ UNCHANGED <<memory, world, gauge, left>>

RestoreLookup(c) ==
    /\ At(c, "relookup")
    /\ \E n \in Lookup :
          Goto(c, [task[c] EXCEPT !.pc = "restore", !.hand = None, !.seen[task[c].hand] = n])
    /\ UNCHANGED <<memory, world, route, gauge, pointed, left>>

(* The first error ends the release: no NAT gateway, or not the one that is*)
(* remembered, or a failed call, which may have given the route back all   *)
(* the same.  What is owned stays recorded.                                *)
RestoreFails(c) ==
    /\ \/ /\ At(c, "relookup") /\ IF nats = {} THEN UNCHANGED left ELSE Spend
          /\ UNCHANGED <<route, pointed>>
       \/ /\ At(c, "restore")
          /\ \E t \in task[c].todo :
                \/ /\ task[c].seen[t] \notin nats \cup {None}
                   /\ UNCHANGED <<route, pointed, left>>
                \/ /\ task[c].seen[t] \in nats /\ Spend
                   /\ Point(t, task[c].seen[t]) \/ UNCHANGED <<route, pointed>>
    /\ Finish(c)
    /\ UNCHANGED <<memory, world, gauge>>

Released(c) ==
    /\ At(c, "restore") /\ task[c].todo = {}
    /\ owned' = {}
    /\ Finish(c)
    /\ UNCHANGED <<target, vpc, world, route, gauge, pointed, left>>

ReleaseTables == Restore("release") \/ RestoreLookup("release") \/ Released("release")

-----------------------------------------------------------------------------
(* The world.                                                              *)

(* A restarted process has forgotten everything, its gauges included.      *)
Restart ==
    /\ Spend
    /\ owned' = {} /\ vpc' = {} /\ gauge' = {}
    /\ target' = NoTargets
    /\ task' = [c \in Callers |-> Idle]
    /\ pointed' = {t \in Tables : route[t] = Me}
    /\ UNCHANGED <<world, route>>

GainLease ==
    /\ ~serving
    /\ serving' = TRUE
    /\ UNCHANGED <<mode, tagged, nats, memory, route, gauge, task, pointed, left>>

LoseLease ==
    /\ serving /\ Spend
    /\ serving' = FALSE
    /\ UNCHANGED <<mode, tagged, nats, memory, route, gauge, task, pointed>>

(* The agent that holds the Lease instead points the routes at itself; one *)
(* whose claim was on its way when it lost the Lease does so later, and so *)
(* does one that is told to by /claim.                                     *)
OtherClaims ==
    /\ IF serving THEN Spend ELSE UNCHANGED left
    /\ \E t \in Tables : route[t] # Other /\ Point(t, Other)
    /\ UNCHANGED <<memory, world, gauge, task>>

(* A deleted NAT gateway stays in the routes that point at it.             *)
NatGone ==
    /\ Spend
    /\ \E n \in nats : nats' = nats \ {n}
    /\ UNCHANGED <<mode, serving, tagged, memory, route, gauge, task, pointed>>

Retag ==
    /\ Spend
    /\ \E t \in Tables : tagged' = IF t \in tagged THEN tagged \ {t} ELSE tagged \cup {t}
    /\ UNCHANGED <<mode, serving, nats, memory, route, gauge, task, pointed>>

-----------------------------------------------------------------------------
LeaseLoop == LeaseTick \/ Pending \/ ClaimTables("lease")
ReconcileLoop == ReconcileTick \/ Publish \/ ClaimTables("reconcile")

Next ==
    \/ LeaseLoop \/ ReconcileLoop
    \/ ClaimRequest \/ ClaimTables("claim")
    \/ ReleaseRequest \/ ReleaseTables \/ RestoreFails("release")
    \/ \E c \in Claimers : ClaimFault(c) \/ LookupFails(c)
    \/ Restart \/ GainLease \/ LoseLease \/ OtherClaims \/ NatGone \/ Retag

Spec == Init /\ [][Next]_vars

(* The loops tick for as long as the process runs, and calls return.       *)
NoNatFound(c) == LookupFails(c) /\ UNCHANGED left
Fairness ==
    /\ WF_vars(LeaseLoop \/ NoNatFound("lease"))
    /\ WF_vars(ReconcileLoop \/ NoNatFound("reconcile"))
    /\ WF_vars(ClaimTables("claim") \/ NoNatFound("claim"))
    /\ WF_vars(ReleaseTables \/ (RestoreFails("release") /\ UNCHANGED left))

FairSpec == Spec /\ Fairness

-----------------------------------------------------------------------------
(* Properties.                                                             *)

(* A table is recorded as owned only if its route has pointed at this agent*)
(* while the process ran: an error on the way leaves it out                *)
(* (reconciler.go:304-318, 347-352).                                       *)
OwnedPointed == owned \subseteq pointed

(* A table that is owned can be given back: its VPC is known, in which     *)
(* /release looks for a NAT gateway when none is remembered, unless /claim,*)
(* which records tables before it caches, is still at it                   *)
(* (reconciler.go:105-107, 355-358, 388-392).                              *)
OwnedRestorable ==
    task["claim"].pc \notin {"cache", "lookup", "store"} => owned \subseteq vpc

(* The fallback target first remembered for a table stays for as long as   *)
(* the process runs, although the mutex is released for the lookup         *)
(* (reconciler.go:37, 110, 130).                                           *)
TargetKept ==
    [][~Restart => \A t \in Tables : target[t] # None => target'[t] = target[t]]_vars

(* In auto mode, an agent that keeps the Lease ends up with every managed  *)
(* route, recorded and published as owned; in any mode, one that does not  *)
(* get it back ends up owning nothing, whatever requests, errors and other *)
(* agents came in between (reconciler.go:256-259, 65-69).                  *)
Served == \A t \in tagged : route[t] = Me /\ t \in owned \cap gauge
BooksFollowLease ==
    /\ mode = "auto" /\ <>[]serving => <>[]Served
    /\ <>[]~serving => <>[](owned = {})

(* What is served stays served: neither tick of the loops, nor a claim in  *)
(* any mode and at any stage, nor a call that fails, nor a lookup changes  *)
(* routes, books or gauges, as long as the Lease and the tags stay, nobody *)
(* asks for a release and no other agent claims (reconciler.go:296-330).   *)
Settled ==
    /\ serving /\ Served /\ At("release", "idle")
    /\ \A c \in Claimers :
          task[c].pc \in {"claim", "cache", "lookup", "store"} => tagged \subseteq task[c].tables
Unsettled == Restart \/ LoseLease \/ Retag \/ ReleaseRequest \/ OtherClaims
ServedStays == [][Settled /\ ~Unsettled => Settled']_vars

(* In auto mode, an agent that keeps the Lease finds a fallback target for *)
(* every table, although lookups failed, while its VPC has a NAT gateway   *)
(* (reconciler.go:87-89, 321).                                             *)
FallbackFound ==
    mode = "auto" /\ <>[]serving /\ <>[](tagged # {}) /\ []<>(nats # {}) => <>[]CanFallbackToNAT

(* An agent that stands by for good ends up with no ownership gauge at 1   *)
(* (reconciler.go:65-69; metrics.go:83).                                   *)
GaugeClears == <>[]~serving => <>[](gauge = {})
=============================================================================
