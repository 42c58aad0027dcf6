-------------------------- MODULE ReconcilerProofs --------------------------
(* The safety of Reconciler, for any tables, NAT gateways and number of    *)
(* disturbances.                                                           *)
EXTENDS Reconciler, TLAPS

-----------------------------------------------------------------------------
(* Callers' local variables.                                               *)

LEMMA NoTargetsTyped == NoTargets \in [Tables -> Targets]
BY DEF NoTargets, Targets

LEMMA AtPcTyped ==
    ASSUME NEW pc \in Pcs
    PROVE  /\ AtPc(pc) \in Tasks /\ AtPc(pc).pc = pc
           /\ AtPc(pc).todo = {} /\ AtPc(pc).tables = {}
BY NoTargetsTyped DEF AtPc, Idle, Tasks, Pcs

LEMMA LessTyped ==
    ASSUME NEW r \in Tasks, NEW t \in Tables
    PROVE  LET q == [r EXCEPT !.todo = @ \ {t}] IN
           q \in Tasks /\ q.pc = r.pc /\ q.todo = r.todo \ {t} /\ q.tables = r.tables /\ q.hand = r.hand
BY DEF Tasks

LEMMA ToCacheTyped ==
    ASSUME NEW r \in Tasks
    PROVE  /\ ToCache(r) \in Tasks /\ ToCache(r).pc = "cache"
           /\ ToCache(r).todo = r.tables /\ ToCache(r).tables = r.tables
BY DEF ToCache, Tasks, Pcs

LEMMA DoneTyped ==
    ASSUME NEW r \in Tasks, NEW t \in Tables
    PROVE  LET q == [r EXCEPT !.pc = "cache", !.todo = @ \ {t}, !.hand = None, !.seen[t] = None] IN
           q \in Tasks /\ q.pc = "cache" /\ q.todo = r.todo \ {t} /\ q.tables = r.tables
BY DEF Tasks, Pcs, Targets

LEMMA HandTyped ==
    ASSUME NEW r \in Tasks, NEW t \in Tables, NEW pc \in {"lookup", "relookup"}
    PROVE  LET q == [r EXCEPT !.pc = pc, !.hand = t] IN
           q \in Tasks /\ q.pc = pc /\ q.todo = r.todo /\ q.tables = r.tables /\ q.hand = t
BY DEF Tasks, Pcs

LEMMA StoreTyped ==
    ASSUME NEW r \in Tasks, r.hand \in Tables, NEW n \in Nats
    PROVE  LET q == [r EXCEPT !.pc = "store", !.seen[r.hand] = n] IN
           q \in Tasks /\ q.pc = "store" /\ q.todo = r.todo /\ q.tables = r.tables /\ q.hand = r.hand
BY DEF Tasks, Pcs, Targets

LEMMA RestoreTyped ==
    ASSUME NEW r \in Tasks, r.hand \in Tables, NEW n \in Nats
    PROVE  LET q == [r EXCEPT !.pc = "restore", !.hand = None, !.seen[r.hand] = n] IN
           q \in Tasks /\ q.pc = "restore"
BY DEF Tasks, Pcs, Targets

-----------------------------------------------------------------------------
(* The inductive invariant.                                                *)

CachePcs == {"cache", "lookup", "store"}

(* What a caller has done so far, with V the tables whose VPC is known and *)
(* P those that have pointed here: it has pointed every table it may       *)
(* record, and learnt the VPC of those it has cached.                      *)
Sound(c, q, m, V, P) ==
    /\ q.pc \in {"lookup", "store", "relookup"} => q.hand \in Tables
    /\ q.pc \in {"lookup", "store"} => q.hand \in V
    /\ q.pc \in CachePcs => q.tables \ q.todo \subseteq V
    /\ c = "claim" \/ (c \in Loops /\ m = "auto") =>
          /\ q.pc = "claim" => q.tables \ q.todo \subseteq P
          /\ q.pc \in CachePcs => q.tables \subseteq P

(* Only a claim caches.                                                    *)
Claims(c, q) == c = "release" => q.pc \in {"idle", "restore", "relookup"}

TasksSound == \A c \in Callers : Sound(c, task[c], mode, vpc, pointed) /\ Claims(c, task[c])

(* What /claim recorded before it cached is still to be cached.            *)
Awaited(q) == IF q.pc \in CachePcs THEN q.todo ELSE {}
OwnedKnown == owned \subseteq vpc \cup Awaited(task["claim"])

RoutePointed == \A t \in Tables : route[t] = Me => t \in pointed

IInv == TypeOK /\ OwnedPointed /\ OwnedKnown /\ RoutePointed /\ TasksSound

(* A step of caller c that sets its local variables to q.                  *)
LEMMA LocalStep ==
    ASSUME TypeOK, NEW c \in Callers, NEW q \in Tasks, Goto(c, q)
    PROVE  /\ task' \in [Callers -> Tasks]
           /\ task'[c] = q
           /\ \A d \in Callers : d # c => task'[d] = task[d]
BY DEF TypeOK, Goto

LEMMA SoundMonotone ==
    ASSUME NEW c, NEW q, NEW m, NEW V, NEW W, NEW P, NEW Q, V \subseteq W, P \subseteq Q,
           Sound(c, q, m, V, P)
    PROVE  Sound(c, q, m, W, Q)
BY DEF Sound

(* Such a step leaves the others sound if knowledge only grows.            *)
LEMMA Frame ==
    ASSUME TypeOK, TasksSound, NEW c \in Callers, NEW q \in Tasks, Goto(c, q),
           mode' = mode, vpc \subseteq vpc', pointed \subseteq pointed',
           Sound(c, q, mode, vpc', pointed'), Claims(c, q)
    PROVE  TasksSound' /\ task' \in [Callers -> Tasks]
<1>1. /\ task' \in [Callers -> Tasks] /\ task'[c] = q
      /\ \A d \in Callers : d # c => task'[d] = task[d]
  BY LocalStep
<1>2. \A d \in Callers : Sound(d, task'[d], mode, vpc', pointed') /\ Claims(d, task'[d])
  <2> TAKE d \in Callers
  <2>1. CASE d = c
    BY <1>1, <2>1
  <2>2. CASE d # c
    <3>1. Sound(d, task[d], mode, vpc, pointed) /\ Claims(d, task[d])
      BY DEF TasksSound
    <3>2. Sound(d, task[d], mode, vpc', pointed')
      BY <3>1, SoundMonotone, Zenon
    <3> QED
      BY <1>1, <2>2, <3>1, <3>2
  <2> QED
    BY <2>1, <2>2
<1> QED
  BY <1>1, <1>2 DEF TasksSound

LEMMA IdleSound ==
    ASSUME NEW c \in Callers, NEW m, NEW V, NEW P, NEW pc \in {"idle", "pending", "discover", "publish"}
    PROVE  Sound(c, AtPc(pc), m, V, P)
<1>1. AtPc(pc).pc = pc
  BY AtPcTyped DEF Pcs
<1> QED
  BY <1>1 DEF Sound, CachePcs

LEMMA IdleIs == Idle = AtPc("idle") /\ Idle \in Tasks /\ Idle.pc = "idle"
<1>1. Idle \in Tasks /\ Idle.pc = "idle"
  BY NoTargetsTyped DEF Idle, Tasks, Pcs
<1>2. Idle = AtPc("idle")
  BY DEF Idle, AtPc
<1> QED
  BY <1>1, <1>2

(* A caller that finishes, whatever it leaves behind.                      *)
LEMMA FinishSound ==
    ASSUME TypeOK, TasksSound, NEW c \in Callers, Finish(c),
           mode' = mode, vpc \subseteq vpc', pointed \subseteq pointed'
    PROVE  /\ TasksSound' /\ task' \in [Callers -> Tasks]
           /\ task'[c].pc \in {"idle", "publish"}
           /\ \A d \in Callers : d # c => task'[d] = task[d]
<1> DEFINE q == IF c = "reconcile" THEN AtPc("publish") ELSE Idle
<1>1. q \in Tasks /\ q.pc \in {"idle", "publish"} /\ (c = "release" => q.pc = "idle")
  BY AtPcTyped, IdleIs DEF Pcs
<1>2. Sound(c, q, mode, vpc', pointed')
  BY IdleSound, IdleIs
<1>3. Claims(c, q) /\ Goto(c, q)
  BY <1>1 DEF Claims, Finish
<1> HIDE DEF q
<1>4. TasksSound' /\ task' \in [Callers -> Tasks]
  BY <1>1, <1>2, <1>3, Frame, Zenon
<1> QED
  BY <1>1, <1>3, <1>4, LocalStep

-----------------------------------------------------------------------------
(* The steps of a caller.                                                  *)

(* A step of caller c that may also touch the memory and the routes.       *)
LEMMA CallerStep ==
    ASSUME IInv, NEW c \in Callers, NEW q \in Tasks, Goto(c, q), Claims(c, q),
           UNCHANGED world, left' \in 0..MaxEvents,
           vpc \subseteq vpc', vpc' \subseteq Tables,
           pointed \subseteq pointed', pointed' \subseteq Tables, RoutePointed',
           route' \in [Tables -> Targets \cup {Me, Other}],
           target' \in [Tables -> Targets], gauge' \subseteq Tables,
           owned' \subseteq Tables, owned' \subseteq pointed',
           Sound(c, q, mode, vpc', pointed'),
           owned' \subseteq vpc' \cup Awaited(task'["claim"])
    PROVE  IInv'
<1>1. TasksSound' /\ task' \in [Callers -> Tasks]
  <2>1. TypeOK /\ TasksSound /\ mode' = mode
    BY DEF IInv, world
  <2> QED
    BY <2>1, Frame
<1>2. TypeOK'
  BY <1>1 DEF IInv, TypeOK, world
<1> QED
  BY <1>1, <1>2 DEF IInv, OwnedPointed, OwnedKnown

(* A step of caller c that touches nothing but its local variables.        *)
LEMMA QuietStep ==
    ASSUME IInv, NEW c \in Callers, NEW q \in Tasks, Goto(c, q), Claims(c, q),
           UNCHANGED <<memory, world, route, gauge, pointed>>, left' \in 0..MaxEvents,
           Sound(c, q, mode, vpc, pointed),
           c = "claim" => Awaited(task["claim"]) \subseteq vpc \cup Awaited(q)
    PROVE  IInv'
<1>1. owned' \subseteq vpc' \cup Awaited(task'["claim"])
  <2>1. task'[c] = q /\ \A d \in Callers : d # c => task'[d] = task[d]
    BY LocalStep DEF IInv
  <2>2. owned' = owned /\ vpc' = vpc /\ owned \subseteq vpc \cup Awaited(task["claim"])
    BY DEF IInv, OwnedKnown, memory
  <2>3. CASE c = "claim"
    BY <2>1, <2>2, <2>3
  <2>4. CASE c # "claim"
    <3>1. task'["claim"] = task["claim"]
      BY <2>1, <2>4 DEF Callers, Claimers
    <3> QED
      BY <2>2, <3>1
  <2> QED
    BY <2>3, <2>4
<1>2. /\ UNCHANGED world /\ vpc' = vpc /\ pointed' = pointed /\ route' = route
      /\ target' = target /\ gauge' = gauge /\ owned' = owned
  BY DEF memory
<1>3. /\ RoutePointed' /\ route' \in [Tables -> Targets \cup {Me, Other}]
      /\ vpc' \subseteq Tables /\ pointed' \subseteq Tables
      /\ target' \in [Tables -> Targets] /\ gauge' \subseteq Tables
      /\ owned' \subseteq Tables /\ owned' \subseteq pointed'
  BY <1>2 DEF IInv, TypeOK, RoutePointed, OwnedPointed
<1>4. Sound(c, q, mode, vpc', pointed') /\ vpc \subseteq vpc' /\ pointed \subseteq pointed'
  BY <1>2
<1> QED
  BY <1>1, <1>2, <1>3, <1>4, CallerStep

(* A caller at a place where it neither claims nor releases.               *)
LEMMA RestStep ==
    ASSUME IInv, NEW c \in Callers, NEW pc \in {"idle", "pending", "discover", "publish"},
           Goto(c, AtPc(pc)), c = "release" => pc = "idle",
           UNCHANGED <<memory, world, route, gauge, pointed>>, left' \in 0..MaxEvents,
           c = "claim" => Awaited(task["claim"]) = {}
    PROVE  IInv'
<1>1. AtPc(pc) \in Tasks /\ AtPc(pc).pc = pc
  BY AtPcTyped DEF Pcs
<1>2. Claims(c, AtPc(pc))
  BY <1>1 DEF Claims
<1>3. Sound(c, AtPc(pc), mode, vpc, pointed)
  BY IdleSound
<1> QED
  BY <1>1, <1>2, <1>3, QuietStep

LEMMA LeftStays == TypeOK /\ UNCHANGED left => left' \in 0..MaxEvents
BY DEF TypeOK

LEMMA Spent == TypeOK /\ Spend => left' \in 0..MaxEvents
BY ReconcilerAssumption DEF TypeOK, Spend

(* What an EC2 call that points a route leaves behind.                     *)
LEMMA PointTyped ==
    ASSUME TypeOK, RoutePointed, NEW t \in Tables, NEW x \in Targets \cup {Me, Other}, Point(t, x)
    PROVE  /\ route' \in [Tables -> Targets \cup {Me, Other}]
           /\ pointed \subseteq pointed' /\ pointed' \subseteq Tables
           /\ x = Me => t \in pointed'
           /\ RoutePointed'
BY DEF TypeOK, RoutePointed, Point

(* How a caller finishes.                                                  *)
LEMMA FinishIs ==
    ASSUME NEW c \in Callers, Finish(c)
    PROVE  \E pc \in {"idle", "publish"} : Goto(c, AtPc(pc)) /\ (pc = "publish" => c = "reconcile")
<1>1. CASE c = "reconcile"
  BY <1>1 DEF Finish
<1>2. CASE c # "reconcile"
  <2>1. Goto(c, AtPc("idle"))
    BY <1>2, IdleIs DEF Finish
  <2> QED
    BY <2>1
<1> QED
  BY <1>1, <1>2

LEMMA FinishStep ==
    ASSUME IInv, NEW c \in Callers, Finish(c), left' \in 0..MaxEvents,
           UNCHANGED <<memory, world, route, gauge, pointed>>,
           c = "claim" => Awaited(task["claim"]) = {}
    PROVE  IInv'
<1>1. PICK pc \in {"idle", "publish"} : Goto(c, AtPc(pc)) /\ (pc = "publish" => c = "reconcile")
  BY FinishIs
<1>2. c = "release" => pc = "idle"
  BY <1>1
<1>3. pc \in {"idle", "pending", "discover", "publish"}
  OBVIOUS
<1> QED
  BY <1>1, <1>2, <1>3, RestStep

-----------------------------------------------------------------------------
(* Who calls, and when.                                                    *)

LEMMA InitInv == Init => IInv
<1> SUFFICES ASSUME Init PROVE IInv
  OBVIOUS
<1>1. Idle \in Tasks /\ Idle.pc = "idle"
  BY IdleIs
<1>2. TypeOK
  <2>1. task \in [Callers -> Tasks]
    BY <1>1 DEF Init
  <2>2. target \in [Tables -> Targets]
    BY NoTargetsTyped DEF Init
  <2>3. left \in 0..MaxEvents
    BY ReconcilerAssumption DEF Init
  <2>4. serving \in BOOLEAN
    BY DEF Init
  <2>5. /\ mode \in {"auto", "manual"} /\ route \in [Tables -> Targets \cup {Me, Other}]
        /\ tagged \subseteq Tables /\ nats \subseteq Nats
        /\ owned \subseteq Tables /\ vpc \subseteq Tables
        /\ gauge \subseteq Tables /\ pointed \subseteq Tables
    BY DEF Init
  <2> QED
    BY <2>1, <2>2, <2>3, <2>4, <2>5 DEF TypeOK
<1>3. TasksSound
  <2> SUFFICES ASSUME NEW c \in Callers
               PROVE  Sound(c, Idle, mode, vpc, pointed) /\ Claims(c, Idle)
    BY DEF Init, TasksSound
  <2> QED
    BY <1>1 DEF Sound, Claims, CachePcs
<1> QED
  BY <1>2, <1>3 DEF IInv, Init, OwnedPointed, OwnedKnown, RoutePointed

LEMMA LeaseTickInv == IInv /\ LeaseTick => IInv'
<1> SUFFICES ASSUME IInv, LeaseTick PROVE IInv'
  OBVIOUS
<1>1. /\ Goto("lease", AtPc("pending")) /\ UNCHANGED left
      /\ UNCHANGED <<memory, world, route, gauge, pointed>>
  BY DEF LeaseTick
<1>2. left' \in 0..MaxEvents
  BY <1>1, LeftStays DEF IInv
<1> QED
  BY <1>1, <1>2, RestStep DEF Callers, Claimers, Loops

LEMMA PendingInv == IInv /\ Pending => IInv'
<1> SUFFICES ASSUME IInv, Pending PROVE IInv'
  OBVIOUS
<1>1. UNCHANGED left /\ UNCHANGED <<memory, world, route, gauge, pointed>> /\ "lease" \in Callers
  BY DEF Pending, Callers, Claimers, Loops
<1>2. left' \in 0..MaxEvents
  BY <1>1, LeftStays DEF IInv
<1>3. CASE OwnClaimPending
  <2>1. Goto("lease", AtPc("discover"))
    BY <1>3 DEF Pending
  <2> QED
    BY <1>1, <1>2, <2>1, RestStep
<1>4. CASE ~OwnClaimPending
  <2>1. Finish("lease")
    BY <1>4 DEF Pending
  <2> QED
    BY <1>1, <1>2, <2>1, FinishStep
<1> QED
  BY <1>3, <1>4

(* Standing by empties owned, which only makes the invariant easier.       *)
LEMMA ReconcileTickInv == IInv /\ ReconcileTick => IInv'
<1> SUFFICES ASSUME IInv, ReconcileTick PROVE IInv'
  OBVIOUS
<1>1. "reconcile" \in Callers
  BY DEF Callers, Claimers, Loops
<1>2. left' \in 0..MaxEvents
  BY LeftStays DEF IInv, ReconcileTick
<1>3. CASE serving
  <2>1. Goto("reconcile", AtPc("discover")) /\ UNCHANGED <<memory, world, route, gauge, pointed>>
    BY <1>3 DEF ReconcileTick, memory
  <2> QED
    BY <1>1, <1>2, <2>1, RestStep
<1>4. CASE ~serving
  <2>1. /\ Finish("reconcile") /\ owned' = {} /\ gauge' = gauge \ owned
        /\ UNCHANGED <<target, vpc, world, route, pointed>>
    BY <1>4 DEF ReconcileTick
  <2>2. Goto("reconcile", AtPc("publish"))
    BY <2>1 DEF Finish
  <2>3. AtPc("publish") \in Tasks /\ AtPc("publish").pc = "publish"
    BY AtPcTyped DEF Pcs
  <2>4. Claims("reconcile", AtPc("publish")) /\ Sound("reconcile", AtPc("publish"), mode, vpc', pointed')
    BY IdleSound, <1>1 DEF Claims
  <2>5. /\ gauge' \subseteq Tables /\ owned' \subseteq Tables /\ owned' \subseteq pointed'
        /\ vpc \subseteq vpc' /\ vpc' \subseteq Tables /\ pointed \subseteq pointed' /\ pointed' \subseteq Tables
        /\ route' \in [Tables -> Targets \cup {Me, Other}] /\ target' \in [Tables -> Targets]
        /\ RoutePointed' /\ owned' \subseteq vpc' \cup Awaited(task'["claim"])
    BY <2>1 DEF IInv, TypeOK, RoutePointed
  <2> QED
    BY <1>1, <1>2, <2>1, <2>2, <2>3, <2>4, <2>5, CallerStep
<1> QED
  BY <1>3, <1>4

LEMMA PublishInv == IInv /\ Publish => IInv'
<1> SUFFICES ASSUME IInv, Publish PROVE IInv'
  OBVIOUS
<1>1. /\ gauge' = gauge \cup owned /\ Goto("reconcile", Idle)
      /\ UNCHANGED <<memory, world, route, pointed>> /\ "reconcile" \in Callers
  BY DEF Publish, Callers, Claimers, Loops
<1>2. left' \in 0..MaxEvents
  BY LeftStays DEF IInv, Publish
<1>3. task'["claim"] = task["claim"]
  BY LocalStep, <1>1, IdleIs DEF IInv, Callers, Claimers
<1>4. Idle \in Tasks /\ Claims("reconcile", Idle) /\ Sound("reconcile", Idle, mode, vpc', pointed')
  BY IdleIs, IdleSound, <1>1 DEF Claims
<1>5. /\ gauge' \subseteq Tables /\ owned' \subseteq Tables /\ owned' \subseteq pointed'
      /\ vpc \subseteq vpc' /\ vpc' \subseteq Tables /\ pointed \subseteq pointed' /\ pointed' \subseteq Tables
      /\ route' \in [Tables -> Targets \cup {Me, Other}] /\ target' \in [Tables -> Targets]
      /\ RoutePointed' /\ owned' \subseteq vpc' \cup Awaited(task'["claim"])
  BY <1>1, <1>3 DEF IInv, TypeOK, RoutePointed, memory, OwnedPointed, OwnedKnown
<1> QED
  BY <1>1, <1>2, <1>4, <1>5, CallerStep

LEMMA ClaimRequestInv == IInv /\ ClaimRequest => IInv'
<1> SUFFICES ASSUME IInv, ClaimRequest PROVE IInv'
  OBVIOUS
<1>1. /\ Goto("claim", AtPc("discover")) /\ "claim" \in Callers
      /\ UNCHANGED <<memory, world, route, gauge, pointed>>
  BY DEF ClaimRequest, Callers, Claimers
<1>2. left' \in 0..MaxEvents
  BY Spent DEF IInv, ClaimRequest
<1>3. Awaited(task["claim"]) = {}
  BY DEF ClaimRequest, At, Awaited, CachePcs
<1> QED
  BY <1>1, <1>2, <1>3, RestStep

-----------------------------------------------------------------------------
(* A claim.                                                                *)

(* On to the first table to point, or to the first to cache.               *)
LEMMA GotoClaimStep ==
    ASSUME IInv, NEW c \in Callers, NEW r \in Tasks, r.pc = "claim", GotoClaim(c, r),
           c # "release", c = "claim" => Awaited(task["claim"]) = {},
           UNCHANGED <<memory, world, gauge>>, left' \in 0..MaxEvents,
           pointed \subseteq pointed', pointed' \subseteq Tables, RoutePointed',
           route' \in [Tables -> Targets \cup {Me, Other}],
           c = "claim" \/ mode = "auto" => r.tables \ r.todo \subseteq pointed'
    PROVE  IInv'
<1>1. \E q \in Tasks : /\ Goto(c, q) /\ q.tables = r.tables
                       /\ \/ q = r
                          \/ q.pc = "cache" /\ q.todo = q.tables /\ r.todo = {} /\ c # "claim"
  <2>1. CASE r.todo = {} /\ c # "claim"
    BY <2>1, ToCacheTyped DEF GotoClaim
  <2>2. CASE ~(r.todo = {} /\ c # "claim")
    BY <2>2 DEF GotoClaim
  <2> QED
    BY <2>1, <2>2
<1>2. PICK q \in Tasks : /\ Goto(c, q) /\ q.tables = r.tables
                        /\ \/ q = r
                           \/ q.pc = "cache" /\ q.todo = q.tables /\ r.todo = {} /\ c # "claim"
  BY <1>1
<1>3. Claims(c, q)
  BY DEF Claims
<1>4. Sound(c, q, mode, vpc', pointed')
  BY <1>2 DEF Sound, CachePcs, Loops
<1>5. owned' \subseteq vpc' \cup Awaited(task'["claim"])
  <2>1. \A d \in Callers : d # c => task'[d] = task[d]
    BY LocalStep, <1>2 DEF IInv
  <2>2. CASE c = "claim"
    BY <2>2 DEF IInv, OwnedKnown, memory
  <2>3. CASE c # "claim"
    BY <2>1, <2>3 DEF IInv, OwnedKnown, memory, Callers, Claimers
  <2> QED
    BY <2>2, <2>3
<1>6. /\ target' \in [Tables -> Targets] /\ gauge' \subseteq Tables
      /\ owned' \subseteq Tables /\ owned' \subseteq pointed'
      /\ vpc \subseteq vpc' /\ vpc' \subseteq Tables /\ UNCHANGED world
  BY DEF IInv, TypeOK, OwnedPointed, memory
<1> QED
  BY <1>2, <1>3, <1>4, <1>5, <1>6, CallerStep

(* What points here already needs no claiming.                             *)
LEMMA DiscoverInv == ASSUME IInv, NEW c \in Claimers, Discover(c) PROVE IInv'
<1>1. /\ c \in Callers /\ c # "release" /\ left' \in 0..MaxEvents
      /\ UNCHANGED <<memory, world, route, gauge, pointed>>
  BY LeftStays DEF Discover, Callers, Claimers, Loops, IInv
<1>2. c = "claim" => Awaited(task["claim"]) = {}
  BY DEF Discover, At, Awaited, CachePcs
<1>3. CASE tagged = {}
  <2>1. Finish(c)
    BY <1>3 DEF Discover
  <2> QED
    BY <1>1, <1>2, <2>1, FinishStep
<1>4. CASE tagged # {}
  <2> DEFINE s == [t \in Tables |->
                     IF t \in tagged /\ route[t] \in Nats THEN route[t] ELSE None]
             r == [AtPc("claim") EXCEPT !.todo = ToClaim(c), !.tables = tagged, !.seen = s]
  <2>1. GotoClaim(c, r)
    BY <1>4 DEF Discover
  <2>2. s \in [Tables -> Targets]
    BY DEF Targets
  <2>3. ToClaim(c) \in SUBSET Tables /\ tagged \in SUBSET Tables
    BY DEF ToClaim, IInv, TypeOK
  <2>4. r \in Tasks /\ r.pc = "claim" /\ r.todo = ToClaim(c) /\ r.tables = tagged
    <3> HIDE DEF s
    <3> QED
      BY <2>2, <2>3, NoTargetsTyped DEF AtPc, Idle, Tasks, Pcs
  <2>5. c = "claim" \/ mode = "auto" => tagged \ ToClaim(c) \subseteq pointed'
    BY <1>1 DEF ToClaim, IInv, RoutePointed, TypeOK
  <2> HIDE DEF r
  <2>6. /\ pointed \subseteq pointed' /\ pointed' \subseteq Tables /\ RoutePointed'
        /\ route' \in [Tables -> Targets \cup {Me, Other}]
    BY <1>1 DEF IInv, TypeOK, RoutePointed
  <2> QED
    BY <1>1, <1>2, <2>1, <2>4, <2>5, <2>6, GotoClaimStep
<1> QED
  BY <1>3, <1>4

LEMMA ClaimInv == ASSUME IInv, NEW c \in Claimers, Claim(c) PROVE IInv'
<1>1. PICK t \in task[c].todo : Point(t, Me) /\ GotoClaim(c, [task[c] EXCEPT !.todo = @ \ {t}])
  BY DEF Claim
<1>2. /\ c \in Callers /\ c # "release" /\ task[c].pc = "claim" /\ task[c] \in Tasks
      /\ UNCHANGED <<memory, world, gauge>> /\ left' \in 0..MaxEvents
  BY LeftStays DEF Claim, At, Callers, Claimers, Loops, IInv, TypeOK
<1>3. t \in Tables
  BY <1>1, <1>2 DEF Tasks
<1> DEFINE r == [task[c] EXCEPT !.todo = @ \ {t}]
<1>4. r \in Tasks /\ r.pc = "claim" /\ r.todo = task[c].todo \ {t} /\ r.tables = task[c].tables
  BY <1>2, <1>3, LessTyped
<1>5. GotoClaim(c, r)
  BY <1>1
<1> HIDE DEF r
<1>6. /\ pointed \subseteq pointed' /\ pointed' \subseteq Tables /\ RoutePointed' /\ t \in pointed'
      /\ route' \in [Tables -> Targets \cup {Me, Other}]
  BY <1>1, <1>3, PointTyped DEF IInv
<1>7. c = "claim" \/ mode = "auto" => r.tables \ r.todo \subseteq pointed'
  <2>1. Sound(c, task[c], mode, vpc, pointed)
    BY <1>2 DEF IInv, TasksSound
  <2>2. c = "claim" \/ mode = "auto" => task[c].tables \ task[c].todo \subseteq pointed
    BY <1>2, <2>1 DEF Sound, Claimers
  <2> QED
    BY <1>4, <1>6, <2>2
<1>8. c = "claim" => Awaited(task["claim"]) = {}
  BY <1>2 DEF Awaited, CachePcs
<1> QED
  BY <1>2, <1>4, <1>5, <1>6, <1>7, <1>8, GotoClaimStep

(* A claim that fails may have pointed one more route.                     *)
LEMMA ClaimFaultInv == ASSUME IInv, NEW c \in Claimers, ClaimFault(c) PROVE IInv'
<1>1. /\ c \in Callers /\ c # "release" /\ task[c] \in Tasks /\ Finish(c)
      /\ UNCHANGED <<memory, world, gauge>> /\ left' \in 0..MaxEvents
  BY Spent DEF ClaimFault, Callers, Claimers, Loops, IInv, TypeOK
<1>2. c = "claim" => Awaited(task["claim"]) = {}
  BY DEF ClaimFault, At, Awaited, CachePcs
<1>3. CASE UNCHANGED <<route, pointed>>
  BY <1>1, <1>2, <1>3, FinishStep
<1>4. CASE \E t \in task[c].todo : Point(t, Me)
  <2>1. PICK t \in task[c].todo : Point(t, Me)
    BY <1>4
  <2>2. t \in Tables
    BY <1>1, <2>1 DEF Tasks
  <2>3. /\ pointed \subseteq pointed' /\ pointed' \subseteq Tables /\ RoutePointed'
        /\ route' \in [Tables -> Targets \cup {Me, Other}]
    BY <2>1, <2>2, PointTyped DEF IInv
  <2>4. PICK pc \in {"idle", "publish"} : Goto(c, AtPc(pc))
    BY <1>1, FinishIs
  <2>5. AtPc(pc) \in Tasks /\ Claims(c, AtPc(pc)) /\ Sound(c, AtPc(pc), mode, vpc', pointed')
    BY <1>1, AtPcTyped, IdleSound DEF Pcs, Claims
  <2>6. owned' \subseteq vpc' \cup Awaited(task'["claim"])
    <3>1. \A d \in Callers : d # c => task'[d] = task[d]
      BY LocalStep, <2>4, <2>5, <1>1 DEF IInv
    <3>2. owned' = owned /\ vpc' = vpc /\ owned \subseteq vpc \cup Awaited(task["claim"])
      BY <1>1 DEF IInv, OwnedKnown, memory
    <3>3. CASE c = "claim"
      BY <1>2, <3>2, <3>3
    <3>4. CASE c # "claim"
      BY <3>1, <3>2, <3>4 DEF Callers, Claimers
    <3> QED
      BY <3>3, <3>4
  <2>7. /\ target' \in [Tables -> Targets] /\ gauge' \subseteq Tables
        /\ owned' \subseteq Tables /\ owned' \subseteq pointed'
        /\ vpc \subseteq vpc' /\ vpc' \subseteq Tables /\ UNCHANGED world
    BY <1>1, <2>3 DEF IInv, TypeOK, OwnedPointed, memory
  <2> QED
    BY <1>1, <2>3, <2>4, <2>5, <2>6, <2>7, CallerStep
<1> QED
  BY <1>3, <1>4 DEF ClaimFault

(* /claim records the tables it has pointed, before it caches them.        *)
LEMMA ClaimedInv == IInv /\ Claimed => IInv'
<1> SUFFICES ASSUME IInv, Claimed PROVE IInv'
  OBVIOUS
<1> DEFINE r == task["claim"]
<1>1. /\ "claim" \in Callers /\ r \in Tasks /\ r.pc = "claim" /\ r.todo = {} /\ owned' = r.tables
      /\ Goto("claim", ToCache(r)) /\ UNCHANGED <<target, vpc, world, route, gauge, pointed>>
  BY DEF Claimed, At, IInv, TypeOK, Callers, Claimers
<1>2. left' \in 0..MaxEvents
  BY LeftStays DEF Claimed, IInv
<1>3. r.tables \subseteq pointed /\ r.tables \subseteq Tables
  BY <1>1 DEF IInv, TasksSound, Sound, Tasks
<1> HIDE DEF r
<1> DEFINE q == ToCache(r)
<1>4. q \in Tasks /\ q.pc = "cache" /\ q.todo = r.tables /\ q.tables = r.tables
  BY <1>1, ToCacheTyped
<1>5. Goto("claim", q)
  BY <1>1
<1> HIDE DEF q
<1>6. Claims("claim", q) /\ Sound("claim", q, mode, vpc', pointed')
  BY <1>1, <1>3, <1>4 DEF Claims, Sound, CachePcs
<1>7. task'["claim"] = q
  BY <1>1, <1>4, <1>5, LocalStep DEF IInv
<1>8. owned' \subseteq vpc' \cup Awaited(task'["claim"])
  BY <1>1, <1>4, <1>7 DEF Awaited, CachePcs
<1>9. /\ gauge' \subseteq Tables /\ owned' \subseteq Tables /\ owned' \subseteq pointed'
      /\ vpc \subseteq vpc' /\ vpc' \subseteq Tables /\ pointed \subseteq pointed' /\ pointed' \subseteq Tables
      /\ route' \in [Tables -> Targets \cup {Me, Other}] /\ target' \in [Tables -> Targets]
      /\ RoutePointed'
  BY <1>1, <1>3 DEF IInv, TypeOK, RoutePointed
<1> QED
  BY <1>1, <1>2, <1>4, <1>5, <1>6, <1>8, <1>9, CallerStep

(* A step of a caller that caches: it may learn targets and VPCs, and has  *)
(* cached every table it has taken off its list.                           *)
LEMMA CacheStep ==
    ASSUME IInv, NEW c \in Claimers, NEW q \in Tasks, Goto(c, q), task[c].pc \in CachePcs,
           q.pc \in CachePcs, q.pc \in {"lookup", "store"} => q.hand \in Tables \cap vpc',
           q.tables = task[c].tables, q.todo \subseteq task[c].todo,
           task[c].todo \ q.todo \subseteq vpc',
           UNCHANGED <<owned, world, route, gauge, pointed>>, left' \in 0..MaxEvents,
           vpc \subseteq vpc', vpc' \subseteq Tables, target' \in [Tables -> Targets]
    PROVE  IInv'
<1>1. c \in Callers /\ c # "release" /\ Sound(c, task[c], mode, vpc, pointed)
  BY DEF Callers, Claimers, Loops, IInv, TasksSound
<1>2. Claims(c, q)
  BY <1>1 DEF Claims
<1>3. Sound(c, q, mode, vpc', pointed')
  BY <1>1 DEF Sound, CachePcs
<1>4. owned' \subseteq vpc' \cup Awaited(task'["claim"])
  <2>1. task'[c] = q /\ \A d \in Callers : d # c => task'[d] = task[d]
    BY LocalStep, <1>1 DEF IInv
  <2>2. owned' = owned /\ owned \subseteq vpc \cup Awaited(task["claim"])
    BY DEF IInv, OwnedKnown
  <2>3. CASE c = "claim"
    BY <2>1, <2>2, <2>3 DEF Awaited
  <2>4. CASE c # "claim"
    BY <2>1, <2>2, <2>4 DEF Callers, Claimers
  <2> QED
    BY <2>3, <2>4
<1>5. /\ gauge' \subseteq Tables /\ owned' \subseteq Tables /\ owned' \subseteq pointed'
      /\ pointed \subseteq pointed' /\ pointed' \subseteq Tables
      /\ route' \in [Tables -> Targets \cup {Me, Other}] /\ RoutePointed' /\ UNCHANGED world
  BY DEF IInv, TypeOK, RoutePointed, OwnedPointed
<1> QED
  BY <1>1, <1>2, <1>3, <1>4, <1>5, CallerStep

(* Done with a table whose VPC is known.                                   *)
LEMMA DoneStep ==
    ASSUME IInv, NEW c \in Claimers, NEW t \in Tables \cap vpc', Done(c, t),
           task[c].pc \in CachePcs,
           UNCHANGED <<owned, world, route, gauge, pointed>>, left' \in 0..MaxEvents,
           vpc \subseteq vpc', vpc' \subseteq Tables, target' \in [Tables -> Targets]
    PROVE  IInv'
<1> DEFINE q == [task[c] EXCEPT !.pc = "cache", !.todo = @ \ {t}, !.hand = None, !.seen[t] = None]
<1>1. task[c] \in Tasks /\ Goto(c, q)
  BY DEF IInv, TypeOK, Callers, Done
<1>2. q \in Tasks /\ q.pc = "cache" /\ q.todo = task[c].todo \ {t} /\ q.tables = task[c].tables
  BY <1>1, DoneTyped
<1> HIDE DEF q
<1>3. q.pc \in CachePcs /\ q.pc \notin {"lookup", "store"}
  BY <1>2 DEF CachePcs
<1>4. q.todo \subseteq task[c].todo /\ task[c].todo \ q.todo \subseteq vpc'
  BY <1>2
<1> QED
  BY <1>1, <1>2, <1>3, <1>4, CacheStep

LEMMA RememberTyped ==
    ASSUME TypeOK, NEW t \in Tables, NEW x \in Targets,
           target' = IF target[t] = None THEN [target EXCEPT ![t] = x] ELSE target
    PROVE  target' \in [Tables -> Targets]
BY DEF TypeOK

LEMMA CacheInv == ASSUME IInv, NEW c \in Claimers, Cache(c) PROVE IInv'
<1>1. PICK t \in task[c].todo :
        /\ vpc' = vpc \cup {t}
        /\ target' = IF target[t] = None THEN [target EXCEPT ![t] = task[c].seen[t]] ELSE target
        /\ IF target'[t] = None
             THEN Goto(c, [task[c] EXCEPT !.pc = "lookup", !.hand = t])
             ELSE Done(c, t)
  BY DEF Cache
<1>2. /\ UNCHANGED <<owned, world, route, gauge, pointed>> /\ left' \in 0..MaxEvents
      /\ task[c] \in Tasks /\ task[c].pc = "cache" /\ TypeOK
  BY LeftStays DEF Cache, At, IInv, TypeOK, Callers
<1>3. t \in Tables /\ task[c].seen[t] \in Targets
  BY <1>1, <1>2 DEF Tasks
<1>4. target' \in [Tables -> Targets]
  BY <1>1, <1>2, <1>3, RememberTyped
<1>5. vpc \subseteq vpc' /\ vpc' \subseteq Tables /\ t \in Tables \cap vpc'
  BY <1>1, <1>2, <1>3 DEF TypeOK
<1>6. task[c].pc \in CachePcs
  BY <1>2 DEF CachePcs
<1>7. CASE target'[t] = None
  <2> DEFINE q == [task[c] EXCEPT !.pc = "lookup", !.hand = t]
  <2>1. Goto(c, q)
    BY <1>1, <1>7
  <2>2. q \in Tasks /\ q.pc = "lookup" /\ q.todo = task[c].todo /\ q.tables = task[c].tables /\ q.hand = t
    BY <1>2, <1>3, HandTyped
  <2> HIDE DEF q
  <2>3. /\ q.pc \in CachePcs /\ q.hand \in Tables \cap vpc'
        /\ q.todo \subseteq task[c].todo /\ task[c].todo \ q.todo \subseteq vpc'
    BY <1>5, <2>2 DEF CachePcs
  <2> QED
    BY <1>2, <1>4, <1>5, <1>6, <2>1, <2>2, <2>3, CacheStep
<1>8. CASE target'[t] # None
  <2>1. Done(c, t)
    BY <1>1, <1>8
  <2> QED
    BY <1>2, <1>4, <1>5, <1>6, <2>1, DoneStep
<1> QED
  BY <1>7, <1>8

(* A caller that looks a target up does so for a table whose VPC it knows. *)
LEMMA HandKnown ==
    ASSUME IInv, NEW c \in Claimers, task[c].pc \in {"lookup", "store"}
    PROVE  /\ task[c] \in Tasks /\ task[c].hand \in Tables \cap vpc
           /\ task[c].pc \in CachePcs
BY DEF IInv, TypeOK, TasksSound, Sound, CachePcs, Callers

LEMMA LookupAnswersInv == ASSUME IInv, NEW c \in Claimers, LookupAnswers(c) PROVE IInv'
<1>1. PICK n \in Lookup : Goto(c, [task[c] EXCEPT !.pc = "store", !.seen[task[c].hand] = n])
  BY DEF LookupAnswers
<1>2. /\ UNCHANGED <<memory, owned, vpc, target, world, route, gauge, pointed>>
      /\ left' \in 0..MaxEvents /\ task[c].pc \in {"lookup", "store"} /\ TypeOK
  BY LeftStays DEF LookupAnswers, At, IInv, memory
<1>3. n \in Nats
  BY <1>2 DEF Lookup, TypeOK
<1>4. /\ task[c] \in Tasks /\ task[c].hand \in Tables \cap vpc
      /\ task[c].pc \in CachePcs
  BY <1>2, HandKnown
<1> DEFINE q == [task[c] EXCEPT !.pc = "store", !.seen[task[c].hand] = n]
<1>5. /\ q \in Tasks /\ q.pc = "store" /\ q.todo = task[c].todo /\ q.tables = task[c].tables
      /\ q.hand = task[c].hand
  BY <1>3, <1>4, StoreTyped
<1>6. Goto(c, q)
  BY <1>1
<1> HIDE DEF q
<1>7. /\ q.pc \in CachePcs /\ q.hand \in Tables \cap vpc'
      /\ q.todo \subseteq task[c].todo /\ task[c].todo \ q.todo \subseteq vpc'
      /\ vpc \subseteq vpc' /\ vpc' \subseteq Tables /\ target' \in [Tables -> Targets]
  BY <1>2, <1>4, <1>5 DEF CachePcs, TypeOK
<1> QED
  BY <1>2, <1>4, <1>5, <1>6, <1>7, CacheStep

LEMMA LookupFailsInv == ASSUME IInv, NEW c \in Claimers, LookupFails(c) PROVE IInv'
<1>1. /\ UNCHANGED <<owned, vpc, target, world, route, gauge, pointed>>
      /\ left' \in 0..MaxEvents /\ task[c].pc \in {"lookup", "store"} /\ TypeOK
      /\ Done(c, task[c].hand)
  BY LeftStays, Spent DEF LookupFails, At, IInv, memory
<1>2. task[c].hand \in Tables \cap vpc /\ task[c].pc \in CachePcs
  BY <1>1, HandKnown
<1>3. /\ task[c].hand \in Tables \cap vpc'
      /\ vpc \subseteq vpc' /\ vpc' \subseteq Tables /\ target' \in [Tables -> Targets]
  BY <1>1, <1>2 DEF TypeOK
<1> QED
  BY <1>1, <1>2, <1>3, DoneStep

LEMMA StoreInv == ASSUME IInv, NEW c \in Claimers, Store(c) PROVE IInv'
<1> DEFINE t == task[c].hand
<1>1. /\ UNCHANGED <<owned, vpc, world, route, gauge, pointed>>
      /\ left' \in 0..MaxEvents /\ task[c].pc \in {"lookup", "store"} /\ TypeOK
      /\ Done(c, t)
      /\ target' = IF target[t] = None THEN [target EXCEPT ![t] = task[c].seen[t]] ELSE target
  BY LeftStays DEF Store, At, IInv
<1>2. t \in Tables \cap vpc /\ task[c].pc \in CachePcs /\ task[c] \in Tasks
  BY <1>1, HandKnown
<1>3. task[c].seen[t] \in Targets
  BY <1>2 DEF Tasks
<1> HIDE DEF t
<1>4. target' \in [Tables -> Targets]
  BY <1>1, <1>2, <1>3, RememberTyped
<1>5. t \in Tables \cap vpc' /\ vpc \subseteq vpc' /\ vpc' \subseteq Tables
  BY <1>1, <1>2 DEF TypeOK
<1> QED
  BY <1>1, <1>2, <1>4, <1>5, DoneStep

(* A loop records what it has pointed and cached.                          *)
LEMMA ConfirmInv == ASSUME IInv, NEW c \in Claimers, Confirm(c) PROVE IInv'
<1>1. /\ c \in Callers /\ c # "release" /\ task[c] \in Tasks /\ Finish(c)
      /\ task[c].pc = "cache" /\ task[c].todo = {}
      /\ UNCHANGED <<target, vpc, world, route, gauge, pointed>> /\ left' \in 0..MaxEvents
  BY LeftStays DEF Confirm, At, Callers, Claimers, Loops, IInv, TypeOK
<1>2. PICK pc \in {"idle", "publish"} : Goto(c, AtPc(pc))
  BY <1>1, FinishIs
<1>3. AtPc(pc) \in Tasks /\ Claims(c, AtPc(pc)) /\ Sound(c, AtPc(pc), mode, vpc', pointed')
  BY <1>1, AtPcTyped, IdleSound DEF Pcs, Claims
<1>4. \A d \in Callers : d # c => task'[d] = task[d]
  BY LocalStep, <1>1, <1>2, <1>3 DEF IInv
<1>5. /\ owned' \subseteq Tables /\ owned' \subseteq pointed
      /\ owned' \subseteq vpc \cup Awaited(task'["claim"])
  <2>1. CASE c # "claim" /\ mode # "manual"
    <3>1. owned' = task[c].tables
      BY <2>1 DEF Confirm
    <3>2. Sound(c, task[c], mode, vpc, pointed) /\ mode = "auto" /\ c \in Loops
      BY <1>1, <2>1 DEF IInv, TypeOK, TasksSound, Claimers
    <3>3. task[c].tables \subseteq vpc /\ task[c].tables \subseteq pointed
      BY <1>1, <3>2 DEF Sound, CachePcs
    <3> QED
      BY <3>1, <3>3 DEF IInv, TypeOK
  <2>2. CASE ~(c # "claim" /\ mode # "manual")
    <3>1. owned' = owned
      BY <2>2 DEF Confirm
    <3>2. CASE c = "claim"
      <4>1. Awaited(task["claim"]) = {}
        BY <1>1, <3>2 DEF Awaited
      <4> QED
        BY <3>1, <4>1 DEF IInv, TypeOK, OwnedPointed, OwnedKnown
    <3>3. CASE c # "claim"
      <4>1. task'["claim"] = task["claim"]
        BY <1>4, <3>3 DEF Callers, Claimers
      <4> QED
        BY <3>1, <4>1 DEF IInv, TypeOK, OwnedPointed, OwnedKnown
    <3> QED
      BY <3>2, <3>3
  <2> QED
    BY <2>1, <2>2
<1>6. /\ gauge' \subseteq Tables /\ pointed' = pointed /\ vpc' = vpc
      /\ vpc \subseteq Tables /\ pointed \subseteq Tables
      /\ route' \in [Tables -> Targets \cup {Me, Other}] /\ target' \in [Tables -> Targets]
      /\ RoutePointed'
  BY <1>1 DEF IInv, TypeOK, RoutePointed
<1> QED
  BY <1>1, <1>2, <1>3, <1>5, <1>6, CallerStep

-----------------------------------------------------------------------------
(* A release.                                                              *)

LEMMA ReleaseRequestInv == IInv /\ ReleaseRequest => IInv'
<1> SUFFICES ASSUME IInv, ReleaseRequest PROVE IInv'
  OBVIOUS
<1>1. /\ UNCHANGED <<memory, world, route, gauge, pointed>> /\ left' \in 0..MaxEvents
      /\ "release" \in Callers
  BY Spent DEF ReleaseRequest, IInv, Callers
<1> DEFINE q == [AtPc("restore") EXCEPT !.todo = owned, !.tables = vpc, !.seen = target]
<1>2. q \in Tasks /\ q.pc = "restore"
  BY NoTargetsTyped DEF IInv, TypeOK, AtPc, Idle, Tasks, Pcs
<1>3. CASE owned # {}
  <2>1. Goto("release", q)
    BY <1>3 DEF ReleaseRequest
  <2> HIDE DEF q
  <2>2. Claims("release", q) /\ Sound("release", q, mode, vpc, pointed)
    BY <1>2 DEF Claims, Sound, CachePcs, Loops
  <2> QED
    BY <1>1, <1>2, <2>1, <2>2, QuietStep
<1>4. CASE owned = {}
  <2>1. UNCHANGED <<memory, world, route, gauge, pointed, task>>
    BY <1>1, <1>4 DEF ReleaseRequest
  <2> QED
    BY <1>1, <2>1 DEF IInv, TypeOK, OwnedPointed, OwnedKnown, RoutePointed, TasksSound, memory, world
<1> QED
  BY <1>3, <1>4

(* A release step: it may point routes, and forget what is owned.          *)
LEMMA ReleaseStep ==
    ASSUME IInv, NEW q \in Tasks, Goto("release", q), q.pc \in {"idle", "restore", "relookup"},
           q.pc = "relookup" => q.hand \in Tables,
           UNCHANGED <<target, vpc, world, gauge>>, left' \in 0..MaxEvents,
           owned' \subseteq owned, RoutePointed',
           pointed \subseteq pointed', pointed' \subseteq Tables,
           route' \in [Tables -> Targets \cup {Me, Other}]
    PROVE  IInv'
<1>1. "release" \in Callers /\ "release" # "claim" /\ "release" \notin Loops /\ "claim" \in Callers
  BY DEF Callers, Claimers, Loops
<1>2. Claims("release", q) /\ Sound("release", q, mode, vpc', pointed')
  BY <1>1 DEF Claims, Sound, CachePcs
<1>3. task'["claim"] = task["claim"]
  BY <1>1, LocalStep DEF IInv
<1>4. /\ owned' \subseteq Tables /\ owned' \subseteq pointed'
      /\ owned' \subseteq vpc' \cup Awaited(task'["claim"])
      /\ vpc \subseteq vpc' /\ vpc' \subseteq Tables
      /\ target' \in [Tables -> Targets] /\ gauge' \subseteq Tables /\ UNCHANGED world
  BY <1>3 DEF IInv, TypeOK, OwnedPointed, OwnedKnown
<1> QED
  BY <1>1, <1>2, <1>4, CallerStep

LEMMA RouteStays ==
    ASSUME IInv, UNCHANGED <<route, pointed>>
    PROVE  /\ pointed \subseteq pointed' /\ pointed' \subseteq Tables /\ RoutePointed'
           /\ route' \in [Tables -> Targets \cup {Me, Other}]
BY DEF IInv, TypeOK, RoutePointed

LEMMA RestoreInv == IInv /\ Restore("release") => IInv'
<1> SUFFICES ASSUME IInv, Restore("release") PROVE IInv'
  OBVIOUS
<1> DEFINE r == task["release"]
<1>1. /\ UNCHANGED <<owned, target, vpc, world, gauge>> /\ left' \in 0..MaxEvents
      /\ r \in Tasks /\ r.pc = "restore" /\ TypeOK /\ RoutePointed
  BY LeftStays DEF Restore, At, IInv, TypeOK, Callers, memory
<1>2. PICK t \in r.todo :
          \/ /\ r.seen[t] \in nats
             /\ Point(t, r.seen[t])
             /\ Goto("release", [r EXCEPT !.todo = @ \ {t}])
          \/ /\ Goto("release", IF t \in r.tables
                          THEN [r EXCEPT !.pc = "relookup", !.hand = t]
                          ELSE [r EXCEPT !.todo = @ \ {t}])
             /\ UNCHANGED <<route, pointed>>
  BY DEF Restore
<1> HIDE DEF r
<1>3. t \in Tables
  BY <1>1, <1>2 DEF Tasks
<1> DEFINE less == [r EXCEPT !.todo = @ \ {t}]
           hand == [r EXCEPT !.pc = "relookup", !.hand = t]
<1>4. less \in Tasks /\ less.pc = "restore"
  BY <1>1, <1>3, LessTyped
<1>5. hand \in Tasks /\ hand.pc = "relookup" /\ hand.hand = t
  BY <1>1, <1>3, HandTyped
<1>6. \/ r.seen[t] \in nats /\ Point(t, r.seen[t]) /\ Goto("release", less)
      \/ (Goto("release", less) \/ Goto("release", hand)) /\ UNCHANGED <<route, pointed>>
  BY <1>2
<1> HIDE DEF less, hand
<1>7. /\ pointed \subseteq pointed' /\ pointed' \subseteq Tables /\ RoutePointed'
      /\ route' \in [Tables -> Targets \cup {Me, Other}]
  <2>1. CASE r.seen[t] \in nats /\ Point(t, r.seen[t])
    <3>1. r.seen[t] \in Targets \cup {Me, Other}
      BY <1>1, <2>1 DEF TypeOK, Targets
    <3> QED
      BY <1>1, <1>3, <2>1, <3>1, PointTyped
  <2>2. CASE UNCHANGED <<route, pointed>>
    BY <2>2, RouteStays
  <2> QED
    BY <1>6, <2>1, <2>2
<1>8. owned' \subseteq owned
  BY <1>1
<1>9. CASE Goto("release", less)
  <2>1. less.pc \in {"idle", "restore", "relookup"} /\ (less.pc = "relookup" => less.hand \in Tables)
    BY <1>4
  <2> QED
    BY <1>1, <1>4, <1>7, <1>8, <1>9, <2>1, ReleaseStep
<1>10. CASE Goto("release", hand)
  <2>1. hand.pc \in {"idle", "restore", "relookup"} /\ (hand.pc = "relookup" => hand.hand \in Tables)
    BY <1>3, <1>5
  <2> QED
    BY <1>1, <1>5, <1>7, <1>8, <1>10, <2>1, ReleaseStep
<1> QED
  BY <1>6, <1>9, <1>10

LEMMA RestoreLookupInv == IInv /\ RestoreLookup("release") => IInv'
<1> SUFFICES ASSUME IInv, RestoreLookup("release") PROVE IInv'
  OBVIOUS
<1> DEFINE r == task["release"]
<1>1. /\ UNCHANGED <<owned, target, vpc, world, route, gauge, pointed>> /\ left' \in 0..MaxEvents
      /\ r \in Tasks /\ r.pc = "relookup" /\ TypeOK /\ r.hand \in Tables
  BY LeftStays DEF RestoreLookup, At, IInv, TypeOK, TasksSound, Sound, Callers, memory
<1>2. PICK n \in Lookup :
          Goto("release", [r EXCEPT !.pc = "restore", !.hand = None, !.seen[r.hand] = n])
  BY DEF RestoreLookup
<1> HIDE DEF r
<1>3. n \in Nats
  BY <1>1 DEF Lookup, TypeOK
<1> DEFINE q == [r EXCEPT !.pc = "restore", !.hand = None, !.seen[r.hand] = n]
<1>4. q \in Tasks /\ q.pc = "restore"
  BY <1>1, <1>3, RestoreTyped
<1>5. Goto("release", q)
  BY <1>2
<1> HIDE DEF q
<1>6. /\ q.pc \in {"idle", "restore", "relookup"} /\ (q.pc = "relookup" => q.hand \in Tables)
      /\ owned' \subseteq owned
  BY <1>1, <1>4
<1> QED
  BY <1>1, <1>4, <1>5, <1>6, RouteStays, ReleaseStep

LEMMA RestoreFailsInv == IInv /\ RestoreFails("release") => IInv'
<1> SUFFICES ASSUME IInv, RestoreFails("release") PROVE IInv'
  OBVIOUS
<1> DEFINE r == task["release"]
<1>1. left' \in 0..MaxEvents
  <2>1. UNCHANGED left \/ Spend
    BY DEF RestoreFails
  <2> QED
    BY <2>1, LeftStays, Spent DEF IInv
<1>2. /\ UNCHANGED <<owned, target, vpc, world, gauge>> /\ Goto("release", Idle)
      /\ r \in Tasks /\ TypeOK /\ RoutePointed
  BY DEF RestoreFails, Finish, IInv, TypeOK, Callers, memory
<1>3. \/ UNCHANGED <<route, pointed>>
      \/ \E t \in r.todo : r.seen[t] \in nats /\ Point(t, r.seen[t])
  BY DEF RestoreFails
<1> HIDE DEF r
<1>4. /\ pointed \subseteq pointed' /\ pointed' \subseteq Tables /\ RoutePointed'
      /\ route' \in [Tables -> Targets \cup {Me, Other}]
  <2>1. ASSUME NEW t \in r.todo, r.seen[t] \in nats, Point(t, r.seen[t])
        PROVE  /\ pointed \subseteq pointed' /\ pointed' \subseteq Tables /\ RoutePointed'
               /\ route' \in [Tables -> Targets \cup {Me, Other}]
    <3>1. t \in Tables /\ r.seen[t] \in Targets \cup {Me, Other}
      BY <1>2, <2>1 DEF TypeOK, Targets, Tasks
    <3> QED
      BY <1>2, <2>1, <3>1, PointTyped
  <2>2. CASE UNCHANGED <<route, pointed>>
    BY <1>2, <2>2, RouteStays
  <2> QED
    BY <1>3, <2>1, <2>2
<1>5. /\ owned' \subseteq owned /\ Idle \in Tasks
      /\ Idle.pc \in {"idle", "restore", "relookup"} /\ (Idle.pc = "relookup" => Idle.hand \in Tables)
  BY <1>2, IdleIs
<1> QED
  BY <1>1, <1>2, <1>4, <1>5, ReleaseStep

LEMMA ReleasedInv == IInv /\ Released("release") => IInv'
<1> SUFFICES ASSUME IInv, Released("release") PROVE IInv'
  OBVIOUS
<1>1. /\ owned' = {} /\ Goto("release", Idle) /\ left' \in 0..MaxEvents
      /\ UNCHANGED <<target, vpc, world, route, gauge, pointed>>
  BY LeftStays DEF Released, Finish, IInv
<1>2. /\ owned' \subseteq owned /\ Idle \in Tasks
      /\ Idle.pc \in {"idle", "restore", "relookup"} /\ (Idle.pc = "relookup" => Idle.hand \in Tables)
  BY <1>1, IdleIs
<1> QED
  BY <1>1, <1>2, RouteStays, ReleaseStep

-----------------------------------------------------------------------------
(* The world.                                                              *)

LEMMA RestartInv == IInv /\ Restart => IInv'
<1> SUFFICES ASSUME IInv, Restart PROVE IInv'
  OBVIOUS
<1>1. /\ owned' = {} /\ vpc' = {} /\ gauge' = {} /\ target' = NoTargets
      /\ task' = [c \in Callers |-> Idle] /\ pointed' = {t \in Tables : route[t] = Me}
      /\ UNCHANGED <<world, route>> /\ left' \in 0..MaxEvents
  BY Spent DEF Restart, IInv
<1>2. Idle \in Tasks /\ Idle.pc = "idle"
  BY IdleIs
<1>3. TypeOK'
  BY <1>1, <1>2, NoTargetsTyped DEF IInv, TypeOK, world
<1>4. TasksSound'
  <2> SUFFICES ASSUME NEW c \in Callers
               PROVE  Sound(c, Idle, mode', vpc', pointed') /\ Claims(c, Idle)
    BY <1>1 DEF TasksSound
  <2> QED
    BY <1>2 DEF Sound, Claims, CachePcs
<1> QED
  BY <1>1, <1>3, <1>4 DEF IInv, OwnedPointed, OwnedKnown, RoutePointed

(* A change of the world that leaves routes and callers alone.             *)
LEMMA WorldStep ==
    ASSUME IInv, UNCHANGED <<mode, memory, route, gauge, task, pointed>>,
           serving' \in BOOLEAN, tagged' \subseteq Tables, nats' \subseteq Nats,
           left' \in 0..MaxEvents
    PROVE  IInv'
<1>1. TypeOK'
  BY DEF IInv, TypeOK, memory
<1>2. OwnedPointed' /\ OwnedKnown' /\ RoutePointed' /\ TasksSound'
  BY DEF IInv, OwnedPointed, OwnedKnown, RoutePointed, TasksSound, memory
<1> QED
  BY <1>1, <1>2 DEF IInv

LEMMA LeaseChangesInv == IInv /\ (GainLease \/ LoseLease) => IInv'
<1> SUFFICES ASSUME IInv, GainLease \/ LoseLease PROVE IInv'
  OBVIOUS
<1>1. UNCHANGED <<mode, memory, route, gauge, task, pointed, tagged, nats>>
  BY DEF GainLease, LoseLease
<1>2. left' \in 0..MaxEvents
  BY LeftStays, Spent DEF GainLease, LoseLease, IInv
<1>3. serving' \in BOOLEAN
  BY DEF GainLease, LoseLease
<1>4. tagged' \subseteq Tables /\ nats' \subseteq Nats
  BY <1>1 DEF IInv, TypeOK
<1> QED
  BY <1>1, <1>2, <1>3, <1>4, WorldStep

LEMMA CloudInv == IInv /\ (NatGone \/ Retag) => IInv'
<1> SUFFICES ASSUME IInv, NatGone \/ Retag PROVE IInv'
  OBVIOUS
<1>1. UNCHANGED <<mode, memory, route, gauge, task, pointed>> /\ serving' = serving
  BY DEF NatGone, Retag
<1>2. left' \in 0..MaxEvents
  BY Spent DEF NatGone, Retag, IInv
<1>3. tagged' \subseteq Tables /\ nats' \subseteq Nats
  BY DEF NatGone, Retag, IInv, TypeOK
<1>4. serving' \in BOOLEAN
  BY <1>1 DEF IInv, TypeOK
<1> QED
  BY <1>1, <1>2, <1>3, <1>4, WorldStep

(* Another agent's claim moves a route away from here.                     *)
LEMMA OtherClaimsInv == IInv /\ OtherClaims => IInv'
<1> SUFFICES ASSUME IInv, OtherClaims PROVE IInv'
  OBVIOUS
<1>1. PICK t \in Tables : Point(t, Other)
  BY DEF OtherClaims
<1>2. UNCHANGED <<memory, world, gauge, task>> /\ left' \in 0..MaxEvents
  BY LeftStays, Spent DEF OtherClaims, IInv
<1>3. /\ route' \in [Tables -> Targets \cup {Me, Other}] /\ RoutePointed'
      /\ pointed \subseteq pointed' /\ pointed' \subseteq Tables
  BY <1>1, PointTyped DEF IInv
<1>4. pointed' = pointed
  BY <1>1, ReconcilerAssumption DEF Point
<1>5. TypeOK'
  BY <1>2, <1>3 DEF IInv, TypeOK, memory, world
<1>6. OwnedPointed' /\ OwnedKnown' /\ TasksSound'
  BY <1>2, <1>4 DEF IInv, OwnedPointed, OwnedKnown, TasksSound, memory, world
<1> QED
  BY <1>3, <1>5, <1>6 DEF IInv

LEMMA StutterInv == IInv /\ UNCHANGED vars => IInv'
BY DEF IInv, TypeOK, OwnedPointed, OwnedKnown, RoutePointed, TasksSound, vars, memory, world

-----------------------------------------------------------------------------
(* The theorems.                                                           *)

LEMMA ClaimTablesInv == ASSUME IInv, NEW c \in Claimers, ClaimTables(c) PROVE IInv'
BY DiscoverInv, ClaimInv, ClaimedInv, CacheInv, LookupAnswersInv, StoreInv, ConfirmInv
   DEF ClaimTables

LEMMA NextInv == IInv /\ [Next]_vars => IInv'
<1> SUFFICES ASSUME IInv, [Next]_vars PROVE IInv'
  OBVIOUS
<1>1. "lease" \in Claimers /\ "reconcile" \in Claimers /\ "claim" \in Claimers
  BY DEF Claimers, Loops
<1>2. CASE LeaseLoop
  BY <1>1, <1>2, LeaseTickInv, PendingInv, ClaimTablesInv DEF LeaseLoop
<1>3. CASE ReconcileLoop
  BY <1>1, <1>3, ReconcileTickInv, PublishInv, ClaimTablesInv DEF ReconcileLoop
<1>4. CASE ClaimRequest \/ ClaimTables("claim")
  BY <1>1, <1>4, ClaimRequestInv, ClaimTablesInv
<1>5. CASE ReleaseRequest \/ ReleaseTables \/ RestoreFails("release")
  BY <1>5, ReleaseRequestInv, RestoreInv, RestoreLookupInv, ReleasedInv, RestoreFailsInv
     DEF ReleaseTables
<1>6. CASE \E c \in Claimers : ClaimFault(c) \/ LookupFails(c)
  BY <1>6, ClaimFaultInv, LookupFailsInv
<1>7. CASE Restart \/ GainLease \/ LoseLease \/ OtherClaims \/ NatGone \/ Retag
  BY <1>7, RestartInv, LeaseChangesInv, OtherClaimsInv, CloudInv
<1>8. CASE UNCHANGED vars
  BY <1>8, StutterInv
<1> QED
  BY <1>2, <1>3, <1>4, <1>5, <1>6, <1>7, <1>8 DEF Next

LEMMA Invariance == Spec => []IInv
BY InitInv, NextInv, PTL DEF Spec

(* The variables keep their types, the callers' local copies included.     *)
THEOREM TypeCorrect == Spec => []TypeOK
<1>1. IInv => TypeOK
  BY DEF IInv
<1> QED
  BY <1>1, Invariance, PTL

(* No claim, however it is interrupted and whoever runs beside it, records *)
(* a table whose route it has not seen point at this agent                 *)
(* (reconciler.go:304-318, 347-352).                                       *)
THEOREM OwnedIsPointed == Spec => []OwnedPointed
<1>1. IInv => OwnedPointed
  BY DEF IInv
<1> QED
  BY <1>1, Invariance, PTL

(* Every table recorded as owned has a known VPC once /claim has cached,   *)
(* so /release can look for a NAT gateway (reconciler.go:105-107, 388-392).*)
THEOREM OwnedIsRestorable == Spec => []OwnedRestorable
<1>1. IInv => OwnedRestorable
  BY DEF IInv, OwnedKnown, OwnedRestorable, Awaited, CachePcs
<1> QED
  BY <1>1, Invariance, PTL

(* Only Cache and Store remember a target, and only where there is none.   *)
Remembers == \A t \in Tables : target[t] # None => target'[t] = target[t]

LEMMA RememberStep == IInv /\ [Next]_vars => (~Restart => Remembers)
<1> SUFFICES ASSUME IInv, [Next]_vars, ~Restart PROVE Remembers
  OBVIOUS
<1>1. CASE target' = target
  BY <1>1 DEF Remembers
<1>2. ASSUME NEW c \in Claimers, Cache(c) \/ Store(c) PROVE Remembers
  <2>1. target \in [Tables -> Targets]
    BY DEF IInv, TypeOK
  <2>2. \E t, x : target' = IF target[t] = None THEN [target EXCEPT ![t] = x] ELSE target
    BY <1>2 DEF Cache, Store
  <2> QED
    BY <2>1, <2>2 DEF Remembers
<1>3. ASSUME NEW c \in Claimers, ClaimTables(c) PROVE target' = target \/ Cache(c) \/ Store(c)
  BY <1>3 DEF ClaimTables, Discover, Claim, Claimed, LookupAnswers, Confirm, memory
<1>4. "lease" \in Claimers /\ "reconcile" \in Claimers /\ "claim" \in Claimers
  BY DEF Claimers, Loops
<1>5. CASE LeaseLoop
  BY <1>1, <1>2, <1>3, <1>4, <1>5 DEF LeaseLoop, LeaseTick, Pending, memory
<1>6. CASE ReconcileLoop
  BY <1>1, <1>2, <1>3, <1>4, <1>6 DEF ReconcileLoop, ReconcileTick, Publish, memory
<1>7. CASE ClaimRequest \/ ClaimTables("claim")
  BY <1>1, <1>2, <1>3, <1>4, <1>7 DEF ClaimRequest, memory
<1>8. CASE ReleaseRequest \/ ReleaseTables \/ RestoreFails("release")
  <2>1. target' = target
    BY <1>8 DEF ReleaseRequest, ReleaseTables, Restore, RestoreLookup, Released, RestoreFails, memory
  <2> QED
    BY <1>1, <2>1
<1>9. CASE \E c \in Claimers : ClaimFault(c) \/ LookupFails(c)
  <2>1. target' = target
    BY <1>9 DEF ClaimFault, LookupFails, memory
  <2> QED
    BY <1>1, <2>1
<1>10. CASE GainLease \/ LoseLease \/ OtherClaims \/ NatGone \/ Retag \/ UNCHANGED vars
  <2>1. target' = target
    BY <1>10 DEF GainLease, LoseLease, OtherClaims, NatGone, Retag, memory, vars
  <2> QED
    BY <1>1, <2>1
<1> QED
  BY <1>5, <1>6, <1>7, <1>8, <1>9, <1>10 DEF Next

(* The first target remembered is not overwritten, although the mutex is   *)
(* released during the lookup (reconciler.go:37, 110, 130).                *)
THEOREM FirstTargetKept == Spec => TargetKept
<1>1. IInv /\ [Next]_vars => [~Restart => Remembers]_vars
  BY RememberStep
<1>2. Spec => [][~Restart => Remembers]_vars
  BY <1>1, Invariance, PTL DEF Spec
<1> QED
  BY <1>2 DEF TargetKept, Remembers

-----------------------------------------------------------------------------
(* What is served stays served.                                            *)

(* A caller that will record tables has all managed ones in hand.          *)
Fit(q) == q.pc \in {"claim", "cache", "lookup", "store"} => tagged \subseteq q.tables

(* A step of one claimer that leaves the routes served, the books full and *)
(* the gauges up.                                                          *)
LEMMA SettledFrame ==
    ASSUME TypeOK, Settled, NEW c \in Claimers, NEW q, Goto(c, q), Fit(q),
           UNCHANGED <<serving, tagged>>, \A t \in tagged : route'[t] = Me,
           tagged \subseteq owned', gauge \subseteq gauge'
    PROVE  Settled'
<1>1. /\ task'[c] = q /\ \A d \in Callers : d # c => task'[d] = task[d]
      /\ Claimers \subseteq Callers /\ "release" \in Callers /\ c # "release"
  BY DEF TypeOK, Goto, Callers, Claimers, Loops
<1>2. At("release", "idle")'
  BY <1>1 DEF Settled, At
<1>3. \A d \in Claimers :
         task'[d].pc \in {"claim", "cache", "lookup", "store"} => tagged' \subseteq task'[d].tables
  BY <1>1 DEF Settled, Fit
<1>4. serving' /\ Served'
  BY DEF Settled, Served
<1> QED
  BY <1>2, <1>3, <1>4 DEF Settled

(* A caller that finishes has nothing in hand.                             *)
LEMMA FinishFits ==
    ASSUME NEW c \in Callers, Finish(c)
    PROVE  \E q : Goto(c, q) /\ Fit(q)
<1>1. PICK pc \in {"idle", "publish"} : Goto(c, AtPc(pc))
  BY FinishIs
<1>2. AtPc(pc).pc = pc
  BY AtPcTyped DEF Pcs
<1>3. Fit(AtPc(pc))
  BY <1>2 DEF Fit
<1> QED
  BY <1>1, <1>3

(* On to the cache loop, it keeps what it has in hand.                     *)
LEMMA GotoClaimFits ==
    ASSUME NEW c, NEW r \in Tasks, tagged \subseteq r.tables, GotoClaim(c, r)
    PROVE  \E q : Goto(c, q) /\ Fit(q)
<1>1. Goto(c, r) \/ Goto(c, ToCache(r))
  BY DEF GotoClaim
<1>2. Fit(r) /\ Fit(ToCache(r))
  BY ToCacheTyped DEF Fit
<1> QED
  BY <1>1, <1>2

(* Each step of a claim.                                                   *)
LEMMA ClaimSettled ==
    ASSUME IInv, Settled, NEW c \in Claimers, ClaimTables(c) \/ ClaimFault(c) \/ LookupFails(c)
    PROVE  Settled'
<1>0. /\ TypeOK /\ c \in Callers /\ task[c] \in Tasks /\ tagged \subseteq Tables
      /\ tagged \subseteq owned /\ \A t \in tagged : route[t] = Me
  BY DEF IInv, TypeOK, Callers, Settled, Served
<1>1. CASE Discover(c)
  <2>1. UNCHANGED <<serving, tagged, route, owned, gauge>>
    BY <1>1 DEF Discover, memory, world
  <2>2. \E q : Goto(c, q) /\ Fit(q)
    <3>1. CASE tagged = {}
      BY <1>0, <1>1, <3>1, FinishFits DEF Discover
    <3>2. CASE tagged # {}
      <4> DEFINE s == [t \in Tables |->
                         IF t \in tagged /\ route[t] \in Nats THEN route[t] ELSE None]
                 r == [AtPc("claim") EXCEPT !.todo = ToClaim(c), !.tables = tagged, !.seen = s]
      <4>1. GotoClaim(c, r)
        BY <1>1, <3>2 DEF Discover
      <4>2. s \in [Tables -> Targets] /\ ToClaim(c) \in SUBSET Tables
        BY <1>0 DEF Targets, ToClaim
      <4>3. r \in Tasks /\ r.tables = tagged
        <5> HIDE DEF s
        <5> QED
          BY <1>0, <4>2, NoTargetsTyped DEF AtPc, Idle, Tasks, Pcs
      <4> HIDE DEF r
      <4> QED
        BY <4>1, <4>3, GotoClaimFits
    <3> QED
      BY <3>1, <3>2
  <2> QED
    BY <1>0, <2>1, <2>2, SettledFrame
<1>2. CASE Claim(c)
  <2>1. PICK t \in task[c].todo :
           Point(t, Me) /\ GotoClaim(c, [task[c] EXCEPT !.todo = @ \ {t}])
    BY <1>2 DEF Claim
  <2> DEFINE r == [task[c] EXCEPT !.todo = @ \ {t}]
  <2>2. r \in Tasks /\ r.tables = task[c].tables
    BY <1>0, <2>1, LessTyped DEF Tasks
  <2>3. GotoClaim(c, r)
    BY <2>1
  <2> HIDE DEF r
  <2>4. tagged \subseteq r.tables
    BY <1>2, <2>2 DEF Claim, At, Settled
  <2>5. \E q : Goto(c, q) /\ Fit(q)
    BY <2>2, <2>3, <2>4, GotoClaimFits
  <2>6. \A u \in tagged : route'[u] = Me
    BY <1>0, <2>1 DEF Point, TypeOK
  <2>7. UNCHANGED <<serving, tagged, owned, gauge>>
    BY <1>2 DEF Claim, memory, world
  <2> QED
    BY <1>0, <2>5, <2>6, <2>7, SettledFrame
<1>3. CASE ClaimFault(c)
  <2>1. \A u \in tagged : route'[u] = Me
    BY <1>0, <1>3 DEF ClaimFault, Point, TypeOK
  <2>2. UNCHANGED <<serving, tagged, owned, gauge>> /\ Finish(c)
    BY <1>3 DEF ClaimFault, memory, world
  <2> QED
    BY <1>0, <2>1, <2>2, FinishFits, SettledFrame
<1>4. CASE c = "claim" /\ Claimed
  <2>1. /\ owned' = task[c].tables /\ Goto(c, ToCache(task[c])) /\ task[c].pc = "claim"
        /\ UNCHANGED <<serving, tagged, route, gauge>>
    BY <1>4 DEF Claimed, At, world
  <2>2. tagged \subseteq task[c].tables
    BY <2>1 DEF Settled
  <2>3. Fit(ToCache(task[c]))
    BY <1>0, <2>2, ToCacheTyped DEF Fit
  <2> QED
    BY <1>0, <2>1, <2>2, <2>3, SettledFrame
<1>5. ASSUME NEW t \in Tables, Done(c, t), task[c].pc \in {"cache", "lookup", "store"},
             UNCHANGED <<serving, tagged, route, owned, gauge>>
      PROVE  Settled'
  <2> DEFINE q == [task[c] EXCEPT !.pc = "cache", !.todo = @ \ {t}, !.hand = None, !.seen[t] = None]
  <2>1. Goto(c, q) /\ q.tables = task[c].tables
    BY <1>0, <1>5, DoneTyped DEF Done
  <2> HIDE DEF q
  <2>2. Fit(q)
    BY <1>5, <2>1 DEF Fit, Settled
  <2> QED
    BY <1>0, <1>5, <2>1, <2>2, SettledFrame
<1>6. CASE Cache(c)
  <2>1. PICK t \in task[c].todo :
           \/ Goto(c, [task[c] EXCEPT !.pc = "lookup", !.hand = t])
           \/ Done(c, t)
    BY <1>6 DEF Cache
  <2>2. /\ t \in Tables /\ task[c].pc = "cache"
        /\ UNCHANGED <<serving, tagged, route, owned, gauge>>
    BY <1>0, <1>6, <2>1 DEF Cache, At, Tasks, world
  <2>3. CASE Done(c, t)
    BY <2>2, <2>3, <1>5
  <2>4. CASE Goto(c, [task[c] EXCEPT !.pc = "lookup", !.hand = t])
    <3> DEFINE q == [task[c] EXCEPT !.pc = "lookup", !.hand = t]
    <3>1. Goto(c, q) /\ q.tables = task[c].tables
      BY <1>0, <2>2, <2>4, HandTyped
    <3> HIDE DEF q
    <3>2. Fit(q)
      BY <2>2, <3>1 DEF Fit, Settled
    <3> QED
      BY <1>0, <2>2, <3>1, <3>2, SettledFrame
  <2> QED
    BY <2>1, <2>3, <2>4
<1>7. CASE LookupAnswers(c)
  <2>1. PICK n \in Lookup :
           Goto(c, [task[c] EXCEPT !.pc = "store", !.seen[task[c].hand] = n])
    BY <1>7 DEF LookupAnswers
  <2>2. /\ n \in Nats /\ task[c].hand \in Tables /\ task[c].pc = "lookup"
        /\ UNCHANGED <<serving, tagged, route, owned, gauge>>
    BY <1>0, <1>7, HandKnown DEF LookupAnswers, At, Lookup, TypeOK, memory, world
  <2> DEFINE q == [task[c] EXCEPT !.pc = "store", !.seen[task[c].hand] = n]
  <2>3. Goto(c, q) /\ q.tables = task[c].tables
    BY <1>0, <2>1, <2>2, StoreTyped
  <2> HIDE DEF q
  <2>4. Fit(q)
    BY <2>2, <2>3 DEF Fit, Settled
  <2> QED
    BY <1>0, <2>2, <2>3, <2>4, SettledFrame
<1>8. CASE LookupFails(c) \/ Store(c)
  <2>1. /\ Done(c, task[c].hand) /\ task[c].pc \in {"lookup", "store"}
        /\ UNCHANGED <<serving, tagged, route, owned, gauge>>
    BY <1>8 DEF LookupFails, Store, At, memory, world
  <2>2. task[c].hand \in Tables
    BY <1>0, <2>1 DEF IInv, TasksSound, Sound
  <2> QED
    BY <2>1, <2>2, <1>5
<1>9. CASE Confirm(c)
  <2>1. /\ owned' \in {owned, task[c].tables} /\ Finish(c) /\ task[c].pc = "cache"
        /\ UNCHANGED <<serving, tagged, route, gauge>>
    BY <1>9 DEF Confirm, At, world
  <2>2. tagged \subseteq task[c].tables
    BY <2>1 DEF Settled
  <2> QED
    BY <1>0, <2>1, <2>2, FinishFits, SettledFrame
<1> QED
  BY <1>1, <1>2, <1>3, <1>4, <1>6, <1>7, <1>8, <1>9 DEF ClaimTables

(* Every step.                                                             *)
LEMMA SettledStep == IInv /\ [Next]_vars => (Settled /\ ~Unsettled => Settled')
<1> SUFFICES ASSUME IInv, [Next]_vars, Settled, ~Unsettled PROVE Settled'
  OBVIOUS
<1>0. /\ TypeOK /\ serving /\ tagged \subseteq owned /\ \A t \in tagged : route[t] = Me
      /\ {"lease", "reconcile", "claim"} \subseteq Claimers
      /\ {"lease", "reconcile", "claim"} \subseteq Callers
  BY DEF IInv, Settled, Served, Callers, Claimers, Loops
<1>1. ASSUME NEW c \in Claimers, NEW pc \in {"idle", "pending", "discover", "publish"},
             Goto(c, AtPc(pc)), UNCHANGED <<serving, tagged, route, owned>>, gauge \subseteq gauge'
      PROVE  Settled'
  <2>1. Fit(AtPc(pc))
    BY AtPcTyped DEF Fit, Pcs
  <2> QED
    BY <1>0, <1>1, <2>1, SettledFrame
<1>2. ASSUME NEW c \in Claimers, ClaimTables(c) \/ ClaimFault(c) \/ LookupFails(c)
      PROVE  Settled'
  BY <1>2, ClaimSettled
<1>3. CASE LeaseTick \/ Pending
  <2>1. /\ \/ Goto("lease", AtPc("pending")) \/ Goto("lease", AtPc("discover"))
           \/ Goto("lease", AtPc("idle"))
        /\ UNCHANGED <<serving, tagged, route, owned, gauge>>
    BY <1>3, IdleIs DEF LeaseTick, Pending, Finish, memory, world
  <2> QED
    BY <1>0, <1>1, <2>1
<1>4. CASE ReconcileTick \/ Publish
  <2>1. /\ Goto("reconcile", AtPc("discover")) \/ Goto("reconcile", AtPc("idle"))
        /\ UNCHANGED <<serving, tagged, route, owned>> /\ gauge \subseteq gauge'
    BY <1>0, <1>4, IdleIs DEF ReconcileTick, Publish, memory, world
  <2> QED
    BY <1>0, <1>1, <2>1
<1>5. CASE ClaimRequest
  <2>1. Goto("claim", AtPc("discover")) /\ UNCHANGED <<serving, tagged, route, owned, gauge>>
    BY <1>5 DEF ClaimRequest, memory, world
  <2> QED
    BY <1>0, <1>1, <2>1
<1>6. CASE ReleaseTables \/ RestoreFails("release")
  BY <1>6 DEF ReleaseTables, Restore, RestoreLookup, Released, RestoreFails, At, Settled
<1>7. CASE NatGone \/ UNCHANGED vars
  <2>1. UNCHANGED <<serving, tagged, route, owned, gauge, task>>
    BY <1>7 DEF NatGone, vars, memory, world
  <2> QED
    BY <2>1 DEF Settled, Served, At
<1>8. CASE GainLease
  BY <1>0, <1>8 DEF GainLease
<1> QED
  BY <1>0, <1>2, <1>3, <1>4, <1>5, <1>6, <1>7, <1>8
     DEF Next, LeaseLoop, ReconcileLoop, Unsettled

(* Ticks, claims of any kind, failing calls and lookups leave the routes,  *)
(* the books and the gauges of a settled agent as they are.                *)
THEOREM SettledIsStable == Spec => ServedStays
<1>1. IInv /\ [Next]_vars => [Settled /\ ~Unsettled => Settled']_vars
  BY SettledStep
<1> QED
  BY <1>1, Invariance, PTL DEF Spec, ServedStays
=============================================================================
