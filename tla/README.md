# kube-nat in TLA+

kube-nat runs one agent per availability zone (AZ) of a Kubernetes cluster on
AWS. Each agent masquerades the traffic of its zone's private subnets; the
zone's route tables have their default route pointed at the agent's instance.
When an agent dies, an agent of another zone *stands in*: it points the dead
zone's routes at itself until the zone has an agent again. Who may do so is
decided by one Kubernetes Lease per zone.

The specifications below follow the Go code under `src/internal`. Paths in this
file and in the modules' comments are relative to `src/` (`agent.go` is
`internal/agent/agent.go`, and so on).

1. [The system](#1-the-system)
2. [What is modelled where](#2-what-is-modelled-where)
3. [The runs](#3-the-runs)
4. [Bounds](#4-bounds)
5. [Fairness](#5-fairness)
6. [What is proved](#6-what-is-proved)
7. [Where code and documentation disagree](#7-where-code-and-documentation-disagree)
8. [What is not modelled](#8-what-is-not-modelled)
9. [Plan](#9-plan)

## 1. The system

| Component | State | Operations | Correct when |
|---|---|---|---|
| Lease manager (`lease.go`) | the Lease objects in the API server: holder, RenewTime, home-az label, resourceVersion | `Renew` (Get, then Create or up to three Updates), `Acquire` (Get, then Create or one Update), `Release` (Get, then Delete with a precondition), `ListExpiredAZs` | one holder per zone; it changes only by expiry, release, or preemption of a stand-in by an agent of the zone |
| Own-zone service loops (`agent.go`: the two loops of `Run`, `serveOwnAZ`, `renewOwnLease`, `ensureOwnLease`) | `ownedTables` of the reconciler | renew or acquire the own Lease, claim the own tables, stand by | a zone with a healthy agent ends up with its Lease and all routes at that agent |
| Takeover and stand-in (`agent.go`: `takeover`, the sweep of the reconcile loop, the `OnFailure` callback; `reconciler.go`: `AddForeignTables`, `ReconcileForeign`, `ReleaseForeignAZ`) | `foreignOwnedTables` of the reconciler | acquire a dead zone's Lease, claim its tables, renew, vacate, yield | a dead zone is covered; a stand-in lets go once the zone has an agent |
| Drain monitor (`drain.go`) | the draining flag | `Prime`, `check`, the stand-down callback | a draining agent gives up the Lease and stays out |
| Shutdown and spot notice (`agent.go`, `watcher.go`) | the context | release the Leases held, announce the exit, exit | a peer takes the zone over |
| Reconciler (`reconciler.go`) | `ownedTables`, `foreignOwnedTables`, `originalNatGW`, `rtbVpcID` | the claims of the loops, `/claim`, `/release`, `DropOwnTables`, the cache of fallback targets | the books never run ahead of the routes, what is owned can be given back, and in the end the books follow the Lease |
| Peer heartbeats (`client.go`, `server.go`, `protocol.go`) | per peer: TCP connection, counts of failures and misses | dial, ping, pong, step-down | a dead peer is reported, a live one only after enough silence |
| NAT data plane (`nat/manager.go`, `sysctl.go`, `SetupDataPlane`) | iptables rules, sysctls; the readiness flag | MASQUERADE, forwarding, stale flow reset, `/readyz` | the reset rule is first, once, before loose pickup goes off; readiness can be believed; a node left alone ends up whole |
| Dashboard collector and hub (`collector.go`, `hub.go`, `dashboard/server.go`) | seen zones, last state per zone, takeover counters, browsers | scrape, diff, broadcast, register, unregister | no takeover is shown that did not happen; what is shown settles on what is there |
| Configuration (`config.go`) | durations | `LeaseRenewInterval` | renewals come faster than the Lease expires |
| Statistics (`iface`) | counters of `/proc` | `CPURatio` | a ratio is within 0 and 1 |
| EC2 client, metrics registry, web page, entry point | - | I/O | - |

How they interact:

- The **lease loop**, the **reconcile loop**, the **peer callbacks** and the
  **drain monitor** of an agent are goroutines of one process. They share the
  reconciler's books (under its mutex) and the draining flag, and all of them
  call the lease manager; nothing orders their calls.
- Agents of different zones meet in three places: the Lease of a zone (compare
  and set in the API server), the routes of a zone (EC2, last writer wins), and
  the heartbeats.
- `/claim` and `/release` run in HTTP handlers of an agent (the dashboard forwards
  to them) and change the reconciler's books beside the loops, in any mode and
  without asking for the Lease.
- The data plane is applied by the process at startup and by each reconcile
  tick, on rules that belong to the kernel and that kube-proxy changes too.
- The dashboard only reads: it scrapes the agents' gauges and counters, from a
  loop and from the handler of every new browser.
- Two agents of the *same* zone exist while a node is replaced. They never
  watch each other; only the Lease keeps them apart.

What is hard about it: checks that precede a slow call (a flag, then a Lease
call, then several EC2 calls, then the books), writes applied although the caller
saw an error, a process that dies between any two of these, the deadlines of
two loops that race on one Lease, and liveness that depends on who is left to
notice what. `hazards` in `PROJECT.json` lists each at its line.

## 2. What is modelled where

### LeaseLock, Lease: `internal/lease/lease.go`

`LeaseLock.tla` is the abstract specification: a lock with a holder, taken in
one step, lost by expiry, by release, or, if the holder is a stand-in, to an
agent of the zone. `Lease.tla` is the code: every call is its sequence of API
requests, and the requests of different goroutines interleave.

| Code | Specification |
|---|---|
| the Lease object | `lease`: holder, home label, `age` (ticks since RenewTime, capped at `Dead = Dur + 1`) |
| a goroutine inside Renew, Acquire or Release | `call[c]`: pc, op, age of its `now`, whether its snapshot is the current resourceVersion, updates tried |
| `Renew` lease.go:38-98 | `RenewGet`, `RenewUpdate`, `RenewConflict`, `RenewReget`, `Create`, `CreateExists` |
| `Acquire` lease.go:100-138 | `AcquireGet`, `AcquireUpdate`, `AcquireConflict`, `Create`, `CreateExists` |
| `Release` lease.go:140-165 | `ReleaseGet`, `ReleaseDelete`, `ReleaseStale` |
| an error, a lost answer, a cancelled context | `Fail`, `LoseAnswer`, `Abandon` |
| a process dying and coming back under its POD_NAME | `Crash`, `Restart` (a write already sent may still be applied) |
| `IsExpired`, heldByForeignFailover | `IsExpired`, `HeldByForeignFailover` |
| what the callers believe (the boolean they got) | `grant[c]`: age of the RenewTime behind the last "true" |

Ages instead of timestamps keep the state finite without a horizon: the code
compares RenewTime only with the clock, so an age beyond the duration is all
the same. The clocks of the agents are taken to agree, as the code does.

### Failover: `agent.go`, `drain.go` and the books of `reconciler.go`

One zone, seen by all its actors. The calls on the Lease are single steps here,
which `Lease` justifies (`ImplementsLock`) and `UsesLock` ties to: every step of
`Failover` on the Lease is a step of `LeaseLock`. Everything else that the code
does between two points where it can lose the processor is a step: reading the
flag, the Lease call, the discovery of the routes, each `ReplaceRoute`, the
update of the books.

| Code | Specification |
|---|---|
| `Run`'s loops, `serveOwnAZ`, `renewOwnLease`, `ensureOwnLease`, `ClaimOwnRouteTables` | `OwnTick`, `Held`/`NotHeld`, `DiscoverOwn`, `ClaimOwn`, `ConfirmOwn` for the loops `"lease"` and `"reconcile"` |
| renewal of a covered zone, `ReleaseForeignAZ` | `StandInAsk`, `StandInRenew`, `StandInYield` |
| two goroutines of a stand-in on the Lease at once | `TakeFor`: the one that writes first may have the other refused |
| `ReconcileForeign` | `StandInTick`, `Vacate` |
| the sweep: `ListExpiredAZs`, `CoversAZ`, `isDraining` | `Sweep` (a Lease that does not exist is not listed), `Check` |
| discovery of peers, `connectedAZs` | `DiscoverPeer`; `watch` is the agent of the zone that the client of a stand-in watches |
| `OnFailure` callback | `OnFailure`: only a client that watches reports, and it ends with its report |
| `takeover`, `AddForeignTables` | `Acquire`, `ClaimForeign`, `Register` |
| `DrainMonitor.check`, `Prime`, `onDrain` | `DrainCheck`, `Start`/`StartUnprimed`, `DrainRelease` |
| SIGTERM or spot notice, release, exit | `Stop`, `StopRelease`, `Exit` |
| context cancelled while a call is under way | `Cancelled`, `Continue`, `MayFail` |
| failing calls | `EnsureFault`, `ClaimFault`, `RenewFault`, `ReadFault`, `AcquireFault`, `DiscoverFault`, `ClaimSkipped`, `DrainFault`, `StopFault` |

A failed call and a call applied without the caller hearing of it are both
outcomes of a fault. A `Renew` or `Acquire` that is overtaken by another goroutine of
the same agent is refused without any fault: the Lease exists by the time it
is created (lease.go:50-51), or changed before each update (lease.go:97). For the
own zone `EnsureFault` has this outcome; for a stand-in, whose lease loop yields the
zone on it (agent.go:273-276), `TakeFor` has. A Lease of a holder that renews may expire only by
spending a "stall": renewals that come too late.

### PeerHeartbeat: `internal/peer`

A link `<<a, b>>` is a's client that watches b. `client[l]` holds the state of
`Connect` (`failures`) and `runHeartbeat` (`misses`), `conn[l]` the two
directions of the TCP connection as queues, so that a late pong is read in
place of the next. `Discover` is `startPeerWatcher`; `Serve` and
`HandlerTimeout` are `handleConn`; `Stop` is `SendStepDown`, which writes on the
connections of the *client*. A hung process neither answers nor closes, but
the kernel still accepts connections for it (`Connect`). `silent` is not in the
code: it counts the probes since the last answer, for the properties.

In `Failover`, the heartbeats are reduced to what this module shows: a client that
watches a peer that is gone reports it (`DeadReported`), one that watches a live
peer may do so too (`OnFailure` needs no reason), and a graceful exit is noticed like
a crash (`StepDownHeard` does not hold). After its report nothing watches the peer until
the next discovery, which needs the pod to be listed.

Simplifications: the interval between pings is taken to be below the server's
5 s (server.go:55); a nine-byte message is read whole or not at all; the two
directions of one pair of agents start independently (the code starts
one watcher per listed pod, in any order).

### Reconciler: `reconciler.go` and the endpoints of `agent.go`

One agent and the books it keeps of its own zone: `owned` (`ownedTables`),
`target` (`originalNatGW`), `vpc` (`rtbVpcID`) and `gauge` (the published
ownership). Four callers share them: the two loops, `/claim` and `/release`.
`task[c]` holds a caller's local variables, since the mutex is never held
across an EC2 call. The Lease is reduced to `serving`, which comes and goes as
`Failover` allows; while it is gone another agent may point the routes at
itself, and while it is held one that is late or told to by its `/claim` may (a
disturbance, `Spend`). `pointed` is not in the code: it records which routes pointed here
while the process ran.

| Code | Specification |
|---|---|
| `renewOwnLease`, `OwnClaimPending` | `LeaseTick`, `Pending` |
| reconcile tick, `DropOwnTables`, `updateMetrics` | `ReconcileTick`, `Publish` |
| `ClaimOwnRouteTables`, `ClaimRouteTables` (`/claim`) | `ClaimRequest`, `Discover`, `Claim`, `ClaimFault`, `Claimed`, `Confirm` |
| `cacheFallbackTargets` | `Cache`, `LookupAnswers`, `LookupFails`, `Store` |
| `ReleaseRouteTables` (`/release`) | `ReleaseRequest`, `Restore`, `RestoreLookup`, `RestoreFails`, `Released` |
| `DiscoverRouteTables`, `ClaimRouteTable`, `ReleaseRouteTable`, `LookupNatGateway` | `Discover`, `Point`, `Lookup` |
| process restart; Lease; EC2 | `Restart`, `GainLease`, `LoseLease`; `OtherClaims`, `NatGone`, `Retag` |

The tables of one discovery may be handled in any order, which covers the order
EC2 lists them in. Manual mode is modelled here (`mode`). A tick whose data
plane fails does nothing and is left out.

### DataPlane: `nat/manager.go`, `SetupDataPlane`, readiness

The rules of one node as the kernel holds them (`masq`, `chain`, `forward`,
`loose`), the goroutine that applies them (`pc`: one step per iptables call or
sysctl write), and what the agent says (`ready`, `present`). `chain` is the
FORWARD chain reduced to the reset rule, kube-proxy's jump and one rule of
others. `Tamper` is any other tool of the node, between any two calls: it puts its
rule first, takes it out, flushes the chain or sets a sysctl;
`touched` notes that it acted since the pass began. `resets` is
KUBE_NAT_RESET_STALE_FLOWS, either value. `Start`, `Crash`, `Shutdown` and `Exit`
are the process: rules survive it, readiness and gauges do not.

### Quantities: `config.go`, `lease.go`, `sysinfo.go`

Pure operators: the renewal interval and the validity that is written into a
Lease, in milliseconds, and `CPURatio` with its two guards, as a fraction of unsigned
sums and differences modulo `Modulus`. There is nothing to explore; section 6 proves what holds of them
for every value, and the run `node` evaluates the assumption.

### Collector, Dashboard: `collector.go`, `dashboard/`

`Collector` is `Collect`: list the pods, GET each one's metrics without the
mutex, record under the mutex what changed, report what is lost. `call[c]` is
one such call under way; the loop and every browser's handler make their own.
Of the metrics the model keeps ownership and the takeover counters. `owed` is
not in the code: takeovers done less failover events emitted. `Past` are takeovers
done before the dashboard started. The agents stop,
start (with fresh counters), take over and change their tables as they like:
`Failover` says when they may, which the collector cannot know.

`Dashboard` adds the server: the loop's tick and `Broadcast`, which works on a
copy of the clients and blocks on a browser that does not read, and the
handler (`Register`, `WriteFirst`, `Unregister`).

| Code | Specification |
|---|---|
| `Collect`, `scrape`, `buildSnap` | `List`, `Scrape`, `Skip`, `ScrapeFails`, `Record`, `Lost` |
| `detectFailovers` | `Increases`, `FirstSeen` |
| `Run`'s loop, `Hub.Broadcast` | `Tick`, `Broadcast`, `Write` |
| `handleWS`, `register`, `unregister` | `Register`, `WriteFirst`, `Unregister` |
| browsers | `Opens`, `Stalls`, `Reads`, `Closes` |

## 3. The runs

Runs that pass:

| Run | Instance | What it shows |
|---|---|---|
| `lease_twoloops` | o1 with two goroutines, a rival o2 of its zone | `SnapshotSound` (what was read and checked still holds when the compare-and-set succeeds), `OnlyHolderReleases`, and that a Renew makes no more than three attempts (`TypeOK`) |
| `lease_pair` | o1 and a stand-in of another zone | across zones, with preemption: `NeverStolen`, `ImplementsLock` (the calls implement `LeaseLock`), `DeadHolderReplaced`: a Lease does not stay with a dead holder |
| `failover_pair` | an agent and its replacement; a cordon, a stall, a fault | `ServingKeepsLease` (a live Lease leaves an own agent only after its flag went up or it was told to stop), `StandDownFlagged` (the flag is up before the drain monitor releases), `UsesLock`, `OnlyLateClaims` (around a healthy agent with a live Lease nothing moves but claims that were already on their way, which become fewer), `StoodDownStaysOut` (a draining agent whose rounds are over takes nothing back), `OwnZoneServed` (with a healthy own agent, the zone ends with one of them as holder and target of all routes, and with no stand-in that believes it covers the zone) |
| `failover_cover` | an agent and a stand-in; two crashes, a fault | `StandInCovers` (a zone whose Lease names anybody and that has no running agent comes to be covered by a stand-in that knows it, after a failed call, a crash, and after its own goroutines emptied its books), `CoverStays` (a complete stand-in goes on until an agent of the zone takes the Lease, or its takeover overtakes its renewal), `OwnZoneServed` after crashes |
| `failover_graceful` | the same pair; a SIGTERM or spot notice, whose release may fail | `GracefulHandover` (the released zone is picked up by a peer that watches the agent), `OwnZoneServed` across zones |
| `reconciler_books` | one table, two NAT gateways; two disturbances of any kind | `OwnedPointed` (nothing is recorded whose route did not point here), `OwnedRestorable` (what is owned has a known VPC for `/release` to look in), `TargetKept` (the first fallback target survives interleaved lookups), `ServedStays` (once routes, books and gauges agree, no tick, `/claim`, failed call or lookup in between disturbs them), `BooksFollowLease` (an agent that keeps the Lease ends up with routes, books and gauge in agreement; one that does not get it back owns nothing, though `/claim` had filled its books), `FallbackFound` (failed lookups are made up for) |
| `node` | one node, resets on or off; three changes by other tools, two failures | `OneReset` (never two reset rules), `LooseBehindReset` (loose pickup goes off only behind the rule), `ReadyIsFunctional` (between two passes `/readyz` says yes only with masquerading and forwarding in place, also after a pass that failed), `WholeStays` (no pass, failure, death or restart takes a part of a whole data plane away, unless another tool interfered with that very pass), `DataPlaneRestored` (a node left alone becomes whole and says so) |
| `dashboard` | two agents, one of which took over the other's zone before; the loop and a browser; two events | `FailoversHappened` (no takeover reported that did not happen, by counters that restart or by two callers), `CountersBacked` (what an answer still under way would make the dashboard report has happened and is not reported yet), `GoneForgotten` (closed browsers leave the hub), `DashboardSettles` (events and what is shown end up true) |
| `peer_watch` | two agents; a crash, a hang, a stop, a late answer | `SilenceCounted`, `NoFalseAlarm`, `DeadReported`, `Reconnected`, `MissesReported` |

Runs that TLC refutes, each on one property that the repository states (section
7): `lease_stalegrant`, `failover_drain_peer`, `peer_stepdown`.

Each property of a passing run has a mutant in `PROJECT.json`: a change of the
modelled code, such as a dropped check, that makes TLC find the property violated. The mutated
operators stand beside the ones they replace, with a suffix that says what is
wrong with them (`RenewGet_AnyHolder`).

`TypeOK` of `Reconciler` is more than typing: a remembered target is a NAT
gateway, never an instance, which the mutant `Discover_AnyTarget` breaks. Where a
type invariant says no more than its theorem `TypeCorrect` (section 6), no run
repeats it; neither does `lease_twoloops` repeat `NeverStolen` and `ImplementsLock`,
which are proved for any number of goroutines.

Not every property holds with every fault, which is why the runs differ:
`StandInCovers` speaks of the tables whose claim went through, since a takeover that
skipped one counts as complete (section 7). A takeover that follows a graceful exit is
attempted once, because the Lease is then absent and no sweep lists it.
`GracefulHandover` therefore asks that every stand-in watches the agent when the
Lease is released, and excuses a call that fails from then on (section 7 says what
happens otherwise); it is checked without cordons: a stand-in
whose own node starts to drain while the report is on its way declines the takeover.

## 4. Bounds

| Constant | Value | Why it is enough |
|---|---|---|
| agents | 2 | every rule about the Lease is about a holder and one other; the third party of a conflict is the second goroutine of an agent (`lease_twoloops`) or a write still on its way after a crash |
| `Callers` | 2 or 3 | two loops that race, and a rival that profits |
| `Dur` | 1 tick | distinguishes fresh, older and expired; a call can outlive its Lease |
| `Attempts` | 3 | as in the code |
| `Tables` | 1 | a claim may come at any point, be skipped or be late; what a partial claim does is in the theorems, which hold for any tables, and in section 7 |
| `MaxCrashes`, `MaxStops`, `MaxCordons`, `MaxStalls`, `MaxFaults` | 0 or 1 each, 2 crashes in `failover_cover` | in every order and at every step; what is 0 in one run is positive in another, and the combinations follow what each property is sensitive to (`failover_graceful` has no faults but the failing release, `StopFault`, which happens at most once in a process and is not counted). Cordon counts changes: after one, an uncordoned agent drains for good |
| `ProbeFailures` | 2 | the default (config.go) |
| `MaxHangs`, `MaxLate` | 1 | one late pong shifts all later answers of its connection |
| `MaxEvents` (`Reconciler`) | 2 | requests, failed calls, losses of the Lease, claims of another agent while it is held, deleted NAT gateways, changed tags and restarts together: every pair, in every order, at every step of the four callers. Every mutant's counterexample needs at most two |
| `Nats` | 2, both of the zone | a lookup that returns another gateway than the one stored meanwhile |
| `MaxTampers`, `MaxFaults` (`DataPlane`) | 3, 2 | enough to flush the rules, move kube-proxy's in front and put loose pickup back within one pass, with a failure before and after |
| `Agents`, `Browsers` (`Dashboard`) | 2, 1 | two callers of Collect (the loop and a handler) that overtake each other between two scrapes |
| `MaxEvents` (`Dashboard`) | 2 | stops, takeovers, changes, failed scrapes and stalls together; a takeover and a restart of its counter are two. The takeover in `Past` lets a counter that was remembered at its higher value restart and count again within them |
| zones (`Dashboard`) | one per agent | the state of the collector is per zone; two agents that share one are left to the theorems, which hold for any assignment |
| `Modulus` | 16 | only its assumption is evaluated; the theorems are for any modulus |

The safety theorems of section 6 hold for every value of all of these.

`Lease` has no bound on faults, crashes or time: its state space is finite as it
is. `LoopSymmetry` swaps the two loops of o1, which differ in nothing; it is
used only in a run without liveness properties.

## 5. Fairness

- `Lease!Fairness`: goroutines tick, so they call Acquire again and again;
  each request returns; a request sent again and again does not fail for ever
  (strong fairness of the requests themselves, since a failure ends the call and
  disables them). The clock runs. Nothing is assumed of crashes and restarts.
- `Failover!Fairness`: weak fairness of every loop as a whole, one formula per
  goroutine, because a goroutine is a sequence: its ticker fires while the
  process runs and its calls return. The peer callback is fair only when the watched peer
  is really gone. A process told to stop exits. A Lease nobody renews expires.
  No start, crash, cordon, fault or discovery of a peer is owed (the pod need not be listed).
- `PeerHeartbeat!Fairness`: discovery, probes and the server are weakly fair;
  the late answers are not (`Probe(l) /\ UNCHANGED left`).

- `Reconciler!Fairness`: each loop ticks while the process runs, calls return,
  and a request under way finishes. A lookup that finds no gateway returns too
  (`NoNatFound`); an error that is a disturbance is never owed.
- `DataPlane!FairSpec`: the goroutine goes on, the container is started again and
  a process told to stop exits; nothing other tools do is owed.
- `Dashboard!FairSpec`: the loop and each handler go on. Nothing makes a
  browser read or close, and `DashboardSettles` excuses one that stalls for good.

A process that crashed need not come back (except in `DataPlane`, where the
kubelet restarts it), and a cordon need not be lifted: the
liveness properties say "once some agent stays healthy".

## 6. What is proved

TLC answers for one instance; the theorems below hold for any sets of agents,
goroutines, zones and tables, any durations, attempts and bounds. They assume
only what the modules declare about their constants: `LeaseAssumption`,
`FailoverAssumption`, `PeerAssumption`, `ReconcilerAssumption`,
`DataPlaneAssumption`, `CollectorAssumption`, `DashboardAssumption`,
`ModulusAssumption`, which TLC evaluates in each run. All
but those of `QuantitiesProofs` are safety properties of `Spec`, without fairness.

**`LeaseProofs`** (of `Lease`). The invariant is `IInv == TypeOK /\
SnapshotSound`. `NeverStolen` is not inductive: an Update is sent long after the
checks that allow it. `SnapshotSound` bridges the gap. A call whose snapshot is
still the current resourceVersion knows that what it checked is still true (the
Lease is its own, or was expired, or a stand-in's); a call whose snapshot is
outdated knows nothing, but its compare-and-set will fail. Being expired is the
delicate case: no step makes an expired Lease fresh without changing the
resourceVersion. `LeaseStep` then reads off what a step may do to the Lease, and
the theorems follow.

| Theorem | Says |
|---|---|
| `TypeCorrect` | `[]TypeOK`; Renew never exceeds its attempts |
| `ReadingsHold` | `[]SnapshotSound` |
| `HolderKeepsLease` | `NeverStolen` |
| `OnlyHolderDeletes` | `OnlyHolderReleases` |

**`LeaseRefinement`**: `Lease` implements `LeaseLock`. `Shape` sorts every step
by what it does to the Lease and to the callers' beliefs (nothing, denied, taken,
freed, aged, killed); `LockStep` maps each shape to a step of the lock or to a stutter.

| Theorem | Says |
|---|---|
| `LeaseIsLock` | `ImplementsLock`: initial states map to initial states, steps to steps or stutters |

**`FailoverProofs`** (of `Failover`). `LockMoves` shows that every step of every
actor leaves the Lease alone, takes it under the guard of the lock, frees it, or
lets it expire, and that it is freed only by a holder that is draining or was
told to stop. The latter needs `StandDownFlagged`, which is the
invariant's second part: the release runs some steps after the flag went up, and
nothing lowers the flag in between because the same goroutine would have to.
Most actions touch one goroutine and the books of one agent, which `LocalStep`
treats once for all.

The last three theorems are closure properties: they say that a good state, once
reached, is left only for the reasons named. They are the safety half of
`OwnZoneServed` and `StandInCovers`, whose other half (that the state is
reached) TLC checks. Their argument is the *footprint* of a step (`Footprints`): every
step is one agent's, or touches neither books, routes, loops nor holder; an agent's step
changes no other's books or loops, points routes only at itself and only in `"claim"`, and
begins a claim only if it leaves that agent as the holder. So while a healthy agent holds a
live Lease nobody else starts a claim (`FirmStep`), and only the claims already
past their check (`Late`) remain. `Late` is not empty in general: section 7 shows
what a late claim does.

| Theorem | Says |
|---|---|
| `TypeCorrect` | `[]TypeOK`, with the memory of processes that do not run |
| `FlagBeforeRelease` | `[]StandDownFlagged` |
| `OwnAgentKeepsLease` | `ServingKeepsLease` |
| `FailoverUsesLock` | `UsesLock` |
| `OnlyLateClaimsDisturb` | `OnlyLateClaims`: the holder stays, no new claim of another starts, and a route changes to the holder or by a claim that was late |
| `StandInGoesOn` | `CoverStays`: Lease, routes and books of a complete stand-in survive its own and others' sweeps, reports and takeovers, but for the step in which its takeover overtakes its renewal |
| `DrainedIsOut` | `StoodDownStaysOut` |

**`PeerProofs`** (of `PeerHeartbeat`). `SilenceCounted` relates the two counters
of the code, which are reset by different events, to the number of probes
without an answer: neither exceeds it, and a connected client has no failed dial
left to count. This is what makes
`NoFalseAlarm` inductive.

| Theorem | Says |
|---|---|
| `TypeCorrect` | `[]TypeOK`; the counts stay below ProbeFailures |
| `CountersWitnessed` | `[]SilenceCounted` |
| `NoFalseAlarmHolds` | `NoFalseAlarm` |

**`ReconcilerProofs`** (of `Reconciler`). The invariant joins the properties with
what the callers' local copies promise, because a claim writes the books long
after it read the routes: `RoutePointed` (a route that points here has been
counted as pointed), and `TasksSound` (of each caller: tables
it has claimed or seen here are in `pointed`,
and once it has passed a table in the cache loop that table's VPC is known).
`OwnedKnown` is `OwnedRestorable` with the window of `/claim` spelled out.

| Theorem | Says |
|---|---|
| `TypeCorrect` | `[]TypeOK`; a remembered target is a NAT gateway |
| `OwnedIsPointed` | `[]OwnedPointed` |
| `OwnedIsRestorable` | `[]OwnedRestorable` |
| `FirstTargetKept` | `TargetKept` |
| `SettledIsStable` | `ServedStays` |

`ServedStays` is the safety half of `BooksFollowLease`. Agreement of routes, books and
gauges alone is not stable: a claim that discovered its tables before the last
of them was tagged would record fewer than there are. `Settled` therefore asks
that every claim past its discovery has all of them at hand, and the proof carries
this along each step of a claim (`Fit`, `ClaimSettled`).

**`DataPlaneProofs`** (of `DataPlane`). `OneReset` is not inductive: that an
insertion is reached only with no reset rule in the chain must be known, and that
no other tool can put one there; `LooseBehindReset` and `ReadyIsFunctional` need,
for every `pc`, what the pass has established by then, unless `touched`. `WholeStays`
needs `NotMoved`: in a pass that is between looking up the rule and inserting it, and that no
other tool interfered with, the rule is not first.

| Theorem | Says |
|---|---|
| `TypeCorrect` | `[]TypeOK` |
| `ResetOnce` | `[]OneReset` |
| `LooseAfterReset` | `LooseBehindReset` |
| `ReadyIsTrue` | `ReadyIsFunctional`: the yes of an earlier pass does not outlive one that fails |
| `WholeIsStable` | `WholeStays`: undone only by another tool, or by the Delete of a pass in which one interfered |

**`DashboardProofs`** (of `Dashboard` with `Collector`), for any number of agents,
zones (shared or not), browsers and calls of Collect. `FailoversHappened` is not
inductive: whether the next answer is reported rightly depends on the counter it
carries. `CountersBacked` says of every counter in an agent, and of every answer
on its way, that it exceeds the remembered one by no more than the takeovers not
reported yet. A takeover raises counter and debt together; recording an answer
lowers the debt by one and raises the remembered counter by at least one; a restarted
counter and an answer that was overtaken are not above it and change neither. The
collector and the hub touch nothing of each other's, so their parts of the
invariant (`CoreInv`; `HubTyped`, `HandlersSound`) are proved apart (`HubAside`).

| Theorem | Says |
|---|---|
| `TypeCorrect` | `[]TypeOK` |
| `NoFalseFailover` | `[]FailoversHappened` |
| `ScrapesBacked` | `[]CountersBacked` |
| `HubForgets` | `[]GoneForgotten` |

**`QuantitiesProofs`** (of `Quantities`), for every duration and counter:

| Theorem | Says |
|---|---|
| `RenewedInTime` | a Lease of 2 s or more is renewed before it expires, of 4 s or more three times |
| `ShortLeaseExpires` | one below 2 s is not, unless the reconcile interval is below 1 s |
| `RatioBounded` | `CPURatio` is within 0 and 1 while no counter goes back |
| `RatioExceedsOne` | it exceeds 1 when idle and iowait together go back while the total grows, as the kernel lets iowait do; the guards of sysinfo.go:40-46 do not see it (with equal totals they return 0) |

`Failover` uses the lock that `Lease` implements: `FailoverUsesLock` and
`LeaseIsLock` meet in `LeaseLock`.

Only model-checked: all liveness (`DeadHolderReplaced`, `OwnZoneServed`,
`StandInCovers`, `GracefulHandover`, `DeadReported`, `Reconnected`,
`MissesReported`, `BooksFollowLease`, `FallbackFound`, `DataPlaneRestored`,
`DashboardSettles`), since fairness and ENABLED are beyond the prover. Every
safety property that a passing run checks is the statement of a theorem.

## 7. Where code and documentation disagree

Found while modelling; each has a run whose counterexample TLC prints.

- `GrantIsHeld` (`lease_stalegrant`): `Renew` takes its time before its first
  request (lease.go:43) and writes it into whatever it reads last. When both
  loops of an agent renew, the slower one moves RenewTime *back*, and the Lease
  of a healthy agent expires, which config.go:84-85 and agent.go:246-247 exclude.
- `DrainHandover` (`failover_drain_peer`): README.md:98 and drain.go:27-28 say
  that a peer may take over a drained zone. No peer can: the agent still answers
  pings, and its Lease is deleted, not expired.
- `StepDownHeard` (`peer_stepdown`): the step-down goes to a server that
  ignores it; `OnStepDown` never runs, and peers notice the exit by failed
  probes.

Also observed, without a run. Where a property is named, it stands in the module
and TLC refutes it on the given instance within a minute or two:

- A takeover that skips a table (agent.go:582-584) registers the others, so
  `CoversAZ` is true, the sweep passes over the zone and the skipped table stays at
  the dead instance, although README.md:252 promises to retry failed takeovers.
  `KnowinglyCovers` in `StandInCovers` asks for the registered tables only; asking for all
  (`ServedBy(f)`) is refuted with two tables and a failed call.
- `StandInCovers` with a stop (`MaxStops = 1`): a stand-in that is exiting may take a dead
  zone's Lease in a peer callback and release it on its way out; the Lease is then absent,
  and no sweep lists the zone.
- A complete stand-in may yield its zone to itself: its lease loop's `Renew` is refused
  because its own takeover wrote the Lease first (lease.go:50-51, 97), and agent.go:273-276
  then empties its books, although the comment at agent.go:266 and the log line at agent.go:275 speak of the
  owner taking the zone back. This is the exception in `CoverStays`; the zone
  is then neither renewed nor counted as covered until the Lease expires and the sweep takes
  it over again (`StandInCovers`).
- The handover of a graceful exit is lost if a stand-in's client reported the agent
  by mistake before the release: the client has ended (agent.go:511-516), its takeover was refused
  and nothing watches the agent until the next discovery, which no longer lists it once it
  is gone; the absent Lease is not swept. The same after a failed call of the one
  takeover, although README.md:252 speaks of retrying. `GracefulHandover`
  without its conditions on `watch` and on faults is refuted.
- EnsureStaleFlowReset lists the chain and deletes the rule in separate calls
  (manager.go:99, 104-109): if another tool moves the rule to the front in between, the agent takes
  a whole data plane apart and puts it together again, or leaves it so if it fails
  in between. This is the exception in `WholeStays`.
- A takeover counter that restarted with its agent is silent until it exceeds the
  value remembered of its predecessor (collector.go:388), although collector.go:368-370
  says that an event is emitted when a counter increases. `DashboardSettles` speaks of counters
  above the remembered value, and the run `dashboard` reaches the case (`Past`).
- `DrainedStaysOut` (`failover_cover` with a cordon): a loop that checked the flag
  just before it went up creates the released Lease again, which
  agent.go:249-251 excludes. It then expires, as the agent no longer renews it.
  What does hold is `StoodDownStaysOut`: once such a round is over, the agent is out.
- `NeverDropped` (`node`): manager.go:94-96 says INVALID packets are "never left"
  to kube-proxy's DROP. When the rule has to be moved, it is deleted and inserted
  in two calls with loose pickup off already; a failure or death in between leaves
  them to the DROP until the next pass.
- `GaugeClears` (`reconciler_books`): `/release` empties the books without
  clearing the ownership gauge, and what is not in the books is not cleared
  later: the gauge, "1 if this node owns the route table" (metrics.go:83), stays at 1.
- `CoveredCleared` (`dashboard`): the collector takes a zone to be covered until a
  scrape without tables is followed by one with some (collector.go:173). An agent
  that crashed never showed the former, so its zone stays marked.
- `SentToAll` (`Dashboard` with two browsers): Broadcast has no write deadline, so
  one browser that stops reading holds up the others.
- The first takeover by a counter never scraped before is not reported
  (collector.go:388-389): it is taken as the counter's initial value.
- `/release` in auto mode is undone by the lease loop within one renewal
  interval, since empty books are what `OwnClaimPending` asks for
  (reconciler.go:84, 408). A `/release` that meets a `/claim` before its cache
  skips tables whose VPC is unknown and still answers ok (reconciler.go:388-392);
  a remembered gateway that has been deleted makes `/release` fail until a
  restart; and in manual mode, after a restart, `/release` knows no tables and does nothing.
- `/claim` on a standby repoints the holder's routes. The next ticks of both
  agents mend it (`BooksFollowLease`, `OwnZoneServed`).
- Outside the models: the bandwidth of an instance is documented in bytes/s
  (ec2.go:216, metrics.go:107) but is computed in bits/s (ec2.go:251-255); the
  spot notice, polled every 5 s by README.md:104, is polled every second (agent.go:238).

- The Lease is checked once, before the EC2 calls (agent.go:651); a claim on its
  way when the Lease moves still repoints the new holder's route, although
  agent.go:633-635 says that two agents of a zone can never fight over it.
  `OwnZoneServed` shows that it heals.
- A peer that hangs but whose kernel accepts connections is never reported with
  ProbeFailures above 1, as each dial resets the count (client.go:37, 61, 71).
  `MissesReported` excuses hung peers for this reason; the sweep over expired
  Leases covers such a zone.

## 8. What is not modelled

- Of the data plane: `SetConntrackMax` and `SetPortRange`, written once at
  startup. Of the collector: peer_up and peer_down events (detected as a change of
  tables is), rates, history, and the trimming of the logs. Of the dashboard
  server: the forwarding of `/claim` and `/release`. Of the statistics: reading
  `/proc` and the smoothing of rates.
- What the dashboard shows of two agents of one zone: its state is per zone and
  follows whichever was scraped last (collector.go:188). That it reports no takeover
  which did not happen is proved for any assignment of zones; that it reports
  each is not so: an agent whose counter is the lower of the two may take over unnoticed.
- ProbeInterval against the server's 5 s: `PeerHeartbeat` has no clock.
- Two peer callbacks of one agent at once (a stand-in has one client per zone, but a new
  one may be discovered while the takeover of the last is still under way), and `/claim`
  and `/release` in `Failover`: they change routes and books without the Lease and are in
  `Reconciler`, where `Failover`'s other agents appear as `OtherClaims`. What `OnlyLateClaims` and
  `StoodDownStaysOut` say is therefore about agents nobody sends a `/claim`.
- Reading IMDS, the EC2 wire calls, the metrics registry, the web page, the
  byte layout of messages: I/O, parsing or rendering. Create-then-replace of a
  route is one step.
- Clocks that disagree: the code compares its own clock with a RenewTime another
  agent wrote and has no defence against skew.
- A drain monitor that cannot resolve its node: NODE_NAME is taken to be set, as
  the manifests set it. Without it, and without the pod lookup, `Run` of the
  monitor returns and the agent serves on a cordoned node.
- Manual mode in `Failover`, whose agents run in auto mode; `Reconciler` has both.

## 9. Plan

The order follows what an outage would cost. Done: `LeaseLock`, `Lease`,
`Failover`, `PeerHeartbeat`, `Reconciler`, `DataPlane`, `Quantities`,
`Collector` and `Dashboard`, with their runs and the proofs of section 6.

What could follow:

1. `Reconciler` and `Failover` composed, so that `serving` is the Lease of
   `Failover` instead of a variable that may change at any time.
2. `Failover`'s books: a stand-in's `covers` holds only tables it has claimed
   since it last yielded.
3. A closure theorem for the dashboard, the safety half of `DashboardSettles`.
