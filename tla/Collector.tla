------------------------------ MODULE Collector ------------------------------
(***************************************************************************)
(* The dashboard's collector: it scrapes the agents one after the other and*)
(* derives events from what changed since the last scrape of a zone.       *)
(*                                                                         *)
(* Several goroutines call Collect at once: the dashboard's loop and the   *)
(* handler of every new browser.  The HTTP requests are made without the   *)
(* mutex, so what a scrape returned may be old when it is recorded.        *)
(*                                                                         *)
(* Of an agent's metrics the model keeps whether route tables are owned and*)
(* the takeover counters.  peer_up and peer_down, which are detected as a  *)
(* change of the tables is, the rates and the history are left out.        *)
(***************************************************************************)
EXTENDS Integers, FiniteSets

CONSTANTS Agents,    \* agent pods
          Rank,      \* the order in which the API server lists them: by name
          Zones,
          ZoneOf,    \* the zone of each agent
          Past,      \* pairs of zones, the first taken over by an agent of the
                     \* second before the dashboard started
          Callers,   \* goroutines that call Collect
          MaxEvents  \* bound: agents that stop, takeovers, changes of what is
                     \* owned, failed scrapes, browsers that stall: all in all

ASSUME CollectorAssumption ==
    /\ ZoneOf \in [Agents -> Zones]
    /\ Rank \in [Agents -> Nat] /\ \A a, b \in Agents : Rank[a] = Rank[b] => a = b
    /\ Past \subseteq Zones \X Zones
    /\ MaxEvents \in Nat

Pairs == {k \in Zones \X Zones : k[1] # k[2]}
Counts == 0..(MaxEvents + 2)  \* 0: there is no such counter; n: its value is n - 1

VARIABLES alive,    \* agents that answer
          owns,     \* agents that own route tables
          counter,  \* kube_nat_failover_total of each agent, per zone
          seen,     \* seenAZs
          state,    \* agentStates: "none", or what the last scrape of the zone said
          counters, \* failoverCounters
          covered,  \* coveredAZs
          owed,     \* takeovers done less failover events, per pair of zones;
                    \* those before the start count as one
          call,     \* what each caller's Collect is doing
          left      \* what remains of the bound

agentVars == <<alive, owns, counter>>
memory == <<seen, state, counters, covered>>
collectorVars == <<agentVars, memory, owed, call, left>>

Says == {"owns", "not"}
Views == [Agents -> Says \cup {"absent"}]
NoView == [a \in Agents |-> "absent"]
Calls == [pc : {"idle", "list", "scrape", "record", "lost", "return"},
          todo : SUBSET Agents,              \* pods listed and not yet scraped
          read : [Zones -> Counts],          \* the takeover counters scraped last
          of : Agents \cup {"none"},         \* and whose they are
          snap : Views]                      \* the snapshot so far
NoCall == [pc |-> "idle", todo |-> {}, read |-> [z \in Zones |-> 0], of |-> "none",
           snap |-> NoView]

CollectorTypeOK ==
    /\ alive \subseteq Agents /\ owns \subseteq alive
    /\ counter \in [Agents -> [Zones -> Counts]]
    /\ seen \subseteq Zones /\ covered \subseteq Zones
    /\ state \in [Zones -> Says \cup {"none"}]
    /\ counters \in [Pairs -> Counts]
    /\ owed \in [Pairs -> Int]
    /\ call \in [Callers -> Calls]
    /\ left \in 0..MaxEvents

AtStart(a, z) ==
    IF z = ZoneOf[a] THEN 0 ELSE IF <<z, ZoneOf[a]>> \in Past THEN 2 ELSE 1

CollectorInit ==
    /\ alive = Agents /\ owns = Agents
    /\ counter = [a \in Agents |-> [z \in Zones |-> AtStart(a, z)]]
    /\ seen = {} /\ covered = {}
    /\ state = [z \in Zones |-> "none"]
    /\ counters = [k \in Pairs |-> 0]
    /\ owed = [k \in Pairs |-> IF k \in Past THEN 1 ELSE 0]
    /\ call = [c \in Callers |-> NoCall]
    /\ left = MaxEvents

-----------------------------------------------------------------------------
At(c, pc) == call[c].pc = pc
Spend == left > 0 /\ left' = left - 1
First(S) == {a \in S : \A b \in S : Rank[a] <= Rank[b]}
SaysOf(a) == IF a \in owns THEN "owns" ELSE "not"
SeenIn(c) == {ZoneOf[a] : a \in {b \in Agents : call[c].snap[b] # "absent"}}

(* The pods are listed; those that do not run may be among them.           *)
List(c) ==
    /\ At(c, "list")
    /\ \E gone \in SUBSET (Agents \ alive) :
          call' = [call EXCEPT ![c] = [NoCall EXCEPT !.pc = "scrape", !.todo = alive \cup gone]]
    /\ UNCHANGED <<agentVars, memory, owed, left>>

(* One GET /metrics, without the mutex.  An agent that does not answer is  *)
(* skipped.                                                                *)
Scrape(c) ==
    /\ At(c, "scrape")
    /\ \E a \in First(call[c].todo) \cap alive :
          call' = [call EXCEPT ![c] = [call[c] EXCEPT
              !.pc = "record", !.todo = call[c].todo \ {a}, !.of = a,
              !.read = counter[a], !.snap[a] = SaysOf(a)]]
    /\ UNCHANGED <<agentVars, memory, owed, left>>

Skip(c) ==
    /\ At(c, "scrape")
    /\ \E a \in First(call[c].todo) \ alive : call' = [call EXCEPT ![c].todo = @ \ {a}]
    /\ UNCHANGED <<agentVars, memory, owed, left>>

ScrapeFails(c) ==
    /\ At(c, "scrape") /\ Spend
    /\ \E a \in First(call[c].todo) : call' = [call EXCEPT ![c].todo = @ \ {a}]
    /\ UNCHANGED <<agentVars, memory, owed>>

(* detectFailovers: a counter seen for the first time is only remembered,  *)
(* one that grew is a takeover.                                            *)
Increases_AnyChange(c, k) ==
    LET val == call[c].read[k[1]] IN
    k[2] = ZoneOf[call[c].of] /\ val > 0 /\ counters[k] > 0 /\ val # counters[k]

Increases(c, k) ==
    LET val == call[c].read[k[1]] IN
    k[2] = ZoneOf[call[c].of] /\ val > 0 /\ counters[k] > 0 /\ val > counters[k]

FirstSeen(c, k) ==
    k[2] = ZoneOf[call[c].of] /\ call[c].read[k[1]] > 0 /\ counters[k] = 0

(* Under the mutex: what the last scrape returned becomes the state of the *)
(* zone, and what changed an event.                                        *)
Record(c) ==
    /\ At(c, "record")
    /\ LET z == ZoneOf[call[c].of]
           said == call[c].snap[call[c].of]
           regained == z \in covered /\ state[z] = "not" /\ said = "owns"
           taken == {k \in Pairs : Increases(c, k)}
       IN /\ seen' = seen \cup {z}
          /\ state' = [state EXCEPT ![z] = said]
          /\ covered' = (IF regained THEN covered \ {z} ELSE covered) \cup {k[1] : k \in taken}
          /\ owed' = [k \in Pairs |-> owed[k] - IF k \in taken THEN 1 ELSE 0]
          /\ counters' = [k \in Pairs |-> IF k \in taken \/ FirstSeen(c, k)
                                            THEN call[c].read[k[1]] ELSE counters[k]]
    /\ call' = [call EXCEPT ![c].pc = "scrape", ![c].of = "none", ![c].read = NoCall.read]
    /\ UNCHANGED <<agentVars, left>>

(* Zones that answered before and did not answer this call are lost.       *)
Lost_Keeps(c) ==
    /\ At(c, "scrape") /\ call[c].todo = {}
    /\ call' = [call EXCEPT ![c].pc = "return"]
    /\ UNCHANGED <<agentVars, memory, owed, left>>

Lost(c) ==
    /\ At(c, "scrape") /\ call[c].todo = {}
    /\ seen' = seen \cap SeenIn(c)
    /\ call' = [call EXCEPT ![c].pc = "return"]
    /\ UNCHANGED <<agentVars, state, counters, covered, owed, left>>

Collect(c) == List(c) \/ Scrape(c) \/ Skip(c) \/ Record(c) \/ Lost(c)

-----------------------------------------------------------------------------
(* The agents.                                                             *)

AgentStops ==
    /\ Spend
    /\ \E a \in alive :
          /\ alive' = alive \ {a} /\ owns' = owns \ {a}
          /\ counter' = [counter EXCEPT ![a] = [z \in Zones |-> 0]]
    /\ UNCHANGED <<owed, memory, call>>

AgentStarts ==
    /\ \E a \in Agents \ alive : alive' = alive \cup {a}
    /\ UNCHANGED <<owns, counter, owed, memory, call, left>>

(* The counter of a zone starts at 0 when its agent is connected to ...    *)
PeerConnected ==
    /\ \E a \in alive, z \in Zones :
          /\ z # ZoneOf[a] /\ counter[a][z] = 0
          /\ counter' = [counter EXCEPT ![a][z] = 1]
    /\ UNCHANGED <<alive, owns, owed, memory, call, left>>

(* ... and counts the takeovers of the zone, connected before or not.      *)
Takeover ==
    /\ Spend
    /\ \E a \in alive, z \in Zones :
          /\ z # ZoneOf[a]
          /\ counter' = [counter EXCEPT ![a][z] = IF @ = 0 THEN 2 ELSE @ + 1]
          /\ owed' = [owed EXCEPT ![<<z, ZoneOf[a]>>] = @ + 1]
    /\ UNCHANGED <<alive, owns, memory, call>>

TablesChange ==
    /\ Spend
    /\ \E a \in alive : owns' = IF a \in owns THEN owns \ {a} ELSE owns \cup {a}
    /\ UNCHANGED <<alive, counter, owed, memory, call>>

AgentSteps == AgentStops \/ AgentStarts \/ PeerConnected \/ Takeover \/ TablesChange
=============================================================================
