-------------------------- MODULE DashboardProofs --------------------------
(***************************************************************************)
(* Theorems about Dashboard and its Collector, for any agents, also several*)
(* in a zone, any number of browsers and callers of Collect, and any number*)
(* of events.                                                              *)
(***************************************************************************)
EXTENDS Dashboard, TLAPS

-----------------------------------------------------------------------------
(* The inductive invariant.                                                *)

(* A counter grows by at most one per event spent.                         *)
CountersBounded == \A a \in Agents, z \in Zones : counter[a][z] + left <= MaxEvents + 2

(* What is about to be recorded has an agent, and its answer.              *)
RecordsSound ==
    \A c \in Callers :
       At(c, "record") => call[c].of \in Agents /\ call[c].snap[call[c].of] \in Says

(* A Collect of a browser is under way only in its handler's first part,   *)
(* and there is no handler without a WebSocket.                            *)
HandlersSound ==
    \A b \in Browsers :
       /\ ~At(b, "idle") => handler[b] = "collecting"
       /\ link[b] = "none" => handler[b] = "none"

IInv ==
    /\ TypeOK /\ CountersBounded /\ RecordsSound
    /\ FailoversHappened /\ CountersBacked
    /\ HandlersSound /\ GoneForgotten

-----------------------------------------------------------------------------
(* The parts of TypeOK.                                                    *)

AgentsTyped ==
    /\ alive \subseteq Agents /\ owns \subseteq alive
    /\ counter \in [Agents -> [Zones -> Counts]]
MemoryTyped ==
    /\ seen \subseteq Zones /\ covered \subseteq Zones
    /\ state \in [Zones -> Says \cup {"none"}]
    /\ counters \in [Pairs -> Counts]
    /\ owed \in [Pairs -> Int]
CallTyped == call \in [Callers -> Calls]
LeftTyped == left \in 0..MaxEvents
HubTyped ==
    /\ clients \subseteq Browsers /\ sending \subseteq Browsers
    /\ link \in [Browsers -> {"none", "open", "stalled", "gone"}]
    /\ handler \in [Browsers -> {"none", "accepted", "collecting", "reading", "returned"}]
    /\ shown \in [Browsers -> Views] /\ payload \in Views

(* TypeOK, conjunct by conjunct.                                           *)
LEMMA Parts ==
    TypeOK <=> AgentsTyped /\ MemoryTyped /\ CallTyped /\ LeftTyped /\ HubTyped
  BY DEF TypeOK, CollectorTypeOK, AgentsTyped, MemoryTyped, CallTyped, LeftTyped, HubTyped

(* No call is under way in an idle caller.                                 *)
LEMMA Idles ==
    /\ NoView \in Views
    /\ NoCall \in Calls /\ NoCall.pc = "idle"
    /\ NoCall.read \in [Zones -> Counts]
<1>1. NoView \in Views
  BY DEF NoView, Views
<1>2. [z \in Zones |-> 0] \in [Zones -> Counts]
  BY CollectorAssumption DEF Counts
<1> QED
  BY <1>1, <1>2 DEF NoCall, Calls

(* Spending an event.                                                      *)
LEMMA SpendType ==
    ASSUME LeftTyped, UNCHANGED left \/ Spend
    PROVE  LeftTyped' /\ left' <= left /\ left' \in Int /\ left \in Int
  BY CollectorAssumption DEF LeftTyped, Spend

-----------------------------------------------------------------------------
(* What a step does to the calls under way.                                *)

(* It is one caller's, and what is then about to be recorded is what one   *)
(* agent says at this moment.                                              *)
Answer(r) == \E a \in alive : r.of = a /\ r.read = counter[a] /\ r.snap[a] = SaysOf(a)
CallStep(c) ==
    \E r \in Calls :
       /\ call' = [call EXCEPT ![c] = r]
       /\ r.pc = "record" => Answer(r)

(* Every step of Collect is such a step,                                   *)
LEMMA CollectStep ==
    ASSUME AgentsTyped, CallTyped, NEW c \in Callers, Collect(c) \/ ScrapeFails(c)
    PROVE  CallStep(c) /\ ~At(c, "idle")
<1>0. /\ call \in [Callers -> Calls] /\ call[c] \in Calls
      /\ alive \subseteq Agents /\ counter \in [Agents -> [Zones -> Counts]]
      /\ NoCall \in Calls /\ NoCall.read \in [Zones -> Counts]
  BY Idles DEF AgentsTyped, CallTyped
<1>1. CASE List(c)
  <2>1. PICK gone \in SUBSET (Agents \ alive) :
           call' = [call EXCEPT ![c] = [NoCall EXCEPT !.pc = "scrape", !.todo = alive \cup gone]]
    BY <1>1 DEF List
  <2>2. [NoCall EXCEPT !.pc = "scrape", !.todo = alive \cup gone] \in Calls
    BY <1>0 DEF Calls
  <2>3. [NoCall EXCEPT !.pc = "scrape", !.todo = alive \cup gone].pc = "scrape"
    BY <1>0 DEF Calls
  <2> QED
    BY <1>1, <2>1, <2>2, <2>3 DEF CallStep, List, At
<1>2. CASE Scrape(c)
  <2>1. PICK a \in First(call[c].todo) \cap alive :
           call' = [call EXCEPT ![c] = [call[c] EXCEPT
              !.pc = "record", !.todo = call[c].todo \ {a}, !.of = a,
              !.read = counter[a], !.snap[a] = SaysOf(a)]]
    BY <1>2 DEF Scrape
  <2> DEFINE r == [call[c] EXCEPT !.pc = "record", !.todo = @ \ {a}, !.of = a,
                                 !.read = counter[a], !.snap[a] = SaysOf(a)]
  <2>2. a \in Agents /\ a \in alive /\ SaysOf(a) \in Says
    BY <1>0 DEF SaysOf, Says
  <2>3. r \in Calls
    BY <1>0, <2>2 DEF Calls, Views
  <2>4. Answer(r)
    BY <1>0, <2>2 DEF Answer, Calls, Views
  <2>5. call' = [call EXCEPT ![c] = r]
    BY <1>0, <2>1
  <2> QED
    BY <1>2, <2>3, <2>4, <2>5 DEF CallStep, Scrape, At
<1>3. CASE Skip(c) \/ ScrapeFails(c)
  <2>1. PICK a : call' = [call EXCEPT ![c].todo = @ \ {a}]
    BY <1>3 DEF Skip, ScrapeFails
  <2> DEFINE r == [call[c] EXCEPT !.todo = @ \ {a}]
  <2>2. r \in Calls /\ r.pc = call[c].pc
    BY <1>0 DEF Calls
  <2>3. call' = [call EXCEPT ![c] = r]
    BY <1>0, <2>1
  <2> QED
    BY <1>3, <2>2, <2>3 DEF CallStep, Skip, ScrapeFails, At
<1>4. CASE Record(c)
  <2> DEFINE r == [call[c] EXCEPT !.pc = "scrape", !.of = "none", !.read = NoCall.read]
  <2>1. r \in Calls /\ r.pc = "scrape"
    BY <1>0 DEF Calls
  <2>2. call' = [call EXCEPT ![c] = r]
    BY <1>0, <1>4 DEF Record
  <2> QED
    BY <1>4, <2>1, <2>2 DEF CallStep, Record, At
<1>5. CASE Lost(c)
  <2> DEFINE r == [call[c] EXCEPT !.pc = "return"]
  <2>1. r \in Calls /\ r.pc = "return"
    BY <1>0 DEF Calls
  <2>2. call' = [call EXCEPT ![c] = r]
    BY <1>0, <1>5 DEF Lost
  <2> QED
    BY <1>5, <2>1, <2>2 DEF CallStep, Lost, At
<1> QED
  BY <1>1, <1>2, <1>3, <1>4, <1>5 DEF Collect

(* and so are its beginning and its end.                                   *)
LEMMA StartReturnStep ==
    ASSUME CallTyped, NEW c \in Callers, Start(c) \/ Returned(c)
    PROVE  CallStep(c)
<1>0. call \in [Callers -> Calls] /\ call[c] \in Calls
  BY DEF CallTyped
<1>1. CASE Start(c)
  <2> DEFINE r == [call[c] EXCEPT !.pc = "list"]
  <2>1. r \in Calls /\ r.pc = "list" /\ call' = [call EXCEPT ![c] = r]
    BY <1>0, <1>1 DEF Start, Calls
  <2> QED
    BY <2>1 DEF CallStep
<1>2. CASE Returned(c)
  BY <1>2, Idles DEF Returned, CallStep
<1> QED
  BY <1>1, <1>2

(* What such a step keeps of the invariant.                                *)
LEMMA CallsKept ==
    ASSUME AgentsTyped, CallTyped, RecordsSound, NEW c \in Callers, CallStep(c)
    PROVE  /\ CallTyped' /\ RecordsSound'
           /\ \A d \in Callers : d # c => UNCHANGED call[d]
           /\ \A d \in Callers : At(d, "record")' => UNCHANGED call[d] \/ Answer(call'[d])
<1>0. call \in [Callers -> Calls] /\ alive \subseteq Agents
  BY DEF CallTyped, AgentsTyped
<1>1. PICK r \in Calls : call' = [call EXCEPT ![c] = r] /\ (r.pc = "record" => Answer(r))
  BY DEF CallStep
<1>2. CallTyped'
  BY <1>0, <1>1 DEF CallTyped
<1>3. call'[c] = r /\ \A d \in Callers : d # c => call'[d] = call[d]
  BY <1>0, <1>1
<1>4. \A d \in Callers : At(d, "record")' => call'[d] = call[d] \/ Answer(call'[d])
  BY <1>1, <1>3 DEF At
<1>5. \A x : Answer(x) => x.of \in Agents /\ x.snap[x.of] \in Says
  BY <1>0 DEF Answer, SaysOf, Says
<1>6. RecordsSound'
  BY <1>3, <1>4, <1>5 DEF RecordsSound, At
<1> QED
  BY <1>2, <1>3, <1>4, <1>6

-----------------------------------------------------------------------------
(* Counters, takeovers and events.                                         *)

(* The numbers that are compared.                                          *)
LEMMA Numbers ==
    ASSUME AgentsTyped, MemoryTyped, CallTyped
    PROVE  /\ Counts \subseteq Int
           /\ \A a \in Agents, z \in Zones : counter[a][z] \in Counts
           /\ \A k \in Pairs : /\ k[1] \in Zones /\ k[2] \in Zones /\ k[1] # k[2]
                               /\ counters[k] \in Counts /\ owed[k] \in Int
                               /\ Known(k) \in Int /\ Known(k) >= 1 /\ Known(k) >= counters[k]
           /\ \A c \in Callers, z \in Zones : call[c].read[z] \in Counts
<1>1. Counts \subseteq Int /\ \A n \in Counts : n >= 0
  BY CollectorAssumption DEF Counts
<1>2. \A k \in Pairs : k[1] \in Zones /\ k[2] \in Zones /\ k[1] # k[2]
  BY DEF Pairs
<1>3. \A k \in Pairs : counters[k] \in Counts /\ owed[k] \in Int
  BY DEF MemoryTyped
<1>4. ASSUME NEW k \in Pairs
      PROVE  Known(k) \in Int /\ Known(k) >= 1 /\ Known(k) >= counters[k]
  <2>1. counters[k] \in Int /\ counters[k] >= 0
    BY <1>1, <1>3
  <2> QED
    BY <2>1 DEF Known
<1>5. \A a \in Agents, z \in Zones : counter[a][z] \in Counts
  BY DEF AgentsTyped
<1>6. \A c \in Callers, z \in Zones : call[c].read[z] \in Counts
  BY DEF CallTyped, Calls
<1> QED
  BY <1>1, <1>2, <1>3, <1>4, <1>5, <1>6

(* An answer that is just read is backed as the agent's counters are.      *)
LEMMA BackedKept ==
    ASSUME AgentsTyped, CountersBacked, UNCHANGED <<counter, counters, owed>>,
           \A d \in Callers : At(d, "record")' => UNCHANGED call[d] \/ Answer(call'[d])
    PROVE  CountersBacked'
<1>1. ASSUME NEW k \in Pairs, NEW a \in Agents, ZoneOf[a] = k[2]
      PROVE  Backed(k, counter[a][k[1]])'
  BY <1>1 DEF CountersBacked, Backed, Known
<1>2. ASSUME NEW k \in Pairs, NEW c \in Callers, At(c, "record")', ZoneOf[call'[c].of] = k[2]
      PROVE  Backed(k, call[c].read[k[1]])'
  <2>1. CASE call'[c] = call[c]
    BY <1>2, <2>1 DEF CountersBacked, Backed, Known, At
  <2>2. CASE Answer(call'[c])
    <3>1. PICK a \in alive : call'[c].of = a /\ call'[c].read = counter[a]
      BY <2>2 DEF Answer
    <3>2. a \in Agents /\ Backed(k, counter[a][k[1]])
      BY <1>2, <3>1 DEF CountersBacked, AgentsTyped
    <3> QED
      BY <3>1, <3>2 DEF Backed, Known
  <2> QED
    BY <1>2, <2>1, <2>2
<1> QED
  BY <1>1, <1>2 DEF CountersBacked

(* Recording an answer takes from what is owed what it adds to what is     *)
(* known.                                                                  *)
LEMMA RecordStep ==
    ASSUME IInv, NEW c \in Callers, Record(c)
    PROVE  MemoryTyped' /\ FailoversHappened' /\ CountersBacked'
<1> DEFINE of == call[c].of
           z == ZoneOf[of]
           val(k) == call[c].read[k[1]]
<1>0. /\ AgentsTyped /\ MemoryTyped /\ CallTyped
      /\ of \in Agents /\ call[c].snap[of] \in Says /\ z \in Zones
  <2>1. At(c, "record")
    BY DEF Record
  <2> QED
    BY <2>1, Parts, CollectorAssumption DEF IInv, RecordsSound
<1>1. ASSUME NEW k \in Pairs
      PROVE  /\ val(k) \in Counts
             /\ Increases(c, k) \/ FirstSeen(c, k) => counters'[k] = val(k)
             /\ ~Increases(c, k) /\ ~FirstSeen(c, k) => counters'[k] = counters[k]
             /\ owed'[k] = owed[k] - IF Increases(c, k) THEN 1 ELSE 0
  <2>1. val(k) \in Counts
    BY <1>0, Numbers
  <2>2. owed'[k] = owed[k] - IF Increases(c, k) THEN 1 ELSE 0
    BY DEF Record
  <2>3. counters'[k] = IF Increases(c, k) \/ FirstSeen(c, k) THEN val(k) ELSE counters[k]
    BY DEF Record
  <2> QED
    BY <2>1, <2>2, <2>3
<1>2. MemoryTyped'
  <2>1. counters' \in [Pairs -> Counts]
    <3>1. counters' = [k \in Pairs |-> counters'[k]]
      BY DEF Record
    <3>2. \A k \in Pairs : counters'[k] \in Counts
      BY <1>0, <1>1, Numbers
    <3> QED
      BY <3>1, <3>2
  <2>2. owed' \in [Pairs -> Int]
    <3>1. owed' = [k \in Pairs |-> owed'[k]]
      BY DEF Record
    <3>2. \A k \in Pairs : owed'[k] \in Int
      BY <1>0, <1>1, Numbers
    <3> QED
      BY <3>1, <3>2
  <2>3. seen' \subseteq Zones /\ state' \in [Zones -> Says \cup {"none"}]
    BY <1>0 DEF Record, MemoryTyped
  <2>4. covered' \subseteq Zones
    <3>1. {k[1] : k \in {j \in Pairs : Increases(c, j)}} \subseteq Zones
      BY DEF Pairs
    <3> QED
      BY <1>0, <3>1 DEF Record, MemoryTyped
  <2> QED
    BY <2>1, <2>2, <2>3, <2>4 DEF MemoryTyped
<1>3. ASSUME NEW k \in Pairs
      PROVE  /\ owed'[k] >= 0
             /\ \A n \in Counts : Backed(k, n) => Backed(k, n)'
  <2>0. /\ counters[k] \in Int /\ counters[k] >= 0 /\ owed[k] \in Int /\ owed[k] >= 0
        /\ val(k) \in Int /\ val(k) >= 0 /\ Counts \subseteq Int
    BY <1>0, <1>1, Numbers, CollectorAssumption DEF Counts, IInv, FailoversHappened
  <2>1. k[2] = z => val(k) <= Known(k) + owed[k]
    BY DEF IInv, CountersBacked, Backed, Record
  <2>2. CASE Increases(c, k)
    <3>1. k[2] = z /\ val(k) > 0 /\ counters[k] > 0 /\ val(k) > counters[k]
      BY <2>2 DEF Increases
    <3>2. counters'[k] = val(k) /\ owed'[k] = owed[k] - 1
      BY <1>1, <2>2
    <3> QED
      BY <2>0, <2>1, <3>1, <3>2 DEF Backed, Known
  <2>3. CASE ~Increases(c, k) /\ FirstSeen(c, k)
    <3>1. val(k) > 0 /\ counters[k] = 0
      BY <2>3 DEF FirstSeen
    <3>2. counters'[k] = val(k) /\ owed'[k] = owed[k]
      BY <1>1, <2>0, <2>3
    <3>3. ASSUME NEW n \in Counts, n <= 1 + owed[k] PROVE n <= val(k) + owed[k]
      BY <2>0, <3>1, <3>3
    <3> QED
      BY <2>0, <3>1, <3>2, <3>3 DEF Backed, Known
  <2>4. CASE ~Increases(c, k) /\ ~FirstSeen(c, k)
    <3>1. counters'[k] = counters[k] /\ owed'[k] = owed[k]
      BY <1>1, <2>0, <2>4
    <3> QED
      BY <2>0, <3>1 DEF Backed, Known
  <2> QED
    BY <2>2, <2>3, <2>4
<1>4. FailoversHappened'
  BY <1>3 DEF FailoversHappened
<1>5. CountersBacked'
  <2>1. counter' = counter
    BY DEF Record, agentVars
  <2>2. \A d \in Callers : At(d, "record")' => call'[d] = call[d]
    BY <1>0 DEF Record, At, CallTyped, Calls
  <2>3. ASSUME NEW k \in Pairs, NEW a \in Agents, ZoneOf[a] = k[2]
        PROVE  Backed(k, counter[a][k[1]])'
    <3>1. Backed(k, counter[a][k[1]]) /\ counter[a][k[1]] \in Counts
      BY <2>3, <1>0, Numbers DEF IInv, CountersBacked
    <3> QED
      BY <3>1, <1>3, <2>1 DEF Backed, Known
  <2>4. ASSUME NEW k \in Pairs, NEW d \in Callers, At(d, "record")', ZoneOf[call'[d].of] = k[2]
        PROVE  Backed(k, call[d].read[k[1]])'
    <3>1. call'[d] = call[d]
      BY <2>2, <2>4
    <3>2. Backed(k, call[d].read[k[1]]) /\ call[d].read[k[1]] \in Counts
      BY <3>1, <2>4, <1>0, Numbers DEF IInv, CountersBacked, At
    <3> QED
      BY <3>1, <3>2, <1>3 DEF Backed, Known
  <2> QED
    BY <2>3, <2>4 DEF CountersBacked
<1> QED
  BY <1>2, <1>4, <1>5

(* A takeover is owed as it is counted; no other step of an agent makes a  *)
(* counter exceed what its first value is taken to be.                     *)
LEMMA AgentStep ==
    ASSUME IInv, AgentSteps
    PROVE  /\ AgentsTyped' /\ MemoryTyped' /\ LeftTyped' /\ CountersBounded'
           /\ FailoversHappened' /\ CountersBacked'
<1>0. /\ AgentsTyped /\ MemoryTyped /\ CallTyped /\ LeftTyped
      /\ MaxEvents \in Nat /\ ZoneOf \in [Agents -> Zones]
      /\ left \in Int /\ left >= 0 /\ left <= MaxEvents
  BY Parts, CollectorAssumption DEF IInv, LeftTyped
<1>1. UNCHANGED <<memory, call>>
  BY DEF AgentSteps, AgentStops, AgentStarts, PeerConnected, Takeover, TablesChange
<1>2. \A k \in Pairs : Known(k)' = Known(k)
  BY <1>1 DEF memory, Known
<1>3. ASSUME UNCHANGED <<counter, owed>>
      PROVE  MemoryTyped' /\ FailoversHappened' /\ CountersBacked'
  <2>1. MemoryTyped' /\ FailoversHappened'
    BY <1>0, <1>1, <1>3 DEF MemoryTyped, memory, IInv, FailoversHappened
  <2>2. CountersBacked'
    BY <1>0, <1>1, <1>3, BackedKept DEF memory, IInv
  <2> QED
    BY <2>1, <2>2
<1>4. ASSUME NEW a \in Agents, NEW z \in Zones
      PROVE  counter[a][z] \in Int /\ counter[a][z] >= 0 /\ counter[a][z] + left <= MaxEvents + 2
  <2>1. counter[a][z] \in Counts
    BY <1>0, Numbers
  <2> QED
    BY <2>1, <1>0 DEF Counts, IInv, CountersBounded
<1>5. CASE AgentStarts \/ TablesChange
  <2>1. UNCHANGED <<counter, owed>> /\ (UNCHANGED left \/ Spend)
    BY <1>5 DEF AgentStarts, TablesChange
  <2>2. AgentsTyped'
    BY <1>0, <1>5 DEF AgentStarts, TablesChange, AgentsTyped
  <2>3. LeftTyped' /\ left' \in Int /\ left' <= left
    BY <1>0, <2>1, SpendType
  <2>4. CountersBounded'
    BY <1>0, <1>4, <2>1, <2>3 DEF CountersBounded
  <2> QED
    BY <1>3, <2>1, <2>2, <2>3, <2>4
<1>6. CASE AgentStops
  <2>1. PICK a \in alive :
           /\ alive' = alive \ {a} /\ owns' = owns \ {a}
           /\ counter' = [counter EXCEPT ![a] = [z \in Zones |-> 0]]
    BY <1>6 DEF AgentStops
  <2>2. UNCHANGED owed /\ Spend
    BY <1>6 DEF AgentStops
  <2>3. a \in Agents /\ [z \in Zones |-> 0] \in [Zones -> Counts]
    BY <1>0 DEF AgentsTyped, Counts
  <2>4. AgentsTyped'
    BY <1>0, <2>1, <2>3 DEF AgentsTyped
  <2>5. \A b \in Agents, z \in Zones : counter'[b][z] \in {0, counter[b][z]}
    BY <1>0, <2>1, <2>3 DEF AgentsTyped
  <2>6. LeftTyped' /\ left' \in Int /\ left' = left - 1
    BY <1>0, <2>2, SpendType DEF Spend
  <2>7. CountersBounded'
    BY <1>0, <1>4, <2>5, <2>6 DEF CountersBounded
  <2>8. MemoryTyped' /\ FailoversHappened'
    BY <1>0, <1>1, <2>2 DEF MemoryTyped, memory, IInv, FailoversHappened
  <2>9. CountersBacked'
    <3>1. ASSUME NEW k \in Pairs, NEW b \in Agents, ZoneOf[b] = k[2]
          PROVE  Backed(k, counter[b][k[1]])'
      <4>1. counter[b][k[1]] <= Known(k) + owed[k]
        BY <3>1 DEF IInv, CountersBacked, Backed
      <4>2. /\ Known(k) \in Int /\ Known(k) >= 1 /\ owed[k] \in Int /\ owed[k] >= 0
            /\ k[1] \in Zones
        BY <1>0, Numbers DEF IInv, FailoversHappened
      <4>3. counter'[b][k[1]] \in {0, counter[b][k[1]]}
        BY <2>5, <4>2
      <4> QED
        BY <1>2, <2>2, <4>1, <4>2, <4>3 DEF Backed
    <3>2. ASSUME NEW k \in Pairs, NEW c \in Callers, At(c, "record"), ZoneOf[call[c].of] = k[2]
          PROVE  Backed(k, call[c].read[k[1]])'
      BY <1>1, <1>2, <2>2, <3>2 DEF IInv, CountersBacked, Backed
    <3> QED
      BY <1>1, <3>1, <3>2 DEF CountersBacked, At
  <2> QED
    BY <2>4, <2>6, <2>7, <2>8, <2>9
<1>7. CASE PeerConnected
  <2>1. PICK a \in alive, z \in Zones :
           counter[a][z] = 0 /\ counter' = [counter EXCEPT ![a][z] = 1]
    BY <1>7 DEF PeerConnected
  <2>2. UNCHANGED <<alive, owns, owed, left>>
    BY <1>7 DEF PeerConnected
  <2>3. a \in Agents /\ 1 \in Counts
    BY <1>0 DEF AgentsTyped, Counts
  <2>4. AgentsTyped'
    BY <1>0, <2>1, <2>2, <2>3 DEF AgentsTyped
  <2>5. \A b \in Agents, y \in Zones : counter'[b][y] \in {1, counter[b][y]}
    BY <1>0, <2>1, <2>3 DEF AgentsTyped
  <2>6. LeftTyped' /\ CountersBounded'
    BY <1>0, <1>4, <2>2, <2>5 DEF LeftTyped, CountersBounded
  <2>7. MemoryTyped' /\ FailoversHappened'
    BY <1>0, <1>1, <2>2 DEF MemoryTyped, memory, IInv, FailoversHappened
  <2>8. CountersBacked'
    <3>1. ASSUME NEW k \in Pairs, NEW b \in Agents, ZoneOf[b] = k[2]
          PROVE  Backed(k, counter[b][k[1]])'
      <4>1. counter[b][k[1]] <= Known(k) + owed[k]
        BY <3>1 DEF IInv, CountersBacked, Backed
      <4>2. /\ Known(k) \in Int /\ Known(k) >= 1 /\ owed[k] \in Int /\ owed[k] >= 0
            /\ k[1] \in Zones
        BY <1>0, Numbers DEF IInv, FailoversHappened
      <4>3. counter'[b][k[1]] \in {1, counter[b][k[1]]}
        BY <2>5, <4>2
      <4> QED
        BY <1>2, <2>2, <4>1, <4>2, <4>3 DEF Backed
    <3>2. ASSUME NEW k \in Pairs, NEW c \in Callers, At(c, "record"), ZoneOf[call[c].of] = k[2]
          PROVE  Backed(k, call[c].read[k[1]])'
      BY <1>1, <1>2, <2>2, <3>2 DEF IInv, CountersBacked, Backed
    <3> QED
      BY <1>1, <3>1, <3>2 DEF CountersBacked, At
  <2> QED
    BY <2>4, <2>6, <2>7, <2>8
<1>8. CASE Takeover
  <2>1. PICK a \in alive, z \in Zones :
           /\ z # ZoneOf[a]
           /\ counter' = [counter EXCEPT ![a][z] = IF @ = 0 THEN 2 ELSE @ + 1]
           /\ owed' = [owed EXCEPT ![<<z, ZoneOf[a]>>] = @ + 1]
    BY <1>8 DEF Takeover
  <2> DEFINE n == IF counter[a][z] = 0 THEN 2 ELSE counter[a][z] + 1
             p == <<z, ZoneOf[a]>>
  <2>2. UNCHANGED <<alive, owns>> /\ left > 0 /\ left' = left - 1
    BY <1>8 DEF Takeover, Spend
  <2>3. /\ a \in Agents /\ p \in Pairs /\ n \in Counts
        /\ n + left' <= MaxEvents + 2
    <3>1. a \in Agents /\ ZoneOf[a] \in Zones
      BY <1>0 DEF AgentsTyped
    <3>2. n \in Counts /\ n + left' <= MaxEvents + 2
      BY <1>0, <1>4, <2>2, <3>1 DEF Counts
    <3> QED
      BY <2>1, <3>1, <3>2 DEF Pairs
  <2>4. AgentsTyped'
    BY <1>0, <2>1, <2>2, <2>3 DEF AgentsTyped
  <2>5. \A b \in Agents, y \in Zones :
           counter'[b][y] = IF b = a /\ y = z THEN n ELSE counter[b][y]
    BY <1>0, <2>1, <2>3 DEF AgentsTyped
  <2>6. LeftTyped' /\ CountersBounded'
    BY <1>0, <1>4, <2>2, <2>3, <2>5 DEF LeftTyped, CountersBounded
  <2>7. \A k \in Pairs : owed'[k] = IF k = p THEN owed[k] + 1 ELSE owed[k]
    BY <1>0, <2>1 DEF MemoryTyped
  <2>8. MemoryTyped' /\ FailoversHappened'
    <3>1. owed \in [Pairs -> Int] /\ \A k \in Pairs : owed[k] >= 0
      BY <1>0 DEF MemoryTyped, IInv, FailoversHappened
    <3>2. owed' \in [Pairs -> Int]
      BY <2>1, <2>3, <3>1
    <3>3. \A k \in Pairs : owed'[k] >= 0
      BY <2>7, <3>1
    <3> QED
      BY <1>0, <1>1, <3>2, <3>3 DEF MemoryTyped, memory, FailoversHappened
  <2>9. CountersBacked'
    <3>0. ASSUME NEW k \in Pairs
          PROVE  /\ Known(k) \in Int /\ Known(k) >= 1 /\ owed[k] \in Int /\ owed[k] >= 0
                 /\ k[1] \in Zones /\ k[2] \in Zones
      BY <1>0, Numbers DEF IInv, FailoversHappened
    <3>1. ASSUME NEW k \in Pairs, NEW b \in Agents, ZoneOf[b] = k[2]
          PROVE  Backed(k, counter[b][k[1]])'
      <4>1. counter[b][k[1]] <= Known(k) + owed[k]
        BY <3>1 DEF IInv, CountersBacked, Backed
      <4>2. counter[b][k[1]] \in Int
        BY <1>4, <3>0
      <4>3. CASE b = a /\ k[1] = z
        <5>1. k = p
          BY <3>1, <4>3 DEF Pairs
        <5>2. counter'[b][k[1]] = n /\ n <= Known(k) + owed[k] + 1
          BY <2>5, <3>0, <4>1, <4>2, <4>3
        <5> QED
          BY <1>2, <2>7, <3>0, <5>1, <5>2 DEF Backed
      <4>4. CASE ~(b = a /\ k[1] = z)
        <5>1. counter'[b][k[1]] = counter[b][k[1]] /\ owed'[k] \in {owed[k], owed[k] + 1}
          BY <2>5, <2>7, <3>0, <4>4
        <5> QED
          BY <1>2, <3>0, <4>1, <4>2, <5>1 DEF Backed
      <4> QED
        BY <4>3, <4>4
    <3>2. ASSUME NEW k \in Pairs, NEW c \in Callers, At(c, "record"), ZoneOf[call[c].of] = k[2]
          PROVE  Backed(k, call[c].read[k[1]])'
      <4>1. call[c].read[k[1]] <= Known(k) + owed[k]
        BY <3>2 DEF IInv, CountersBacked, Backed
      <4>2. call[c].read[k[1]] \in Int
        BY <1>0, <3>0, Numbers
      <4>3. owed'[k] \in {owed[k], owed[k] + 1}
        BY <2>7
      <4> QED
        BY <1>1, <1>2, <3>0, <4>1, <4>2, <4>3 DEF Backed
    <3> QED
      BY <1>1, <3>1, <3>2 DEF CountersBacked, At
  <2> QED
    BY <2>4, <2>6, <2>8, <2>9
<1> QED
  BY <1>5, <1>6, <1>7, <1>8 DEF AgentSteps

-----------------------------------------------------------------------------
(* The collector's part of the invariant.                                  *)

CoreInv ==
    /\ AgentsTyped /\ MemoryTyped /\ CallTyped /\ LeftTyped
    /\ CountersBounded /\ RecordsSound /\ FailoversHappened /\ CountersBacked

(* IInv, as the collector's part and the server's.                         *)
LEMMA IInvParts == IInv <=> CoreInv /\ HubTyped /\ HandlersSound /\ GoneForgotten
  BY Parts DEF IInv, CoreInv

(* A step that takes part in one Collect, or in none, and records nothing. *)
LEMMA CoreKept ==
    ASSUME CoreInv, UNCHANGED <<agentVars, state, counters, covered, owed>>,
           seen' \subseteq seen, UNCHANGED left \/ Spend,
           UNCHANGED call \/ \E c \in Callers : CallStep(c)
    PROVE  CoreInv'
<1>0. /\ AgentsTyped /\ MemoryTyped /\ CallTyped /\ LeftTyped
      /\ CountersBounded /\ RecordsSound /\ FailoversHappened /\ CountersBacked
  BY DEF CoreInv
<1>1. AgentsTyped' /\ MemoryTyped' /\ FailoversHappened'
  BY <1>0 DEF AgentsTyped, MemoryTyped, FailoversHappened, agentVars
<1>2. LeftTyped' /\ left' <= left /\ left' \in Int /\ left \in Int
  BY <1>0, SpendType
<1>3. CountersBounded'
  <2>1. \A a \in Agents, z \in Zones : counter[a][z] \in Int
    BY <1>0, Numbers
  <2> QED
    BY <1>0, <1>2, <2>1, CollectorAssumption DEF CountersBounded, agentVars
<1>4. CallTyped' /\ RecordsSound'
      /\ \A d \in Callers : At(d, "record")' => UNCHANGED call[d] \/ Answer(call'[d])
  <2>1. CASE UNCHANGED call
    BY <1>0, <2>1 DEF CallTyped, RecordsSound, At
  <2>2. CASE \E c \in Callers : CallStep(c)
    BY <1>0, <2>2, CallsKept
  <2> QED
    BY <2>1, <2>2
<1>5. CountersBacked'
  BY <1>0, <1>4, BackedKept DEF agentVars
<1> QED
  BY <1>1, <1>2, <1>3, <1>4, <1>5 DEF CoreInv

(* Any step of Collect.                                                    *)
LEMMA CollectKeepsCore ==
    ASSUME IInv, NEW c \in Callers, Collect(c) \/ ScrapeFails(c)
    PROVE  CoreInv'
<1>0. CoreInv /\ AgentsTyped /\ CallTyped /\ LeftTyped /\ CountersBounded /\ RecordsSound
  BY IInvParts DEF CoreInv
<1>1. CallStep(c)
  BY <1>0, CollectStep
<1>2. CASE Record(c)
  <2>1. UNCHANGED <<agentVars, left>>
    BY <1>2 DEF Record
  <2>2. AgentsTyped' /\ LeftTyped' /\ CountersBounded'
    BY <1>0, <2>1 DEF AgentsTyped, LeftTyped, CountersBounded, agentVars
  <2>3. CallTyped' /\ RecordsSound'
    BY <1>0, <1>1, CallsKept
  <2> QED
    BY <1>2, <2>2, <2>3, RecordStep DEF CoreInv
<1>3. CASE List(c) \/ Scrape(c) \/ Skip(c) \/ Lost(c) \/ ScrapeFails(c)
  <2>1. /\ UNCHANGED <<agentVars, state, counters, covered, owed>>
        /\ seen' \subseteq seen /\ (UNCHANGED left \/ Spend)
    BY <1>3 DEF List, Scrape, Skip, Lost, ScrapeFails, memory
  <2> QED
    BY <1>0, <1>1, <2>1, CoreKept
<1> QED
  BY <1>2, <1>3 DEF Collect

-----------------------------------------------------------------------------
(* The server's part.                                                      *)

HubInv == HubTyped /\ HandlersSound /\ GoneForgotten

(* A step of a Collect that is under way is none of the hub's.             *)
LEMMA HubAside ==
    ASSUME IInv, UNCHANGED hubVars,
           UNCHANGED call \/ \E c \in Callers : CallStep(c) /\ ~At(c, "idle")
    PROVE  HubInv'
<1>0. AgentsTyped /\ CallTyped /\ RecordsSound /\ HubTyped /\ HandlersSound /\ GoneForgotten
  BY Parts DEF IInv
<1>1. HubTyped' /\ GoneForgotten'
  BY <1>0 DEF HubTyped, GoneForgotten, hubVars
<1>2. \A b \in Browsers : ~At(b, "idle")' => ~At(b, "idle")
  <2>1. CASE UNCHANGED call
    BY <2>1 DEF At
  <2>2. ASSUME NEW c \in Callers, CallStep(c), ~At(c, "idle")
        PROVE  \A b \in Browsers : ~At(b, "idle")' => ~At(b, "idle")
    <3>1. \A d \in Callers : d # c => call'[d] = call[d]
      BY <1>0, <2>2, CallsKept
    <3> QED
      BY <2>2, <3>1, DashboardAssumption DEF At
  <2> QED
    BY <2>1, <2>2
<1>3. HandlersSound'
  BY <1>0, <1>2 DEF HandlersSound, hubVars
<1> QED
  BY <1>1, <1>3 DEF HubInv

ServerSteps ==
    \/ Tick \/ Broadcast
    \/ \E c \in Callers : ListFails(c)
    \/ \E b \in Browsers :
          \/ Write(b) \/ Register(b) \/ WriteFirst(b) \/ Unregister(b)
          \/ Opens(b) \/ Stalls(b) \/ Reads(b) \/ Closes(b)

(* What the steps of the server and of the browsers do to the collector.   *)
LEMMA ServerCalls ==
    ASSUME CallTyped, ServerSteps
    PROVE  /\ UNCHANGED <<agentVars, memory, owed>>
           /\ UNCHANGED left \/ Spend
           /\ UNCHANGED call \/ \E d \in Callers : CallStep(d)
<1>0. "loop" \in Callers /\ Browsers \subseteq Callers
  BY DashboardAssumption
<1>1. CASE \/ Tick \/ Broadcast \/ \E c \in Callers : ListFails(c)
           \/ \E b \in Browsers : Register(b) \/ WriteFirst(b)
  <2>1. \E d \in Callers : Start(d) \/ Returned(d)
    BY <1>0, <1>1 DEF Tick, Broadcast, Register, WriteFirst, ListFails
  <2>2. \E d \in Callers : CallStep(d)
    BY <2>1, StartReturnStep
  <2>3. UNCHANGED <<agentVars, memory, owed>> /\ (UNCHANGED left \/ Spend)
    BY <1>1 DEF Tick, Broadcast, Register, WriteFirst, ListFails
  <2> QED
    BY <2>2, <2>3
<1>2. CASE \E b \in Browsers : \/ Write(b) \/ Unregister(b)
                               \/ Opens(b) \/ Stalls(b) \/ Reads(b) \/ Closes(b)
  BY <1>2 DEF Write, Unregister, Opens, Stalls, Reads, Closes, collectorVars
<1> QED
  BY <1>1, <1>2 DEF ServerSteps

(* A browser's Collect begins and ends with the first part of its handler. *)
LEMMA ServerStep ==
    ASSUME IInv, ServerSteps
    PROVE  HubInv'
<1>0. /\ CallTyped /\ HubTyped /\ HandlersSound /\ GoneForgotten
      /\ "loop" \in Callers /\ "loop" \notin Browsers /\ Browsers \subseteq Callers
      /\ call \in [Callers -> Calls]
  BY Parts, DashboardAssumption DEF IInv, CallTyped
<1>a. ASSUME NEW d \in Callers, Start(d) \/ Returned(d)
      PROVE  \A e \in Callers : e # d => call'[e] = call[e]
  BY <1>0, <1>a DEF Start, Returned
<1>b. ASSUME NEW d \in Callers, Returned(d) PROVE call'[d].pc = "idle"
  BY <1>0, <1>b, Idles DEF Returned
<1>1. CASE Tick \/ Broadcast
  <2>1. /\ UNCHANGED <<clients, link, handler, shown>>
        /\ sending' \in {sending, clients} /\ (Start("loop") \/ Returned("loop"))
        /\ payload' \in {payload, NoView, call["loop"].snap}
    BY <1>1 DEF Tick, Broadcast, hubVars
  <2>2. call["loop"].snap \in Views
    BY <1>0 DEF Calls
  <2>3. HubTyped' /\ GoneForgotten'
    BY <1>0, <2>1, <2>2, Idles DEF HubTyped, GoneForgotten
  <2>4. HandlersSound'
    BY <1>0, <1>a, <2>1 DEF HandlersSound, At
  <2> QED
    BY <2>3, <2>4 DEF HubInv
<1>2. ASSUME NEW b \in Browsers, Write(b) PROVE HubInv'
  <2>1. /\ UNCHANGED <<call, link, handler>>
        /\ clients' \subseteq clients /\ sending' \subseteq sending
        /\ payload' \in {payload, NoView} /\ shown' \in {shown, [shown EXCEPT ![b] = payload]}
    BY <1>2 DEF Write, collectorVars
  <2>2. HubTyped' /\ GoneForgotten'
    BY <1>0, <2>1, Idles DEF HubTyped, GoneForgotten
  <2>3. HandlersSound'
    BY <1>0, <2>1 DEF HandlersSound, At
  <2> QED
    BY <2>2, <2>3 DEF HubInv
<1>3. ASSUME NEW b \in Browsers, Register(b) PROVE HubInv'
  <2>1. /\ UNCHANGED <<link, shown, payload, sending>> /\ clients' = clients \cup {b}
        /\ handler' = [handler EXCEPT ![b] = "collecting"] /\ handler[b] = "accepted"
        /\ Start(b)
    BY <1>3 DEF Register
  <2>2. HubTyped'
    BY <1>0, <2>1 DEF HubTyped
  <2>3. \A d \in Browsers : handler'[d] = IF d = b THEN "collecting" ELSE handler[d]
    BY <1>0, <2>1 DEF HubTyped
  <2>4. GoneForgotten'
    BY <1>0, <2>1, <2>3 DEF GoneForgotten
  <2>5. HandlersSound'
    BY <1>0, <1>a, <2>1, <2>3 DEF HandlersSound, At
  <2> QED
    BY <2>2, <2>4, <2>5 DEF HubInv
<1>4. ASSUME NEW b \in Browsers, WriteFirst(b) PROVE HubInv'
  <2>1. /\ UNCHANGED <<clients, link, payload, sending>>
        /\ shown' \in {shown, [shown EXCEPT ![b] = call[b].snap]}
        /\ handler' = [handler EXCEPT ![b] = "reading"] /\ handler[b] = "collecting"
        /\ Returned(b)
    BY <1>4 DEF WriteFirst
  <2>2. call[b].snap \in Views
    BY <1>0 DEF Calls
  <2>3. HubTyped'
    BY <1>0, <2>1, <2>2 DEF HubTyped
  <2>4. \A d \in Browsers : handler'[d] = IF d = b THEN "reading" ELSE handler[d]
    BY <1>0, <2>1 DEF HubTyped
  <2>5. GoneForgotten'
    BY <1>0, <2>1, <2>4 DEF GoneForgotten
  <2>6. HandlersSound'
    BY <1>0, <1>a, <1>b, <2>1, <2>4 DEF HandlersSound, At
  <2> QED
    BY <2>3, <2>5, <2>6 DEF HubInv
<1>5. ASSUME NEW b \in Browsers, Unregister(b) PROVE HubInv'
  <2>1. /\ UNCHANGED <<call, link, shown, payload, sending>> /\ clients' = clients \ {b}
        /\ handler' = [handler EXCEPT ![b] = "returned"] /\ handler[b] = "reading"
        /\ link[b] = "gone"
    BY <1>5 DEF Unregister, collectorVars
  <2>2. HubTyped'
    BY <1>0, <2>1 DEF HubTyped
  <2>3. \A d \in Browsers : handler'[d] = IF d = b THEN "returned" ELSE handler[d]
    BY <1>0, <2>1 DEF HubTyped
  <2>4. GoneForgotten' /\ HandlersSound'
    BY <1>0, <2>1, <2>3 DEF GoneForgotten, HandlersSound, At
  <2> QED
    BY <2>2, <2>4 DEF HubInv
<1>6. ASSUME NEW c \in Callers, ListFails(c) PROVE HubInv'
  <2>1. /\ UNCHANGED <<clients, link, shown, payload, sending>>
        /\ handler' = [d \in Browsers |-> IF d = c THEN "reading" ELSE handler[d]]
        /\ At(c, "list") /\ Returned(c)
    BY <1>6 DEF ListFails
  <2>2. HubTyped'
    BY <1>0, <2>1 DEF HubTyped
  <2>3. \A d \in Browsers : handler'[d] = IF d = c THEN "reading" ELSE handler[d]
    BY <2>1
  <2>4. c \in Browsers => handler[c] = "collecting"
    BY <1>0, <2>1 DEF HandlersSound, At
  <2>5. GoneForgotten'
    BY <1>0, <2>1, <2>3 DEF GoneForgotten
  <2>6. HandlersSound'
    BY <1>0, <1>a, <1>b, <2>1, <2>3, <2>4 DEF HandlersSound, At
  <2> QED
    BY <2>2, <2>5, <2>6 DEF HubInv
<1>7. ASSUME NEW b \in Browsers, Opens(b) PROVE HubInv'
  <2>1. /\ UNCHANGED <<call, clients, shown, payload, sending>> /\ link[b] = "none"
        /\ link' = [link EXCEPT ![b] = "open"]
        /\ handler' = [handler EXCEPT ![b] = "accepted"]
    BY <1>7 DEF Opens, collectorVars
  <2>2. HubTyped'
    BY <1>0, <2>1 DEF HubTyped
  <2>3. \A d \in Browsers : /\ handler'[d] = IF d = b THEN "accepted" ELSE handler[d]
                            /\ link'[d] = IF d = b THEN "open" ELSE link[d]
    BY <1>0, <2>1 DEF HubTyped
  <2>4. GoneForgotten' /\ HandlersSound'
    BY <1>0, <2>1, <2>3 DEF GoneForgotten, HandlersSound, At
  <2> QED
    BY <2>2, <2>4 DEF HubInv
<1>8. ASSUME NEW b \in Browsers, Stalls(b) \/ Reads(b) \/ Closes(b) PROVE HubInv'
  <2>1. /\ UNCHANGED <<call, clients, handler, payload, sending>> /\ link[b] # "none"
        /\ \E x \in {"open", "stalled", "gone"} : link' = [link EXCEPT ![b] = x]
        /\ shown' \in {shown, [shown EXCEPT ![b] = NoView]}
    BY <1>8 DEF Stalls, Reads, Closes, collectorVars
  <2>2. HubTyped'
    BY <1>0, <2>1, Idles DEF HubTyped
  <2>3. \A d \in Browsers : link'[d] = "none" => link[d] = "none"
    BY <1>0, <2>1 DEF HubTyped
  <2>4. GoneForgotten' /\ HandlersSound'
    BY <1>0, <2>1, <2>3 DEF GoneForgotten, HandlersSound, At
  <2> QED
    BY <2>2, <2>4 DEF HubInv
<1> QED
  BY <1>1, <1>2, <1>3, <1>4, <1>5, <1>6, <1>7, <1>8 DEF ServerSteps

-----------------------------------------------------------------------------
(* The theorems.                                                           *)

(* Nothing is under way at first.                                          *)
LEMMA Initially == Init => IInv
<1> SUFFICES ASSUME Init PROVE IInv
  OBVIOUS
<1> USE CollectorAssumption DEF Init, CollectorInit, AtStart
<1>1. AgentsTyped
  <2>1. \A z \in Zones, a \in Agents : AtStart(a, z) \in Counts
    BY DEF Counts
  <2> QED
    BY <2>1 DEF AgentsTyped
<1>2. MemoryTyped /\ LeftTyped
  <2>1. 0 \in Counts
    BY DEF Counts
  <2> QED
    BY <2>1 DEF MemoryTyped, LeftTyped, Says
<1>3. CallTyped /\ HubTyped
  BY Idles DEF CallTyped, HubTyped
<1>4. CountersBounded
  <2>1. \A z \in Zones, a \in Agents : counter[a][z] \in {0, 1, 2}
    OBVIOUS
  <2> QED
    BY <2>1 DEF CountersBounded
<1>5. RecordsSound /\ HandlersSound
  BY Idles, DashboardAssumption DEF RecordsSound, HandlersSound, At
<1>6. FailoversHappened /\ GoneForgotten
  BY DEF FailoversHappened, GoneForgotten
<1>7. CountersBacked
  <2>1. \A c \in Callers : ~At(c, "record")
    BY Idles DEF At
  <2>2. ASSUME NEW k \in Pairs, NEW a \in Agents, ZoneOf[a] = k[2]
        PROVE  Backed(k, counter[a][k[1]])
    <3>1. k[1] \in Zones /\ k = <<k[1], ZoneOf[a]>>
      BY <2>2 DEF Pairs
    <3>2. /\ counters[k] = 0 /\ owed[k] = IF k \in Past THEN 1 ELSE 0
          /\ counter[a][k[1]] = AtStart(a, k[1])
      BY <3>1
    <3> QED
      BY <3>1, <3>2 DEF Backed, Known
  <2> QED
    BY <2>1, <2>2 DEF CountersBacked
<1> QED
  BY <1>1, <1>2, <1>3, <1>4, <1>5, <1>6, <1>7, Parts DEF IInv

(* The induction step.                                                     *)
LEMMA Step == IInv /\ [Next]_vars => IInv'
<1> SUFFICES ASSUME IInv, [Next]_vars PROVE CoreInv' /\ HubInv'
  BY DEF HubInv, IInv, CoreInv, TypeOK, CollectorTypeOK, AgentsTyped, MemoryTyped,
         CallTyped, LeftTyped, HubTyped
<1>0. CoreInv /\ AgentsTyped /\ CallTyped
  BY IInvParts DEF CoreInv
<1>1. ASSUME NEW c \in Callers, CollectFor(c) \/ (ScrapeFails(c) /\ UNCHANGED hubVars)
      PROVE  CoreInv' /\ HubInv'
  <2>1. (Collect(c) \/ ScrapeFails(c)) /\ UNCHANGED hubVars
    BY <1>1 DEF CollectFor
  <2> QED
    BY <1>0, <2>1, CollectStep, CollectKeepsCore, HubAside
<1>2. ASSUME ServerSteps PROVE CoreInv' /\ HubInv'
  <2>1. HubInv'
    BY <1>2, ServerStep
  <2>2. /\ UNCHANGED <<agentVars, memory, owed>> /\ (UNCHANGED left \/ Spend)
        /\ UNCHANGED call \/ \E d \in Callers : CallStep(d)
    BY <1>0, <1>2, ServerCalls
  <2> QED
    BY <1>0, <2>1, <2>2, CoreKept DEF memory
<1>3. ASSUME AgentSteps, UNCHANGED hubVars PROVE CoreInv' /\ HubInv'
  <2>1. UNCHANGED call
    BY <1>3 DEF AgentSteps, AgentStops, AgentStarts, PeerConnected, Takeover, TablesChange
  <2>2. CallTyped' /\ RecordsSound'
    BY <2>1 DEF IInv, TypeOK, CollectorTypeOK, CallTyped, RecordsSound, At
  <2> QED
    BY <1>3, <2>1, <2>2, AgentStep, HubAside DEF CoreInv
<1>4. CASE UNCHANGED vars
  BY <1>0, <1>4, CoreKept, HubAside DEF vars, collectorVars, memory
<1> QED
  BY <1>1, <1>2, <1>3, <1>4, DashboardAssumption DEF Next, Loop, Handler, ServerSteps

(* Every reachable state satisfies the invariant.                          *)
LEMMA Inductive == Spec => []IInv
  BY Initially, Step, PTL DEF Spec

(* The collector's and the server's state is what the code keeps: counters *)
(* stay within the takeovers that the events allow.                        *)
THEOREM TypeCorrect == Spec => []TypeOK
<1>1. IInv => TypeOK
  BY DEF IInv
<1> QED
  BY <1>1, Inductive, PTL

(* No failover is reported that did not happen, for any number of callers  *)
(* of Collect and of agents in a zone (collector.go:367-392).              *)
THEOREM NoFalseFailover == Spec => []FailoversHappened
<1>1. IInv => FailoversHappened
  BY DEF IInv
<1> QED
  BY <1>1, Inductive, PTL

(* What has been scraped and is not recorded yet is backed by takeovers    *)
(* that no event has reported (collector.go:203-214, 381-391).             *)
THEOREM ScrapesBacked == Spec => []CountersBacked
<1>1. IInv => CountersBacked
  BY DEF IInv
<1> QED
  BY <1>1, Inductive, PTL

(* The hub forgets every browser whose handler has returned                *)
(* (hub.go:31-57; server.go:193-214).                                      *)
THEOREM HubForgets == Spec => []GoneForgotten
<1>1. IInv => GoneForgotten
  BY DEF IInv
<1> QED
  BY <1>1, Inductive, PTL
=============================================================================
