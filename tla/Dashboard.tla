------------------------------ MODULE Dashboard ------------------------------
(***************************************************************************)
(* The dashboard server: a loop that collects and broadcasts a snapshot to *)
(* the browsers the hub knows, and a handler per WebSocket, which registers*)
(* the browser, sends it a snapshot of its own and waits for its end.      *)
(*                                                                         *)
(* Broadcast writes to one browser after the other, without the hub's mutex*)
(* and without a deadline: a browser that does not read blocks it.         *)
(***************************************************************************)
EXTENDS Collector

CONSTANT Browsers

ASSUME DashboardAssumption == Callers = Browsers \cup {"loop"} /\ "loop" \notin Browsers

VARIABLES clients, \* the hub's clients
          link,    \* each WebSocket
          handler, \* where its handler is
          shown,   \* the snapshot each browser shows
          payload, \* the snapshot being broadcast
          sending  \* browsers Broadcast has not written to yet

hubVars == <<clients, link, handler, shown, payload, sending>>
vars == <<collectorVars, hubVars>>

TypeOK ==
    /\ CollectorTypeOK
    /\ clients \subseteq Browsers /\ sending \subseteq Browsers
    /\ link \in [Browsers -> {"none", "open", "stalled", "gone"}]
    /\ handler \in [Browsers -> {"none", "accepted", "collecting", "reading", "returned"}]
    /\ shown \in [Browsers -> Views] /\ payload \in Views

Init ==
    /\ CollectorInit
    /\ clients = {} /\ sending = {}
    /\ link = [b \in Browsers |-> "none"] /\ handler = [b \in Browsers |-> "none"]
    /\ shown = [b \in Browsers |-> NoView] /\ payload = NoView

Start(c) == call' = [call EXCEPT ![c].pc = "list"]
Returned(c) == call' = [call EXCEPT ![c] = NoCall]

-----------------------------------------------------------------------------
(* The loop.  Without agents to list there is still a snapshot.            *)

Tick ==
    /\ At("loop", "idle") /\ sending = {}
    /\ Start("loop")
    /\ UNCHANGED <<agentVars, memory, owed, left, hubVars>>

(* Broadcast works on a copy of the clients.                               *)
Broadcast ==
    /\ At("loop", "return")
    /\ payload' = IF clients = {} THEN NoView ELSE call["loop"].snap
    /\ sending' = clients
    /\ Returned("loop")
    /\ UNCHANGED <<agentVars, memory, owed, left, clients, link, handler, shown>>

(* A write goes through, waits for as long as the browser does not read, or*)
(* fails; then the browser is removed.                                     *)
Write(b) ==
    /\ b \in sending /\ link[b] # "stalled"
    /\ sending' = sending \ {b}
    /\ payload' = IF sending' = {} THEN NoView ELSE payload
    /\ IF link[b] = "open"
         THEN shown' = [shown EXCEPT ![b] = payload] /\ UNCHANGED clients
         ELSE clients' = clients \ {b} /\ UNCHANGED shown
    /\ UNCHANGED <<collectorVars, link, handler>>

CollectFor(c) == Collect(c) /\ UNCHANGED hubVars
Loop == Tick \/ CollectFor("loop") \/ Broadcast \/ \E b \in Browsers : Write(b)

-----------------------------------------------------------------------------
(* The handler of a browser.                                               *)

Register(b) ==
    /\ handler[b] = "accepted"
    /\ clients' = clients \cup {b}
    /\ handler' = [handler EXCEPT ![b] = "collecting"]
    /\ Start(b)
    /\ UNCHANGED <<agentVars, memory, owed, left, link, shown, payload, sending>>

(* The first snapshot may come after a broadcast that is newer; an error is*)
(* left to Read.                                                           *)
WriteFirst(b) ==
    /\ handler[b] = "collecting" /\ At(b, "return") /\ link[b] # "stalled"
    /\ shown' = IF link[b] = "open" THEN [shown EXCEPT ![b] = call[b].snap] ELSE shown
    /\ handler' = [handler EXCEPT ![b] = "reading"]
    /\ Returned(b)
    /\ UNCHANGED <<agentVars, memory, owed, left, clients, link, payload, sending>>

Unregister_Never(b) ==
    /\ handler[b] = "reading" /\ link[b] = "gone"
    /\ handler' = [handler EXCEPT ![b] = "returned"]
    /\ UNCHANGED <<collectorVars, clients, link, shown, payload, sending>>

Unregister(b) ==
    /\ handler[b] = "reading" /\ link[b] = "gone"
    /\ clients' = clients \ {b}
    /\ handler' = [handler EXCEPT ![b] = "returned"]
    /\ UNCHANGED <<collectorVars, link, shown, payload, sending>>

Handler(b) == Register(b) \/ CollectFor(b) \/ WriteFirst(b) \/ Unregister(b)

(* Without the list of pods there is no snapshot: the loop waits for its   *)
(* next tick, a handler for the end of its browser.                        *)
ListFails(c) ==
    /\ At(c, "list") /\ Spend
    /\ Returned(c)
    /\ handler' = [b \in Browsers |-> IF b = c THEN "reading" ELSE handler[b]]
    /\ UNCHANGED <<agentVars, memory, owed, clients, link, shown, payload, sending>>

-----------------------------------------------------------------------------
(* The browsers.                                                           *)

Opens(b) ==
    /\ link[b] = "none"
    /\ link' = [link EXCEPT ![b] = "open"]
    /\ handler' = [handler EXCEPT ![b] = "accepted"]
    /\ UNCHANGED <<collectorVars, clients, shown, payload, sending>>

Stalls(b) ==
    /\ link[b] = "open" /\ Spend
    /\ link' = [link EXCEPT ![b] = "stalled"]
    /\ UNCHANGED <<agentVars, memory, owed, call, clients, handler, shown, payload, sending>>

Reads(b) ==
    /\ link[b] = "stalled"
    /\ link' = [link EXCEPT ![b] = "open"]
    /\ UNCHANGED <<collectorVars, clients, handler, shown, payload, sending>>

Closes(b) ==
    /\ link[b] \in {"open", "stalled"}
    /\ link' = [link EXCEPT ![b] = "gone"] /\ shown' = [shown EXCEPT ![b] = NoView]
    /\ UNCHANGED <<collectorVars, clients, handler, payload, sending>>

Next ==
    \/ Loop
    \/ \E b \in Browsers : Handler(b) \/ Opens(b) \/ Stalls(b) \/ Reads(b) \/ Closes(b)
    \/ \E c \in Callers : ListFails(c) \/ (ScrapeFails(c) /\ UNCHANGED hubVars)
    \/ (AgentSteps /\ UNCHANGED hubVars)

Spec == Init /\ [][Next]_vars

(* The loop and the handlers go on.  Nothing makes a browser read or close.*)
FairSpec ==
    /\ Spec
    /\ WF_vars(Loop)
    /\ \A b \in Browsers : WF_vars(Handler(b))

-----------------------------------------------------------------------------
(* Properties.                                                             *)

(* No failover is reported that did not happen: not by two callers that saw*)
(* the same increase, not by a scrape recorded late, not by a counter that *)
(* started again (collector.go:367-392).                                   *)
FailoversHappened == \A k \in Pairs : owed[k] >= 0

(* A counter that has been scraped and is not recorded yet, or will be     *)
(* scraped, exceeds the one remembered by no more than the takeovers still *)
(* to be reported: whoever records it first, however late, each is reported*)
(* once at most, also while two agents share a zone                        *)
(* (collector.go:203-214, 381-391).                                        *)
Known(k) == IF counters[k] = 0 THEN 1 ELSE counters[k]
Backed(k, n) == n <= Known(k) + owed[k]
CountersBacked ==
    \A k \in Pairs :
       /\ \A a \in Agents : ZoneOf[a] = k[2] => Backed(k, counter[a][k[1]])
       /\ \A c \in Callers :
             At(c, "record") /\ ZoneOf[call[c].of] = k[2] => Backed(k, call[c].read[k[1]])

(* The events of agents that come and go settle on what is there, no       *)
(* counter stays above the one remembered, and every browser that reads    *)
(* ends up with the current state, whatever scrapes and snapshots overtook *)
(* each other, if no browser stalls for good; and the handlers of those    *)
(* that are gone end (collector.go:183-214; server.go:80-108, 188-214).    *)
(* Not every takeover is reported: a counter that restarted with its agent *)
(* is silent until it exceeds the value remembered (collector.go:388).     *)
Truth == [a \in Agents |-> IF a \in alive THEN SaysOf(a) ELSE "absent"]
Ahead(a, z) == LET k == <<z, ZoneOf[a]>> IN z # ZoneOf[a] /\ counters[k] < counter[a][z]
Settled ==
    /\ seen = {ZoneOf[a] : a \in alive}
    /\ \A a \in Agents, z \in Zones : ~Ahead(a, z)
    /\ \A b \in Browsers : link[b] = "open" => shown[b] = Truth
    /\ \A b \in Browsers : link[b] = "gone" => handler[b] = "returned"
NoneStalls == \A b \in Browsers : link[b] # "stalled"
DashboardSettles == <>[]NoneStalls => <>[]Settled

(* A browser whose handler has returned is not left in the hub, although a *)
(* broadcast may still be at it (hub.go:31-57; server.go:193-214).         *)
GoneForgotten == \A b \in Browsers : handler[b] = "returned" => b \notin clients

(* A browser that reads is sent the current state, whatever other browsers *)
(* do (hub.go:38).                                                         *)
SentToAll == \A b \in Browsers : <>[](link[b] = "open") => <>[](shown[b] = Truth)

(* A zone that owns its tables again is not taken to be covered            *)
(* (collector.go:42, 171-172).                                             *)
CoveredCleared ==
    [][\A z \in Zones : state[z] # "owns" /\ state'[z] = "owns" => z \notin covered']_vars
=============================================================================
