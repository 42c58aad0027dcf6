--------------------------- MODULE PeerHeartbeat ---------------------------
(***************************************************************************)
(* internal/peer: each agent watches the agents of the other zones over a  *)
(* TCP connection of its own and decides when to attempt a takeover.  A    *)
(* link <<a, b>> is a's client that watches b; the connection has b's      *)
(* server at its other end, and b watches a over another connection.       *)
(*                                                                         *)
(* A probe is one dial or one ping with its read deadline.  Messages are 9 *)
(* bytes written at once, so that a decoding error does not arise.         *)
(* The bounds Max... say how often the world misbehaves in one behaviour.  *)
(***************************************************************************)
EXTENDS Naturals, Sequences

CONSTANTS Agents,
          ProbeFailures, \* consecutive failures before a report
          MaxCrashes,    \* bound: processes that die without a word
          MaxHangs,      \* bound: processes that stop responding, but live
          MaxStops,      \* bound: graceful exits
          MaxLate        \* bound: probes of a healthy peer that time out

ASSUME PeerAssumption ==
    /\ ProbeFailures \in Nat \ {0}
    /\ {MaxCrashes, MaxHangs, MaxStops, MaxLate} \subseteq Nat

VARIABLES status,  \* life of each agent's process
          client,  \* what the client of each link is doing
          conn,    \* its connection, as the two ends see it
          heard,   \* the callback that ended it: OnFailure or OnStepDown
          silent,  \* probes since the last answer, capped at ProbeFailures
          left     \* what remains of each bound

vars == <<status, client, conn, heard, silent, left>>

Links == {l \in Agents \X Agents : l[1] # l[2]}
Watcher(l) == l[1]
Watched(l) == l[2]

Pcs == {"off", "dial", "tick", "read"}
Bounds == [crashes |-> MaxCrashes, hangs |-> MaxHangs, stops |-> MaxStops,
           late |-> MaxLate]

Off == [pc |-> "off", failures |-> 0, misses |-> 0]
NoConn == [open |-> FALSE, sent |-> <<>>, answers |-> <<>>]

Alive(a) == status[a] \in {"up", "stopping"}
Connected(l) == client[l].pc \in {"tick", "read"}

Clients == [pc : Pcs, failures : 0..ProbeFailures - 1, misses : 0..ProbeFailures - 1]
Conns == [open : BOOLEAN, sent : Seq({"ping", "stepdown"}),
          answers : Seq({"pong", "stepdown"})]

TypeOK ==
    /\ status \in [Agents -> {"up", "hung", "stopping", "down"}]
    /\ client \in [Links -> Clients]
    /\ conn \in [Links -> Conns]
    /\ heard \in [Links -> {"nothing", "failure", "stepdown"}]
    /\ silent \in [Links -> 0..ProbeFailures]
    /\ left \in [crashes : 0..MaxCrashes, hangs : 0..MaxHangs,
                 stops : 0..MaxStops, late : 0..MaxLate]
    /\ \A l \in Links : status[Watcher(l)] = "down" => client[l] = Off
    /\ \A l \in Links : ~Connected(l) => conn[l] = NoConn

Init ==
    /\ status = [a \in Agents |-> "up"]
    /\ client = [l \in Links |-> Off]
    /\ conn = [l \in Links |-> NoConn]
    /\ heard = [l \in Links |-> "nothing"]
    /\ silent = [l \in Links |-> 0]
    /\ left = Bounds

-----------------------------------------------------------------------------
Spend(kind) == left[kind] > 0 /\ left' = [left EXCEPT ![kind] = @ - 1]

Does(l, pc) == Alive(Watcher(l)) /\ client[l].pc = pc
Client(l, c) == client' = [client EXCEPT ![l] = c]
Wire(l, c) == conn' = [conn EXCEPT ![l] = c]
Hears(l, what) == heard' = [heard EXCEPT ![l] = what]
Unanswered(l) ==
    silent' = [silent EXCEPT ![l] = IF @ < ProbeFailures THEN @ + 1 ELSE @]

(* A dial failed or a connection was lost: failures is Connect's counter.  *)
(* A client that reports is gone, until the next discovery.                *)
RetryOrReport_Early(l, failures) ==
    IF failures + 1 >= ProbeFailures
      THEN Client(l, Off) /\ Hears(l, "failure")
      ELSE /\ Client(l, [Off EXCEPT !.pc = "dial", !.failures = failures])
           /\ UNCHANGED heard

RetryOrReport_Afresh(l, failures) ==
    IF failures >= ProbeFailures
      THEN Client(l, Off) /\ Hears(l, "failure")
      ELSE Client(l, [Off EXCEPT !.pc = "dial"]) /\ UNCHANGED heard

RetryOrReport(l, failures) ==
    IF failures >= ProbeFailures
      THEN Client(l, Off) /\ Hears(l, "failure")
      ELSE /\ Client(l, [Off EXCEPT !.pc = "dial", !.failures = failures])
           /\ UNCHANGED heard

-----------------------------------------------------------------------------
(* The client: discovery, Connect and runHeartbeat.                        *)

Discover_Once(l) ==
    /\ Does(l, "off") /\ heard[l] = "nothing"
    /\ Client(l, [Off EXCEPT !.pc = "dial"])
    /\ silent' = [silent EXCEPT ![l] = 0]
    /\ UNCHANGED <<status, conn, heard, left>>

(* The pod is listed, and its zone has no client.                          *)
Discover(l) ==
    /\ Does(l, "off")
    /\ Client(l, [Off EXCEPT !.pc = "dial"])
    /\ Hears(l, "nothing")
    /\ silent' = [silent EXCEPT ![l] = 0]
    /\ UNCHANGED <<status, conn, left>>

(* The kernel accepts on behalf of a process that hangs.                   *)
Connect(l) ==
    /\ Does(l, "dial") /\ status[Watched(l)] # "down"
    /\ Client(l, [Off EXCEPT !.pc = "tick"])
    /\ Wire(l, [NoConn EXCEPT !.open = TRUE])
    /\ UNCHANGED <<status, heard, silent, left>>

DialFails(l) ==
    /\ Does(l, "dial")
    /\ \/ status[Watched(l)] = "down" /\ UNCHANGED left
       \/ status[Watched(l)] # "down" /\ Spend("late")
    /\ Unanswered(l)
    /\ RetryOrReport(l, client[l].failures + 1)
    /\ UNCHANGED <<status, conn>>

Ping(l) ==
    /\ Does(l, "tick") /\ conn[l].open
    /\ Wire(l, [conn[l] EXCEPT !.sent = Append(@, "ping")])
    /\ Client(l, [client[l] EXCEPT !.pc = "read"])
    /\ UNCHANGED <<status, heard, silent, left>>

Answered_KeepsMisses(l) ==
    /\ Does(l, "read") /\ conn[l].answers # <<>>
    /\ Client(l, [client[l] EXCEPT !.pc = "tick"])
    /\ Wire(l, [conn[l] EXCEPT !.answers = Tail(@)])
    /\ silent' = [silent EXCEPT ![l] = 0]
    /\ UNCHANGED <<status, heard, left>>

(* What the read finds: the oldest answer, be it to an earlier ping.       *)
Answered(l) ==
    /\ Does(l, "read") /\ conn[l].answers # <<>>
    /\ silent' = [silent EXCEPT ![l] = 0]
    /\ IF Head(conn[l].answers) = "stepdown"
         THEN Client(l, Off) /\ Hears(l, "stepdown") /\ Wire(l, NoConn)
         ELSE /\ Client(l, [Off EXCEPT !.pc = "tick"])
              /\ Wire(l, [conn[l] EXCEPT !.answers = Tail(@)])
              /\ UNCHANGED heard
    /\ UNCHANGED <<status, left>>

(* No answer in time, or a broken connection: the write or the read fails. *)
Miss(l) ==
    /\ \/ Does(l, "tick") /\ ~conn[l].open /\ UNCHANGED left
       \/ Does(l, "read") /\ ~conn[l].open /\ UNCHANGED left
       \/ /\ Does(l, "read") /\ conn[l].open
          /\ IF ~Alive(Watched(l)) /\ conn[l].answers = <<>> THEN UNCHANGED left
                                                             ELSE Spend("late")
    /\ Unanswered(l)
    /\ IF client[l].misses + 1 >= ProbeFailures
         THEN Wire(l, NoConn) /\ RetryOrReport(l, client[l].failures + 1)
         ELSE /\ Client(l, [client[l] EXCEPT !.pc = "tick", !.misses = @ + 1])
              /\ UNCHANGED <<conn, heard>>
    /\ UNCHANGED status

-----------------------------------------------------------------------------
(* The server at the other end: handleConn.                                *)

Serve(l) ==
    /\ Alive(Watched(l)) /\ conn[l].open /\ conn[l].sent # <<>>
    /\ Wire(l, IF Head(conn[l].sent) = "ping"
                 THEN [conn[l] EXCEPT !.sent = Tail(@), !.answers = Append(@, "pong")]
                 ELSE [conn[l] EXCEPT !.open = FALSE, !.sent = <<>>])
    /\ UNCHANGED <<status, client, heard, silent, left>>

(* Five seconds without a ping: the watcher's process hangs.               *)
HandlerTimeout(l) ==
    /\ Alive(Watched(l)) /\ conn[l].open /\ conn[l].sent = <<>>
    /\ status[Watcher(l)] = "hung"
    /\ Wire(l, [conn[l] EXCEPT !.open = FALSE])
    /\ UNCHANGED <<status, client, heard, silent, left>>

-----------------------------------------------------------------------------
(* Life of a process.                                                      *)

(* Its clients are gone, and the connections to its server break.          *)
Gone(a) ==
    /\ status' = [status EXCEPT ![a] = "down"]
    /\ client' = [l \in Links |-> IF Watcher(l) = a THEN Off ELSE client[l]]
    /\ heard' = [l \in Links |-> IF Watcher(l) = a THEN "nothing" ELSE heard[l]]
    /\ silent' = [l \in Links |-> IF Watcher(l) = a THEN 0 ELSE silent[l]]
    /\ conn' = [l \in Links |-> IF Watcher(l) = a THEN NoConn
                                ELSE IF Watched(l) = a /\ Connected(l)
                                THEN [conn[l] EXCEPT !.open = FALSE, !.sent = <<>>]
                                ELSE conn[l]]

Crash(a) == status[a] # "down" /\ Spend("crashes") /\ Gone(a)

Start(a) ==
    /\ status[a] = "down"
    /\ status' = [status EXCEPT ![a] = "up"]
    /\ UNCHANGED <<client, conn, heard, silent, left>>

Hang(a) ==
    /\ status[a] = "up" /\ Spend("hangs")
    /\ status' = [status EXCEPT ![a] = "hung"]
    /\ UNCHANGED <<client, conn, heard, silent>>

Resume(a) ==
    /\ status[a] = "hung"
    /\ status' = [status EXCEPT ![a] = "up"]
    /\ UNCHANGED <<client, conn, heard, silent, left>>

(* Shutdown: SendStepDown writes on the connections of the agent's own     *)
(* clients, whose other end is the peer's server.                          *)
Stop(a) ==
    /\ status[a] = "up" /\ Spend("stops")
    /\ status' = [status EXCEPT ![a] = "stopping"]
    /\ conn' = [l \in Links |->
                   IF Watcher(l) = a /\ conn[l].open
                   THEN [conn[l] EXCEPT !.sent = Append(@, "stepdown")] ELSE conn[l]]
    /\ UNCHANGED <<client, heard, silent>>

Exit(a) == status[a] = "stopping" /\ Gone(a) /\ UNCHANGED left

-----------------------------------------------------------------------------
Probe(l) == Connect(l) \/ DialFails(l) \/ Ping(l) \/ Answered(l) \/ Miss(l)

Next ==
    \/ \E l \in Links : Discover(l) \/ Probe(l) \/ Serve(l) \/ HandlerTimeout(l)
    \/ \E a \in Agents : Crash(a) \/ Start(a) \/ Hang(a) \/ Resume(a) \/ Stop(a) \/ Exit(a)

Spec == Init /\ [][Next]_vars

(* Tickers and deadlines fire, the server answers, a stopping process      *)
(* exits; no timeout of a healthy peer, crash or resumption is owed.       *)
Fairness ==
    /\ \A l \in Links :
         /\ WF_vars(Discover(l)) /\ WF_vars(Probe(l) /\ UNCHANGED left)
         /\ WF_vars(Serve(l))
    /\ \A a \in Agents : WF_vars(Exit(a))

FairSpec == Spec /\ Fairness

-----------------------------------------------------------------------------
(* Properties.                                                             *)

(* Neither counter of a client exceeds the number of probes that went      *)
(* without an answer, and a client that is connected has no failed dial to *)
(* remember: every answer and every new connection resets what it must     *)
(* (client.go:61, 138).                                                    *)
Counted(c, n) ==
    /\ c.failures <= n /\ c.misses <= n
    /\ c.pc \in {"tick", "read"} => c.failures = 0
SilenceCounted == \A l \in Links : Counted(client[l], silent[l])

(* The inductive invariant.                                                *)
IInv == TypeOK /\ SilenceCounted

(* A takeover is attempted only after ProbeFailures probes in a row without*)
(* an answer: neither a single late pong, nor misses spread over several   *)
(* connections and dials, make a peer look dead (client.go:37).            *)
NoFalseAlarm ==
    [][\A l \in Links : heard[l] # "failure" /\ heard'[l] = "failure"
          => silent'[l] = ProbeFailures]_vars

(* A peer that dies for good is reported, whatever the client was doing,   *)
(* and again after each discovery for as long as its pod is listed         *)
(* (agent.go:455-457).  Failover.tla relies on it (Gone, suspect).         *)
DeadReported ==
    \A l \in Links :
       <>[](status[Watched(l)] = "down" /\ status[Watcher(l)] = "up")
          => []<>(heard[l] = "failure")

(* Two agents that are up to stay end up connected for good: false alarms, *)
(* hangs and restarts leave no link dead (startPeerWatcher).               *)
Reconnected ==
    \A l \in Links :
       <>[](status[Watched(l)] = "up" /\ status[Watcher(l)] = "up")
          => <>[](Connected(l) /\ conn[l].open)

(* A graceful exit is announced to the peers that are connected, before    *)
(* they notice it as a failure (README.md:97).                             *)
StepDownHeard ==
    \A l \in Links :
       (status[Watched(l)] = "stopping" /\ status[Watcher(l)] = "up" /\ conn[l].open)
          ~> (heard[l] = "stepdown" \/ status[Watcher(l)] # "up")

(* ProbeFailures missed pongs in a row lead to a report (client.go:37), or *)
(* else the peer answers again or hangs: the kernel accepts the next dial  *)
(* for a process that hangs, and that resets the count of failures.        *)
MissesReported ==
    \A l \in Links :
       silent[l] = ProbeFailures
          ~> \/ heard[l] = "failure" \/ silent[l] = 0
             \/ status[Watcher(l)] # "up" \/ status[Watched(l)] = "hung"
=============================================================================
