----------------------------- MODULE PeerProofs -----------------------------
(***************************************************************************)
(* Theorems about PeerHeartbeat, for any agents, any ProbeFailures and any *)
(* number of crashes, hangs, exits and late answers.                       *)
(***************************************************************************)
EXTENDS PeerHeartbeat, TLAPS

-----------------------------------------------------------------------------
(* What the states of a client and of a connection can be.                 *)

(* The states of a client that the actions build are well typed,           *)
LEMMA ClientTypes ==
    /\ Off \in Clients
    /\ [Off EXCEPT !.pc = "dial"] \in Clients
    /\ [Off EXCEPT !.pc = "tick"] \in Clients
    /\ \A n \in 0..ProbeFailures - 1 :
          [Off EXCEPT !.pc = "dial", !.failures = n] \in Clients
    /\ \A c \in Clients : [c EXCEPT !.pc = "read"] \in Clients
    /\ \A c \in Clients : \A n \in 0..ProbeFailures - 1 :
          [c EXCEPT !.pc = "tick", !.misses = n] \in Clients
<1> USE PeerAssumption
<1> DEFINE N == 0..ProbeFailures - 1
<1>1. Off \in Clients /\ Off = [pc |-> "off", failures |-> 0, misses |-> 0]
  BY DEF Off, Clients, Pcs
<1>2. Clients = [pc : Pcs, failures : N, misses : N] /\ {"dial", "tick", "read"} \subseteq Pcs
  BY DEF Clients, Pcs
<1> HIDE DEF N
<1>3. /\ [Off EXCEPT !.pc = "dial"] \in Clients
      /\ [Off EXCEPT !.pc = "tick"] \in Clients
  BY <1>1, <1>2
<1>4. \A n \in N : [Off EXCEPT !.pc = "dial", !.failures = n] \in Clients
  BY <1>1, <1>2
<1>5. \A c \in Clients : [c EXCEPT !.pc = "read"] \in Clients
  BY <1>2
<1>6. ASSUME NEW c \in Clients, NEW n \in N
      PROVE  [c EXCEPT !.pc = "tick", !.misses = n] \in Clients
  BY <1>2, <1>6
<1> QED
  BY <1>1, <1>3, <1>4, <1>5, <1>6 DEF N

(* and so are the connections.                                             *)
LEMMA ConnTypes ==
    /\ NoConn \in Conns
    /\ \A c \in Conns :
          /\ [c EXCEPT !.open = FALSE] \in Conns
          /\ [c EXCEPT !.open = FALSE, !.sent = <<>>] \in Conns
          /\ [c EXCEPT !.sent = Append(@, "ping")] \in Conns
          /\ [c EXCEPT !.sent = Append(@, "stepdown")] \in Conns
          /\ c.answers # <<>> => [c EXCEPT !.answers = Tail(@)] \in Conns
          /\ c.sent # <<>> =>
               /\ [c EXCEPT !.sent = Tail(@), !.answers = Append(@, "pong")] \in Conns
    /\ [NoConn EXCEPT !.open = TRUE] \in Conns
<1>1. NoConn \in Conns /\ [NoConn EXCEPT !.open = TRUE] \in Conns
  <2> DEFINE S == Seq({"ping", "stepdown"})
             A == Seq({"pong", "stepdown"})
  <2>1. <<>> \in S /\ <<>> \in A
    OBVIOUS
  <2>2. Conns = [open : BOOLEAN, sent : S, answers : A]
    BY DEF Conns
  <2> HIDE DEF S, A
  <2>3. NoConn \in Conns
    BY <2>1, <2>2 DEF NoConn
  <2> QED
    BY <2>2, <2>3
<1>2. ASSUME NEW c \in Conns
      PROVE  /\ [c EXCEPT !.open = FALSE] \in Conns
             /\ [c EXCEPT !.open = FALSE, !.sent = <<>>] \in Conns
             /\ [c EXCEPT !.sent = Append(@, "ping")] \in Conns
             /\ [c EXCEPT !.sent = Append(@, "stepdown")] \in Conns
             /\ c.answers # <<>> => [c EXCEPT !.answers = Tail(@)] \in Conns
             /\ c.sent # <<>> =>
                  [c EXCEPT !.sent = Tail(@), !.answers = Append(@, "pong")] \in Conns
  <2> DEFINE S == Seq({"ping", "stepdown"})
             A == Seq({"pong", "stepdown"})
  <2>1. /\ <<>> \in S
        /\ Append(c.sent, "ping") \in S /\ Append(c.sent, "stepdown") \in S
        /\ Append(c.answers, "pong") \in A
        /\ c.answers # <<>> => Tail(c.answers) \in A
        /\ c.sent # <<>> => Tail(c.sent) \in S
    BY DEF Conns
  <2>2. c \in [open : BOOLEAN, sent : S, answers : A] /\ Conns = [open : BOOLEAN, sent : S, answers : A]
    BY DEF Conns
  <2> HIDE DEF S, A
  <2> QED
    BY <2>1, <2>2
<1> QED
  BY <1>1, <1>2

-----------------------------------------------------------------------------
(* RetryOrReport after the n-th failure in a row, none of them answered.   *)

(* After n unanswered probes the client retries with n or reports, and     *)
(* reports only when n has reached ProbeFailures.                          *)
LEMMA RetryStep ==
    ASSUME IInv, NEW l \in Links, NEW n \in 1..ProbeFailures,
           NEW s \in 0..ProbeFailures, n <= s,
           silent' = [silent EXCEPT ![l] = s],
           RetryOrReport(l, n)
    PROVE  /\ client' \in [Links -> Clients]
           /\ heard' \in [Links -> {"nothing", "failure", "stepdown"}]
           /\ SilenceCounted'
           /\ \A k \in Links : heard[k] # "failure" /\ heard'[k] = "failure"
                                 => silent'[k] = ProbeFailures
           /\ \A k \in Links \ {l} : client'[k] = client[k]
           /\ client'[l].pc \in {"off", "dial"}
<1> USE PeerAssumption
<1>1. CASE n >= ProbeFailures
  <2>1. client' = [client EXCEPT ![l] = Off] /\ heard' = [heard EXCEPT ![l] = "failure"]
    BY <1>1 DEF RetryOrReport, Client, Hears
  <2>2. s = ProbeFailures
    BY <1>1
  <2>3. Counted(Off, s)
    BY DEF Counted, Off
  <2>4. Off.pc = "off"
    BY DEF Off
  <2> QED
    BY <2>1, <2>2, <2>3, <2>4, ClientTypes DEF IInv, TypeOK, SilenceCounted
<1>2. CASE n < ProbeFailures
  <2> DEFINE c == [Off EXCEPT !.pc = "dial", !.failures = n]
  <2>1. client' = [client EXCEPT ![l] = c] /\ heard' = heard
    BY <1>2 DEF RetryOrReport, Client
  <2>2. Counted(c, s) /\ c.pc = "dial"
    BY DEF Counted, Off
  <2>3. c \in Clients
    <3>1. n \in 0..ProbeFailures - 1
      BY <1>2
    <3> QED
      BY <3>1, ClientTypes, Zenon
  <2> HIDE DEF c
  <2> QED
    BY <2>1, <2>2, <2>3 DEF IInv, TypeOK, SilenceCounted
<1> QED
  BY <1>1, <1>2

(* Any other step of the client of one link.                               *)
LEMMA ClientStep ==
    ASSUME IInv, NEW l \in Links, NEW c \in Clients, NEW s \in 0..ProbeFailures,
           client' = [client EXCEPT ![l] = c],
           silent' = [silent EXCEPT ![l] = s],
           Counted(c, s)
    PROVE  client' \in [Links -> Clients] /\ SilenceCounted'
  BY DEF IInv, TypeOK, SilenceCounted

-----------------------------------------------------------------------------
(* Every step keeps the counters and the types, and reports a peer only    *)
(* after ProbeFailures probes without an answer.                           *)

Honest == \A k \in Links : heard[k] # "failure" /\ heard'[k] = "failure"
                              => silent'[k] = ProbeFailures

(* What TypeOK says of client, heard and silent.                           *)
ClientTyped ==
    /\ client \in [Links -> Clients]
    /\ heard \in [Links -> {"nothing", "failure", "stepdown"}]
    /\ silent \in [Links -> 0..ProbeFailures]

(* Every step keeps the counters backed by silence, and reports honestly.  *)
LEMMA CountStep ==
    IInv /\ [Next]_vars => ClientTyped' /\ SilenceCounted' /\ Honest
<1> SUFFICES ASSUME IInv, [Next]_vars
             PROVE  ClientTyped' /\ SilenceCounted' /\ Honest
  OBVIOUS
<1> USE PeerAssumption
<1>0. /\ client \in [Links -> Clients]
      /\ heard \in [Links -> {"nothing", "failure", "stepdown"}]
      /\ silent \in [Links -> 0..ProbeFailures]
      /\ 0 \in 0..ProbeFailures
      /\ \A k \in Links : Counted(client[k], silent[k])
  BY DEF IInv, TypeOK, SilenceCounted
<1>a. ASSUME NEW pc \in {"off", "dial", "tick"}, NEW s \in 0..ProbeFailures
      PROVE  [Off EXCEPT !.pc = pc] \in Clients /\ Counted([Off EXCEPT !.pc = pc], s)
  <2>1. [Off EXCEPT !.pc = pc] = [pc |-> pc, failures |-> 0, misses |-> 0]
    BY DEF Off
  <2> QED
    BY <2>1 DEF Counted, Clients, Pcs
<1>b. Off = [Off EXCEPT !.pc = "off"]
  BY DEF Off
<1>c. ASSUME UNCHANGED <<client, heard, silent>>
      PROVE  ClientTyped' /\ SilenceCounted' /\ Honest
  BY <1>0, <1>c DEF ClientTyped, SilenceCounted, Honest
<1>1. ASSUME NEW l \in Links, Discover(l)
      PROVE  ClientTyped' /\ SilenceCounted' /\ Honest
  <2>1. /\ client' = [client EXCEPT ![l] = [Off EXCEPT !.pc = "dial"]]
        /\ heard' = [heard EXCEPT ![l] = "nothing"]
        /\ silent' = [silent EXCEPT ![l] = 0]
    BY <1>1 DEF Discover, Client, Hears
  <2>2. client' \in [Links -> Clients] /\ SilenceCounted'
    BY <2>1, <1>a, <1>0, ClientStep
  <2> QED
    BY <2>1, <2>2, <1>0 DEF ClientTyped, Honest
<1>2. ASSUME NEW l \in Links, Connect(l)
      PROVE  ClientTyped' /\ SilenceCounted' /\ Honest
  <2>1. /\ client' = [client EXCEPT ![l] = [Off EXCEPT !.pc = "tick"]]
        /\ heard' = heard /\ silent' = silent
    BY <1>2 DEF Connect, Client
  <2>2. silent' = [silent EXCEPT ![l] = silent[l]] /\ silent[l] \in 0..ProbeFailures
    BY <2>1, <1>0
  <2>3. client' \in [Links -> Clients] /\ SilenceCounted'
    BY <2>1, <2>2, <1>a, ClientStep
  <2> QED
    BY <2>1, <2>3, <1>0 DEF ClientTyped, Honest
<1>d. ASSUME NEW l \in Links, Unanswered(l)
      PROVE  \E s \in 0..ProbeFailures :
                /\ silent' = [silent EXCEPT ![l] = s]
                /\ s >= silent[l] /\ (s < ProbeFailures => s = silent[l] + 1)
  <2> DEFINE s == IF silent[l] < ProbeFailures THEN silent[l] + 1 ELSE silent[l]
  <2>1. silent' = [silent EXCEPT ![l] = s]
    BY <1>d DEF Unanswered
  <2>2. s \in 0..ProbeFailures /\ s >= silent[l] /\ (s < ProbeFailures => s = silent[l] + 1)
    BY <1>0
  <2> HIDE DEF s
  <2> QED
    BY <2>1, <2>2
<1>e. ASSUME NEW l \in Links
      PROVE  /\ client[l].failures \in 0..ProbeFailures - 1
             /\ client[l].misses \in 0..ProbeFailures - 1
             /\ client[l].failures <= silent[l] /\ client[l].misses <= silent[l]
             /\ Connected(l) => client[l].failures = 0
             /\ silent[l] \in 0..ProbeFailures
  BY <1>0 DEF Clients, Counted, Connected
<1>3. ASSUME NEW l \in Links, DialFails(l)
      PROVE  ClientTyped' /\ SilenceCounted' /\ Honest
  <2> DEFINE n == client[l].failures + 1
  <2>1. PICK s \in 0..ProbeFailures :
                /\ silent' = [silent EXCEPT ![l] = s]
                /\ s >= silent[l] /\ (s < ProbeFailures => s = silent[l] + 1)
    BY <1>3, <1>d DEF DialFails
  <2>2. n \in 1..ProbeFailures /\ n <= s
    BY <2>1, <1>e
  <2>3. RetryOrReport(l, n)
    BY <1>3 DEF DialFails
  <2> HIDE DEF n
  <2> QED
    BY <2>1, <2>2, <2>3, <1>0, RetryStep DEF ClientTyped, Honest
<1>4. ASSUME NEW l \in Links, Ping(l)
      PROVE  ClientTyped' /\ SilenceCounted' /\ Honest
  <2> DEFINE c == [client[l] EXCEPT !.pc = "read"]
  <2>1. client' = [client EXCEPT ![l] = c] /\ heard' = heard /\ silent' = silent
    BY <1>4 DEF Ping, Client
  <2>2. c \in Clients
    BY <1>0, ClientTypes
  <2>3. c.failures = client[l].failures /\ c.misses = client[l].misses
    BY <1>0 DEF Clients
  <2>4. Counted(c, silent[l])
    BY <2>3, <1>e, <1>4 DEF Counted, Ping, Does, Connected
  <2>5. silent' = [silent EXCEPT ![l] = silent[l]]
    BY <2>1, <1>0
  <2> HIDE DEF c
  <2>6. client' \in [Links -> Clients] /\ SilenceCounted'
    BY <2>1, <2>2, <2>4, <2>5, <1>e, ClientStep
  <2> QED
    BY <2>1, <2>6, <1>0 DEF ClientTyped, Honest
<1>5. ASSUME NEW l \in Links, Answered(l)
      PROVE  ClientTyped' /\ SilenceCounted' /\ Honest
  <2>1. PICK pc \in {"off", "tick"} : client' = [client EXCEPT ![l] = [Off EXCEPT !.pc = pc]]
    BY <1>5, <1>b DEF Answered, Client
  <2>2. /\ silent' = [silent EXCEPT ![l] = 0]
        /\ heard' = heard \/ heard' = [heard EXCEPT ![l] = "stepdown"]
    BY <1>5 DEF Answered, Hears
  <2>3. client' \in [Links -> Clients] /\ SilenceCounted'
    BY <2>1, <2>2, <1>a, <1>0, ClientStep
  <2> QED
    BY <2>2, <2>3, <1>0 DEF ClientTyped, Honest
<1>6. ASSUME NEW l \in Links, Miss(l)
      PROVE  ClientTyped' /\ SilenceCounted' /\ Honest
  <2>1. PICK s \in 0..ProbeFailures :
                /\ silent' = [silent EXCEPT ![l] = s]
                /\ s >= silent[l] /\ (s < ProbeFailures => s = silent[l] + 1)
    BY <1>6, <1>d DEF Miss
  <2>2. client[l].failures = 0
    BY <1>6, <1>e DEF Miss, Does, Connected
  <2>3. CASE client[l].misses + 1 >= ProbeFailures
    <3>1. RetryOrReport(l, 1)
      BY <1>6, <2>2, <2>3 DEF Miss
    <3>2. 1 \in 1..ProbeFailures /\ 1 <= s
      BY <2>1, <2>3, <1>e
    <3> QED
      BY <2>1, <3>1, <3>2, <1>0, RetryStep DEF ClientTyped, Honest
  <2>4. CASE client[l].misses + 1 < ProbeFailures
    <3> DEFINE n == client[l].misses + 1
               c == [client[l] EXCEPT !.pc = "tick", !.misses = n]
    <3>1. client' = [client EXCEPT ![l] = c] /\ heard' = heard
      BY <1>6, <2>4, <1>e DEF Miss, Client
    <3>2. n \in 0..ProbeFailures - 1 /\ n <= s
      BY <2>1, <2>4, <1>e
    <3> HIDE DEF n
    <3>3. c \in Clients
      BY <3>2, <1>0, ClientTypes
    <3>4. c.failures = client[l].failures /\ c.misses = n
      BY <1>0 DEF Clients
    <3> HIDE DEF c
    <3>5. Counted(c, s)
      BY <3>2, <3>4, <2>2, <2>1 DEF Counted
    <3>6. client' \in [Links -> Clients] /\ SilenceCounted'
      BY <3>1, <3>3, <3>5, <2>1, ClientStep
    <3> QED
      BY <2>1, <3>1, <3>6, <1>0 DEF ClientTyped, Honest
  <2> QED
    BY <2>3, <2>4, <1>e
<1>f. ASSUME NEW a \in Agents, Gone(a)
      PROVE  ClientTyped' /\ SilenceCounted' /\ Honest
  <2>1. /\ client' = [l \in Links |-> IF Watcher(l) = a THEN Off ELSE client[l]]
        /\ heard' = [l \in Links |-> IF Watcher(l) = a THEN "nothing" ELSE heard[l]]
        /\ silent' = [l \in Links |-> IF Watcher(l) = a THEN 0 ELSE silent[l]]
    BY <1>f DEF Gone
  <2>2. Off \in Clients /\ Counted(Off, 0)
    BY <1>a, <1>b, <1>0
  <2>3. ClientTyped'
    BY <2>1, <2>2, <1>0 DEF ClientTyped
  <2>4. SilenceCounted'
    BY <2>1, <2>2, <1>0 DEF SilenceCounted
  <2>5. Honest
    BY <2>1, <1>0 DEF Honest
  <2> QED
    BY <2>3, <2>4, <2>5
<1>7. ASSUME NEW l \in Links, Serve(l) \/ HandlerTimeout(l)
      PROVE  ClientTyped' /\ SilenceCounted' /\ Honest
  BY <1>7, <1>c DEF Serve, HandlerTimeout
<1>8. ASSUME NEW a \in Agents, Crash(a) \/ Exit(a)
      PROVE  ClientTyped' /\ SilenceCounted' /\ Honest
  BY <1>8, <1>f DEF Crash, Exit
<1>9. ASSUME NEW a \in Agents, Start(a) \/ Hang(a) \/ Resume(a) \/ Stop(a)
      PROVE  ClientTyped' /\ SilenceCounted' /\ Honest
  BY <1>9, <1>c DEF Start, Hang, Resume, Stop
<1>10. CASE UNCHANGED vars
  BY <1>10, <1>c DEF vars
<1> QED
  BY <1>1, <1>2, <1>3, <1>4, <1>5, <1>6, <1>7, <1>8, <1>9, <1>10 DEF Next, Probe

-----------------------------------------------------------------------------
(* The rest of TypeOK: a process that is down has no clients, and only a   *)
(* client that is connected has anything on the wire.                      *)

LeftTyped == left \in [crashes : 0..MaxCrashes, hangs : 0..MaxHangs,
                       stops : 0..MaxStops, late : 0..MaxLate]
DownForgets == \A l \in Links : status[Watcher(l)] = "down" => client[l] = Off
WireOfConnected == \A l \in Links : ~Connected(l) => conn[l] = NoConn
WorldTyped ==
    /\ status \in [Agents -> {"up", "hung", "stopping", "down"}]
    /\ conn \in [Links -> Conns]
    /\ LeftTyped /\ DownForgets /\ WireOfConnected

(* Spending a bound keeps it a natural number.                             *)
LEMMA SpendType ==
    ASSUME LeftTyped, NEW kind \in {"crashes", "hangs", "stops", "late"}, Spend(kind)
    PROVE  LeftTyped'
<1> USE PeerAssumption DEF LeftTyped
<1>1. left[kind] > 0 /\ left' = [left EXCEPT ![kind] = left[kind] - 1]
  BY DEF Spend
<1>2. MaxCrashes \in Nat /\ MaxHangs \in Nat /\ MaxStops \in Nat /\ MaxLate \in Nat
  OBVIOUS
<1> QED
  BY <1>1, <1>2

(* A step of one client leaves processes and wires well typed.             *)
LEMMA LinkStep ==
    ASSUME IInv, NEW l \in Links, Alive(Watcher(l)), status' = status,
           client' \in [Links -> Clients],
           \A k \in Links \ {l} : client'[k] = client[k],
           NEW c \in Conns, conn' = [conn EXCEPT ![l] = c],
           client'[l].pc \notin {"tick", "read"} => c = NoConn,
           LeftTyped'
    PROVE  WorldTyped'
<1>0. /\ status \in [Agents -> {"up", "hung", "stopping", "down"}]
      /\ conn \in [Links -> Conns]
      /\ \A k \in Links : status[Watcher(k)] = "down" => client[k] = Off
      /\ \A k \in Links : client[k].pc \notin {"tick", "read"} => conn[k] = NoConn
  BY DEF IInv, TypeOK, Connected
<1>1. status[Watcher(l)] # "down"
  BY DEF Alive
<1>2. DownForgets'
  BY <1>0, <1>1 DEF DownForgets
<1>3. WireOfConnected'
  BY <1>0 DEF WireOfConnected, Connected
<1> QED
  BY <1>0, <1>2, <1>3 DEF WorldTyped

(* Steps that touch only the wire of one open connection.                  *)
LEMMA WireStep ==
    ASSUME IInv, NEW l \in Links, conn[l].open, NEW c \in Conns,
           conn' = [conn EXCEPT ![l] = c], UNCHANGED <<status, client, left>>
    PROVE  WorldTyped'
<1>0. /\ status \in [Agents -> {"up", "hung", "stopping", "down"}]
      /\ conn \in [Links -> Conns] /\ LeftTyped
      /\ \A k \in Links : status[Watcher(k)] = "down" => client[k] = Off
      /\ \A k \in Links : client[k].pc \notin {"tick", "read"} => conn[k] = NoConn
  BY DEF IInv, TypeOK, Connected, LeftTyped
<1>1. client[l].pc \in {"tick", "read"}
  BY <1>0 DEF NoConn
<1>2. DownForgets'
  BY <1>0 DEF DownForgets
<1>3. WireOfConnected'
  BY <1>0, <1>1 DEF WireOfConnected, Connected
<1>4. LeftTyped'
  BY <1>0 DEF LeftTyped
<1> QED
  BY <1>0, <1>2, <1>3, <1>4 DEF WorldTyped

(* Every step does.                                                        *)
LEMMA WorldStep == IInv /\ [Next]_vars => WorldTyped'
<1> SUFFICES ASSUME IInv, [Next]_vars PROVE WorldTyped'
  OBVIOUS
<1> USE PeerAssumption
<1>0. /\ status \in [Agents -> {"up", "hung", "stopping", "down"}]
      /\ conn \in [Links -> Conns] /\ client \in [Links -> Clients]
      /\ LeftTyped
      /\ \A k \in Links : status[Watcher(k)] = "down" => client[k] = Off
      /\ \A k \in Links : client[k].pc \notin {"tick", "read"} => conn[k] = NoConn
  BY DEF IInv, TypeOK, Connected, LeftTyped
<1>a. client' \in [Links -> Clients]
  BY CountStep DEF ClientTyped
<1>b. ASSUME UNCHANGED left PROVE LeftTyped'
  BY <1>0, <1>b DEF LeftTyped
<1>c. \A l \in Links : Watcher(l) \in Agents /\ Watched(l) \in Agents
  BY DEF Links, Watcher, Watched
<1>1. ASSUME NEW l \in Links, Discover(l) PROVE WorldTyped'
  <2>1. /\ Alive(Watcher(l)) /\ client[l].pc = "off"
        /\ client' = [client EXCEPT ![l] = [Off EXCEPT !.pc = "dial"]]
        /\ UNCHANGED <<status, conn, left>>
    BY <1>1 DEF Discover, Does, Client
  <2>2. conn[l] = NoConn /\ conn' = [conn EXCEPT ![l] = NoConn]
    BY <1>0, <2>1
  <2>3. \A k \in Links \ {l} : client'[k] = client[k]
    BY <1>0, <2>1
  <2> QED
    BY <2>1, <2>2, <2>3, <1>a, <1>b, ConnTypes, LinkStep
<1>2. ASSUME NEW l \in Links, Connect(l) PROVE WorldTyped'
  <2> DEFINE c == [NoConn EXCEPT !.open = TRUE]
  <2>1. /\ Alive(Watcher(l)) /\ conn' = [conn EXCEPT ![l] = c]
        /\ client' = [client EXCEPT ![l] = [Off EXCEPT !.pc = "tick"]]
        /\ UNCHANGED <<status, left>>
    BY <1>2 DEF Connect, Does, Client, Wire
  <2>2. client'[l].pc = "tick" /\ \A k \in Links \ {l} : client'[k] = client[k]
    BY <1>0, <2>1 DEF Off
  <2>3. c \in Conns
    BY ConnTypes
  <2> HIDE DEF c
  <2> QED
    BY <2>1, <2>2, <2>3, <1>a, <1>b, LinkStep
<1>d. ASSUME NEW l \in Links, NEW n, RetryOrReport(l, n)
      PROVE  client'[l].pc \in {"off", "dial"} /\ \A k \in Links \ {l} : client'[k] = client[k]
  <2>1. PICK c : client' = [client EXCEPT ![l] = c] /\ c.pc \in {"off", "dial"}
    <3> DEFINE dial == [Off EXCEPT !.pc = "dial", !.failures = n]
    <3>a. Off.pc = "off" /\ dial.pc = "dial"
      BY DEF Off
    <3>1. CASE n >= ProbeFailures
      <4>1. client' = [client EXCEPT ![l] = Off]
        BY <1>d, <3>1 DEF RetryOrReport, Client
      <4> QED
        BY <4>1, <3>a
    <3>2. CASE ~(n >= ProbeFailures)
      <4>1. client' = [client EXCEPT ![l] = dial]
        BY <1>d, <3>2 DEF RetryOrReport, Client
      <4> HIDE DEF dial
      <4> QED
        BY <4>1, <3>a
    <3> QED
      BY <3>1, <3>2
  <2> QED
    BY <2>1, <1>0
<1>3. ASSUME NEW l \in Links, DialFails(l) PROVE WorldTyped'
  <2>1. /\ Alive(Watcher(l)) /\ client[l].pc = "dial"
        /\ UNCHANGED <<status, conn>>
        /\ UNCHANGED left \/ Spend("late")
    BY <1>3 DEF DialFails, Does
  <2>2. conn' = [conn EXCEPT ![l] = NoConn]
    BY <1>0, <2>1
  <2>3. \A k \in Links \ {l} : client'[k] = client[k]
    BY <1>3, <1>d DEF DialFails
  <2>4. LeftTyped'
    BY <2>1, <1>0, <1>b, SpendType
  <2> QED
    BY <2>1, <2>2, <2>3, <2>4, <1>a, ConnTypes, LinkStep
<1>4. ASSUME NEW l \in Links, Ping(l) PROVE WorldTyped'
  <2> DEFINE c == [conn[l] EXCEPT !.sent = Append(@, "ping")]
  <2>1. /\ Alive(Watcher(l)) /\ conn' = [conn EXCEPT ![l] = c]
        /\ client' = [client EXCEPT ![l] = [client[l] EXCEPT !.pc = "read"]]
        /\ UNCHANGED <<status, left>>
    BY <1>4 DEF Ping, Does, Client, Wire
  <2>2. client'[l].pc = "read" /\ \A k \in Links \ {l} : client'[k] = client[k]
    BY <1>0, <2>1 DEF Clients
  <2>3. c \in Conns
    BY <1>0, ConnTypes
  <2> HIDE DEF c
  <2> QED
    BY <2>1, <2>2, <2>3, <1>a, <1>b, LinkStep
<1>5. ASSUME NEW l \in Links, Answered(l) PROVE WorldTyped'
  <2>1. /\ Alive(Watcher(l)) /\ conn[l].answers # <<>> /\ UNCHANGED <<status, left>>
    BY <1>5 DEF Answered, Does
  <2>2. CASE Head(conn[l].answers) = "stepdown"
    <3>1. client' = [client EXCEPT ![l] = Off] /\ conn' = [conn EXCEPT ![l] = NoConn]
      BY <1>5, <2>2 DEF Answered, Client, Wire
    <3>2. \A k \in Links \ {l} : client'[k] = client[k]
      BY <3>1, <1>0
    <3> QED
      BY <2>1, <3>1, <3>2, <1>a, <1>b, ConnTypes, LinkStep
  <2>3. CASE Head(conn[l].answers) # "stepdown"
    <3> DEFINE c == [conn[l] EXCEPT !.answers = Tail(@)]
    <3>1. /\ client' = [client EXCEPT ![l] = [Off EXCEPT !.pc = "tick"]]
          /\ conn' = [conn EXCEPT ![l] = c]
      BY <1>5, <2>3 DEF Answered, Client, Wire
    <3>2. client'[l].pc = "tick" /\ \A k \in Links \ {l} : client'[k] = client[k]
      BY <3>1, <1>0 DEF Off
    <3>3. c \in Conns
      BY <2>1, <1>0, ConnTypes
    <3> HIDE DEF c
    <3> QED
      BY <2>1, <3>1, <3>2, <3>3, <1>a, <1>b, LinkStep
  <2> QED
    BY <2>2, <2>3
<1>6. ASSUME NEW l \in Links, Miss(l) PROVE WorldTyped'
  <2>1. /\ Alive(Watcher(l)) /\ client[l].pc \in {"tick", "read"}
        /\ status' = status /\ (UNCHANGED left \/ Spend("late"))
    BY <1>6 DEF Miss, Does
  <2>2. LeftTyped'
    BY <2>1, <1>0, <1>b, SpendType
  <2>3. CASE client[l].misses + 1 >= ProbeFailures
    <3>1. /\ conn' = [conn EXCEPT ![l] = NoConn]
          /\ RetryOrReport(l, client[l].failures + 1)
      BY <1>6, <2>3 DEF Miss, Wire
    <3>2. \A k \in Links \ {l} : client'[k] = client[k]
      BY <3>1, <1>d
    <3> QED
      BY <2>1, <2>2, <3>1, <3>2, <1>a, ConnTypes, LinkStep
  <2>4. CASE ~(client[l].misses + 1 >= ProbeFailures)
    <3>1. /\ client' = [client EXCEPT ![l] = [client[l] EXCEPT !.pc = "tick", !.misses = @ + 1]]
          /\ conn' = conn
      BY <1>6, <2>4 DEF Miss, Client
    <3>2. client'[l].pc = "tick" /\ \A k \in Links \ {l} : client'[k] = client[k]
      BY <3>1, <1>0 DEF Clients
    <3>3. conn' = [conn EXCEPT ![l] = conn[l]] /\ conn[l] \in Conns
      BY <3>1, <1>0
    <3> QED
      BY <2>1, <2>2, <3>2, <3>3, <1>a, LinkStep
  <2> QED
    BY <2>3, <2>4
<1>7. ASSUME NEW l \in Links, Serve(l) PROVE WorldTyped'
  <2>1. conn[l].open /\ conn[l].sent # <<>> /\ UNCHANGED <<status, client, left>>
    BY <1>7 DEF Serve
  <2>2. PICK c \in Conns : conn' = [conn EXCEPT ![l] = c]
    BY <1>7, <2>1, <1>0, ConnTypes DEF Serve, Wire
  <2> QED
    BY <2>1, <2>2, WireStep
<1>8. ASSUME NEW l \in Links, HandlerTimeout(l) PROVE WorldTyped'
  <2>1. conn[l].open /\ UNCHANGED <<status, client, left>>
    BY <1>8 DEF HandlerTimeout
  <2>2. PICK c \in Conns : conn' = [conn EXCEPT ![l] = c]
    BY <1>8, <1>0, ConnTypes DEF HandlerTimeout, Wire
  <2> QED
    BY <2>1, <2>2, WireStep
<1>e. ASSUME NEW a \in Agents, Gone(a), LeftTyped' PROVE WorldTyped'
  <2> DEFINE cut(l) == [conn[l] EXCEPT !.open = FALSE, !.sent = <<>>]
  <2>1. /\ status' = [status EXCEPT ![a] = "down"]
        /\ client' = [l \in Links |-> IF Watcher(l) = a THEN Off ELSE client[l]]
        /\ conn' = [l \in Links |-> IF Watcher(l) = a THEN NoConn
                                    ELSE IF Watched(l) = a /\ Connected(l) THEN cut(l)
                                    ELSE conn[l]]
    BY <1>e DEF Gone
  <2>2. \A l \in Links : cut(l) \in Conns
    BY <1>0, ConnTypes
  <2> HIDE DEF cut
  <2>3. conn' \in [Links -> Conns]
    BY <2>1, <2>2, <1>0, ConnTypes
  <2>4. DownForgets'
    BY <2>1, <1>0, <1>c DEF DownForgets
  <2>5. WireOfConnected'
    BY <2>1, <1>0 DEF WireOfConnected, Connected
  <2> QED
    BY <2>1, <2>3, <2>4, <2>5, <1>0, <1>e DEF WorldTyped
<1>9. ASSUME NEW a \in Agents, Crash(a) \/ Exit(a) PROVE WorldTyped'
  <2>1. Gone(a) /\ (UNCHANGED left \/ Spend("crashes"))
    BY <1>9 DEF Crash, Exit
  <2> QED
    BY <2>1, <1>0, <1>b, <1>e, SpendType
<1>10. ASSUME NEW a \in Agents, Start(a) \/ Hang(a) \/ Resume(a) PROVE WorldTyped'
  <2>1. /\ UNCHANGED <<client, conn>>
        /\ UNCHANGED left \/ Spend("hangs")
        /\ \E s \in {"up", "hung"} : status' = [status EXCEPT ![a] = s]
    BY <1>10 DEF Start, Hang, Resume
  <2>2. LeftTyped'
    BY <2>1, <1>0, <1>b, SpendType
  <2>3. DownForgets'
    BY <2>1, <1>0, <1>c DEF DownForgets
  <2>4. WireOfConnected'
    BY <2>1, <1>0 DEF WireOfConnected, Connected
  <2> QED
    BY <2>1, <2>2, <2>3, <2>4, <1>0 DEF WorldTyped
<1>11. ASSUME NEW a \in Agents, Stop(a) PROVE WorldTyped'
  <2> DEFINE told(l) == [conn[l] EXCEPT !.sent = Append(@, "stepdown")]
  <2>1. /\ client' = client /\ Spend("stops")
        /\ status' = [status EXCEPT ![a] = "stopping"]
        /\ conn' = [l \in Links |-> IF Watcher(l) = a /\ conn[l].open THEN told(l) ELSE conn[l]]
    BY <1>11 DEF Stop
  <2>2. \A l \in Links : told(l) \in Conns
    BY <1>0, ConnTypes
  <2> HIDE DEF told
  <2>3. conn' \in [Links -> Conns]
    BY <2>1, <2>2, <1>0
  <2>4. LeftTyped'
    BY <2>1, <1>0, SpendType
  <2>5. DownForgets'
    BY <2>1, <1>0, <1>c DEF DownForgets
  <2>6. WireOfConnected'
    <3>1. ~NoConn.open
      BY DEF NoConn
    <3> QED
      BY <2>1, <1>0, <3>1 DEF WireOfConnected, Connected
  <2> QED
    BY <2>1, <2>3, <2>4, <2>5, <2>6, <1>0 DEF WorldTyped
<1>12. CASE UNCHANGED vars
  <2>1. DownForgets' /\ WireOfConnected'
    BY <1>12, <1>0 DEF vars, DownForgets, WireOfConnected, Connected
  <2> QED
    BY <1>12, <2>1, <1>0, <1>b DEF vars, WorldTyped
<1> QED
  BY <1>1, <1>2, <1>3, <1>4, <1>5, <1>6, <1>7, <1>8, <1>9, <1>10, <1>11, <1>12 DEF Next, Probe

-----------------------------------------------------------------------------
(* The invariant holds in every reachable state.                           *)
LEMMA InductiveInvariant == Spec => []IInv
<1> USE PeerAssumption
<1>1. Init => IInv
  <2> SUFFICES ASSUME Init PROVE IInv
    OBVIOUS
  <2>1. Off \in Clients /\ NoConn \in Conns
    BY ClientTypes, ConnTypes, Zenon
  <2>4. Counted(Off, 0)
    BY DEF Counted, Off
  <2>2. left \in [crashes : 0..MaxCrashes, hangs : 0..MaxHangs,
                  stops : 0..MaxStops, late : 0..MaxLate]
    BY DEF Init, Bounds
  <2>3. 0 \in 0..ProbeFailures
    OBVIOUS
  <2> QED
    BY <2>1, <2>2, <2>3, <2>4 DEF Init, IInv, TypeOK, SilenceCounted
<1>2. IInv /\ [Next]_vars => IInv'
  <2> SUFFICES ASSUME IInv, [Next]_vars PROVE IInv'
    OBVIOUS
  <2> QED
    BY CountStep, WorldStep
       DEF IInv, TypeOK, ClientTyped, WorldTyped, LeftTyped, DownForgets, WireOfConnected
<1> QED
  BY <1>1, <1>2, PTL DEF Spec

(* Every reachable state is well typed: the counters stay below            *)
(* ProbeFailures, a process that is down has no client left and a client   *)
(* that is not connected has nothing on the wire.                          *)
THEOREM TypeCorrect == Spec => []TypeOK
  BY InductiveInvariant, PTL DEF IInv

(* The counters of Connect and runHeartbeat never exceed the number of     *)
(* probes that went without an answer.                                     *)
THEOREM CountersWitnessed == Spec => []SilenceCounted
  BY InductiveInvariant, PTL DEF IInv

(* OnFailure is called, and a takeover attempted, only after ProbeFailures *)
(* probes in a row without an answer.                                      *)
THEOREM NoFalseAlarmHolds == Spec => NoFalseAlarm
<1>1. IInv /\ [Next]_vars
        => [\A l \in Links : heard[l] # "failure" /\ heard'[l] = "failure"
               => silent'[l] = ProbeFailures]_vars
  BY CountStep DEF Honest
<1> QED
  BY <1>1, InductiveInvariant, PTL DEF Spec, NoFalseAlarm
=============================================================================
