--------------------------- MODULE DataPlaneProofs ---------------------------
(* The safety of DataPlane, for every number of changes by other tools and *)
(* of failures.                                                            *)
EXTENDS DataPlane, SequenceTheorems, TLAPS

-----------------------------------------------------------------------------
(* Chains.                                                                 *)

Apart(s) == \A i, j \in DOMAIN s : s[i] = s[j] => i = j
In(s, r) == \E i \in DOMAIN s : s[i] = r

(* What is left of a chain without its i-th rule.                          *)
LEMMA Removed ==
    ASSUME NEW s \in Seq(Rules), NEW i \in DOMAIN s
    PROVE  LET t == RemoveAt(s, i) IN
           /\ t \in Seq(Rules) /\ Len(t) = Len(s) - 1
           /\ \A k \in 1..(i - 1) : t[k] = s[k]
           /\ \A k \in i..(Len(s) - 1) : t[k] = s[k + 1]
<1> DEFINE u == SubSeq(s, 1, i - 1)
           v == SubSeq(s, i + 1, Len(s))
<1>1. Len(s) \in Nat /\ DOMAIN s = 1..Len(s) /\ i \in 1..Len(s)
  BY LenProperties
<1>2. /\ u \in Seq(Rules) /\ Len(u) = i - 1
      /\ \A k \in 1..(i - 1) : u[k] = s[k]
  BY <1>1, SubSeqProperties
<1>3. /\ v \in Seq(Rules) /\ Len(v) = Len(s) - i
      /\ \A k \in 1..(Len(s) - i) : v[k] = s[i + k]
  BY <1>1, SubSeqProperties
<1>4. RemoveAt(s, i) = u \o v
  BY DEF RemoveAt
<1> DEFINE w == u \o v
<1> HIDE DEF u, v
<1>5. /\ w \in Seq(Rules) /\ Len(w) = Len(u) + Len(v)
      /\ \A k \in 1..Len(u) + Len(v) : w[k] = IF k <= Len(u) THEN u[k] ELSE v[k - Len(u)]
  BY <1>2, <1>3, ConcatProperties, Zenon
<1> HIDE DEF w
<1>6. \A k \in 1..(i - 1) : w[k] = s[k]
  BY <1>1, <1>2, <1>3, <1>5
<1>7. ASSUME NEW k \in i..(Len(s) - 1) PROVE w[k] = s[k + 1]
  <2>1. w[k] = v[k - (i - 1)] /\ k - (i - 1) \in 1..(Len(s) - i)
    BY <1>1, <1>2, <1>3, <1>5
  <2>2. v[k - (i - 1)] = s[i + (k - (i - 1))]
    BY <1>3, <2>1
  <2>3. i + (k - (i - 1)) = k + 1
    BY <1>1
  <2> QED
    BY <2>1, <2>2, <2>3
<1>8. Len(w) = Len(s) - 1
  BY <1>1, <1>2, <1>3, <1>5
<1> QED
  BY <1>4, <1>5, <1>6, <1>7, <1>8 DEF w

(* A rule that occurs once is gone, and the others stay apart.             *)
LEMMA RemovedApart ==
    ASSUME NEW s \in Seq(Rules), Apart(s), NEW i \in DOMAIN s
    PROVE  Apart(RemoveAt(s, i)) /\ ~In(RemoveAt(s, i), s[i])
<1> DEFINE t == RemoveAt(s, i)
           From(k) == IF k < i THEN k ELSE k + 1
<1>1. Len(s) \in Nat /\ DOMAIN s = 1..Len(s) /\ i \in 1..Len(s)
  BY LenProperties
<1>2. /\ t \in Seq(Rules) /\ Len(t) = Len(s) - 1
      /\ \A k \in 1..(i - 1) : t[k] = s[k]
      /\ \A k \in i..(Len(s) - 1) : t[k] = s[k + 1]
  BY Removed
<1> HIDE DEF t
<1>3. DOMAIN t = 1..(Len(s) - 1)
  BY <1>2, LenProperties
<1>4. \A k \in DOMAIN t : t[k] = s[From(k)] /\ From(k) \in DOMAIN s /\ From(k) # i
  BY <1>1, <1>2, <1>3
<1>5. \A j, k \in DOMAIN t : From(j) = From(k) => j = k
  BY <1>1, <1>3
<1> HIDE DEF From
<1> QED
  BY <1>4, <1>5 DEF Apart, In, t

(* A rule that is not there may be put first.                              *)
LEMMA PutFirstApart ==
    ASSUME NEW s \in Seq(Rules), Apart(s), NEW r \in Rules, ~In(s, r)
    PROVE  LET t == <<r>> \o s IN
           /\ t \in Seq(Rules) /\ Apart(t) /\ t # <<>> /\ Head(t) = r
           /\ \A q : In(t, q) <=> q = r \/ In(s, q)
<1> DEFINE t == <<r>> \o s
<1>1. <<r>> \in Seq(Rules) /\ Len(<<r>>) = 1 /\ <<r>>[1] = r
  OBVIOUS
<1>2. Len(s) \in Nat /\ DOMAIN s = 1..Len(s)
  BY LenProperties
<1>3. /\ t \in Seq(Rules) /\ Len(t) = 1 + Len(s)
      /\ \A k \in 1..(1 + Len(s)) : t[k] = IF k <= 1 THEN <<r>>[k] ELSE s[k - 1]
  BY <1>1, <1>2, ConcatProperties
<1> HIDE DEF t
<1>4. DOMAIN t = 1..(1 + Len(s)) /\ t[1] = r /\ \A k \in DOMAIN s : t[k + 1] = s[k]
  BY <1>1, <1>2, <1>3, LenProperties
<1>5. t # <<>> /\ Head(t) = r
  BY <1>2, <1>3, <1>4, HeadTailProperties, EmptySeq
<1>6. \A k \in DOMAIN t : k # 1 => k - 1 \in DOMAIN s /\ t[k] = s[k - 1]
  BY <1>2, <1>3, <1>4
<1>7. Apart(t)
  <2> SUFFICES ASSUME NEW j \in DOMAIN t, NEW k \in DOMAIN t, t[j] = t[k]
               PROVE  j = k
    BY DEF Apart
  <2>1. CASE j = 1 \/ k = 1
    BY <1>4, <1>6, <2>1 DEF In
  <2>2. CASE j # 1 /\ k # 1
    <3>1. j - 1 = k - 1
      BY <1>6, <2>2 DEF Apart
    <3> QED
      BY <1>2, <1>4, <3>1
  <2> QED
    BY <2>1, <2>2
<1>8. \A q : In(t, q) <=> q = r \/ In(s, q)
  <2>1. ASSUME NEW q, In(t, q) PROVE q = r \/ In(s, q)
    BY <1>4, <1>6, <2>1 DEF In
  <2>2. ASSUME NEW q, In(s, q) PROVE In(t, q)
    BY <1>2, <1>4, <2>2 DEF In
  <2>3. In(t, r)
    BY <1>2, <1>4 DEF In
  <2> QED
    BY <2>1, <2>2, <2>3
<1> QED
  BY <1>3, <1>5, <1>7, <1>8 DEF t

(* There are three rules to be in a chain.                                 *)
LEMMA ShortChain == ASSUME NEW s \in Seq(Rules), Apart(s) PROVE Len(s) <= 3
<1>1. Len(s) \in Nat /\ DOMAIN s = 1..Len(s) /\ \A i \in DOMAIN s : s[i] \in Rules
  BY LenProperties, ElementOfSeq
<1> SUFFICES ASSUME Len(s) >= 4 PROVE FALSE
  BY <1>1
<1>2. /\ s[1] \in Rules /\ s[2] \in Rules /\ s[3] \in Rules /\ s[4] \in Rules
      /\ s[1] # s[2] /\ s[1] # s[3] /\ s[1] # s[4] /\ s[2] # s[3] /\ s[2] # s[4] /\ s[3] # s[4]
  BY <1>1 DEF Apart
<1> QED
  BY <1>2 DEF Rules

-----------------------------------------------------------------------------
(* The inductive invariant.                                                *)

(* What a pass that nobody interfered with has done so far.                *)
After == {"list", "exists", "delete", "insert", "loose", "applied"}
Passed ==
    ~touched => /\ pc \in After \cup {"forward"} => masq
                /\ pc \in After => forward
                /\ pc = "loose" => FirstIsReset

ToInsert == pc = "insert" => ~In(chain, "reset")

(* What it says between passes.                                            *)
Said == ready /\ ~touched /\ pc \in {"idle", "publish"} => masq /\ forward

IInv == TypeOK /\ Apart(chain) /\ ToInsert /\ Passed /\ Said

LEMMA InitInv == Init => IInv
<1> SUFFICES ASSUME Init PROVE IInv
  OBVIOUS
<1>1. <<"proxy">> \in Seq(Rules) /\ Len(<<"proxy">>) = 1 /\ Apart(<<"proxy">>)
  BY DEF Rules, Apart
<1>2. chain = <<"proxy">>
  BY DEF Init
<1>3. TypeOK
  <2>1. chain \in Seq(Rules) /\ Len(chain) <= 3
    BY <1>1, <1>2
  <2>2. tampers \in 0..MaxTampers /\ faults \in 0..MaxFaults
    BY DataPlaneAssumption DEF Init
  <2>3. pc \in Pcs
    BY DEF Init, Pcs
  <2> QED
    BY <2>1, <2>2, <2>3 DEF Init, TypeOK
<1> QED
  BY <1>1, <1>2, <1>3 DEF Init, IInv, ToInsert, Passed, After, Said

(* Steps that leave the chain alone.                                       *)
Quiet == Masquerade \/ Append_ \/ EnableIPForward \/ List \/ Exists \/ DeleteMissing
         \/ WriteLoose \/ Tick \/ Applied \/ Failed \/ UpdateMetrics
         \/ CallFails \/ Start \/ Shutdown \/ Exit \/ Crash

LEMMA QuietTyped == ASSUME TypeOK, Quiet PROVE TypeOK' /\ chain' = chain
<1>1. tampers' = tampers /\ chain' = chain
  BY DEF Quiet, Masquerade, Append_, EnableIPForward, List, Exists, DeleteMissing, WriteLoose, Tick,
         Applied, Failed, Down, UpdateMetrics, CallFails, Start, Shutdown, Exit, Crash, kernel, bounds
<1>2. faults' \in 0..MaxFaults
  BY DataPlaneAssumption DEF Quiet, Masquerade, Append_, EnableIPForward, List, Exists, DeleteMissing,
         WriteLoose, Tick, Applied, Failed, Down, UpdateMetrics, CallFails, Start, Shutdown, Exit,
         Crash, bounds, TypeOK
<1>3. pc' \in Pcs /\ resets' \in BOOLEAN
  BY DEF Quiet, Masquerade, Append_, EnableIPForward, List, Exists, DeleteMissing, WriteLoose, Tick,
         Applied, Failed, Down, UpdateMetrics, CallFails, Start, Shutdown, Exit, Crash, TypeOK, Pcs, Calls
<1>4. first' \in BOOLEAN /\ stopping' \in BOOLEAN /\ touched' \in BOOLEAN
  BY Zenon DEF Quiet, Masquerade, Append_, EnableIPForward, List, Exists, DeleteMissing, WriteLoose, Tick,
         Applied, Failed, Down, UpdateMetrics, CallFails, Start, Shutdown, Exit, Crash, TypeOK
<1>5. ready' \in BOOLEAN /\ present' \in BOOLEAN
  BY Zenon DEF Quiet, Masquerade, Append_, EnableIPForward, List, Exists, DeleteMissing, WriteLoose, Tick,
         Applied, Failed, Down, UpdateMetrics, CallFails, Start, Shutdown, Exit, Crash, TypeOK, said
<1>6. masq' \in BOOLEAN /\ forward' \in BOOLEAN /\ loose' \in BOOLEAN
  BY Zenon DEF Quiet, Masquerade, Append_, EnableIPForward, List, Exists, DeleteMissing, WriteLoose, Tick,
         Applied, Failed, Down, UpdateMetrics, CallFails, Start, Shutdown, Exit, Crash, TypeOK, kernel
<1> QED
  BY <1>1, <1>2, <1>3, <1>4, <1>5, <1>6 DEF TypeOK

LEMMA QuietInv == ASSUME IInv, Quiet PROVE IInv'
<1>1. TypeOK' /\ chain' = chain /\ Apart(chain')
  BY QuietTyped DEF IInv
<1>2. ToInsert'
  BY <1>1 DEF IInv, ToInsert, In, Has, Quiet, Masquerade, Append_, EnableIPForward, List, Exists,
         DeleteMissing, WriteLoose, Tick, Applied, Failed, Down, UpdateMetrics, CallFails, Start,
         Shutdown, Exit, Crash
<1>3. Passed'
  BY <1>1 DEF IInv, TypeOK, Passed, After, FirstIsReset, Quiet, Masquerade, Append_, EnableIPForward,
         List, Exists, DeleteMissing, WriteLoose, Tick, Applied, Failed, Down, UpdateMetrics, CallFails,
         Start, Shutdown, Exit, Crash, kernel, Calls
<1>4. Said'
  <2>1. CASE Applied
    BY <2>1 DEF IInv, Passed, After, Said, Applied, kernel
  <2>2. CASE Quiet /\ ~Applied
    BY <2>2 DEF IInv, TypeOK, Said, Calls, Quiet, Masquerade, Append_, EnableIPForward, List, Exists,
         DeleteMissing, WriteLoose, Tick, Failed, Down, UpdateMetrics, CallFails, Start,
         Shutdown, Exit, Crash, kernel, said
  <2> QED
    BY <2>1, <2>2
<1> QED
  BY <1>1, <1>2, <1>3, <1>4 DEF IInv

LEMMA DeleteInv == ASSUME IInv, Delete PROVE IInv'
<1> PICK i \in DOMAIN chain : chain[i] = "reset" /\ chain' = RemoveAt(chain, i)
  BY DEF Delete
<1>1. chain \in Seq(Rules) /\ Apart(chain)
  BY DEF IInv, TypeOK
<1>2. chain' \in Seq(Rules) /\ Apart(chain') /\ ~In(chain', "reset")
  BY <1>1, Removed, RemovedApart
<1>3. Len(chain') <= 3
  BY <1>2, ShortChain
<1>4. TypeOK'
  BY <1>2, <1>3 DEF IInv, TypeOK, Delete, said, bounds, Pcs, Calls
<1>5. Passed'
  BY DEF IInv, Passed, After, Delete
<1> QED
  BY <1>2, <1>4, <1>5 DEF IInv, ToInsert, Said, Delete

LEMMA InsertInv == ASSUME IInv, Insert PROVE IInv'
<1>1. chain \in Seq(Rules) /\ Apart(chain) /\ ~In(chain, "reset") /\ "reset" \in Rules
  BY DEF IInv, TypeOK, ToInsert, Insert, Rules
<1>2. chain' \in Seq(Rules) /\ Apart(chain') /\ FirstIsReset'
  BY <1>1, PutFirstApart DEF Insert, FirstIsReset
<1>3. Len(chain') <= 3
  BY <1>2, ShortChain
<1>4. TypeOK'
  BY <1>2, <1>3 DEF IInv, TypeOK, Insert, said, bounds, Pcs, Calls
<1>5. Passed'
  BY <1>2 DEF IInv, Passed, After, Insert
<1> QED
  BY <1>2, <1>4, <1>5 DEF IInv, ToInsert, Said, Insert

(* Another tool does not touch the agent's rule but to remove it.          *)
LEMMA PutFirstKeeps ==
    ASSUME IInv, NEW r \in {"proxy", "other"}, PutFirst(r)
    PROVE  chain' \in Seq(Rules) /\ Apart(chain') /\ (In(chain', "reset") => In(chain, "reset"))
<1>1. chain \in Seq(Rules) /\ Apart(chain) /\ r \in Rules /\ r # "reset"
  BY DEF IInv, TypeOK, Rules
<1>2. CASE ~In(chain, r) /\ chain' = <<r>> \o chain
  BY <1>1, <1>2, PutFirstApart
<1>3. ASSUME NEW i \in DOMAIN chain, chain[i] = r, chain' = <<r>> \o RemoveAt(chain, i)
      PROVE  chain' \in Seq(Rules) /\ Apart(chain') /\ (In(chain', "reset") => In(chain, "reset"))
  <2> DEFINE t == RemoveAt(chain, i)
  <2>1. t \in Seq(Rules) /\ Apart(t) /\ ~In(t, r)
    BY <1>1, <1>3, Removed, RemovedApart
  <2>2. In(t, "reset") => In(chain, "reset")
    <3>1. /\ Len(t) = Len(chain) - 1 /\ \A k \in 1..(i - 1) : t[k] = chain[k]
          /\ \A k \in i..(Len(chain) - 1) : t[k] = chain[k + 1]
      BY <1>1, Removed
    <3>2. Len(chain) \in Nat /\ DOMAIN chain = 1..Len(chain) /\ DOMAIN t = 1..Len(t)
      BY <1>1, <2>1, LenProperties
    <3> HIDE DEF t
    <3> QED
      BY <3>1, <3>2 DEF In
  <2> HIDE DEF t
  <2>3. /\ <<r>> \o t \in Seq(Rules) /\ Apart(<<r>> \o t)
        /\ \A q : In(<<r>> \o t, q) <=> q = r \/ In(t, q)
    BY <1>1, <2>1, PutFirstApart
  <2>4. chain' = <<r>> \o t
    BY <1>3 DEF t
  <2> QED
    BY <1>1, <2>2, <2>3, <2>4
<1> QED
  BY <1>2, <1>3 DEF PutFirst, Has, In

LEMMA RemovedKeeps ==
    ASSUME IInv, NEW i \in DOMAIN chain, chain' = RemoveAt(chain, i)
    PROVE  chain' \in Seq(Rules) /\ Apart(chain') /\ (In(chain', "reset") => In(chain, "reset"))
<1>1. chain \in Seq(Rules) /\ Apart(chain)
  BY DEF IInv, TypeOK
<1>2. chain' \in Seq(Rules) /\ Apart(chain')
  BY <1>1, Removed, RemovedApart
<1>3. /\ Len(chain') = Len(chain) - 1 /\ \A k \in 1..(i - 1) : chain'[k] = chain[k]
      /\ \A k \in i..(Len(chain) - 1) : chain'[k] = chain[k + 1]
  BY <1>1, Removed
<1>4. /\ Len(chain) \in Nat /\ DOMAIN chain = 1..Len(chain) /\ DOMAIN chain' = 1..Len(chain')
  BY <1>1, <1>2, LenProperties
<1> QED
  BY <1>2, <1>3, <1>4 DEF In

LEMMA TamperInv == ASSUME IInv, Tamper PROVE IInv'
<1>1. /\ chain' \in Seq(Rules) /\ Apart(chain')
      /\ In(chain', "reset") => In(chain, "reset")
  <2>1. CASE \E r \in {"proxy", "other"} : PutFirst(r)
    BY <2>1, PutFirstKeeps
  <2>2. CASE chain' = <<"proxy">>
    BY <2>2 DEF Rules, Apart, In
  <2>3. CASE chain' = chain
    BY <2>3 DEF IInv, TypeOK
  <2>4. CASE \E i \in DOMAIN chain : chain' = RemoveAt(chain, i)
    BY <2>4, RemovedKeeps
  <2> QED
    BY <2>1, <2>2, <2>3, <2>4 DEF Tamper
<1>2. Len(chain') <= 3
  BY <1>1, ShortChain
<1>3. masq' \in BOOLEAN /\ forward' \in BOOLEAN /\ loose' \in BOOLEAN
  BY Zenon DEF IInv, TypeOK, Tamper
<1>4. tampers' \in 0..MaxTampers
  BY DataPlaneAssumption DEF IInv, TypeOK, Tamper
<1>5. TypeOK'
  BY <1>1, <1>2, <1>3, <1>4 DEF IInv, TypeOK, Tamper, said
<1>6. touched' /\ pc' = pc
  BY DEF Tamper
<1> QED
  BY <1>1, <1>5, <1>6 DEF IInv, ToInsert, Passed, Said

LEMMA NextInv == IInv /\ [Next]_vars => IInv'
<1> SUFFICES ASSUME IInv, [Next]_vars PROVE IInv'
  OBVIOUS
<1>1. CASE Quiet
  BY <1>1, QuietInv
<1>2. CASE Delete
  BY <1>2, DeleteInv
<1>3. CASE Insert
  BY <1>3, InsertInv
<1>4. CASE Tamper
  BY <1>4, TamperInv
<1>5. CASE UNCHANGED vars
  BY <1>5 DEF IInv, TypeOK, ToInsert, Passed, Said, FirstIsReset, vars, kernel, said, bounds
<1> QED
  BY <1>1, <1>2, <1>3, <1>4, <1>5 DEF Next, Loop, SetupDataPlane, Quiet

-----------------------------------------------------------------------------
(* What follows.                                                           *)

(* Every reachable state is well typed; in particular FORWARD never holds  *)
(* more than the three rules it may hold.                                  *)
THEOREM TypeCorrect == Spec => []TypeOK
<1>1. IInv => TypeOK
  BY DEF IInv
<1> QED
  BY InitInv, NextInv, <1>1, PTL DEF Spec

(* The reset rule is never twice in FORWARD, whatever failed, died or was  *)
(* changed while it was moved.                                             *)
THEOREM ResetOnce == Spec => []OneReset
<1>1. IInv => OneReset
  BY DEF IInv, OneReset, Apart, ToInsert, In, Has
<1> QED
  BY InitInv, NextInv, <1>1, PTL DEF Spec

(* Loose pickup is turned off only behind the rule.                        *)
THEOREM LooseAfterReset == Spec => LooseBehindReset
<1>1. IInv /\ [Next]_vars => [loose /\ ~loose' /\ ~touched => FirstIsReset]_vars
  <2> SUFFICES ASSUME IInv, Next, loose, ~loose', ~touched PROVE FirstIsReset
    OBVIOUS
  <2>1. CASE WriteLoose
    BY <2>1 DEF IInv, Passed, WriteLoose
  <2>2. CASE Tamper
    <3>1. loose' = loose \/ loose' = TRUE
      BY <2>2 DEF Tamper
    <3> QED
      BY <3>1
  <2>3. CASE Quiet /\ ~WriteLoose
    BY <2>3 DEF Quiet, Masquerade, Append_, EnableIPForward, List, Exists, DeleteMissing, Tick,
         Applied, Failed, UpdateMetrics, CallFails, Start, Shutdown, Exit, Crash, kernel
  <2>4. CASE Delete \/ Insert
    BY <2>4 DEF Delete, Insert
  <2> QED
    BY <2>1, <2>2, <2>3, <2>4 DEF Next, Loop, SetupDataPlane, Quiet
<1> QED
  BY InitInv, NextInv, <1>1, PTL DEF Spec, LooseBehindReset

(* Between two passes that nobody interferes with, an agent that says it is*)
(* ready masquerades and forwards.                                         *)
THEOREM ReadyIsTrue == Spec => []ReadyIsFunctional
<1>1. IInv => ReadyIsFunctional
  BY DEF IInv, ReadyIsFunctional, Said
<1> QED
  BY InitInv, NextInv, <1>1, PTL DEF Spec

-----------------------------------------------------------------------------
(* A whole data plane.                                                     *)

(* A pass that moves the rule has found it elsewhere, and while nobody else*)
(* interferes nothing but the pass puts it first.                          *)
NotMoved ==
    /\ ~touched /\ pc \in {"exists", "delete"} => ~FirstIsReset
    /\ pc = "insert" => ~FirstIsReset

LEMMA NotMovedInit == Init => NotMoved
BY DEF Init, NotMoved

LEMMA NotMovedNext == IInv /\ NotMoved /\ [Next]_vars => NotMoved'
<1> SUFFICES ASSUME IInv, NotMoved, [Next]_vars PROVE NotMoved'
  OBVIOUS
<1>1. IInv'
  BY NextInv
<1>2. (pc = "insert" => ~FirstIsReset)'
  <2>1. pc' = "insert" => ~In(chain', "reset") /\ chain' \in Seq(Rules)
    BY <1>1 DEF IInv, ToInsert, TypeOK
  <2>2. chain' \in Seq(Rules) /\ chain' # <<>> => 1 \in DOMAIN chain' /\ Head(chain') = chain'[1]
    BY HeadTailProperties, LenProperties, EmptySeq
  <2> QED
    BY <2>1, <2>2 DEF FirstIsReset, In
<1>3. CASE Quiet
  <2>1. chain' = chain
    BY <1>3, QuietTyped DEF IInv
  <2>2. ~touched' /\ pc' \in {"exists", "delete"} =>
           \/ ~touched /\ pc \in {"exists", "delete"}
           \/ pc = "list" /\ ~FirstIsReset
    BY <1>3 DEF Quiet, Masquerade, Append_, EnableIPForward, List, Exists, DeleteMissing, WriteLoose,
         Tick, Applied, Failed, Down, UpdateMetrics, CallFails, Start, Shutdown, Exit, Crash
  <2> QED
    BY <1>2, <2>1, <2>2 DEF NotMoved, FirstIsReset
<1>4. CASE Delete \/ Insert \/ Tamper
  <2>1. touched' \/ pc' \notin {"exists", "delete"}
    BY <1>4 DEF Delete, Insert, Tamper
  <2> QED
    BY <1>2, <2>1 DEF NotMoved
<1>5. CASE UNCHANGED vars
  BY <1>5 DEF NotMoved, FirstIsReset, vars, kernel
<1> QED
  BY <1>3, <1>4, <1>5 DEF Next, Loop, SetupDataPlane, Quiet

(* A node whose data plane is whole keeps it until another tool undoes it, *)
(* or makes the agent do so.                                               *)
THEOREM WholeIsStable == Spec => WholeStays
<1>1. IInv /\ NotMoved /\ [Next]_vars => 
        [Whole /\ ~Whole' => tampers' # tampers \/ (touched /\ pc = "delete")]_vars
  <2> SUFFICES ASSUME IInv, NotMoved, Next, Whole, tampers' = tampers,
                      ~(touched /\ pc = "delete")
               PROVE  Whole'
    OBVIOUS
  <2>1. CASE Quiet
    <3>1. chain' = chain /\ resets' = resets
      BY <2>1, QuietTyped DEF IInv, Quiet, Masquerade, Append_, EnableIPForward, List, Exists,
         DeleteMissing, WriteLoose, Tick, Applied, Failed, UpdateMetrics, CallFails, Start, Shutdown,
         Exit, Crash
    <3>2. (masq' = masq \/ masq') /\ (forward' = forward \/ forward') /\ (loose' = loose \/ ~loose')
      BY <2>1, Zenon DEF Quiet, Masquerade, Append_, EnableIPForward, List, Exists,
         DeleteMissing, WriteLoose, Tick, Applied, Failed, UpdateMetrics, CallFails, Start, Shutdown,
         Exit, Crash, kernel
    <3>3. FirstIsReset => FirstIsReset'
      BY <3>1 DEF FirstIsReset
    <3>4. (masq => masq') /\ (forward => forward') /\ (~loose => ~loose')
      BY <3>2
    <3> QED
      BY <3>1, <3>3, <3>4 DEF Whole
  <2>2. CASE Delete
    <3>1. ~FirstIsReset
      BY <2>2 DEF NotMoved, Delete
    <3>2. masq' = masq /\ forward' = forward /\ resets' = resets
      BY <2>2 DEF Delete
    <3> QED
      BY <3>1, <3>2 DEF Whole
  <2>3. CASE Insert
    <3>1. FirstIsReset'
      <4>1. chain \in Seq(Rules) /\ Apart(chain) /\ ~In(chain, "reset") /\ "reset" \in Rules
        BY <2>3 DEF IInv, TypeOK, ToInsert, Insert, Rules
      <4> QED
        BY <2>3, <4>1, PutFirstApart DEF Insert, FirstIsReset
    <3> QED
      BY <2>3, <3>1 DEF Whole, Insert
  <2>4. CASE Tamper
    <3>1. tampers' = tampers + 1 /\ tampers \in Nat
      BY <2>4, DataPlaneAssumption DEF Tamper, IInv, TypeOK
    <3> QED
      BY <3>1
  <2> QED
    BY <2>1, <2>2, <2>3, <2>4 DEF Next, Loop, SetupDataPlane, Quiet
<1> QED
  BY InitInv, NextInv, NotMovedInit, NotMovedNext, <1>1, PTL DEF Spec, WholeStays
=============================================================================
