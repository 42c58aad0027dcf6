------------------------------ MODULE DataPlane ------------------------------
(***************************************************************************)
(* The data plane of one node: the MASQUERADE rule, IP forwarding and the  *)
(* stale flow reset, applied at startup and again by every reconcile tick, *)
(* and what the agent says of it: /readyz and the gauge of the rule.       *)
(*                                                                         *)
(* Every iptables call and every sysctl write is a step.  Rules and sysctls*)
(* belong to the kernel: they survive the process, and other tools of the  *)
(* node change them between any two steps.                                 *)
(***************************************************************************)
EXTENDS Naturals, Sequences, SequencesExt

CONSTANTS MaxTampers,  \* bound: changes made by other tools of the node
          MaxFaults    \* bound: failed calls and deaths of the process

ASSUME DataPlaneAssumption == MaxTampers \in Nat /\ MaxFaults \in Nat

VARIABLES resets,  \* KUBE_NAT_RESET_STALE_FLOWS
          pc,      \* the next call of the goroutine that applies the data plane
          first,   \* this pass applies it at startup, before the loop
          stopping,\* the context is cancelled
          masq,    \* POSTROUTING holds the MASQUERADE rule
          forward, \* ip_forward
          chain,   \* FORWARD: the reset rule, kube-proxy's jump that leads to
                   \* the DROP of INVALID packets, rules of others
          loose,   \* nf_conntrack_tcp_loose
          ready,   \* what /readyz answers
          present, \* the gauge kube_nat_rule_present
          touched, \* another tool changed something since this pass began
          tampers, faults

kernel == <<masq, forward, chain, loose>>
said == <<ready, present>>
bounds == <<tampers, faults>>
vars == <<resets, pc, first, stopping, kernel, said, touched, bounds>>

Rules == {"reset", "proxy", "other"}
Calls == {"masq", "append", "forward", "list", "exists", "delete", "insert", "loose",
          "publish"}
Pcs == {"down", "idle", "failed", "applied"} \cup Calls

TypeOK ==
    /\ resets \in BOOLEAN /\ first \in BOOLEAN /\ stopping \in BOOLEAN
    /\ pc \in Pcs
    /\ masq \in BOOLEAN /\ forward \in BOOLEAN /\ loose \in BOOLEAN
    /\ chain \in Seq(Rules) /\ Len(chain) <= 3
    /\ ready \in BOOLEAN /\ present \in BOOLEAN /\ touched \in BOOLEAN
    /\ tampers \in 0..MaxTampers /\ faults \in 0..MaxFaults

(* The first process finds the node as kube-proxy left it.                 *)
Init ==
    /\ resets \in BOOLEAN
    /\ pc = "down" /\ first = TRUE /\ stopping = FALSE
    /\ masq = FALSE /\ forward \in BOOLEAN /\ chain = <<"proxy">> /\ loose = TRUE
    /\ ready = FALSE /\ present = FALSE /\ touched = FALSE
    /\ tampers = 0 /\ faults = 0

-----------------------------------------------------------------------------
(* SetupDataPlane.                                                         *)

FirstIsReset == chain # <<>> /\ Head(chain) = "reset"
Has(rule) == \E i \in DOMAIN chain : chain[i] = rule

(* MasqueradeExists and EnsureMasquerade: look, then append.               *)
Masquerade ==
    /\ pc = "masq"
    /\ pc' = IF masq THEN "forward" ELSE "append"
    /\ UNCHANGED <<resets, first, stopping, kernel, said, touched, bounds>>

Append_ ==
    /\ pc = "append"
    /\ masq' = TRUE /\ pc' = "forward"
    /\ UNCHANGED <<resets, first, stopping, forward, chain, loose, said, touched, bounds>>

EnableIPForward ==
    /\ pc = "forward"
    /\ forward' = TRUE /\ pc' = IF resets THEN "list" ELSE "applied"
    /\ UNCHANGED <<resets, first, stopping, masq, chain, loose, said, touched, bounds>>

(* EnsureStaleFlowReset: is the rule first?  If not, is it anywhere?       *)
List_Anywhere ==
    /\ pc = "list"
    /\ pc' = IF Has("reset") THEN "loose" ELSE "insert"
    /\ UNCHANGED <<resets, first, stopping, kernel, said, touched, bounds>>

List_Renews ==
    /\ pc = "list"
    /\ pc' = "exists"
    /\ UNCHANGED <<resets, first, stopping, kernel, said, touched, bounds>>

List ==
    /\ pc = "list"
    /\ pc' = IF FirstIsReset THEN "loose" ELSE "exists"
    /\ UNCHANGED <<resets, first, stopping, kernel, said, touched, bounds>>

Exists_Unchecked ==
    /\ pc = "exists"
    /\ pc' = "insert"
    /\ UNCHANGED <<resets, first, stopping, kernel, said, touched, bounds>>

Exists ==
    /\ pc = "exists"
    /\ pc' = IF Has("reset") THEN "delete" ELSE "insert"
    /\ UNCHANGED <<resets, first, stopping, kernel, said, touched, bounds>>

(* iptables deletes the first match, and fails without one.                *)
Delete ==
    /\ pc = "delete"
    /\ \E i \in DOMAIN chain :
          /\ chain[i] = "reset" /\ \A j \in 1..(i - 1) : chain[j] # "reset"
          /\ chain' = RemoveAt(chain, i)
    /\ pc' = "insert"
    /\ UNCHANGED <<resets, first, stopping, masq, forward, loose, said, touched, bounds>>

Insert ==
    /\ pc = "insert"
    /\ chain' = <<"reset">> \o chain
    /\ pc' = "loose"
    /\ UNCHANGED <<resets, first, stopping, masq, forward, loose, said, touched, bounds>>

WriteLoose ==
    /\ pc = "loose"
    /\ loose' = FALSE /\ pc' = "applied"
    /\ UNCHANGED <<resets, first, stopping, masq, forward, chain, said, touched, bounds>>

DeleteMissing ==
    /\ pc = "delete" /\ ~Has("reset")
    /\ pc' = "applied"
    /\ UNCHANGED <<resets, first, stopping, kernel, said, touched, bounds>>

(* A failed call.  An error of the stale flow reset is only logged; before *)
(* it an error fails the pass, and after it one leaves the gauge as it was.*)
CallFails ==
    /\ pc \in Calls /\ faults < MaxFaults /\ faults' = faults + 1
    /\ pc' = CASE pc \in {"masq", "append", "forward"} -> "failed"
               [] pc = "publish" -> "idle"
               [] OTHER -> "applied"
    /\ UNCHANGED <<resets, first, stopping, kernel, said, touched, tampers>>

-----------------------------------------------------------------------------
(* Who applies it, and what is said of it.                                 *)

(* The process starts; its registry is new and /readyz says no.            *)
Start ==
    /\ pc = "down"
    /\ pc' = "masq" /\ first' = TRUE /\ touched' = FALSE /\ stopping' = FALSE
    /\ UNCHANGED <<resets, kernel, said, bounds>>

(* A tick of the reconcile loop.  With the context cancelled and a tick    *)
(* due, select may take either.                                            *)
Tick ==
    /\ pc = "idle"
    /\ pc' = "masq" /\ touched' = FALSE
    /\ UNCHANGED <<resets, first, stopping, kernel, said, bounds>>

Applied ==
    /\ pc = "applied"
    /\ ready' = TRUE
    /\ pc' = IF first THEN "idle" ELSE "publish"
    /\ first' = FALSE
    /\ UNCHANGED <<resets, stopping, kernel, present, touched, bounds>>

Down ==
    /\ pc' = "down" /\ first' = TRUE /\ ready' = FALSE /\ present' = FALSE
    /\ stopping' = FALSE /\ touched' = FALSE

(* Without a data plane at startup the process exits; a tick goes on to the*)
(* next one and leaves the gauge as it was.                                *)
Failed_StaysReady ==
    /\ pc = "failed"
    /\ \/ first /\ Down
       \/ ~first /\ pc' = "idle" /\ UNCHANGED <<first, stopping, said, touched>>
    /\ UNCHANGED <<resets, kernel, bounds>>

Failed ==
    /\ pc = "failed"
    /\ \/ first /\ Down
       \/ ~first /\ pc' = "idle" /\ ready' = FALSE
          /\ UNCHANGED <<first, stopping, present, touched>>
    /\ UNCHANGED <<resets, kernel, bounds>>

(* updateMetrics, at the end of a tick.                                    *)
UpdateMetrics ==
    /\ pc = "publish"
    /\ present' = masq /\ pc' = "idle"
    /\ UNCHANGED <<resets, first, stopping, kernel, ready, touched, bounds>>

(* Shutdown says not ready, releases the Leases and exits.                 *)
Shutdown ==
    /\ ~stopping /\ ~first /\ faults < MaxFaults
    /\ stopping' = TRUE /\ ready' = FALSE /\ faults' = faults + 1
    /\ UNCHANGED <<resets, pc, first, kernel, present, touched, tampers>>

Exit ==
    /\ stopping /\ Down
    /\ UNCHANGED <<resets, kernel, bounds>>

Crash ==
    /\ pc # "down" /\ faults < MaxFaults
    /\ faults' = faults + 1 /\ Down
    /\ UNCHANGED <<resets, kernel, tampers>>

(* Another tool puts its rule first, takes it out again, flushes the rules *)
(* or sets a sysctl.                                                       *)
PutFirst(r) ==
    \/ ~Has(r) /\ chain' = <<r>> \o chain
    \/ \E i \in DOMAIN chain : chain[i] = r /\ chain' = <<r>> \o RemoveAt(chain, i)

Tamper ==
    /\ tampers < MaxTampers
    /\ tampers' = tampers + 1 /\ touched' = TRUE
    /\ \/ (\E r \in {"proxy", "other"} : PutFirst(r)) /\ UNCHANGED <<masq, forward, loose>>
       \/ /\ \E i \in DOMAIN chain : chain[i] # "reset" /\ chain' = RemoveAt(chain, i)
          /\ UNCHANGED <<masq, forward, loose>>
       \/ chain' = <<"proxy">> /\ UNCHANGED <<masq, forward, loose>>
       \/ masq' = FALSE /\ UNCHANGED <<forward, chain, loose>>
       \/ forward' = FALSE /\ UNCHANGED <<masq, chain, loose>>
       \/ loose' = TRUE /\ UNCHANGED <<masq, forward, chain>>
    /\ UNCHANGED <<resets, pc, first, stopping, said, faults>>

-----------------------------------------------------------------------------
SetupDataPlane ==
    \/ Masquerade \/ Append_ \/ EnableIPForward
    \/ List \/ Exists \/ Delete \/ DeleteMissing \/ Insert \/ WriteLoose
Loop == SetupDataPlane \/ Tick \/ Applied \/ Failed \/ UpdateMetrics
Next == Loop \/ CallFails \/ Start \/ Shutdown \/ Exit \/ Crash \/ Tamper

Spec == Init /\ [][Next]_vars

(* The goroutine goes on, the container is started again and a process that*)
(* was told to stop exits.                                                 *)
FairSpec ==
    /\ Spec
    /\ WF_vars(Loop) /\ WF_vars(Start) /\ WF_vars(Exit)

-----------------------------------------------------------------------------
(* Properties.                                                             *)

(* Moving the rule to the front again and again, with failures, deaths and *)
(* other tools in between, never leaves it twice (manager.go:104-115).     *)
OneReset ==
    /\ \A i, j \in DOMAIN chain : chain[i] = "reset" /\ chain[j] = "reset" => i = j
    /\ pc = "insert" => ~Has("reset")

(* Loose pickup is turned off only behind a rule that is first, unless     *)
(* another tool interfered while the pass ran (manager.go:94-96).          *)
LooseBehindReset ==
    [][loose /\ ~loose' /\ ~touched => FirstIsReset]_vars

(* Between two passes /readyz answers yes only with masquerading and       *)
(* forwarding in place, unless another tool has interfered since the last  *)
(* pass began: the yes of an earlier pass does not outlive one that fails  *)
(* (agent.go:129-134, 297-302).                                            *)
ReadyIsFunctional ==
    ready /\ ~touched /\ pc \in {"idle", "publish"} => masq /\ forward

(* A node whose data plane is whole keeps it through every later pass, with*)
(* calls that fail, shutdowns, deaths and restarts: a pass rewrites nothing*)
(* that is in place.  Only another tool undoes it, or the Delete of a pass *)
(* during which another tool has moved the rule to the front: the agent saw*)
(* the rule elsewhere and does not look again (manager.go:99-109).         *)
Whole == masq /\ forward /\ (resets => FirstIsReset /\ ~loose)
WholeStays ==
    [][Whole /\ ~Whole' => tampers' # tampers \/ (touched /\ pc = "delete")]_vars

(* However it was interfered with, failed or died in between, a node that  *)
(* is left alone ends up with the whole data plane, and says so            *)
(* (agent.go:284-302).                                                     *)
InPlace == Whole /\ ready /\ present
DataPlaneRestored == <>[]InPlace

(* INVALID packets are answered; they end in kube-proxy's DROP.            *)
Ahead(r, s) == \E i \in DOMAIN chain : chain[i] = r /\ \A j \in 1..i : chain[j] # s
Answered == ~loose /\ Ahead("reset", "proxy")
Dropped == ~loose /\ Ahead("proxy", "reset")

(* A node that answers INVALID packets is not turned to kube-proxy's silent*)
(* DROP by a step of the agent (manager.go:94-96).                         *)
NeverDropped == [][Answered /\ Dropped' => tampers' # tampers]_vars
=============================================================================
