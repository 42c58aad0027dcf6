-------------------------- MODULE QuantitiesProofs --------------------------
(* What holds of Quantities for every duration and every counter.          *)
EXTENDS Quantities, TLAPS

(* A Lease of at least 2 s can be renewed before it expires, one of at     *)
(* least 4 s three times, whatever is lost to the whole seconds of         *)
(* LeaseDurationSeconds, and whatever the reconcile interval               *)
(* (config.go:82-96; lease.go:44).                                         *)
THEOREM RenewedInTime ==
    ASSUME NEW lease \in Nat, NEW reconcile \in Nat, lease >= 2000
    PROVE  /\ LeaseRenewInterval(lease, reconcile) < LeaseValidFor(lease)
           /\ lease >= 4000 => 3 * LeaseRenewInterval(lease, reconcile) < LeaseValidFor(lease)
<1> DEFINE quarter == lease \div 4
           seconds == lease \div 1000
<1>1. /\ quarter \in Nat /\ 4 * quarter <= lease
      /\ seconds \in Nat /\ 1000 * seconds <= lease /\ lease < 1000 * seconds + 1000
  OBVIOUS
<1>2. LeaseRenewInterval(lease, reconcile) <= IF quarter < 1000 THEN 1000 ELSE quarter
  BY <1>1 DEF LeaseRenewInterval
<1>3. LeaseRenewInterval(lease, reconcile) \in Nat
  BY <1>1 DEF LeaseRenewInterval
<1>4. LeaseValidFor(lease) = 1000 * seconds
  BY DEF LeaseValidFor
<1> HIDE DEF quarter, seconds
<1> QED
  BY <1>1, <1>2, <1>3, <1>4

(* A Lease below 2 s is not renewed before it expires, for the interval has*)
(* a floor of 1 s and the duration is written in whole seconds, below 1 s  *)
(* as 0 (config.go:88-91; lease.go:44), unless the reconcile interval is   *)
(* shorter still.                                                          *)
THEOREM ShortLeaseExpires ==
    ASSUME NEW lease \in Nat, NEW reconcile \in Nat, lease < 2000, reconcile >= 1000
    PROVE  LeaseRenewInterval(lease, reconcile) >= LeaseValidFor(lease)
BY DEF LeaseRenewInterval, LeaseValidFor

(* A sum that does not run over is what it is in Nat.                      *)
LEMMA SmallMod == ASSUME NEW n \in Nat, n < Modulus PROVE n % Modulus = n
BY ModulusAssumption

(* Busy is the busy ticks, and a difference that is not negative is exact. *)
LEMMA SampleExact ==
    ASSUME NEW s \in Samples, Sum(s) < Modulus
    PROVE  Total(s) = Sum(s) /\ Busy(s) = s.busy /\ Sum(s) \in Nat /\ s.busy \in Nat /\ s.busy <= Sum(s)
<1>1. s.busy \in Nat /\ s.idle \in Nat /\ s.iowait \in Nat
  BY DEF Samples
<1>2. Sum(s) \in Nat /\ s.busy <= Sum(s) /\ Sum(s) - s.idle - s.iowait = s.busy
  BY <1>1 DEF Sum
<1>3. Total(s) = Sum(s)
  BY <1>2, SmallMod DEF Total
<1>4. s.busy < Modulus
  BY <1>1, <1>2, ModulusAssumption
<1>5. Busy(s) = s.busy
  BY <1>1, <1>2, <1>3, <1>4, SmallMod DEF Busy
<1> QED
  BY <1>1, <1>2, <1>3, <1>5

LEMMA DeltasExact ==
    ASSUME NEW prev \in Samples, NEW cur \in Samples,
           Sum(prev) < Modulus, Sum(cur) < Modulus,
           Sum(prev) <= Sum(cur), prev.busy <= cur.busy
    PROVE  /\ TotalDelta(prev, cur) = Sum(cur) - Sum(prev)
           /\ BusyDelta(prev, cur) = cur.busy - prev.busy
<1>1. /\ Total(cur) = Sum(cur) /\ Busy(cur) = cur.busy /\ Sum(cur) \in Nat /\ cur.busy \in Nat
      /\ cur.busy <= Sum(cur)
  BY SampleExact
<1>2. /\ Total(prev) = Sum(prev) /\ Busy(prev) = prev.busy /\ Sum(prev) \in Nat /\ prev.busy \in Nat
  BY SampleExact
<1>3. /\ Sum(cur) - Sum(prev) \in Nat /\ Sum(cur) - Sum(prev) < Modulus
      /\ cur.busy - prev.busy \in Nat /\ cur.busy - prev.busy < Modulus
  BY <1>1, <1>2, ModulusAssumption
<1>4. TotalDelta(prev, cur) = Sum(cur) - Sum(prev)
  BY <1>1, <1>2, <1>3, SmallMod DEF TotalDelta
<1>5. BusyDelta(prev, cur) = cur.busy - prev.busy
  BY <1>1, <1>2, <1>3, SmallMod DEF BusyDelta
<1> QED
  BY <1>4, <1>5

(* While no counter of /proc/stat goes back, CPURatio is within 0 and 1    *)
(* (sysinfo.go:25-47).                                                     *)
THEOREM RatioBounded ==
    ASSUME NEW prev \in Samples, NEW cur \in Samples,
           Sum(prev) < Modulus, Sum(cur) < Modulus, Follows(prev, cur)
    PROVE  LET ratio == CPURatio(prev, cur)
           IN 0 <= ratio.num /\ ratio.num <= ratio.den /\ 0 < ratio.den
<1>1. /\ prev.busy \in Nat /\ prev.idle \in Nat /\ prev.iowait \in Nat
      /\ cur.busy \in Nat /\ cur.idle \in Nat /\ cur.iowait \in Nat
  BY DEF Samples
<1>2. /\ Sum(prev) \in Nat /\ Sum(cur) \in Nat
      /\ Sum(prev) <= Sum(cur) /\ cur.busy - prev.busy <= Sum(cur) - Sum(prev)
  BY <1>1 DEF Sum, Follows
<1>3. prev.busy <= cur.busy
  BY DEF Follows
<1>4. /\ TotalDelta(prev, cur) = Sum(cur) - Sum(prev)
      /\ BusyDelta(prev, cur) = cur.busy - prev.busy
  BY <1>2, <1>3, DeltasExact
<1> QED
  BY <1>1, <1>2, <1>3, <1>4 DEF CPURatio

(* The kernel lets iowait go back.  When idle and iowait together do while *)
(* ticks pass, more ticks are busy than passed, and CPURatio exceeds 1:    *)
(* its guards look only at differences below 0, which unsigned ones never  *)
(* are (sysinfo.go:39-47).                                                 *)
THEOREM RatioExceedsOne ==
    ASSUME NEW prev \in Samples, NEW cur \in Samples,
           Sum(prev) < Modulus, Sum(cur) < Modulus, Sum(prev) < Sum(cur),
           cur.idle + cur.iowait < prev.idle + prev.iowait
    PROVE  LET ratio == CPURatio(prev, cur) IN ratio.num > ratio.den /\ ratio.den > 0
<1>1. /\ prev.busy \in Nat /\ prev.idle \in Nat /\ prev.iowait \in Nat
      /\ cur.busy \in Nat /\ cur.idle \in Nat /\ cur.iowait \in Nat
  BY DEF Samples
<1>2. /\ Sum(prev) \in Nat /\ Sum(cur) \in Nat
      /\ prev.busy <= cur.busy /\ cur.busy - prev.busy > Sum(cur) - Sum(prev)
  BY <1>1 DEF Sum
<1>3. Sum(prev) <= Sum(cur)
  BY <1>2
<1>4. /\ TotalDelta(prev, cur) = Sum(cur) - Sum(prev)
      /\ BusyDelta(prev, cur) = cur.busy - prev.busy
  BY <1>2, <1>3, DeltasExact
<1> QED
  BY <1>1, <1>2, <1>4 DEF CPURatio
=============================================================================
