------------------------ MODULE AccessPeriodsProofs ------------------------
(***************************************************************************)
(* What the arithmetic of AccessPeriods means in moments.                  *)
(***************************************************************************)
EXTENDS AccessPeriods, TLAPS

(* Two nonempty intervals overlap exactly when they share a moment: an     *)
(* interval that ends when the other starts does not overlap it            *)
(* (overlaps).                                                             *)
THEOREM OverlapsMeansSharedMoment ==
  ASSUME NEW a \in Interval, NEW b \in Interval, Nonempty(a), Nonempty(b)
  PROVE  Overlaps(a, b) <=> Moments(a) \cap Moments(b) # {}
<1>. /\ a.start \in Nat /\ a.end \in Nat
     /\ b.start \in Nat /\ b.end \in Nat
  BY DEF Interval, Time
<1>1. ASSUME Overlaps(a, b) PROVE Moments(a) \cap Moments(b) # {}
  <2>. DEFINE first == IF a.start < b.start THEN b.start ELSE a.start
  <2>1. first \in Moments(a) /\ first \in Moments(b)
    BY <1>1 DEF Overlaps, Moments, Nonempty, Time
  <2>. QED
    BY <2>1
<1>2. ASSUME NEW t \in Moments(a) \cap Moments(b) PROVE Overlaps(a, b)
  BY <1>2 DEF Overlaps, Moments, Time
<1>. QED
  BY <1>1, <1>2

(* Approving a request grants the moments of the period it asks for that   *)
(* are still to come: none of them is lost, and none is added              *)
(* (effectiveInterval).                                                    *)
THEOREM ApprovalGrantsWhatRemains ==
  ASSUME NEW period \in ScheduledPeriod, NEW at \in Time,
         AccessRemains(period, at)
  PROVE  Moments(EffectiveInterval(period, at))
           = {t \in Moments(RequestedInterval(period, at)) : at <= t}
  BY DEF ScheduledPeriod, Time, Moments, EffectiveInterval,
         RequestedInterval, AccessRemains

(* A grant never lasts longer than the period its request asked for.       *)
THEOREM GrantedNeverLonger ==
  ASSUME NEW period \in Period, NEW at \in Time, NEW asked \in Time,
         NEW maximum \in Nat,
         ~LongerThan(RequestedInterval(period, asked), maximum)
  PROVE  ~LongerThan(GrantedInterval(period, at), maximum)
  BY DEF Period, ImmediatePeriod, ScheduledPeriod, Time, LongerThan,
         RequestedInterval, EffectiveInterval, GrantedInterval, AccessRemains

(* A request for a nonempty period never leads to an empty grant, which    *)
(* the grant's creation would refuse with an Error (create).               *)
THEOREM GrantedNonempty ==
  ASSUME NEW period \in Period, NEW at \in Time, NEW asked \in Time,
         Nonempty(RequestedInterval(period, asked))
  PROVE  Nonempty(GrantedInterval(period, at))
  BY DEF Period, ImmediatePeriod, ScheduledPeriod, Time, Nonempty,
         RequestedInterval, EffectiveInterval, GrantedInterval, AccessRemains
=============================================================================
