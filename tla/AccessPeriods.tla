--------------------------- MODULE AccessPeriods ---------------------------
(***************************************************************************)
(* Points in time, half-open intervals and the period a request asks for   *)
(* (time/interval.ts, access/access-period.ts).                            *)
(*                                                                         *)
(* The code compares and adds 64-bit seconds and nanoseconds as one        *)
(* unbounded bigint, so a point in time and a duration are natural         *)
(* numbers here and no width is lost.                                      *)
(***************************************************************************)
EXTENDS Integers

Time == Nat

Interval == [start : Time, end : Time]

(* An immediate period names only how long the access lasts. *)
ImmediatePeriod == [kind : {"immediate"}, duration : Nat]

(* A scheduled period names its interval. *)
ScheduledPeriod == [kind : {"scheduled"}, start : Time, end : Time]

Period == ImmediatePeriod \cup ScheduledPeriod

Nonempty(i) == i.start < i.end

(* The moments of a half-open interval. *)
Moments(i) == {t \in Time : i.start <= t /\ t < i.end}

Overlaps(a, b) == a.start < b.end /\ b.start < a.end

LongerThan(i, maximum) == i.end - i.start > maximum

(* The span a request asks for, as known at the time "at". *)
RequestedInterval(period, at) ==
  IF period.kind = "immediate"
  THEN [start |-> at, end |-> at + period.duration]
  ELSE [start |-> period.start, end |-> period.end]

(* Only a scheduled period can be over before it is approved. *)
AccessRemains(period, at) ==
  period.kind = "scheduled" => at < period.end

(* The span a request grants when it is approved at "at" and access remains. *)
EffectiveInterval(period, at) ==
  IF period.kind = "scheduled" /\ at > period.start
  THEN [start |-> at, end |-> period.end]
  ELSE RequestedInterval(period, at)

(* A variant for mutation runs: a late approval finds no interval. *)
NoLateInterval(period, at) ==
  IF AccessRemains(period, at)
  THEN EffectiveInterval(period, at)
  ELSE [start |-> -1, end |-> -1]

(* The span of the grant an approval creates: a scheduled request approved *)
(* too late keeps its interval, and so never gives access.                 *)
GrantedInterval(period, at) ==
  IF AccessRemains(period, at)
  THEN EffectiveInterval(period, at)
  ELSE RequestedInterval(period, at)
=============================================================================
