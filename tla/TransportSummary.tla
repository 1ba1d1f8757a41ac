-------------------------- MODULE TransportSummary --------------------------
(***************************************************************************)
(* internal/domain/temperature.go: what the temperature intervals of a     *)
(* transport report add up to, whether the allowed range was exceeded, and *)
(* how severe that is.  Pure operators, and beside them the reference the  *)
(* totals are checked against.                                             *)
(*                                                                         *)
(* Temperatures are whole degrees and times whole minutes; 0 is the zero   *)
(* time of Go, a time the client did not send.                             *)
(***************************************************************************)
EXTENDS Integers, Sequences, SequencesExt, FiniteSetsExt

Temperature == Int

Interval == [start : Nat, end : Nat, min : Temperature, max : Temperature]

Severities == {"none", "minor", "moderate", "severe"}

\* domain.TransportDeviation.  A client can send totals of its own, whatever
\* their sign; of the decisions of later reviews only the number is kept here.
Report ==
    [allowedMin : Temperature, allowedMax : Temperature,
     min : Temperature, max : Temperature,
     intervals : Seq(Interval), note : BOOLEAN,
     low : Int, high : Int, deviation : Int, exposure : Int,
     exceeded : BOOLEAN, severity : Severities, reviews : Nat]

\* The part of a report that says what was measured.
EvidenceFields ==
    {"allowedMin", "allowedMax", "min", "max", "intervals", "note"}

EvidenceOf(t) == [f \in EvidenceFields |-> t[f]]

-----------------------------------------------------------------------------
(* Acceptance *)

ValidRange(t) ==
    t.allowedMin >= -60 /\ t.allowedMax <= 60 /\ t.allowedMin < t.allowedMax

ValidInterval(in) ==
    /\ in.start # 0 /\ in.start < in.end
    /\ in.min >= -60 /\ in.max <= 60 /\ in.min <= in.max

\* The bug of comparing the start of an interval with the start before it.
InOrder_ByStart(ints) ==
    \A i \in 2..Len(ints) : ints[i].start >= ints[i - 1].start

\* Each interval starts where the one before it ended, or later.
InOrder(ints) == \A i \in 2..Len(ints) : ints[i].start >= ints[i - 1].end

Acceptable(t) ==
    /\ ValidRange(t)
    /\ \A i \in DOMAIN t.intervals : ValidInterval(t.intervals[i])
    /\ InOrder(t.intervals)

-----------------------------------------------------------------------------
(* The summary *)

TemperatureExceeded(t) == t.min < t.allowedMin \/ t.max > t.allowedMax

\* The bug of looking at the heat alone.
DeviationSeverity_HighOnly(t) ==
    LET d == t.max - t.allowedMax
    IN  IF ~t.exceeded THEN "none"
        ELSE IF t.low + t.high >= 120 \/ t.exposure >= 180 THEN "severe"
        ELSE IF d > 10 THEN "severe"
        ELSE IF d > 3 THEN "moderate"
        ELSE "minor"

\* By the length of the excess, or else by how far the extremes of the whole
\* report (not those of its intervals) leave the allowed range.
DeviationSeverity(t) ==
    LET d == Max({t.allowedMin - t.min, t.max - t.allowedMax})
    IN  IF ~t.exceeded THEN "none"
        ELSE IF t.low + t.high >= 120 \/ t.exposure >= 180 THEN "severe"
        ELSE IF d > 10 THEN "severe"
        ELSE IF d > 3 THEN "moderate"
        ELSE "minor"

AddInterval(t, in) ==
    LET low  == t.allowedMin - in.min
        high == in.max - t.allowedMax
        minutes == in.end - in.start
    IN  [t EXCEPT !.low  = @ + IF low > 0 THEN minutes ELSE 0,
                  !.high = @ + IF high > 0 THEN minutes ELSE 0,
                  !.deviation = Max({@, low, high}),
                  !.exposure  = @ + (Max({low, 0}) + Max({high, 0})) * minutes]

MaxDeviation(t) == Max({0, t.allowedMin - t.min, t.max - t.allowedMax})

\* The loop over the intervals, in the order they were sent: the report after
\* the first n of them.
Running(t) ==
    LET run[n \in 0..Len(t.intervals)] ==
          IF n = 0 THEN t ELSE AddInterval(run[n - 1], t.intervals[n])
    IN  run

\* Without intervals the extremes of the report give the deviation, and the
\* other totals stay as they came; with them everything is added to what came.
WithTotals(t) ==
    IF t.intervals = <<>>
    THEN [t EXCEPT !.exceeded = TemperatureExceeded(t),
                   !.deviation = MaxDeviation(t)]
    ELSE LET s == Running(t)[Len(t.intervals)]
         IN  [t EXCEPT !.low = s.low, !.high = s.high,
                       !.deviation = s.deviation, !.exposure = s.exposure,
                       !.exceeded = s.low > 0 \/ s.high > 0]

\* SummarizeTransport of an acceptable report.
Summarized(t) ==
    LET s == WithTotals(t) IN [s EXCEPT !.severity = DeviationSeverity(s)]

-----------------------------------------------------------------------------
(* The reference: what the totals mean, by counting what a set of intervals
   covers.  What two of them shared would count once. *)

MinutesOf(in) == in.start .. (in.end - 1)

\* The degrees between the allowed range and the extremes of an interval.
DegreesOutside(t, in) ==
    in.min .. (t.allowedMin - 1) \cup (t.allowedMax + 1) .. in.max

MinutesBelow(t, ints) ==
    UNION {MinutesOf(in) : in \in {i \in ints : i.min < t.allowedMin}}

MinutesAbove(t, ints) ==
    UNION {MinutesOf(in) : in \in {i \in ints : i.max > t.allowedMax}}

\* Every degree outside the range, in every minute of its interval.
DegreeMinutes(t, ints) ==
    UNION {MinutesOf(in) \X DegreesOutside(t, in) : in \in ints}

\* How far the extremes of the intervals are beyond the allowed range.
Excesses(t, ints) ==
    {t.allowedMin - in.min : in \in ints} \cup {in.max - t.allowedMax : in \in ints}

=============================================================================
