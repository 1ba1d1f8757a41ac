----------------------- MODULE TransportSummaryProofs -----------------------
(***************************************************************************)
(* Proofs about the operators of TransportSummary, for reports with any    *)
(* number of intervals: the intervals of an acceptable report are apart,   *)
(* and what the loop over them adds up is what the reference counts.       *)
(***************************************************************************)
EXTENDS TransportSummary, LeastElements

-----------------------------------------------------------------------------
(* Greatest numbers *)

\* Max of a finite set is its greatest element.
LEMMA MaxIsGreatest ==
    ASSUME NEW S \in SUBSET Int, IsFiniteSet(S), S # {}
    PROVE  /\ Max(S) \in S
           /\ \A y \in S : Max(S) >= y
BY GreatestInteger DEF Max

\* Max of two numbers.
LEMMA MaxOfTwo ==
    ASSUME NEW a \in Int, NEW b \in Int
    PROVE  Max({a, b}) = IF a >= b THEN a ELSE b
<1>1. IsFiniteSet({a, b})
  <2>1. {a, b} = {a} \cup {b} /\ IsFiniteSet({a})
    BY FS_Singleton
  <2> QED BY <2>1, FS_AddElement
<1>2. Max({a, b}) \in {a, b} /\ \A y \in {a, b} : Max({a, b}) >= y
  <2> DEFINE S == {a, b}
  <2>1. S \in SUBSET Int /\ S # {} /\ IsFiniteSet(S)
    BY <1>1
  <2> HIDE DEF S
  <2>2. Max(S) \in S /\ \A y \in S : Max(S) >= y
    BY <2>1, MaxIsGreatest
  <2> QED BY <2>2 DEF S
<1> QED BY <1>2

\* Max of three numbers.
LEMMA MaxOfThree ==
    ASSUME NEW a \in Int, NEW b \in Int, NEW c \in Int
    PROVE  /\ Max({a, b, c}) \in {a, b, c}
           /\ Max({a, b, c}) >= a
           /\ Max({a, b, c}) >= b
           /\ Max({a, b, c}) >= c
<1> DEFINE S == {a, b, c}
<1>1. IsFiniteSet(S)
  <2>1. S = ({a} \cup {b}) \cup {c} /\ IsFiniteSet({a})
    BY FS_Singleton
  <2>2. IsFiniteSet({a} \cup {b})
    BY <2>1, FS_AddElement
  <2> QED BY <2>1, <2>2, FS_AddElement
<1>2. S \in SUBSET Int /\ S # {} /\ a \in S /\ b \in S /\ c \in S
  OBVIOUS
<1> HIDE DEF S
<1>3. Max(S) \in S /\ \A y \in S : Max(S) >= y
  BY <1>1, <1>2, MaxIsGreatest
<1> QED BY <1>2, <1>3 DEF S

-----------------------------------------------------------------------------
(* One interval *)

\* How far an interval goes below the allowed range, and above it.
Below(t, in) == IF in.min < t.allowedMin THEN t.allowedMin - in.min ELSE 0

Above(t, in) == IF in.max > t.allowedMax THEN in.max - t.allowedMax ELSE 0

\* What AddInterval adds to which total.
LEMMA AddIntervalAdds ==
    ASSUME NEW t \in Report, NEW in \in Interval, in.start < in.end,
           NEW s, s = AddInterval(t, in)
    PROVE  /\ s \in Report
           /\ \A f \in EvidenceFields \cup {"exceeded", "severity", "reviews"} :
                 s[f] = t[f]
           /\ s.low = t.low
                + IF in.min < t.allowedMin THEN in.end - in.start ELSE 0
           /\ s.high = t.high
                + IF in.max > t.allowedMax THEN in.end - in.start ELSE 0
           /\ s.exposure = t.exposure
                + (in.end - in.start) * (Below(t, in) + Above(t, in))
           /\ s.deviation \in {t.deviation, t.allowedMin - in.min,
                               in.max - t.allowedMax}
           /\ s.deviation >= t.deviation
           /\ s.deviation >= t.allowedMin - in.min
           /\ s.deviation >= in.max - t.allowedMax
<1> DEFINE minutes == in.end - in.start
           d == Max({t.deviation, t.allowedMin - in.min, in.max - t.allowedMax})
<1>1. /\ in.start \in Nat /\ in.end \in Nat /\ in.min \in Int /\ in.max \in Int
      /\ t.allowedMin \in Int /\ t.allowedMax \in Int
      /\ t.low \in Int /\ t.high \in Int /\ t.deviation \in Int
      /\ t.exposure \in Int
  BY DEF Interval, Report, Temperature
<1>2. minutes \in Nat /\ minutes > 0
  BY <1>1
<1>3. Below(t, in) \in Nat /\ Above(t, in) \in Nat
  BY <1>1 DEF Below, Above
<1>4. /\ Max({t.allowedMin - in.min, 0}) = Below(t, in)
      /\ Max({in.max - t.allowedMax, 0}) = Above(t, in)
  BY <1>1, MaxOfTwo DEF Below, Above
<1>5. /\ d \in Int
      /\ d \in {t.deviation, t.allowedMin - in.min, in.max - t.allowedMax}
      /\ d >= t.deviation /\ d >= t.allowedMin - in.min
      /\ d >= in.max - t.allowedMax
  <2>1. t.allowedMin - in.min \in Int /\ in.max - t.allowedMax \in Int
    BY <1>1
  <2>2. /\ d \in {t.deviation, t.allowedMin - in.min, in.max - t.allowedMax}
        /\ d >= t.deviation /\ d >= t.allowedMin - in.min
        /\ d >= in.max - t.allowedMax
    BY <1>1, <2>1, MaxOfThree
  <2> QED BY <1>1, <2>1, <2>2
<1>6. (Below(t, in) + Above(t, in)) * minutes \in Nat
  <2>1. \A x, y \in Nat : x * y \in Nat
    OBVIOUS
  <2>2. Below(t, in) + Above(t, in) \in Nat
    BY <1>3
  <2> HIDE DEF minutes
  <2> QED BY <1>2, <2>1, <2>2
<1> DEFINE over == t.allowedMin - in.min > 0
           under == in.max - t.allowedMax > 0
<1>7. s = [t EXCEPT !.low = t.low + IF over THEN minutes ELSE 0,
                    !.high = t.high + IF under THEN minutes ELSE 0,
                    !.deviation = d,
                    !.exposure = t.exposure
                                   + (Below(t, in) + Above(t, in)) * minutes]
  BY <1>4 DEF AddInterval
<1>8. (over <=> in.min < t.allowedMin) /\ (under <=> in.max > t.allowedMax)
  BY <1>1
<1> DEFINE e == (Below(t, in) + Above(t, in)) * minutes
<1>9. e = minutes * (Below(t, in) + Above(t, in))
  <2>1. \A x, y \in Nat : x * y = y * x
    OBVIOUS
  <2>2. Below(t, in) + Above(t, in) \in Nat
    BY <1>3
  <2> HIDE DEF minutes
  <2> QED BY <1>2, <2>1, <2>2
<1>10. e \in Nat
  BY <1>6
<1> DEFINE low == t.low + IF over THEN minutes ELSE 0
           high == t.high + IF under THEN minutes ELSE 0
           exposure == t.exposure + e
<1>11. low \in Int /\ high \in Int /\ exposure \in Int
  <2> HIDE DEF minutes, e, over, under
  <2> QED BY <1>1, <1>2, <1>10
<1>12. s = [t EXCEPT !.low = low, !.high = high, !.deviation = d,
                     !.exposure = exposure]
  <2> HIDE DEF minutes, d, over, under
  <2> QED BY <1>7
<1>13. /\ s \in Report
       /\ \A f \in EvidenceFields \cup {"exceeded", "severity", "reviews"} :
             s[f] = t[f]
       /\ s.low = low /\ s.high = high
       /\ s.deviation = d /\ s.exposure = exposure
  <2> HIDE DEF low, high, exposure, d
  <2> QED BY <1>5, <1>11, <1>12 DEF Report, EvidenceFields
<1> HIDE DEF d, e, over, under
<1> QED BY <1>5, <1>8, <1>9, <1>13

-----------------------------------------------------------------------------
(* The loop *)

\* The loop is defined: it begins with the report and takes one interval after
\* the other.
LEMMA RunningSteps ==
    ASSUME NEW t, t.intervals \in Seq(Interval)
    PROVE  Running(t) =
             [n \in 0..Len(t.intervals) |->
                IF n = 0 THEN t
                ELSE AddInterval(Running(t)[n - 1], t.intervals[n])]
<1> DEFINE Step(g, n) == IF n = 0 THEN t
                         ELSE AddInterval(g[n - 1], t.intervals[n])
           Has(k) == \E g : g = [n \in 0..k |-> Step(g, n)]
           length == Len(t.intervals)
           T == {k \in 0..length : ~Has(k)}
<1>1. length \in Nat
  OBVIOUS
<1>2. Has(length)
  <2>1. SUFFICES ASSUME ~Has(length) PROVE FALSE
    OBVIOUS
  <2>2. T \in SUBSET Nat /\ T # {}
    <3> HIDE DEF Has, length
    <3> QED BY <1>1, <2>1
  <2>3. PICK k \in T : \A j \in T : k <= j
    <3> HIDE DEF T
    <3> QED BY <2>2, LeastNatural
  <2>4. k \in 0..length /\ ~Has(k)
    BY <2>3
  <2>5. CASE k = 0
    <3> DEFINE g == [n \in 0..0 |-> t]
    <3>1. g = [n \in 0..0 |-> Step(g, n)]
      OBVIOUS
    <3>2. Has(0)
      <4> HIDE DEF g, Step
      <4> QED BY <3>1
    <3> QED BY <2>4, <2>5, <3>2
  <2>6. CASE k # 0
    <3>1. k - 1 \in 0..length
      <4> HIDE DEF length
      <4> QED BY <1>1, <2>4, <2>6
    <3>2. Has(k - 1)
      <4> HIDE DEF Has, length
      <4> QED BY <2>3, <3>1
    <3>3. PICK g : g = [n \in 0..(k - 1) |-> Step(g, n)]
      <4> HIDE DEF Step
      <4> QED BY <3>2
    <3> DEFINE h == [n \in 0..k |-> IF n = k THEN Step(g, k) ELSE g[n]]
    <3>4. k \in Nat \ {0}
      <4> HIDE DEF length
      <4> QED BY <1>1, <2>4, <2>6
    <3>5. \A n \in 0..k : Step(h, n) = Step(g, n)
      <4>1. \A n \in 0..k : n # 0 => h[n - 1] = g[n - 1]
        <5> HIDE DEF Step
        <5> QED BY <3>4
      <4> HIDE DEF h
      <4> QED BY <4>1
    <3>6. \A n \in 0..k : h[n] = Step(g, n)
      <4> HIDE DEF Step
      <4>1. \A n \in 0..k : n = k \/ n \in 0..(k - 1)
        BY <3>4
      <4>2. \A n \in 0..(k - 1) : g[n] = Step(g, n)
        BY <3>3, Zenon
      <4> QED BY <4>1, <4>2
    <3>7. h = [n \in 0..k |-> Step(h, n)]
      <4>1. \A n \in 0..k : h[n] = Step(h, n)
        <5> HIDE DEF Step, h
        <5> QED BY <3>5, <3>6
      <4>2. h = [n \in 0..k |-> h[n]]
        OBVIOUS
      <4> HIDE DEF Step, h
      <4> QED BY <4>1, <4>2
    <3>8. Has(k)
      <4> HIDE DEF h, Step
      <4> QED BY <3>7
    <3> QED BY <2>4, <3>8
  <2> QED BY <2>5, <2>6
<1>3. Running(t) = CHOOSE g : g = [n \in 0..length |-> Step(g, n)]
  BY DEF Running
<1> HIDE DEF length, Step
<1>4. Running(t) = [n \in 0..length |-> Step(Running(t), n)]
  BY <1>2, <1>3, Zenon
<1> QED BY <1>4, Zenon DEF length, Step

-----------------------------------------------------------------------------
(* Intervals that are apart *)

\* An interval of an acceptable report ends before every later one starts,
\* although each is compared with the one before it only.
LEMMA IntervalsApart ==
    ASSUME NEW t \in Report, Acceptable(t),
           NEW i \in DOMAIN t.intervals, NEW j \in DOMAIN t.intervals, i < j
    PROVE  t.intervals[i].end <= t.intervals[j].start
<1> DEFINE ints == t.intervals
           T == {k \in DOMAIN ints : i < k /\ ~ (ints[i].end <= ints[k].start)}
<1>1. ints \in Seq(Interval)
  BY DEF Report
<1>2. \A k \in DOMAIN ints :
         /\ k \in 1..Len(ints)
         /\ ints[k].start \in Nat /\ ints[k].end \in Nat
         /\ ints[k].start < ints[k].end
         /\ k # 1 => ints[k].start >= ints[k - 1].end
  <2>1. \A k \in DOMAIN ints : k \in 1..Len(ints) /\ ints[k] \in Interval
    BY <1>1
  <2> QED BY <2>1 DEF Acceptable, ValidInterval, InOrder, Interval
<1> HIDE DEF ints
<1>3. SUFFICES ASSUME T # {} PROVE FALSE
  BY DEF ints
<1>4. T \in SUBSET Nat
  BY <1>2
<1>5. PICK k \in T : \A l \in T : k <= l
  <2> HIDE DEF T
  <2> QED BY <1>3, <1>4, LeastNatural
<1>6. k \in DOMAIN ints /\ i < k /\ ~ (ints[i].end <= ints[k].start)
  BY <1>5
<1>7. i \in DOMAIN ints /\ i \in Nat /\ k \in Nat
  BY <1>2, <1>6 DEF ints
<1>8. k - 1 # i
  BY <1>2, <1>6, <1>7
<1>9. k - 1 \in DOMAIN ints /\ i < k - 1
  BY <1>1, <1>2, <1>6, <1>7, <1>8
<1>10. ints[i].end <= ints[k - 1].start
  BY <1>5, <1>7, <1>9
<1> QED BY <1>2, <1>6, <1>7, <1>9, <1>10

-----------------------------------------------------------------------------
(* What one more interval adds to the counted sets *)

\* Sets that are apart count together what they count each.
LEMMA CountApart ==
    ASSUME NEW S, IsFiniteSet(S), NEW T, IsFiniteSet(T), S \cap T = {}
    PROVE  /\ IsFiniteSet(S \cup T)
           /\ Cardinality(S \cup T) = Cardinality(S) + Cardinality(T)
<1>1. Cardinality(S \cap T) = 0
  BY FS_EmptySet
<1>2. Cardinality(S) \in Nat /\ Cardinality(T) \in Nat
  BY FS_CardinalityType
<1>3. /\ IsFiniteSet(S \cup T)
      /\ Cardinality(S \cup T)
           = Cardinality(S) + Cardinality(T) - Cardinality(S \cap T)
  BY FS_Union, Zenon
<1> QED BY <1>1, <1>2, <1>3

\* An interval has as many minutes as lie between its ends.
LEMMA CountMinutes ==
    ASSUME NEW in \in Interval, in.start < in.end
    PROVE  /\ IsFiniteSet(MinutesOf(in))
           /\ Cardinality(MinutesOf(in)) = in.end - in.start
<1>1. in.start \in Int /\ in.end - 1 \in Int /\ in.end \in Int
  BY DEF Interval
<1> DEFINE last == in.end - 1
<1>2. /\ IsFiniteSet(in.start .. last)
      /\ Cardinality(in.start .. last)
           = IF in.start > last THEN 0 ELSE last - in.start + 1
  <2> HIDE DEF last
  <2> QED BY <1>1, FS_Interval DEF last
<1> QED BY <1>1, <1>2 DEF MinutesOf

\* The degrees of an interval outside the allowed range are those below it and
\* those above it.
LEMMA CountDegrees ==
    ASSUME NEW t \in Report, t.allowedMin < t.allowedMax, NEW in \in Interval
    PROVE  /\ IsFiniteSet(DegreesOutside(t, in))
           /\ Cardinality(DegreesOutside(t, in)) = Below(t, in) + Above(t, in)
<1> DEFINE S == in.min .. (t.allowedMin - 1)
           T == (t.allowedMax + 1) .. in.max
<1>1. /\ in.min \in Int /\ in.max \in Int
      /\ t.allowedMin \in Int /\ t.allowedMax \in Int
  BY DEF Interval, Report, Temperature
<1>2. IsFiniteSet(S) /\ Cardinality(S) = Below(t, in)
  BY <1>1, FS_Interval DEF Below
<1>3. IsFiniteSet(T) /\ Cardinality(T) = Above(t, in)
  BY <1>1, FS_Interval DEF Above
<1>4. S \cap T = {}
  BY <1>1
<1>5. DegreesOutside(t, in) = S \cup T
  BY DEF DegreesOutside
<1> HIDE DEF S, T
<1> QED BY <1>2, <1>3, <1>4, <1>5, CountApart

\* The sums of a report are those of t and of what the set of intervals counts.
Counts(s, t, ints) ==
    /\ IsFiniteSet(MinutesBelow(t, ints))
    /\ IsFiniteSet(MinutesAbove(t, ints))
    /\ IsFiniteSet(DegreeMinutes(t, ints))
    /\ s.low = t.low + Cardinality(MinutesBelow(t, ints))
    /\ s.high = t.high + Cardinality(MinutesAbove(t, ints))
    /\ s.exposure = t.exposure + Cardinality(DegreeMinutes(t, ints))

\* The deviation of a report is the greatest of that of t and of the excesses.
Deviates(s, t, ints) ==
    /\ s.deviation >= t.deviation
    /\ \A x \in Excesses(t, ints) : s.deviation >= x
    /\ s.deviation \in {t.deviation} \cup Excesses(t, ints)

\* An interval later than all others counts in full.
LEMMA OneMoreCounts ==
    ASSUME NEW t \in Report, t.allowedMin < t.allowedMax,
           NEW ints \in SUBSET Interval,
           NEW in \in Interval, in.start < in.end,
           \A i \in ints : i.end <= in.start,
           NEW r \in Report, Counts(r, t, ints),
           r.allowedMin = t.allowedMin, r.allowedMax = t.allowedMax,
           NEW s, s = AddInterval(r, in)
    PROVE  Counts(s, t, ints \cup {in})
<1> DEFINE minutes == MinutesOf(in)
           degrees == DegreesOutside(t, in)
           low  == IF in.min < t.allowedMin THEN minutes ELSE {}
           high == IF in.max > t.allowedMax THEN minutes ELSE {}
           all == ints \cup {in}
<1>1. /\ IsFiniteSet(minutes) /\ Cardinality(minutes) = in.end - in.start
      /\ IsFiniteSet(degrees)
      /\ Cardinality(degrees) = Below(t, in) + Above(t, in)
  BY CountMinutes, CountDegrees
<1>2. \A i \in ints : MinutesOf(i) \cap minutes = {}
  BY DEF MinutesOf, Interval
<1>3. /\ MinutesBelow(t, all) = MinutesBelow(t, ints) \cup low
      /\ MinutesBelow(t, ints) \cap low = {}
  <2> HIDE DEF minutes
  <2> QED BY <1>2 DEF MinutesBelow, minutes
<1>4. /\ MinutesAbove(t, all) = MinutesAbove(t, ints) \cup high
      /\ MinutesAbove(t, ints) \cap high = {}
  BY <1>2 DEF MinutesAbove
<1>5. /\ DegreeMinutes(t, all) = DegreeMinutes(t, ints) \cup (minutes \X degrees)
      /\ DegreeMinutes(t, ints) \cap (minutes \X degrees) = {}
  <2> HIDE DEF degrees
  <2> QED BY <1>2 DEF DegreeMinutes, degrees
<1>6. /\ IsFiniteSet(low) /\ IsFiniteSet(high)
      /\ Cardinality(low) = IF in.min < t.allowedMin THEN in.end - in.start ELSE 0
      /\ Cardinality(high) = IF in.max > t.allowedMax THEN in.end - in.start ELSE 0
  BY <1>1, FS_EmptySet
<1>7. /\ IsFiniteSet(minutes \X degrees)
      /\ Cardinality(minutes \X degrees)
           = (in.end - in.start) * (Below(t, in) + Above(t, in))
  <2> HIDE DEF minutes, degrees
  <2> QED BY <1>1, FS_Product
<1>8. /\ IsFiniteSet(MinutesBelow(t, all))
      /\ Cardinality(MinutesBelow(t, all))
           = Cardinality(MinutesBelow(t, ints)) + Cardinality(low)
  <2> HIDE DEF low, all
  <2> QED BY <1>3, <1>6, CountApart DEF Counts
<1>9. /\ IsFiniteSet(MinutesAbove(t, all))
      /\ Cardinality(MinutesAbove(t, all))
           = Cardinality(MinutesAbove(t, ints)) + Cardinality(high)
  <2> HIDE DEF high, all
  <2> QED BY <1>4, <1>6, CountApart DEF Counts
<1>10. /\ IsFiniteSet(DegreeMinutes(t, all))
       /\ Cardinality(DegreeMinutes(t, all))
            = Cardinality(DegreeMinutes(t, ints)) + Cardinality(minutes \X degrees)
  <2> HIDE DEF minutes, degrees, all
  <2> QED BY <1>5, <1>7, CountApart DEF Counts
<1>11. /\ s.low = r.low + Cardinality(low)
       /\ s.high = r.high + Cardinality(high)
       /\ s.exposure = r.exposure + Cardinality(minutes \X degrees)
  <2>1. Below(r, in) = Below(t, in) /\ Above(r, in) = Above(t, in)
    BY DEF Below, Above
  <2>2. /\ s.low = r.low + IF in.min < t.allowedMin THEN in.end - in.start ELSE 0
        /\ s.high = r.high + IF in.max > t.allowedMax THEN in.end - in.start ELSE 0
        /\ s.exposure = r.exposure
             + (in.end - in.start) * (Below(t, in) + Above(t, in))
    BY <2>1, AddIntervalAdds
  <2> HIDE DEF minutes, degrees, low, high
  <2> QED BY <1>6, <1>7, <2>2
<1>12. /\ t.low \in Int /\ t.high \in Int /\ t.exposure \in Int
       /\ \A S : IsFiniteSet(S) => Cardinality(S) \in Nat
  BY FS_CardinalityType DEF Report
<1> HIDE DEF minutes, degrees, low, high, all
<1>13. /\ s.low = t.low + Cardinality(MinutesBelow(t, all))
       /\ s.high = t.high + Cardinality(MinutesAbove(t, all))
  BY <1>6, <1>8, <1>9, <1>11, <1>12 DEF Counts
<1>14. s.exposure = t.exposure + Cardinality(DegreeMinutes(t, all))
  <2>1. Cardinality(minutes \X degrees) \in Nat
    BY <1>7, <1>12
  <2>2. Cardinality(DegreeMinutes(t, ints)) \in Nat
    BY <1>12 DEF Counts
  <2> QED BY <1>10, <1>11, <1>12, <2>1, <2>2 DEF Counts
<1>15. Counts(s, t, all)
  BY <1>8, <1>9, <1>10, <1>13, <1>14 DEF Counts
<1> QED BY <1>15 DEF all

\* The deviation takes in one more interval.
LEMMA OneMoreDeviates ==
    ASSUME NEW t \in Report, NEW ints \in SUBSET Interval,
           NEW in \in Interval, in.start < in.end,
           NEW r \in Report, Deviates(r, t, ints),
           r.allowedMin = t.allowedMin, r.allowedMax = t.allowedMax,
           NEW s, s = AddInterval(r, in)
    PROVE  Deviates(s, t, ints \cup {in})
<1> DEFINE low == t.allowedMin - in.min
           high == in.max - t.allowedMax
<1>1. /\ s.deviation \in {r.deviation, low, high}
      /\ s.deviation >= r.deviation
      /\ s.deviation >= low /\ s.deviation >= high
      /\ s \in Report
  BY AddIntervalAdds
<1>2. s.deviation \in Int /\ r.deviation \in Int /\ t.deviation \in Int
  BY <1>1 DEF Report
<1>3. Excesses(t, ints \cup {in}) = Excesses(t, ints) \cup {low, high}
  BY DEF Excesses
<1>4. \A x \in Excesses(t, ints) : x \in Int
  <2>1. /\ t.allowedMin \in Int /\ t.allowedMax \in Int
        /\ \A i \in ints : i.min \in Int /\ i.max \in Int
    BY DEF Report, Interval, Temperature
  <2> QED BY <2>1 DEF Excesses
<1> HIDE DEF low, high
<1>5. s.deviation >= t.deviation
  BY <1>1, <1>2 DEF Deviates
<1>6. \A x \in Excesses(t, ints) : s.deviation >= x
  BY <1>1, <1>2, <1>4 DEF Deviates
<1> QED BY <1>1, <1>3, <1>5, <1>6 DEF Deviates

-----------------------------------------------------------------------------
(* The loop, to its end *)

\* The first n intervals of a report.
First(t, n) == {t.intervals[i] : i \in 1..n}

\* After n rounds the loop has counted the first n intervals, and nothing of
\* what was measured has changed.
LEMMA LoopCounts ==
    ASSUME NEW t \in Report, Acceptable(t), NEW n \in 0..Len(t.intervals)
    PROVE  /\ Running(t)[n] \in Report
           /\ \A f \in EvidenceFields \cup {"exceeded", "severity", "reviews"} :
                 Running(t)[n][f] = t[f]
           /\ Counts(Running(t)[n], t, First(t, n))
           /\ Deviates(Running(t)[n], t, First(t, n))
<1> DEFINE length == Len(t.intervals)
           Holds(k) ==
             /\ Running(t)[k] \in Report
             /\ \A f \in EvidenceFields \cup {"exceeded", "severity", "reviews"} :
                   Running(t)[k][f] = t[f]
             /\ Counts(Running(t)[k], t, First(t, k))
             /\ Deviates(Running(t)[k], t, First(t, k))
           T == {k \in 0..length : ~Holds(k)}
<1>1. t.intervals \in Seq(Interval) /\ length \in Nat
  BY DEF Report
<1>2. /\ Running(t)[0] = t
      /\ \A k \in 1..length :
            Running(t)[k] = AddInterval(Running(t)[k - 1], t.intervals[k])
  BY <1>1, RunningSteps
<1>3. /\ \A k \in 1..length : /\ t.intervals[k] \in Interval
                              /\ t.intervals[k].start < t.intervals[k].end
      /\ t.allowedMin < t.allowedMax
  BY <1>1 DEF Acceptable, ValidInterval, ValidRange
<1>4. Holds(0)
  <2>1. First(t, 0) = {}
    BY DEF First
  <2>2. /\ MinutesBelow(t, {}) = {} /\ MinutesAbove(t, {}) = {}
        /\ DegreeMinutes(t, {}) = {}
    BY DEF MinutesBelow, MinutesAbove, DegreeMinutes
  <2>3. /\ t.low \in Int /\ t.high \in Int /\ t.exposure \in Int
        /\ t.deviation \in Int
    BY DEF Report
  <2>4. Counts(t, t, {})
    <3>1. IsFiniteSet({}) /\ Cardinality({}) = 0
      BY FS_EmptySet
    <3>2. \A x \in Int : x = x + Cardinality({})
      BY <3>1
    <3> QED BY <2>2, <2>3, <3>1, <3>2, Zenon DEF Counts
  <2>5. Deviates(t, t, {})
    BY <2>3 DEF Deviates, Excesses
  <2> QED BY <1>2, <2>1, <2>4, <2>5
<1>5. SUFFICES ASSUME T # {} PROVE FALSE
  OBVIOUS
<1>6. T \in SUBSET Nat
  <2> HIDE DEF Holds
  <2> QED BY <1>1
<1>7. PICK k \in T : \A j \in T : k <= j
  <2> HIDE DEF T
  <2> QED BY <1>5, <1>6, LeastNatural
<1>8. k \in 1..length /\ k - 1 \in 0..length /\ ~Holds(k)
  <2> HIDE DEF Holds, length
  <2> QED BY <1>1, <1>4, <1>7
<1>9. Holds(k - 1)
  <2> HIDE DEF Holds, length
  <2> QED BY <1>1, <1>7, <1>8
<1> DEFINE r == Running(t)[k - 1]
           in == t.intervals[k]
<1>10. First(t, k) = First(t, k - 1) \cup {in}
  <2>1. 1..k = 1..(k - 1) \cup {k}
    BY <1>8
  <2> QED BY <2>1 DEF First
<1>11. /\ First(t, k - 1) \in SUBSET Interval
       /\ \A i \in First(t, k - 1) : i.end <= in.start
  <2>1. \A i \in 1..(k - 1) : /\ i \in DOMAIN t.intervals
                              /\ k \in DOMAIN t.intervals /\ i < k
                              /\ t.intervals[i] \in Interval
    <3> HIDE DEF Holds
    <3> QED BY <1>1, <1>8
  <2>2. \A i \in 1..(k - 1) : t.intervals[i].end <= in.start
    BY <2>1, IntervalsApart
  <2> QED BY <2>1, <2>2 DEF First
<1>12. /\ in \in Interval /\ in.start < in.end
       /\ Running(t)[k] = AddInterval(r, in)
  BY <1>2, <1>3, <1>8
<1>13. /\ r \in Report /\ Counts(r, t, First(t, k - 1))
       /\ Deviates(r, t, First(t, k - 1))
       /\ \A f \in EvidenceFields \cup {"exceeded", "severity", "reviews"} :
             r[f] = t[f]
  BY <1>9
<1>14. r.allowedMin = t.allowedMin /\ r.allowedMax = t.allowedMax
  BY <1>13 DEF EvidenceFields
<1> HIDE DEF r, in
<1>15. /\ Counts(Running(t)[k], t, First(t, k))
       /\ Deviates(Running(t)[k], t, First(t, k))
  BY <1>3, <1>10, <1>11, <1>12, <1>13, <1>14, OneMoreCounts, OneMoreDeviates
<1>16. /\ Running(t)[k] \in Report
       /\ \A f \in EvidenceFields \cup {"exceeded", "severity", "reviews"} :
             Running(t)[k][f] = t[f]
  BY <1>12, <1>13, AddIntervalAdds
<1> QED BY <1>8, <1>15, <1>16

-----------------------------------------------------------------------------
(* The summary *)

\* What SummarizeTransport makes of an acceptable report: the same evidence, the
\* totals counted on top of what came, and the severity that belongs to them.
LEMMA SummaryCounts ==
    ASSUME NEW t \in Report, Acceptable(t), NEW s, s = Summarized(t)
    PROVE  /\ s \in Report
           /\ \A f \in EvidenceFields \cup {"reviews"} : s[f] = t[f]
           /\ s.severity = DeviationSeverity(s)
           /\ t.intervals # <<>> =>
                 /\ Counts(s, t, Range(t.intervals))
                 /\ Deviates(s, t, Range(t.intervals))
<1> DEFINE w == WithTotals(t)
<1>1. /\ t.intervals \in Seq(Interval) /\ Len(t.intervals) \in Nat
      /\ t.allowedMin \in Int /\ t.allowedMax \in Int
      /\ t.min \in Int /\ t.max \in Int
  BY DEF Report, Temperature
<1>2. /\ w \in Report
      /\ \A f \in EvidenceFields \cup {"reviews"} : w[f] = t[f]
      /\ t.intervals # <<>> => /\ Counts(w, t, Range(t.intervals))
                               /\ Deviates(w, t, Range(t.intervals))
  <2>1. CASE t.intervals = <<>>
    <3> DEFINE d == MaxDeviation(t)
               e == TemperatureExceeded(t)
    <3>1. d \in Nat
      <4>1. /\ 0 \in Int /\ t.allowedMin - t.min \in Int
            /\ t.max - t.allowedMax \in Int
        BY <1>1
      <4>2. /\ d \in {0, t.allowedMin - t.min, t.max - t.allowedMax}
            /\ d >= 0
        BY <4>1, MaxOfThree DEF MaxDeviation
      <4> QED BY <4>1, <4>2
    <3>2. e \in BOOLEAN
      BY DEF TemperatureExceeded
    <3>3. w = [t EXCEPT !.exceeded = e, !.deviation = d]
      BY <2>1 DEF WithTotals
    <3>4. d \in Int
      BY <3>1
    <3> HIDE DEF d, e, w
    <3> QED BY <2>1, <3>2, <3>3, <3>4 DEF Report, EvidenceFields
  <2>2. CASE t.intervals # <<>>
    <3> DEFINE n == Len(t.intervals)
               r == Running(t)[n]
               e == r.low > 0 \/ r.high > 0
    <3>1. n \in 0..n
      BY <1>1
    <3>2. /\ r \in Report
          /\ Counts(r, t, First(t, n)) /\ Deviates(r, t, First(t, n))
      BY <3>1, LoopCounts
    <3>3. First(t, n) = Range(t.intervals)
      BY <1>1 DEF First, Range
    <3>4. w = [t EXCEPT !.low = r.low, !.high = r.high,
                        !.deviation = r.deviation, !.exposure = r.exposure,
                        !.exceeded = e]
      BY <2>2 DEF WithTotals
    <3>5. e \in BOOLEAN
      OBVIOUS
    <3> HIDE DEF r, e, w, n
    <3>6. /\ w \in Report
          /\ \A f \in EvidenceFields \cup {"reviews"} : w[f] = t[f]
          /\ w.low = r.low /\ w.high = r.high
          /\ w.deviation = r.deviation /\ w.exposure = r.exposure
      BY <3>2, <3>4, <3>5 DEF Report, EvidenceFields
    <3> QED BY <3>2, <3>3, <3>6 DEF Counts, Deviates
  <2> QED BY <2>1, <2>2
<1> DEFINE severity == DeviationSeverity(w)
<1>3. severity \in Severities
  BY DEF DeviationSeverity, Severities
<1>4. s = [w EXCEPT !.severity = severity]
  BY DEF Summarized
<1> HIDE DEF w, severity
<1>5. /\ s \in Report
      /\ \A f \in DOMAIN w \ {"severity"} : s[f] = w[f]
      /\ s.severity = severity
  BY <1>2, <1>3, <1>4 DEF Report
<1>6. DOMAIN w = {"allowedMin", "allowedMax", "min", "max", "intervals", "note",
                  "low", "high", "deviation", "exposure", "exceeded",
                  "severity", "reviews"}
  BY <1>2 DEF Report
<1>7. /\ s.low = w.low /\ s.high = w.high /\ s.deviation = w.deviation
      /\ s.exposure = w.exposure /\ s.exceeded = w.exceeded
      /\ s.allowedMin = w.allowedMin /\ s.allowedMax = w.allowedMax
      /\ s.min = w.min /\ s.max = w.max
      /\ \A f \in EvidenceFields \cup {"reviews"} : s[f] = w[f]
  BY <1>5, <1>6 DEF EvidenceFields
<1>8. DeviationSeverity(s) = DeviationSeverity(w)
  BY <1>7 DEF DeviationSeverity
<1>9. severity = DeviationSeverity(w)
  BY DEF severity
<1> QED BY <1>2, <1>5, <1>7, <1>8, <1>9 DEF Counts, Deviates

-----------------------------------------------------------------------------
(* The excesses *)

\* A finite number of intervals was sent.
LEMMA RangeIsFinite ==
    ASSUME NEW ints \in Seq(Interval)
    PROVE  Range(ints) \in SUBSET Interval /\ IsFiniteSet(Range(ints))
<1>1. ints \in [1..Len(ints) -> Interval] /\ Len(ints) \in Nat
  OBVIOUS
<1>2. ints \in Surjection(1..Len(ints), Range(ints))
  BY <1>1 DEF Surjection, Range
<1>3. IsFiniteSet(1..Len(ints))
  BY <1>1, FS_Interval
<1>4. IsFiniteSet(Range(ints))
  BY <1>2, <1>3, FS_Surjection
<1> QED BY <1>1, <1>4 DEF Range

\* There are finitely many excesses.
LEMMA ExcessesAreFinite ==
    ASSUME NEW t \in Report, NEW ints \in SUBSET Interval, IsFiniteSet(ints)
    PROVE  Excesses(t, ints) \in SUBSET Int /\ IsFiniteSet(Excesses(t, ints))
<1> DEFINE low == [in \in ints |-> t.allowedMin - in.min]
           high == [in \in ints |-> in.max - t.allowedMax]
           L == {t.allowedMin - in.min : in \in ints}
           H == {in.max - t.allowedMax : in \in ints}
<1>1. low \in Surjection(ints, L) /\ high \in Surjection(ints, H)
  BY DEF Surjection
<1>2. IsFiniteSet(L) /\ IsFiniteSet(H)
  <2> HIDE DEF low, high, L, H
  <2> QED BY <1>1, FS_Surjection
<1>3. IsFiniteSet(L \cup H)
  <2> HIDE DEF L, H
  <2> QED BY <1>2, FS_Union
<1>4. Excesses(t, ints) \in SUBSET Int
  BY DEF Excesses, Report, Interval, Temperature
<1> QED BY <1>3, <1>4 DEF Excesses

\* The deviation the loop leaves is the greatest of what came and the excesses.
LEMMA DeviationIsGreatest ==
    ASSUME NEW s \in Report, NEW t \in Report,
           NEW ints \in SUBSET Interval, IsFiniteSet(ints), Deviates(s, t, ints)
    PROVE  s.deviation = Max({t.deviation} \cup Excesses(t, ints))
<1> DEFINE E == {t.deviation} \cup Excesses(t, ints)
<1>1. s.deviation \in Int /\ t.deviation \in Int
  BY DEF Report
<1>2. E \in SUBSET Int /\ IsFiniteSet(E) /\ E # {}
  <2>1. Excesses(t, ints) \in SUBSET Int /\ IsFiniteSet(Excesses(t, ints))
    BY ExcessesAreFinite
  <2>2. IsFiniteSet(Excesses(t, ints) \cup {t.deviation})
    BY <2>1, FS_AddElement
  <2>3. E = Excesses(t, ints) \cup {t.deviation}
    OBVIOUS
  <2> QED BY <1>1, <2>1, <2>2, <2>3
<1>3. s.deviation \in E /\ \A x \in E : s.deviation >= x
  BY DEF Deviates
<1> HIDE DEF E
<1>4. Max(E) \in E /\ \A x \in E : Max(E) >= x
  BY <1>2, MaxIsGreatest
<1>5. s.deviation >= Max(E) /\ Max(E) >= s.deviation /\ Max(E) \in Int
  BY <1>2, <1>3, <1>4
<1>6. s.deviation = Max(E)
  BY <1>1, <1>5
<1> QED BY <1>6 DEF E

\* The severity is not milder than any excess where the extremes of a report
\* reach as far as its intervals.
LEMMA SeverityOfExcess ==
    ASSUME NEW t \in Report, t.exceeded, t.severity = DeviationSeverity(t),
           \A i \in DOMAIN t.intervals :
              t.min <= t.intervals[i].min /\ t.intervals[i].max <= t.max,
           NEW x \in Excesses(t, Range(t.intervals))
    PROVE  /\ x > 10 => t.severity = "severe"
           /\ x > 3 => t.severity \in {"moderate", "severe"}
<1> DEFINE low == t.allowedMin - t.min
           high == t.max - t.allowedMax
           d == Max({low, high})
<1>1. /\ t.allowedMin \in Int /\ t.allowedMax \in Int
      /\ t.min \in Int /\ t.max \in Int
      /\ t.intervals \in Seq(Interval)
  BY DEF Report, Temperature
<1>2. low \in Int /\ high \in Int
  BY <1>1
<1>3. x \in Int /\ (x <= low \/ x <= high)
  <2>1. PICK i \in DOMAIN t.intervals :
          \/ x = t.allowedMin - t.intervals[i].min
          \/ x = t.intervals[i].max - t.allowedMax
    BY DEF Excesses, Range
  <2>2. t.intervals[i].min \in Int /\ t.intervals[i].max \in Int
    <3>1. t.intervals[i] \in Interval
      BY <1>1
    <3> QED BY <3>1 DEF Interval, Temperature
  <2>3. t.min <= t.intervals[i].min /\ t.intervals[i].max <= t.max
    OBVIOUS
  <2> QED BY <1>1, <2>1, <2>2, <2>3
<1>4. t.severity = IF t.low + t.high >= 120 \/ t.exposure >= 180 THEN "severe"
                   ELSE IF d > 10 THEN "severe"
                   ELSE IF d > 3 THEN "moderate"
                   ELSE "minor"
  BY DEF DeviationSeverity
<1> HIDE DEF low, high
<1>5. d = IF low >= high THEN low ELSE high
  BY <1>2, MaxOfTwo
<1> HIDE DEF d
<1>6. d \in Int /\ x <= d
  BY <1>2, <1>3, <1>5
<1> QED BY <1>3, <1>4, <1>6

=============================================================================
