----------------------------- MODULE TrackReading -----------------------------
(***************************************************************************)
(* What the analysis dialogs of a track make of the backend's data         *)
(* (frontend/src/lib/analysis.ts, lib/utils.ts): the risk score taken apart *)
(* and fused with the other evidence, the headings of the path, the        *)
(* forecast, and the tracks that may be the same person.                   *)
(*                                                                         *)
(* Each dialog is a reading of its own.  While it is open its data grow:   *)
(* factors are recorded, positions added, sightings prolonged.  Numbers    *)
(* are integers, fractions are kept as numerator and denominator.          *)
(***************************************************************************)
EXTENDS Integers, Sequences, FiniteSets, Functions

CONSTANTS
  Width, Height,  \* of the frame, pixels
  Xs, Ys,         \* coordinates of the positions
  Gaps,           \* seconds between two positions
  MaxPoints,      \* bound of the path
  Instants        \* times of the sightings, in units of 100 s

ReadingAssumption ==
  /\ Width \in Nat /\ Height \in Nat
  /\ Xs \subseteq 0..(Width - 1) /\ Ys \subseteq 0..(Height - 1)
  /\ Gaps \subseteq Nat /\ MaxPoints \in Nat
  /\ Instants \subseteq Nat /\ Instants # {}

VARIABLES
  reading,      \* "risk", "path", "sightings": the dialog
  risk,         \* factors, zone bonus, night window of the scored object
  track,        \* positions [t, x, y], oldest first
  sightings     \* the reference event and another one

readingVars == <<reading, risk, track, sightings>>

Points == [loitering |-> 20, toward_fence |-> 20, repeat_appearance |-> 15,
           running |-> 25, weapon_detected |-> 50]
Bonuses == {0, 10, 30, 50, 100}
Sightings ==
  [camera : {"C1", "C2"}, track : {1, 2}, uuid : {"none", "U1", "U2"},
   class : {"person", "vehicle"}, elevated : BOOLEAN, first : Instants, last : Instants]

NoRisk == [factors |-> {}, bonus |-> 0, night |-> FALSE]
Seen(e) == e.first = e.last
Once == CHOOSE e \in Sightings : e.camera = "C1" /\ e.track = 1 /\ Seen(e)

ReadingTypeOK ==
  /\ reading \in {"risk", "path", "sightings"}
  /\ risk \in [factors : SUBSET DOMAIN Points, bonus : Bonuses, night : BOOLEAN]
  /\ Len(track) <= MaxPoints
  /\ \A i \in DOMAIN track : track[i].t \in Nat /\ track[i].x \in Xs /\ track[i].y \in Ys
  /\ sightings \in [reference : Sightings, other : Sightings]

Lesser(a, b) == IF a < b THEN a ELSE b
Greater(a, b) == IF a < b THEN b ELSE a

(***************************************************************************)
(* Risk                                                                    *)
(***************************************************************************)
Additive(factors, bonus) == 10 + bonus + SumFunctionOnSet(Points, factors)

\* The risk engine, which rounds half to even; its reasons name every factor.
calculate(r) ==
  LET s == Additive(r.factors, r.bonus)
      twice == 3 * s
      half == twice \div 2
      night == IF twice % 2 = 0 \/ half % 2 = 0 THEN half ELSE half + 1
  IN  Lesser(100, IF r.night THEN night ELSE s)

\* Mutant of implied: the multiplier is taken before the base is added
BaseLast(factors, bonus, night) ==
  LET s == Additive(factors, bonus) - 10
  IN  10 + (IF night THEN (3 * s + 1) \div 2 ELSE s)

\* Math.round rounds half up.
implied(factors, bonus, night) ==
  LET s == Additive(factors, bonus) IN IF night THEN (3 * s + 1) \div 2 ELSE s

parseRiskReasons(r) == calculate(r) - Lesser(100, implied(r.factors, r.bonus, r.night))

\* The live payload names the zone, loitering and the time of day only.
explainDetectionRisk(r) ==
  calculate(r) - Lesser(100, implied(r.factors \cap {"loitering"}, r.bonus, r.night))

\* Channels in percent, their weighted mean in percent of a percent.
Channels(r, confidence, dwell) ==
  [detector |-> confidence, behaviour |-> calculate(r), zone |-> Lesser(100, r.bonus),
   persistence |-> Lesser(100, dwell)]
fuseConfidence(c) == 35 * c.detector + 35 * c.behaviour + 15 * c.zone + 15 * c.persistence

(***************************************************************************)
(* The path                                                                *)
(***************************************************************************)
Square(n) == n * n
Abs(n) == Greater(n, -n)

\* The octant of a step: an axis if it is within 22.5 degrees of it.
Heading(a, b) ==
  LET dx == b.x - a.x
      dy == a.y - b.y
      far == Greater(Abs(dx), Abs(dy))
      axis == Square(Abs(dx) + Abs(dy)) < 2 * Square(far)
  IN  IF Square(dx) + Square(dy) < 9 THEN <<0, 0>>
      ELSE << IF dx = 0 \/ (axis /\ Abs(dx) < far) THEN 0 ELSE IF dx > 0 THEN 1 ELSE -1,
              IF dy = 0 \/ (axis /\ Abs(dy) < far) THEN 0 ELSE IF dy > 0 THEN 1 ELSE -1 >>

Headings == {-1, 0, 1} \X {-1, 0, 1}

directionHistogram(p) ==
  [h \in Headings |-> Cardinality({i \in 2..Len(p) : Heading(p[i - 1], p[i]) = h})]

\* Which of several most frequent headings is named is left open.
describeDirection(p, reasons) ==
  LET count == directionHistogram(p)
      moving == Len(p) - 1 - count[<<0, 0>>]
      best == {h \in Headings \ {<<0, 0>>} : \A g \in Headings \ {<<0, 0>>} : count[g] <= count[h]}
  IN  CASE "toward_fence" \in reasons -> {"Toward fence"}
        [] "toward_fence" \notin reasons /\ Len(p) < 2 -> {"Unknown"}
        [] "toward_fence" \notin reasons /\ Len(p) >= 2
             /\ (moving = 0 \/ count[<<0, 0>>] > moving) -> {"Stationary"}
        [] OTHER -> best

\* Positions of the last 6 seconds, times counted from the last one.
Recent(p) == {i \in DOMAIN p : p[Len(p)].t - p[i].t <= 6}

\* Least squares of the values v over the times t, both functions on I: slope
\* slope / den, value at time 0 intercept / den; level if all times are one.
linearFit(I, t, v) ==
  LET n == Cardinality(I)
      T == SumFunctionOnSet(t, I)
      V == SumFunctionOnSet(v, I)
      den == n * SumFunctionOnSet([i \in I |-> t[i] * t[i]], I) - T * T
      num == n * SumFunctionOnSet([i \in I |-> t[i] * v[i]], I) - T * V
  IN  IF den = 0 THEN [den |-> n, slope |-> 0, intercept |-> V]
      ELSE [den |-> n * den, slope |-> n * num, intercept |-> V * den - num * T]

predictTrajectory(p, v) ==
  linearFit(Recent(p), [i \in DOMAIN p |-> p[i].t - p[Len(p)].t], v)

\* Ray casting; polygons are sequences of <<x, y>>.
Crosses(x, y, a, b) ==
  LET rise == b[2] - a[2]
      run == (b[1] - a[1]) * (y - a[2])
  IN  /\ (a[2] > y) # (b[2] > y)
      /\ IF rise > 0 THEN (x - a[1]) * rise < run ELSE (x - a[1]) * rise > run

pointInPolygon(x, y, polygon) ==
  LET n == Len(polygon)
  IN  Cardinality({i \in 1..n :
        Crosses(x, y, polygon[i], polygon[IF i = 1 THEN n ELSE i - 1])}) % 2 = 1

(***************************************************************************)
(* Sightings                                                               *)
(***************************************************************************)
\* Seconds between two events, 0 if they overlap.
gap(a, b) ==
  100 * (CASE b.first >= a.last -> b.first - a.last
           [] b.first < a.last /\ b.last <= a.first -> a.first - b.last
           [] OTHER -> 0)

\* The score of a handover, of 30000: not the same camera, at most 300 s apart.
Handover(a, b) ==
  LET near == 100 * (300 - gap(a, b))
      class == IF a.class = b.class THEN near ELSE (near * 4) \div 10
      both == IF a.elevated /\ b.elevated THEN Lesser(30000, class + 3000) ELSE class
  IN  (both * 8) \div 10

\* 0: not among the candidates.
correlateTracks(a, b) ==
  LET same == a.uuid = b.uuid /\ a.uuid # "none"
      tracked == a.camera = b.camera /\ a.track = b.track
  IN  CASE same -> 30000
        [] ~same /\ tracked -> 27000
        [] ~same /\ ~tracked /\ (a.camera = b.camera \/ gap(a, b) > 300) -> 0
        [] OTHER -> Handover(a, b)

(***************************************************************************)
(* The data grow                                                           *)
(***************************************************************************)
ReadingInit ==
  /\ track = <<>>
  /\ \/ /\ reading = "risk" /\ sightings = [reference |-> Once, other |-> Once]
        /\ \E b \in Bonuses, n \in BOOLEAN : risk = [factors |-> {}, bonus |-> b, night |-> n]
     \/ reading = "path" /\ risk = NoRisk /\ sightings = [reference |-> Once, other |-> Once]
     \/ /\ reading = "sightings" /\ risk = NoRisk
        /\ \E a, b \in {e \in Sightings : Seen(e)} :
             /\ a.camera = "C1" /\ a.track = 1 /\ a.class = "person" /\ a.uuid # "U2"
             /\ sightings = [reference |-> a, other |-> b]

FactorRecorded ==
  /\ reading = "risk"
  /\ \E f \in DOMAIN Points : risk' = [risk EXCEPT !.factors = @ \cup {f}]
  /\ UNCHANGED <<reading, track, sightings>>

PositionAdded ==
  /\ reading = "path" /\ Len(track) < MaxPoints
  /\ \E x \in Xs, y \in Ys, dt \in Gaps :
       track' = Append(track, [t |-> IF track = <<>> THEN 0 ELSE track[Len(track)].t + dt,
                               x |-> x, y |-> y])
  /\ UNCHANGED <<reading, risk, sightings>>

SightingGrows ==
  /\ reading = "sightings"
  /\ \E e \in {"reference", "other"}, i \in Instants :
       /\ i > sightings[e].last
       /\ sightings' = [sightings EXCEPT ![e].last = i]
  /\ UNCHANGED <<reading, risk, track>>

ReadingNext == FactorRecorded \/ PositionAdded \/ SightingGrows

(***************************************************************************)
(* Properties                                                              *)
(***************************************************************************)
\* A score with all its reasons is explained to the point, save that the console
\* rounds a half the other way than the engine; what a live detection leaves
\* unexplained is by day what its payload does not carry, up to the cap.
RiskExplained ==
  /\ parseRiskReasons(risk) \in (IF risk.night THEN {-1, 0} ELSE {0})
  /\ LET hidden == SumFunctionOnSet(Points, risk.factors \ {"loitering"})
     IN  /\ explainDetectionRisk(risk) >= IF hidden = 0 /\ risk.night THEN -1 ELSE 0
         /\ ~risk.night /\ calculate(risk) < 100 => explainDetectionRisk(risk) = hidden
  /\ \A confidence \in {0, 60, 100}, dwell \in {0, 50, 300} :
       LET c == Channels(risk, confidence, dwell)
           values == {c[k] : k \in DOMAIN c}
       IN  \A most, least \in values :
             (\A v \in values : least <= v /\ v <= most) =>
               fuseConfidence(c) \in (100 * least)..(100 * most)

\* The way back has the opposite headings, as many; and no heading is named for
\* an object that stood still most of the time.
HeadingsAddUp ==
  LET back == [i \in DOMAIN track |-> track[Len(track) + 1 - i]]
      count == directionHistogram(track)
  IN  /\ \A h \in Headings : directionHistogram(back)[h] = count[<<-h[1], -h[2]>>]
      /\ track # <<>> => SumFunction(count) = Len(track) - 1
      /\ Len(track) >= 2 /\ 2 * count[<<0, 0>>] >= Len(track)
           => describeDirection(track, {}) = {"Stationary"}

\* No line is closer to the positions of the window than the forecast's, and
\* through positions on a line it goes exactly.
ForecastFits ==
  LET window == Recent(track)
      v == [i \in DOMAIN track |-> track[i].x]
      ago(i) == track[Len(track)].t - track[i].t
      fit == predictTrajectory(track, v)
      fitOff == [i \in window |-> Square(fit.den * v[i] - (fit.intercept - fit.slope * ago(i)))]
      least == SumFunction(fitOff)
  IN  Cardinality(window) >= 3 =>
        /\ fit.den > 0
        /\ \A a, b \in Xs, sign \in {-1, 1} :
             LET off == [i \in window |-> Square(fit.den * (v[i] - (a - sign * b * ago(i))))]
             IN  least <= SumFunction(off)

\* Of two zones that share an edge a position is in exactly one, the one on its
\* side, wherever the common edge runs.
ZonesPartition ==
  \A i \in DOMAIN track, top, bottom \in Xs :
    LET x == track[i].x
        y == track[i].y
        left == << <<0, 0>>, <<top, 0>>, <<bottom, Height>>, <<0, Height>> >>
        right == << <<top, 0>>, <<Width, 0>>, <<Width, Height>>, <<bottom, Height>> >>
        west == Height * x < Height * top + (bottom - top) * y
    IN  /\ pointInPolygon(x, y, left) <=> west
        /\ pointInPolygon(x, y, right) <=> ~west

\* Either of two tracks finds the other, with the same score; a guess from times
\* never comes before an identity or the tracker's own number.
SightingsRanked ==
  LET a == sightings.reference
      b == sightings.other
  IN  /\ correlateTracks(a, b) = correlateTracks(b, a)
      /\ a.camera # b.camera /\ (a.uuid # b.uuid \/ a.uuid = "none") =>
           /\ correlateTracks(a, b) <= 24000
           /\ correlateTracks(a, b) # 0 => gap(a, b) <= 300
           /\ \A e \in Instants : e >= b.first /\ [b EXCEPT !.last = e] # b /\ gap(a, [b EXCEPT !.last = e]) < gap(a, b)
                => correlateTracks(a, [b EXCEPT !.last = e]) >= correlateTracks(a, b)

\* What the dialogs say of a track follows from its data, whatever they are.
ReadingsSound ==
  /\ reading = "risk" => RiskExplained
  /\ reading = "path" => HeadingsAddUp /\ ForecastFits /\ ZonesPartition
  /\ reading = "sightings" => SightingsRanked
=============================================================================
