------------------------ MODULE MonitorTimingProofs ------------------------
(* Proofs about MonitorTiming, for every setting of the timeouts. *)
EXTENDS MonitorTiming, TLAPS

\* The longest time from the start of a cycle to the start of the next
Spacing == Larger(cycle_period, MaxCycle + 1)

\* The oldest last frame with which a camera passes as alive
Base == Larger(heartbeat_fresh_window, gap)

\* The inductive invariant: the age of the camera's last frame, counted from what
\* the loop knew when the present cycle started.
AgeBounded ==
  /\ alive => age <= gap
  /\ clock <= Spacing /\ wakeAt <= Spacing
  /\ stage = "probing" => clock <= MaxCycle
  /\ stage = "sleeping" => verdict # "probing"
  /\ flagged => verdict = "dead" /\ stage = "sleeping" /\ clock < wakeAt
  /\ stage = "sleeping" /\ verdict = "dead" => flagged
  /\ ~flagged /\ verdict \in {"heartbeat", "probe_ok"} => age <= Base + clock
  /\ ~flagged => age <= Base + Spacing + clock
  /\ verdict \in {"probing", "dead"} /\ gap <= heartbeat_fresh_window => ~alive

Inv == TypeOK /\ AgeBounded

\* The derived settings are natural numbers, and a cycle fits in the spacing.
LEMMA Settings ==
  /\ probe_hard_deadline \in Nat /\ MaxCycle \in Nat
  /\ cycle_period \in Nat /\ heartbeat_fresh_window \in Nat
  /\ Spacing \in Nat /\ cycle_period <= Spacing /\ MaxCycle + 1 <= Spacing
  /\ WorstCase = Base + Spacing + MaxCycle
<1>1. probe_hard_deadline \in Nat
  BY TimingAssumption DEF probe_hard_deadline
<1>2. MaxCycle \in Nat
  BY <1>1, TimingAssumption, SMTT(30) DEF MaxCycle
<1>3. detection_budget \in Int
  BY TimingAssumption DEF detection_budget
<1>4. cycle_period \in Nat
  BY <1>1, <1>3 DEF cycle_period, Larger
<1>5. heartbeat_fresh_window \in Nat
  BY <1>1, <1>3, <1>4 DEF heartbeat_fresh_window, Larger
<1>6. Spacing \in Nat /\ cycle_period <= Spacing /\ MaxCycle + 1 <= Spacing
  BY <1>2, <1>4 DEF Spacing, Larger
<1>7. WorstCase = Base + Spacing + MaxCycle
  BY DEF WorstCase, Base, Spacing
<1> QED
  BY <1>1, <1>2, <1>4, <1>5, <1>6, <1>7

\* What a camera may be behind with: at least its own gap and the fresh window.
LEMMA Bases ==
  ASSUME gap \in Nat
  PROVE  Base \in Nat /\ gap <= Base /\ heartbeat_fresh_window <= Base
  BY Settings DEF Base, Larger

\* The invariant holds at the start.
LEMMA InitInv == Init => Inv
<1> SUFFICES ASSUME Init PROVE Inv
  OBVIOUS
<1>1. TypeOK /\ gap \in Nat
  BY TimingAssumption DEF Init, TypeOK
<1>2. ~flagged /\ stage = "sleeping" /\ verdict = "heartbeat"
  BY DEF Init
<1>3. age = 0 /\ clock = 0 /\ wakeAt = 0
  BY DEF Init
<1> QED
  BY <1>1, <1>2, <1>3, Settings, Bases DEF Inv, AgeBounded

\* Every step of the loop, the clock and the camera keeps it.
LEMMA NextInv == Inv /\ [Next]_vars => Inv'
<1> SUFFICES ASSUME Inv, [Next]_vars PROVE Inv'
  OBVIOUS
<1>0. gap \in Nat /\ gap' = gap /\ Base' = Base
  BY TimingAssumption
  DEF Inv, TypeOK, Next, vars, Frame, Dies, Tick, StartCycle, Probed, EndCycle, Base
<1>b. Base \in Nat /\ gap <= Base /\ heartbeat_fresh_window <= Base
  BY <1>0, Bases
<1> USE Settings, <1>0, <1>b DEF Inv, TypeOK, AgeBounded
<1>1. CASE Frame
  BY <1>1 DEF Frame
<1>2. CASE Dies
  BY <1>2 DEF Dies
<1>3. CASE Tick
  <2>1. CASE stage = "sleeping"
    BY <1>3, <2>1 DEF Tick
  <2>2. CASE stage = "probing"
    BY <1>3, <2>2 DEF Tick
  <2> QED
    BY <2>1, <2>2
<1>4. CASE StartCycle
  <2>0. ~flagged
    BY <1>4 DEF StartCycle
  <2>1. CASE Fresh
    BY <1>4, <2>0, <2>1 DEF StartCycle, Fresh
  <2>2. CASE ~Fresh
    <3>1. gap <= heartbeat_fresh_window => ~alive
      BY <2>2 DEF Fresh
    <3>2. ~flagged => age <= Base + Spacing
      BY <1>4 DEF StartCycle
    <3> QED
      BY <1>4, <2>0, <2>2, <3>1, <3>2 DEF StartCycle
  <2> QED
    BY <2>1, <2>2
<1>5. CASE Probed
  BY <1>5 DEF Probed
<1>6. CASE EndCycle
  <2>1. WakeTime \in Nat /\ WakeTime <= Spacing /\ clock < WakeTime
    BY <1>6 DEF EndCycle, WakeTime, Larger
  <2>2. CASE verdict = "dead"
    <3>1. flagged' = TRUE
      BY <1>6, <2>2 DEF EndCycle
    <3> QED
      BY <1>6, <2>1, <2>2, <3>1 DEF EndCycle
  <2>3. CASE verdict \in {"heartbeat", "probe_ok"}
    <3>1. flagged' = FALSE /\ ~flagged'
      BY <1>6, <2>3 DEF EndCycle
    <3>2. age' <= Base' + clock'
      BY <1>6, <2>3 DEF EndCycle
    <3> QED
      BY <1>6, <2>1, <2>3, <3>1, <3>2 DEF EndCycle
  <2> QED
    BY <1>6, <2>2, <2>3 DEF EndCycle
<1>7. CASE UNCHANGED vars
  BY <1>7 DEF vars
<1> QED
  BY <1>1, <1>2, <1>3, <1>4, <1>5, <1>6, <1>7 DEF Next

\* The variables of the timing model keep their types under every setting.
THEOREM TimingTypes == Spec => []TypeOK
<1>1. Inv => TypeOK
  BY DEF Inv
<1> QED
  BY InitInv, NextInv, <1>1, PTL DEF Spec

\* Whatever the settings, a camera that dies is flagged at most `WorstCase` seconds
\* after its last frame: one fresh window (or its own gap, if that is longer), the
\* start-to-start distance of two cycles, and the probes of the second.
THEOREM DetectionBound == Spec => []FlaggedInWorstCase
<1>1. Inv => FlaggedInWorstCase
  <2> SUFFICES ASSUME Inv, ~flagged PROVE age <= WorstCase
    BY DEF FlaggedInWorstCase
  <2>0. gap \in Nat /\ Base \in Nat
    BY TimingAssumption, Bases DEF Inv, TypeOK
  <2>1. CASE stage = "probing"
    BY <2>0, <2>1, Settings DEF Inv, TypeOK, AgeBounded
  <2>2. CASE stage = "sleeping"
    <3>1. verdict \in {"heartbeat", "probe_ok"}
      BY <2>2 DEF Inv, TypeOK, AgeBounded
    <3>2. age <= Base + clock /\ clock <= Spacing
      BY <3>1 DEF Inv, AgeBounded
    <3> QED
      BY <2>0, <3>2, Settings DEF Inv, TypeOK
  <2> QED
    BY <2>1, <2>2 DEF Inv, TypeOK
<1> QED
  BY InitInv, NextInv, <1>1, PTL DEF Spec

\* A camera whose frames come within the fresh window is never flagged while it
\* delivers, whatever the settings and however its probes would end.
THEOREM NoFalseAlarm == Spec => []LiveNeverFlagged
<1>1. Inv => LiveNeverFlagged
  <2> SUFFICES ASSUME Inv, flagged, alive PROVE gap > heartbeat_fresh_window
    BY DEF LiveNeverFlagged
  <2>1. ~ (gap <= heartbeat_fresh_window)
    BY DEF Inv, AgeBounded
  <2> QED
    BY <2>1, Settings, TimingAssumption DEF Inv, TypeOK
<1> QED
  BY InitInv, NextInv, <1>1, PTL DEF Spec

\* The clamp of camera_monitor.py:66: where a period and a probe use up the budget,
\* no gap at all between two frames is short enough.
THEOREM NoRoomNoWindow ==
  ASSUME detection_budget <= cycle_period + probe_hard_deadline
  PROVE  heartbeat_fresh_window = 0
  BY Settings, TimingAssumption DEF heartbeat_fresh_window, Larger, detection_budget

\* The documented promise, and when it is true: if the probes of a cycle end before
\* the cycle's period, the budget leaves room for a period and a probe, and frames
\* come within the fresh window, then a dead camera is flagged within the threshold.
THEOREM PromiseKept ==
  ASSUME MaxCycle < cycle_period, Batches = 1,
         cycle_period + probe_hard_deadline <= detection_budget,
         \A g \in Gaps : g <= heartbeat_fresh_window
  PROVE  Spec => []FlaggedInTime
<1>1. MaxCycle = probe_hard_deadline
  BY Settings DEF MaxCycle
<1>2. detection_budget \in Int /\ detection_budget <= Threshold
  BY TimingAssumption DEF detection_budget
<1>3. heartbeat_fresh_window + Spacing + MaxCycle <= detection_budget
  BY <1>1, <1>2, Settings DEF Spacing, Larger, heartbeat_fresh_window
<1>4. TypeOK /\ FlaggedInWorstCase => FlaggedInTime
  <2> SUFFICES ASSUME TypeOK, FlaggedInWorstCase, ~flagged PROVE age <= Threshold
    BY DEF FlaggedInTime
  <2>1. gap \in Nat /\ gap <= heartbeat_fresh_window
    BY TimingAssumption DEF TypeOK
  <2>2. Base = heartbeat_fresh_window
    BY <2>1, Settings DEF Base, Larger
  <2>3. age <= heartbeat_fresh_window + Spacing + MaxCycle
    BY <2>2, Settings DEF FlaggedInWorstCase
  <2> QED
    BY <1>2, <1>3, <2>3, Settings, TimingAssumption DEF TypeOK
<1> QED
  BY <1>4, TimingTypes, DetectionBound, PTL
=============================================================================
