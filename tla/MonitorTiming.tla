--------------------------- MODULE MonitorTiming ---------------------------
(***************************************************************************)
(* How long the camera monitor (backend/services/camera_monitor.py) takes  *)
(* to flag a camera that has died, in whole seconds.  One camera is        *)
(* observed until it is first flagged; the other cameras only decide how   *)
(* long a cycle takes.  A camera that delivers lets up to `gap` seconds    *)
(* pass between two frames, and the probe of a device that the pipeline    *)
(* holds open may fail though the camera lives.  The time spent in the     *)
(* database is left out: the figures are lower bounds.                     *)
(***************************************************************************)
EXTENDS Integers

CONSTANTS
  Threshold,      \* CAMERA_OFFLINE_THRESHOLD_SECONDS, 30 by default
  CheckInterval,  \* HEALTH_CHECK_INTERVAL_SECONDS, 30 by default
  ProbeTimeout,   \* CAMERA_PROBE_TIMEOUT_SECONDS, 5 by default
  Batches,        \* probes of a cycle over CAMERA_PROBE_CONCURRENCY (32), rounded up
  Gaps            \* the longest silences between two frames that are looked at

ASSUME TimingAssumption ==
  /\ Threshold \in Nat /\ CheckInterval \in Nat
  /\ ProbeTimeout \in Nat /\ Batches \in Nat \ {0}
  /\ Gaps \subseteq Nat

Larger(a, b) == IF a >= b THEN a ELSE b

detection_budget == IF CheckInterval <= Threshold THEN CheckInterval ELSE Threshold

probe_hard_deadline == ProbeTimeout * 2 + 1

cycle_period == Larger(5, (detection_budget - probe_hard_deadline) \div 2)

heartbeat_fresh_window ==
  Larger(0, detection_budget - cycle_period - probe_hard_deadline)

\* The longest the assessments of a cycle take
MaxCycle == Batches * probe_hard_deadline

VARIABLES
  alive,     \* the camera delivers frames
  gap,       \* while it does, its frames are at most so many seconds apart
  age,       \* seconds since its last frame
  stage,     \* the loop is "sleeping" or "probing" (waiting for the assessments)
  verdict,   \* of the camera in this cycle: "heartbeat", or "probing" until the
             \* probe ends: "probe_ok" or "dead"
  clock,     \* seconds since the cycle started
  wakeAt,    \* the value of `clock` at which the loop's sleep ends
  flagged    \* the camera has been marked offline

vars == <<alive, gap, age, stage, verdict, clock, wakeAt, flagged>>

TypeOK ==
  /\ alive \in BOOLEAN /\ flagged \in BOOLEAN /\ gap \in Gaps
  /\ stage \in {"sleeping", "probing"}
  /\ verdict \in {"heartbeat", "probing", "probe_ok", "dead"}
  /\ age \in Nat /\ clock \in Nat /\ wakeAt \in Nat

Init ==
  /\ alive = TRUE /\ gap \in Gaps /\ age = 0 /\ flagged = FALSE
  /\ stage = "sleeping" /\ verdict = "heartbeat"
  /\ clock = 0 /\ wakeAt = 0

\* A frame arrives and its heartbeat is recorded
Frame ==
  /\ alive /\ ~flagged
  /\ age' = 0
  /\ UNCHANGED <<alive, gap, stage, verdict, clock, wakeAt, flagged>>

Dies ==
  /\ alive /\ ~flagged
  /\ alive' = FALSE
  /\ UNCHANGED <<gap, age, stage, verdict, clock, wakeAt, flagged>>

\* A second passes, unless a frame, the loop or a probe is due
Tick ==
  /\ ~flagged
  /\ alive => age < gap
  /\ clock < IF stage = "sleeping" THEN wakeAt ELSE MaxCycle
  /\ clock' = clock + 1 /\ age' = age + 1
  /\ UNCHANGED <<alive, gap, stage, verdict, wakeAt, flagged>>

\* Mutant of Fresh: the comparison is strict
FreshStrict == age < heartbeat_fresh_window

Fresh == age <= heartbeat_fresh_window

\* A cycle starts: every camera's heartbeat is looked at before any probe is awaited
StartCycle ==
  /\ stage = "sleeping" /\ clock = wakeAt
  /\ stage' = "probing" /\ clock' = 0
  /\ verdict' = IF Fresh THEN "heartbeat" ELSE "probing"
  /\ UNCHANGED <<alive, gap, age, wakeAt, flagged>>

\* The camera's own probe ends: a dead camera never answers, and one that lives may
\* fail to, for the pipeline holds its device.  Without a stream source there is no
\* probe, and the lost heartbeat alone decides.
Probed ==
  /\ stage = "probing" /\ verdict = "probing"
  /\ \/ verdict' = "dead"
     \/ alive /\ verdict' = "probe_ok"
  /\ UNCHANGED <<alive, gap, age, stage, clock, wakeAt, flagged>>

\* Mutants of WakeTime: the sleep is not bounded below, or does not count the cycle
WakeTimeUnbounded == cycle_period - clock
WakeTimeFullPeriod == clock + cycle_period

\* asyncio.sleep(max(1.0, period - elapsed)), from the end of a cycle
WakeTime == Larger(clock + 1, cycle_period)

\* The last assessment is in and the transaction commits, at any time up to MaxCycle
EndCycle ==
  /\ stage = "probing" /\ verdict # "probing"
  /\ stage' = "sleeping"
  /\ flagged' = (verdict = "dead")
  /\ wakeAt' = WakeTime
  /\ UNCHANGED <<alive, gap, age, verdict, clock>>

Next == Frame \/ Dies \/ Tick \/ StartCycle \/ Probed \/ EndCycle

Spec == Init /\ [][Next]_vars

-----------------------------------------------------------------------------
(* Properties *)

\* camera_monitor.py:9-10: "a camera is always flagged within 30 s of its last sign
\* of life".
FlaggedInTime == ~flagged => age <= Threshold

\* What the loop does guarantee.  A heartbeat may just pass as fresh at the start
\* of a cycle, or a probe may reach a camera whose frames are further apart; that
\* cycle may take MaxCycle seconds, after which the loop still sleeps; and the next
\* cycle reports the dead camera only once its slowest probe is in.  With the
\* default settings and a camera that sends frames all the time this is 33 s, not 30.
WorstCase ==
  Larger(heartbeat_fresh_window, gap) + Larger(cycle_period, MaxCycle + 1) + MaxCycle
FlaggedInWorstCase == ~flagged => age <= WorstCase

\* A camera is flagged while it delivers only if it lets more than the fresh window
\* pass between two frames (camera_monitor.py:190): within the window it is never
\* probed, so the probe that would fail on the device the pipeline holds never runs.
\* Where the settings clamp the window to zero (line 66), every gap is outside it.
LiveNeverFlagged == flagged /\ alive => gap > heartbeat_fresh_window
=============================================================================
