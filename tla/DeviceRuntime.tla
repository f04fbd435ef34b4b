---------------------------- MODULE DeviceRuntime ----------------------------
(***************************************************************************)
(* The per-device state machine of internal/device/statemachine.go, as     *)
(* operators from one Runtime record to the next.  Nothing here is a       *)
(* variable: RuntimeMachine drives one runtime, other modules hold a map   *)
(* of them, as the state store does.                                       *)
(*                                                                         *)
(* A step is a record [rt, event]: the runtime after the reading and       *)
(* whether the reading started or finished a cycle.                        *)
(***************************************************************************)
EXTENDS Energy

CONSTANTS
    FinishedRecentlyTTL,          \* the TTL of finished_recently, in ticks
    FinishedRecentlyLowReadings,  \* low readings that decay it earlier
    MaxIntegrationGap             \* energy.max_integration_gap; <= 0 disables

ASSUME RuntimeConstants ==
    /\ FinishedRecentlyTTL \in Nat
    /\ FinishedRecentlyLowReadings \in Nat \ {0}
    /\ MaxIntegrationGap \in Int

PowerClasses   == {"short_burst", "cycle_power", "continuous", "media"}
PassiveClasses == {"passive"}   \* the five classes of IsPassiveSensor
Classes == PowerClasses \union PassiveClasses \union {"binary_state", "unclassified"}

Thresholds ==
    [activeAbove : OptInt, idleBelow : OptInt, compressorAbove : OptInt,
     activeFor : Int, inactiveFor : Int]

Activities == {"unknown", "idle", "active", "running", "active_cycle",
               "normal_idle", "standby", "finished_recently", "reporting"}

\* The activities during which a cycle is in flight.
Engaged == {"active", "running", "active_cycle"}

NoCandidate == [kind |-> "none", at |-> 0]

NoCycle == [phase |-> "none", startedAt |-> 0, finishedAt |-> Nil, duration |-> 0,
            reported |-> 0, integrated |-> 0, kwh |-> 0]

Cycle == [phase : {"none", "active", "finished"}, startedAt : Int,
          finishedAt : OptInt, duration : Int,
          reported : Int, integrated : Int, kwh : Int]

Runtime ==
    [class : Classes, strategy : Strategies, thresholds : Thresholds,
     activity : Activities, candidate : [kind : {"none", "high", "low"}, at : Int],
     lowCount : Nat, counter : Counter, integrator : Integrator,
     cycle : Cycle, snap : Snapshot]

NewRuntime(class, strategy, thresholds) ==
    [class |-> class, strategy |-> strategy, thresholds |-> thresholds,
     activity |-> "unknown", candidate |-> NoCandidate, lowCount |-> 0,
     counter |-> EmptyCounter, integrator |-> NewIntegrator,
     cycle |-> NoCycle, snap |-> [total |-> 0, gaps |-> 0]]

Deref(x) == IF x = Nil THEN 0 ELSE x

CompressorThreshold(th) ==
    IF th.compressorAbove = Nil THEN Deref(th.activeAbove) ELSE th.compressorAbove

-----------------------------------------------------------------------------
(* Cycles.                                                                 *)

CycleActive(r) == r.cycle.phase = "active"

RefreshCycleEnergy(r, at) ==
    LET reported   == Delta(r.counter)
        gained     == r.integrator.total - r.snap.total
        integrated == IF gained < 0 THEN 0 ELSE gained
    IN  [r EXCEPT
           !.cycle = [r.cycle EXCEPT
             !.reported   = reported,
             !.integrated = integrated,
             !.kwh        = SelectKWh(r.strategy, reported, integrated).kwh,
             !.duration   = IF CycleActive(r) THEN at - r.cycle.startedAt
                                            ELSE r.cycle.duration]]

\* Mutants: the candidate is not cleared, or the integrator snapshot not renewed.
StartCycleKeepingCandidate(r, at, activity) ==
    [r EXCEPT !.activity  = activity,
              !.lowCount  = 0,
              !.cycle     = [NoCycle EXCEPT !.phase = "active", !.startedAt = at],
              !.counter   = RebaselineAtLatest(r.counter),
              !.snap      = SnapshotState(r.integrator)]

StartCycleKeepingSnap(r, at, activity) ==
    [r EXCEPT !.activity  = activity,
              !.candidate = NoCandidate,
              !.lowCount  = 0,
              !.cycle     = [NoCycle EXCEPT !.phase = "active", !.startedAt = at],
              !.counter   = RebaselineAtLatest(r.counter)]

StartCycle(r, at, activity) ==
    [r EXCEPT !.activity  = activity,
              !.candidate = NoCandidate,
              !.lowCount  = 0,
              !.cycle     = [NoCycle EXCEPT !.phase = "active", !.startedAt = at],
              !.counter   = RebaselineAtLatest(r.counter),
              !.snap      = SnapshotState(r.integrator)]

FinishCycle(r, at, activity) ==
    RefreshCycleEnergy(
        [r EXCEPT !.activity  = activity,
                  !.candidate = NoCandidate,
                  !.cycle     = [r.cycle EXCEPT !.phase      = "finished",
                                                !.finishedAt = at,
                                                !.duration   = at - r.cycle.startedAt]],
        at)

\* Mutant: every reading moves the baseline, inside a cycle too.
SeedCounterAlways(r, v) == [r EXCEPT !.counter = SetBaseline(v)]

\* Outside a cycle the counter baseline follows the newest reading.
SeedCounter(r, v) ==
    IF CycleActive(r) THEN r ELSE [r EXCEPT !.counter = SetBaseline(v)]

-----------------------------------------------------------------------------
(* Hysteresis: a level must hold for a window before it counts.            *)

\* The level named by kind, seen at `at`, has held for the window.  With no
\* candidate yet, only an empty window is satisfied.
Held(candidate, kind, at, window) ==
    IF candidate.kind = kind THEN at - candidate.at >= window ELSE window <= 0

\* The candidate after one more sighting of the level, or after losing it.
Sighted(candidate, kind, at) ==
    IF candidate.kind = kind THEN candidate ELSE [kind |-> kind, at |-> at]
LostNever(candidate, kind) == candidate   \* mutant: the band cancels nothing

Lost(candidate, kind) ==
    IF candidate.kind = kind THEN NoCandidate ELSE candidate

Quiet(r) == [rt |-> r, event |-> "none"]
Started(r, at, activity) == [rt |-> StartCycle(r, at, activity), event |-> "started"]
Finished(r, at, activity) == [rt |-> FinishCycle(r, at, activity), event |-> "finished"]

\* Mutant: residual draw does not restart the countdown.
SettleKeepingCount(r, p) ==
    LET low     == p < Deref(r.thresholds.idleBelow)
        waiting == r.activity = "finished_recently"
        count   == IF waiting /\ low THEN r.lowCount + 1 ELSE r.lowCount
        decayed == waiting /\ count >= FinishedRecentlyLowReadings
    IN  [r EXCEPT !.activity = IF decayed \/ (r.activity = "unknown" /\ low)
                               THEN "idle" ELSE r.activity,
                  !.lowCount = IF decayed THEN 0 ELSE count]

\* What a reading that neither begins nor ends a cycle still does: count down
\* finished_recently, or resolve unknown to idle at the first low reading.
Settle(r, p) ==
    LET low     == p < Deref(r.thresholds.idleBelow)
        waiting == r.activity = "finished_recently"
        count   == IF ~waiting THEN r.lowCount ELSE IF low THEN r.lowCount + 1 ELSE 0
        decayed == waiting /\ count >= FinishedRecentlyLowReadings
    IN  [r EXCEPT !.activity = IF decayed \/ (r.activity = "unknown" /\ low)
                               THEN "idle" ELSE r.activity,
                  !.lowCount = IF decayed THEN 0 ELSE count]

\* maybeBegin and maybeEnd with the activities a class enters and leaves:
\* two thresholds, and a band between them that only cancels a candidate.
StepBetweenThresholds(r, at, p, engaged, resting) ==
    LET th   == r.thresholds
        high == p >= Deref(th.activeAbove)
        low  == p <= Deref(th.idleBelow)
    IN  IF r.activity \in Engaged
        THEN IF low /\ Held(r.candidate, "low", at, th.inactiveFor)
             THEN Finished(r, at, resting)
             ELSE Quiet([r EXCEPT !.candidate = IF low THEN Sighted(r.candidate, "low", at)
                                                       ELSE Lost(r.candidate, "low")])
        ELSE IF high /\ Held(r.candidate, "high", at, th.activeFor)
             THEN Started(r, at, engaged)
             ELSE Quiet(Settle([r EXCEPT !.candidate = IF high THEN Sighted(r.candidate, "high", at)
                                                               ELSE Lost(r.candidate, "high")], p))

\* stepContinuous and stepBinary: one level, on or off, and every reading of
\* the other level cancels the candidate.
StepOnOff(r, at, on, engaged, resting, otherwise) ==
    LET th == r.thresholds IN
    IF r.activity = engaged
    THEN IF on
         THEN Quiet([r EXCEPT !.candidate = NoCandidate])
         ELSE IF Held(r.candidate, "low", at, th.inactiveFor)
              THEN Finished(r, at, resting)
              ELSE Quiet([r EXCEPT !.candidate = Sighted(r.candidate, "low", at)])
    ELSE IF ~on
         THEN Quiet([r EXCEPT !.activity = otherwise, !.candidate = NoCandidate])
         ELSE IF Held(r.candidate, "high", at, th.activeFor)
              THEN Started(r, at, engaged)
              ELSE Quiet([r EXCEPT !.candidate = Sighted(r.candidate, "high", at)])

StepContinuous(r, at, p) ==
    StepOnOff(r, at, p >= CompressorThreshold(r.thresholds),
              "active_cycle", "normal_idle", "normal_idle")

\* A state that is neither ON nor OFF changes nothing.
StepBinary(r, at, state) ==
    IF state \in {"ON", "OFF"}
    THEN StepOnOff(r, at, state = "ON", "active", "idle",
                   IF r.activity = "unknown" THEN "idle" ELSE r.activity)
    ELSE Quiet(r)

-----------------------------------------------------------------------------
(* OnReading and Tick.                                                     *)

\* Both energy paths take every reading, whatever the class does with it.
Metered(r, at, reading) ==
    [r EXCEPT
       !.integrator = IF reading.power = Nil THEN r.integrator
                      ELSE IntegratorUpdate(r.integrator, at, reading.power, MaxIntegrationGap),
       !.counter    = IF reading.energy = Nil THEN r.counter
                      ELSE CounterUpdate(r.counter, reading.energy)]

StepPower(r, at, p) ==
    CASE r.class = "short_burst" -> StepBetweenThresholds(r, at, p, "active", "idle")
      [] r.class = "cycle_power" -> StepBetweenThresholds(r, at, p, "running", "finished_recently")
      [] r.class = "media"       -> StepBetweenThresholds(r, at, p, "active", "standby")
      [] r.class = "continuous"  -> StepContinuous(r, at, p)

\* The class-specific part of OnReading, after the energy paths.
StepClass(r, at, reading) ==
    CASE r.class = "binary_state" /\ reading.state # Nil -> StepBinary(r, at, reading.state)
      [] r.class \in PowerClasses /\ reading.power # Nil -> StepPower(r, at, reading.power)
      [] r.class \in PassiveClasses /\ r.activity = "unknown" ->
           Quiet([r EXCEPT !.activity = "reporting"])
      [] OTHER -> Quiet(r)

\* Mutant: a finished cycle's energy is refreshed too.
OnReadingRefreshAlways(r, at, reading) ==
    LET step == StepClass(Metered(r, at, reading), at, reading)
    IN  [rt    |-> IF step.rt.cycle.phase # "none"
                   THEN RefreshCycleEnergy(step.rt, at) ELSE step.rt,
         event |-> step.event]

OnReading(r, at, reading) ==
    LET step == StepClass(Metered(r, at, reading), at, reading)
    IN  [rt    |-> IF CycleActive(step.rt) THEN RefreshCycleEnergy(step.rt, at) ELSE step.rt,
         event |-> step.event]

\* Mutant: the tick only clears the countdown.
TickWithoutDecay(r, at) == [r EXCEPT !.lowCount = 0]

\* The decay that needs no reading: finished_recently ends by age.
Tick(r, at) ==
    IF /\ r.activity = "finished_recently"
       /\ r.cycle.finishedAt # Nil
       /\ at - r.cycle.finishedAt >= FinishedRecentlyTTL
    THEN [r EXCEPT !.activity = "idle", !.lowCount = 0]
    ELSE r
=============================================================================
