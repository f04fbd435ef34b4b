---------------------------- MODULE RuntimeMachine ----------------------------
(***************************************************************************)
(* One device's runtime, driven as the engine drives it: readings arrive   *)
(* with timestamps that may lag or lead the clock (delivery is unordered   *)
(* and some adapters trust the device's clock), the engine ticks, and the  *)
(* plug's physical energy counter advances or resets underneath.           *)
(*                                                                         *)
(* runs, lows and use are history variables: they never influence a step   *)
(* and exist only for the properties to refer to.                          *)
(***************************************************************************)
EXTENDS DeviceRuntime

CONSTANTS
    Profiles,   \* the [class, strategy, thresholds] records a device may have
    Payloads,   \* the readings' contents: [power, state, counter : BOOLEAN]
    MaxLag,     \* how far a reading's timestamp may lie behind the clock
    MaxSkew,    \* how far it may lie ahead
    Horizon,    \* bound: the clock time after which no reading arrives
    ClockMax,   \* bound: the clock stops here
    MeterMax    \* bound: the largest value of the physical counter

ASSUME MachineConstants ==
    /\ Profiles \subseteq [class : Classes, strategy : Strategies, thresholds : Thresholds]
    /\ \A q \in Payloads : q.power \in OptInt /\ q.counter \in BOOLEAN
    /\ MaxLag \in Nat /\ MaxSkew \in Nat /\ Horizon \in Nat /\ ClockMax \in Nat
    /\ MeterMax \in Nat
    /\ Nil \notin {"ON", "OFF"}

VARIABLES
    rt,      \* the Runtime
    now,     \* the engine's clock
    meter,   \* the plug's physical counter
    past,    \* what it stood at one, two, ... MaxLag ticks ago
    runs,    \* oldest timestamp in the unbroken run of high / of low sightings
    lows,    \* consecutive low power readings since finished_recently began
    use      \* consumption since the report the next or present cycle counts from

vars == <<rt, now, meter, past, runs, lows, use>>

Init ==
    /\ \E p \in Profiles : rt = NewRuntime(p.class, p.strategy, p.thresholds)
    /\ now = 0
    /\ meter = 0
    /\ past = [age \in 1..MaxLag |-> 0]
    /\ runs = [high |-> Nil, low |-> Nil]
    /\ lows = 0
    /\ use = [since |-> 0, seen |-> 0, reset |-> FALSE]

-----------------------------------------------------------------------------
(* The levels a reading shows, in the terms of each class.                 *)

Relevant(r, q) ==
    IF r.class = "binary_state" THEN q.state \in {"ON", "OFF"} ELSE q.power # Nil

High(r, q) ==
    CASE r.class = "binary_state" -> q.state = "ON"
      [] r.class = "continuous"   -> q.power >= CompressorThreshold(r.thresholds)
      [] OTHER                    -> q.power >= Deref(r.thresholds.activeAbove)

Low(r, q) ==
    CASE r.class \in {"binary_state", "continuous"} -> ~High(r, q)
      [] OTHER -> q.power <= Deref(r.thresholds.idleBelow)

Extend(from, seen, at) ==
    IF ~seen THEN Nil ELSE IF from = Nil THEN at ELSE IF at < from THEN at ELSE from

NextRuns(q, at) ==
    IF Relevant(rt, q)
    THEN [high |-> Extend(runs.high, High(rt, q), at),
          low  |-> Extend(runs.low, Low(rt, q), at)]
    ELSE runs

NextLows(q, next) ==
    IF rt.activity # "finished_recently" \/ next.activity # "finished_recently" THEN 0
    ELSE IF q.power = Nil THEN lows
    ELSE IF q.power < Deref(rt.thresholds.idleBelow) THEN lows + 1 ELSE 0

NextUse(q, next) ==
    LET reported ==
          IF ~q.counter THEN use
          ELSE IF ~CycleActive(rt) \/ rt.counter.latest = Nil
               THEN [since |-> 0, seen |-> 0, reset |-> FALSE]
               ELSE [use EXCEPT !.seen = use.since]
    IN  IF ~CycleActive(rt) /\ CycleActive(next)
        THEN [reported EXCEPT !.since = reported.since - reported.seen, !.seen = 0]
        ELSE reported

-----------------------------------------------------------------------------
(* Steps.                                                                  *)

\* What a reading stamped `at` may say of the counter: one stamped behind the
\* clock comes late, with the counter as it was then, or from a slow clock.
Shown(at) == {meter} \union (IF at < now THEN {past[now - at]} ELSE {})

\* The locked section of IngestReading: seed the counter, then OnReading.
Ingest(at, q) ==
    /\ now <= Horizon
    /\ \E energy \in IF q.counter THEN Shown(at) ELSE {Nil} :
         LET reading == [power |-> q.power, energy |-> energy, state |-> q.state]
             seeded  == IF q.counter THEN SeedCounter(rt, energy) ELSE rt
             step    == OnReading(seeded, at, reading)
         IN  /\ rt' = step.rt
             /\ runs' = NextRuns(q, at)
             /\ lows' = NextLows(q, step.rt)
             /\ use' = NextUse(q, step.rt)
    /\ UNCHANGED <<now, meter, past>>

EngineTick ==
    /\ rt' = Tick(rt, now)
    /\ lows' = IF rt'.activity = rt.activity THEN lows ELSE 0
    /\ UNCHANGED <<now, meter, past, runs, use>>

AdvanceClock ==
    /\ now < ClockMax
    /\ now' = now + 1
    /\ past' = [age \in 1..MaxLag |-> IF age = 1 THEN meter ELSE past[age - 1]]
    /\ UNCHANGED <<rt, meter, runs, lows, use>>

Consume ==
    /\ meter < MeterMax
    /\ use.since < MeterMax
    /\ meter' = meter + 1
    /\ use' = [use EXCEPT !.since = @ + 1]
    /\ UNCHANGED <<rt, now, past, runs, lows>>

\* The plug restarts and its counter begins again from zero.
PlugReset ==
    /\ meter > 0
    /\ meter' = 0
    /\ use' = [use EXCEPT !.reset = TRUE]
    /\ UNCHANGED <<rt, now, past, runs, lows>>

Next ==
    \/ \E q \in Payloads : \E at \in (now - MaxLag)..(now + MaxSkew) : Ingest(at, q)
    \/ EngineTick
    \/ AdvanceClock
    \/ Consume
    \/ PlugReset

Spec == Init /\ [][Next]_vars

\* Time passes and the engine's ticker fires; nothing makes a device report.
FairSpec == Spec /\ WF_vars(AdvanceClock) /\ WF_vars(EngineTick)

-----------------------------------------------------------------------------
(* Properties.                                                             *)

TypeOK ==
    /\ rt \in Runtime
    /\ now \in Nat
    /\ meter \in Nat
    /\ past \in [1..MaxLag -> Nat]
    /\ runs \in [high : OptInt, low : OptInt]
    /\ lows \in Nat
    /\ use \in [since : Nat, seen : Nat, reset : BOOLEAN]

\* A cycle is in flight exactly while the activity says the device is engaged.
EngagedIffCycleActive(r) == r.activity \in Engaged <=> CycleActive(r)

\* A pending candidate always argues against the present activity.
CandidateOpposesActivity(r) ==
    /\ r.candidate.kind = "high" => r.activity \notin Engaged
    /\ r.candidate.kind = "low" => r.activity \in Engaged

\* The countdown runs only in finished_recently and stops short of its limit.
CountdownOnlyWhenFinished(r) ==
    /\ r.lowCount # 0 => r.activity = "finished_recently"
    /\ r.lowCount < FinishedRecentlyLowReadings

\* finished_recently always has the finish time the TTL is measured from.
FinishedHasTimestamp(r) ==
    /\ r.activity = "finished_recently" => r.cycle.phase = "finished"
    /\ r.cycle.phase = "finished" <=> r.cycle.finishedAt # Nil

\* Each class moves among its own activities only.
ClassActivities(class) ==
    CASE class = "short_burst"  -> {"unknown", "idle", "active"}
      [] class = "cycle_power"  -> {"unknown", "idle", "running", "finished_recently"}
      [] class = "continuous"   -> {"unknown", "normal_idle", "active_cycle"}
      [] class = "media"        -> {"unknown", "idle", "active", "standby"}
      [] class = "binary_state" -> {"unknown", "idle", "active"}
      [] class = "passive"      -> {"unknown", "reporting"}
      [] OTHER                  -> {"unknown"}

RuntimeOK(r) ==
    /\ r.activity \in ClassActivities(r.class)
    /\ EngagedIffCycleActive(r)
    /\ CandidateOpposesActivity(r)
    /\ CountdownOnlyWhenFinished(r)
    /\ FinishedHasTimestamp(r)

(* Facts of the state machine that no branch states and every branch must
   keep: the activity and the in-flight cycle never disagree (a stuck "running"
   or a cycle nobody can finish), a candidate never survives the transition it
   argued for, the countdown is never left over from an earlier cycle, and a
   finished_recently device can always be timed out by Tick. *)
RuntimeInv == RuntimeOK(rt)

(* A blip never opens or closes a cycle: when the in-flight cycle changes, the
   level had been reported without a break for the configured window, counting
   from a reading that may have been delivered out of order. *)
EdgeSustained ==
    /\ ~CycleActive(rt) /\ CycleActive(rt') =>
          /\ runs'.high # Nil
          /\ rt'.cycle.startedAt - runs'.high >= rt.thresholds.activeFor
    /\ CycleActive(rt) /\ ~CycleActive(rt') =>
          /\ runs'.low # Nil
          /\ rt'.cycle.finishedAt - runs'.low >= rt.thresholds.inactiveFor

SustainedEdges == [][EdgeSustained]_vars

(* finished_recently gives way to idle only when it has aged past its TTL or
   after the required number of low readings in a row; residual draw in
   between restarts the count, and no other exit exists but a new cycle. *)
DecayJustified ==
    rt.activity = "finished_recently" /\ rt'.activity # "finished_recently" =>
       \/ CycleActive(rt')
       \/ /\ rt'.activity = "idle"
          /\ \/ now - rt.cycle.finishedAt >= FinishedRecentlyTTL
             \/ lows + 1 >= FinishedRecentlyLowReadings

DecayIsJustified == [][DecayJustified]_vars

(* When readings are delivered in order, the counter delta of the cycle in flight
   is what the plug really consumed between the last report before the cycle
   opened and the newest report: exactly when the plug did not reset, and never
   more when it did.  (A report that comes late looks like a reset: the baseline
   rolls back to it and the next report bills the difference again.) *)
CounterFaithful ==
    CycleActive(rt) =>
        /\ rt.cycle.reported <= use.seen
        /\ ~use.reset => rt.cycle.reported = use.seen

(* With readings in order, a cycle is never billed more integrated energy than
   the largest reported power could deliver in the cycle's own duration: the
   gap before the cycle, silent or not, is not charged to it.  A binary-state
   device is exempt: its cycle may open on a state report that carries no power,
   and the next power report is then charged from the one before the cycle. *)
MaxWatts == CHOOSE w \in {q.power : q \in Payloads} \ {Nil} :
                \A q \in Payloads : q.power # Nil => q.power <= w

IntegratedWithinCycle ==
    rt.class # "binary_state" => rt.cycle.integrated <= 2 * MaxWatts * rt.cycle.duration

(* Every device implements the cycle ledger the events, history and published
   snapshots are written against. *)
Ledger == INSTANCE CycleLedger WITH
    Unset <- Nil, phase <- rt.cycle.phase, startedAt <- rt.cycle.startedAt,
    finishedAt <- rt.cycle.finishedAt, kwh <- rt.cycle.kwh

LedgerSpec == Ledger!Spec

(* finished_recently is never permanent: even if the device goes silent the
   periodic tick takes it to idle. *)
FinishedRecentlyEnds ==
    rt.activity = "finished_recently" ~> rt.activity # "finished_recently"
=============================================================================
