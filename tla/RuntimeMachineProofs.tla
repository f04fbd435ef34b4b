------------------------- MODULE RuntimeMachineProofs -------------------------
(***************************************************************************)
(* Proofs about RuntimeMachine for every set of profiles, every payload,   *)
(* any lag, skew and bounds.                                               *)
(***************************************************************************)
EXTENDS RuntimeMachine, TLAPS

-----------------------------------------------------------------------------
(* The energy operators are total on their types.                          *)

\* Counter operations keep a counter a counter, and Delta is a natural number.
LEMMA CounterTyped ==
    ASSUME NEW c \in Counter, NEW v \in Int
    PROVE  /\ SetBaseline(v) \in Counter
           /\ CounterUpdate(c, v) \in Counter
           /\ RebaselineAtLatest(c) \in Counter
           /\ Delta(c) \in Nat
  BY NilAssumption DEF Counter, OptInt, SetBaseline, CounterUpdate, RebaselineAtLatest, Delta

\* One more power reading keeps the integrator typed.
LEMMA IntegratorTyped ==
    ASSUME NEW i \in Integrator, NEW at \in Int, NEW w \in Int, NEW gap \in Int
    PROVE  IntegratorUpdate(i, at, w, gap) \in Integrator
  BY NilAssumption DEF Integrator, OptInt, IntegratorUpdate

\* The selected energy is one of the two totals.
LEMMA SelectedTyped ==
    ASSUME NEW s, NEW c \in Nat, NEW i \in Nat
    PROVE  SelectKWh(s, c, i).kwh \in Nat
  BY DEF SelectKWh

-----------------------------------------------------------------------------
(* Refreshing, opening and closing a cycle.                                *)

Good(r) == r \in Runtime /\ RuntimeOK(r)

\* No energy has been billed since the cycle opened.
Fresh(r) == Delta(r.counter) = 0 /\ r.snap.total = r.integrator.total

\* The integrated energy of the cycle in flight, never below zero.
Gained(r) == IF r.integrator.total - r.snap.total < 0 THEN 0
             ELSE r.integrator.total - r.snap.total

\* Refreshing a cycle's energy touches nothing but amounts and duration.
LEMMA RefreshFrame ==
    ASSUME NEW r \in Runtime, NEW at \in Int
    PROVE  /\ RefreshCycleEnergy(r, at) \in Runtime
           /\ RefreshCycleEnergy(r, at)
                = [r EXCEPT !.cycle = RefreshCycleEnergy(r, at).cycle]
           /\ RefreshCycleEnergy(r, at).cycle.phase = r.cycle.phase
           /\ RefreshCycleEnergy(r, at).cycle.startedAt = r.cycle.startedAt
           /\ RefreshCycleEnergy(r, at).cycle.finishedAt = r.cycle.finishedAt
           /\ RefreshCycleEnergy(r, at).cycle.kwh \in Nat
           /\ Fresh(r) => RefreshCycleEnergy(r, at).cycle.kwh = 0
           /\ RefreshCycleEnergy(r, at).cycle.reported = Delta(r.counter)
           /\ RefreshCycleEnergy(r, at).cycle.integrated = Gained(r)
           /\ RefreshCycleEnergy(r, at).cycle.duration
                = IF CycleActive(r) THEN at - r.cycle.startedAt ELSE r.cycle.duration
<1> DEFINE reported == Delta(r.counter)
           gained == r.integrator.total - r.snap.total
           integrated == IF gained < 0 THEN 0 ELSE gained
           kwh == SelectKWh(r.strategy, reported, integrated).kwh
           duration == IF CycleActive(r) THEN at - r.cycle.startedAt ELSE r.cycle.duration
<1>1. r.cycle \in Cycle /\ r.counter \in Counter
  BY DEF Runtime
<1>2. reported \in Nat
  BY <1>1, CounterTyped
<1>3. integrated \in Nat
  BY DEF Runtime, Integrator, Snapshot
<1>4. kwh \in Nat
  BY <1>2, <1>3, SelectedTyped
<1>5. duration \in Int
  BY <1>1 DEF Cycle
<1>5a. Fresh(r) => kwh = 0
  BY DEF Fresh, SelectKWh, Runtime, Integrator
<1> DEFINE cycle == [r.cycle EXCEPT !.reported = reported, !.integrated = integrated,
                                    !.kwh = kwh, !.duration = duration]
<1>6. RefreshCycleEnergy(r, at) = [r EXCEPT !.cycle = cycle]
  BY Zenon DEF RefreshCycleEnergy
<1>6a. integrated = Gained(r)
  BY DEF Gained
<1> HIDE DEF reported, integrated, kwh, duration
<1>7a. reported \in Int /\ integrated \in Int /\ kwh \in Int
  BY <1>2, <1>3, <1>4
<1>7b. cycle \in Cycle
  BY <1>1, <1>5, <1>7a, Zenon DEF Cycle
<1>7. /\ cycle.phase = r.cycle.phase
      /\ cycle.startedAt = r.cycle.startedAt
      /\ cycle.finishedAt = r.cycle.finishedAt
      /\ cycle.kwh = kwh /\ cycle.reported = reported
      /\ cycle.integrated = integrated /\ cycle.duration = duration
  BY <1>1 DEF Cycle
<1> HIDE DEF cycle
<1>8. [r EXCEPT !.cycle = cycle] \in Runtime /\ [r EXCEPT !.cycle = cycle].cycle = cycle
  BY <1>7b DEF Runtime
<1>9. QED
  BY <1>4, <1>5a, <1>6, <1>6a, <1>7, <1>7b, <1>8 DEF reported, duration

\* What a freshly opened cycle looks like.
LEMMA StartFrame ==
    ASSUME NEW r \in Runtime, NEW at \in Int, NEW activity \in Activities
    PROVE  /\ StartCycle(r, at, activity) \in Runtime
           /\ StartCycle(r, at, activity).class = r.class
           /\ StartCycle(r, at, activity).activity = activity
           /\ StartCycle(r, at, activity).candidate = NoCandidate
           /\ StartCycle(r, at, activity).lowCount = 0
           /\ StartCycle(r, at, activity).cycle.phase = "active"
           /\ StartCycle(r, at, activity).cycle.startedAt = at
           /\ StartCycle(r, at, activity).cycle.finishedAt = Nil
           /\ StartCycle(r, at, activity).cycle.kwh = 0
           /\ Delta(StartCycle(r, at, activity).counter) = 0
           /\ StartCycle(r, at, activity).snap.total
                = StartCycle(r, at, activity).integrator.total
           /\ StartCycle(r, at, activity).thresholds = r.thresholds
           /\ StartCycle(r, at, activity).integrator = r.integrator
           /\ StartCycle(r, at, activity).counter = RebaselineAtLatest(r.counter)
<1> DEFINE cycle   == [NoCycle EXCEPT !.phase = "active", !.startedAt = at]
           counter == RebaselineAtLatest(r.counter)
           snap    == SnapshotState(r.integrator)
<1>1. cycle \in Cycle
  <2>1. NoCycle \in Cycle
    BY DEF NoCycle, Cycle, OptInt
  <2>2. QED
    BY <2>1, Zenon DEF Cycle
<1>2. counter \in Counter
  BY CounterTyped DEF Runtime
<1>3. snap \in Snapshot
  BY DEF Runtime, Integrator, SnapshotState, Snapshot
<1>4. NoCandidate \in [kind : {"none", "high", "low"}, at : Int] /\ 0 \in Nat
  BY DEF NoCandidate
<1> HIDE DEF cycle, counter, snap
<1>5. [r EXCEPT !.activity = activity, !.candidate = NoCandidate, !.lowCount = 0,
                !.cycle = cycle, !.counter = counter, !.snap = snap] \in Runtime
  BY <1>1, <1>2, <1>3, <1>4, Zenon DEF Runtime
<1>6. StartCycle(r, at, activity)
        = [r EXCEPT !.activity = activity, !.candidate = NoCandidate, !.lowCount = 0,
                    !.cycle = cycle, !.counter = counter, !.snap = snap]
  BY Zenon DEF StartCycle, cycle, counter, snap
<1>7. Delta(counter) = 0
  BY NilAssumption DEF counter, Delta, RebaselineAtLatest, Runtime, Counter, OptInt
<1>8. snap.total = r.integrator.total
  BY DEF snap, SnapshotState
<1>9. /\ cycle.phase = "active" /\ cycle.startedAt = at
      /\ cycle.finishedAt = Nil /\ cycle.kwh = 0
  BY DEF cycle, NoCycle
<1>10. QED
  BY <1>5, <1>6, <1>7, <1>8, <1>9 DEF Runtime, counter

\* What a cycle looks like when it has just been closed.
LEMMA FinishFrame ==
    ASSUME NEW r \in Runtime, NEW at \in Int, NEW activity \in Activities
    PROVE  /\ FinishCycle(r, at, activity) \in Runtime
           /\ FinishCycle(r, at, activity).class = r.class
           /\ FinishCycle(r, at, activity).activity = activity
           /\ FinishCycle(r, at, activity).candidate = NoCandidate
           /\ FinishCycle(r, at, activity).lowCount = r.lowCount
           /\ FinishCycle(r, at, activity).cycle.phase = "finished"
           /\ FinishCycle(r, at, activity).cycle.startedAt = r.cycle.startedAt
           /\ FinishCycle(r, at, activity).cycle.finishedAt = at
           /\ FinishCycle(r, at, activity).cycle.kwh \in Nat
           /\ FinishCycle(r, at, activity).cycle.integrated = Gained(r)
           /\ FinishCycle(r, at, activity).cycle.duration = at - r.cycle.startedAt
           /\ FinishCycle(r, at, activity).thresholds = r.thresholds
           /\ FinishCycle(r, at, activity).integrator = r.integrator
           /\ FinishCycle(r, at, activity).counter = r.counter
           /\ FinishCycle(r, at, activity).snap = r.snap
<1> DEFINE cycle == [r.cycle EXCEPT !.phase = "finished", !.finishedAt = at,
                                    !.duration = at - r.cycle.startedAt]
           s == [r EXCEPT !.activity = activity, !.candidate = NoCandidate, !.cycle = cycle]
<1>1. r.cycle \in Cycle /\ at - r.cycle.startedAt \in Int /\ at \in OptInt
  BY DEF Runtime, Cycle, OptInt
<1>2. cycle \in Cycle
  BY <1>1, Zenon DEF Cycle
<1>3. /\ cycle.phase = "finished"
      /\ cycle.startedAt = r.cycle.startedAt
      /\ cycle.finishedAt = at
      /\ cycle.duration = at - r.cycle.startedAt
  BY <1>1 DEF Cycle
<1>4. NoCandidate \in [kind : {"none", "high", "low"}, at : Int]
  BY DEF NoCandidate
<1>5. FinishCycle(r, at, activity) = RefreshCycleEnergy(s, at)
  BY Zenon DEF FinishCycle
<1> HIDE DEF cycle
<1>6. s \in Runtime
  BY <1>2, <1>4, Zenon DEF Runtime
<1>7. /\ s.class = r.class /\ s.activity = activity /\ s.candidate = NoCandidate
      /\ s.lowCount = r.lowCount /\ s.cycle = cycle
      /\ s.thresholds = r.thresholds /\ s.integrator = r.integrator
      /\ s.counter = r.counter /\ s.snap = r.snap
  BY DEF Runtime
<1> HIDE DEF s
<1>8. /\ RefreshCycleEnergy(s, at) \in Runtime
      /\ RefreshCycleEnergy(s, at) = [s EXCEPT !.cycle = RefreshCycleEnergy(s, at).cycle]
      /\ RefreshCycleEnergy(s, at).cycle.phase = cycle.phase
      /\ RefreshCycleEnergy(s, at).cycle.startedAt = cycle.startedAt
      /\ RefreshCycleEnergy(s, at).cycle.finishedAt = cycle.finishedAt
      /\ RefreshCycleEnergy(s, at).cycle.kwh \in Nat
      /\ RefreshCycleEnergy(s, at).cycle.integrated = Gained(s)
      /\ RefreshCycleEnergy(s, at).cycle.duration
           = IF CycleActive(s) THEN at - cycle.startedAt ELSE cycle.duration
  BY <1>6, <1>7, RefreshFrame
<1>8a. Gained(s) = Gained(r) /\ ~CycleActive(s)
  BY <1>3, <1>7 DEF Gained, CycleActive
<1>9. /\ RefreshCycleEnergy(s, at).class = s.class
      /\ RefreshCycleEnergy(s, at).activity = s.activity
      /\ RefreshCycleEnergy(s, at).candidate = s.candidate
      /\ RefreshCycleEnergy(s, at).lowCount = s.lowCount
      /\ RefreshCycleEnergy(s, at).thresholds = s.thresholds
      /\ RefreshCycleEnergy(s, at).integrator = s.integrator
      /\ RefreshCycleEnergy(s, at).counter = s.counter
      /\ RefreshCycleEnergy(s, at).snap = s.snap
  BY <1>6, <1>8 DEF Runtime
<1>10. QED
  BY <1>3, <1>5, <1>7, <1>8, <1>8a, <1>9

-----------------------------------------------------------------------------
(* Every step keeps the invariant and makes a move the ledger allows.      *)

Opens(r, s) == /\ ~CycleActive(r) /\ CycleActive(s)
               /\ s.cycle.finishedAt = Nil /\ s.cycle.kwh = 0 /\ Fresh(s)
Closes(r, s) == /\ CycleActive(r) /\ s.cycle.phase = "finished"
                /\ s.cycle.startedAt = r.cycle.startedAt
                /\ s.cycle.finishedAt \in Int /\ s.cycle.kwh \in Nat
Lawful(r, s) == Opens(r, s) \/ Closes(r, s) \/ s.cycle = r.cycle

\* Opening a cycle from rest.
LEMMA StartLawful ==
    ASSUME NEW r, Good(r), NEW at \in Int, ~CycleActive(r),
           NEW activity \in Engaged \intersect ClassActivities(r.class)
    PROVE  Good(StartCycle(r, at, activity)) /\ Lawful(r, StartCycle(r, at, activity))
<1> DEFINE s == StartCycle(r, at, activity)
<1>1. r \in Runtime /\ activity \in Activities
  BY DEF Good, Engaged, Activities
<1>2. /\ s \in Runtime /\ s.class = r.class /\ s.activity = activity
      /\ s.candidate = NoCandidate /\ s.lowCount = 0
      /\ s.cycle.phase = "active" /\ s.cycle.finishedAt = Nil /\ s.cycle.kwh = 0
      /\ Delta(s.counter) = 0 /\ s.snap.total = s.integrator.total
  BY <1>1, StartFrame
<1> HIDE DEF s
<1>3. Good(s)
  BY <1>2, RuntimeConstants
     DEF Good, RuntimeOK, EngagedIffCycleActive, CandidateOpposesActivity, CycleActive,
         CountdownOnlyWhenFinished, FinishedHasTimestamp, NoCandidate, Engaged
<1>4. Lawful(r, s)
  BY <1>2 DEF Lawful, Opens, CycleActive, Fresh
<1>5. QED
  BY <1>3, <1>4 DEF s

\* Closing the cycle in flight.
LEMMA FinishLawful ==
    ASSUME NEW r, Good(r), NEW at \in Int, CycleActive(r),
           NEW activity \in ClassActivities(r.class) \ Engaged, activity \in Activities
    PROVE  Good(FinishCycle(r, at, activity)) /\ Lawful(r, FinishCycle(r, at, activity))
<1> DEFINE s == FinishCycle(r, at, activity)
<1>1. /\ s \in Runtime /\ s.class = r.class /\ s.activity = activity
      /\ s.candidate = NoCandidate /\ s.lowCount = r.lowCount
      /\ s.cycle.phase = "finished" /\ s.cycle.startedAt = r.cycle.startedAt
      /\ s.cycle.finishedAt = at /\ s.cycle.kwh \in Nat
  BY FinishFrame DEF Good
<1> HIDE DEF s
<1>2. r.lowCount = 0
  BY DEF Good, RuntimeOK, EngagedIffCycleActive, CountdownOnlyWhenFinished, Engaged
<1>3. Good(s)
  BY <1>1, <1>2, RuntimeConstants, NilAssumption
     DEF Good, RuntimeOK, EngagedIffCycleActive, CandidateOpposesActivity, CycleActive,
         CountdownOnlyWhenFinished, FinishedHasTimestamp, NoCandidate
<1>4. Lawful(r, s)
  BY <1>1 DEF Lawful, Closes
<1>5. QED
  BY <1>3, <1>4 DEF s

\* Changing only the candidate, to one that argues against the activity.
LEMMA CandidateGood ==
    ASSUME NEW r, Good(r), NEW c \in [kind : {"none", "high", "low"}, at : Int],
           c.kind = "high" => r.activity \notin Engaged,
           c.kind = "low" => r.activity \in Engaged
    PROVE  /\ Good([r EXCEPT !.candidate = c])
           /\ [r EXCEPT !.candidate = c].cycle = r.cycle
           /\ [r EXCEPT !.candidate = c].class = r.class
           /\ [r EXCEPT !.candidate = c].activity = r.activity
<1> DEFINE s == [r EXCEPT !.candidate = c]
<1>1. s \in Runtime
  BY Zenon DEF Good, Runtime
<1>2. /\ s.class = r.class /\ s.activity = r.activity /\ s.candidate = c
      /\ s.lowCount = r.lowCount /\ s.cycle = r.cycle
  BY DEF Good, Runtime
<1> HIDE DEF s
<1>3. Good(s)
  BY <1>1, <1>2 DEF Good, RuntimeOK, EngagedIffCycleActive, CandidateOpposesActivity, CycleActive,
                    CountdownOnlyWhenFinished, FinishedHasTimestamp
<1>4. QED
  BY <1>2, <1>3 DEF s

\* Changing the resting activity and the countdown together.
LEMMA RestGood ==
    ASSUME NEW r, Good(r), r.activity \notin Engaged,
           NEW a \in ClassActivities(r.class) \ Engaged, a \in Activities,
           NEW n \in Nat, n < FinishedRecentlyLowReadings,
           n # 0 => a = "finished_recently",
           a = "finished_recently" => r.activity = "finished_recently"
    PROVE  /\ Good([r EXCEPT !.activity = a, !.lowCount = n])
           /\ [r EXCEPT !.activity = a, !.lowCount = n].cycle = r.cycle
<1> DEFINE s == [r EXCEPT !.activity = a, !.lowCount = n]
<1>1. s \in Runtime
  BY Zenon DEF Good, Runtime
<1>2. /\ s.class = r.class /\ s.activity = a /\ s.candidate = r.candidate
      /\ s.lowCount = n /\ s.cycle = r.cycle
  BY DEF Good, Runtime
<1> HIDE DEF s
<1>3. Good(s)
  BY <1>1, <1>2 DEF Good, RuntimeOK, EngagedIffCycleActive, CandidateOpposesActivity, CycleActive,
                    CountdownOnlyWhenFinished, FinishedHasTimestamp
<1>4. QED
  BY <1>2, <1>3 DEF s

\* Settling keeps the invariant and never touches the cycle.
LEMMA SettleGood ==
    ASSUME NEW r, Good(r), r.activity \notin Engaged, NEW p \in Int,
           r.class \in {"short_burst", "cycle_power", "media"}
    PROVE  Good(Settle(r, p)) /\ Settle(r, p).cycle = r.cycle
<1> DEFINE low     == p < Deref(r.thresholds.idleBelow)
           waiting == r.activity = "finished_recently"
           count   == IF ~waiting THEN r.lowCount ELSE IF low THEN r.lowCount + 1 ELSE 0
           decayed == waiting /\ count >= FinishedRecentlyLowReadings
           a == IF decayed \/ (r.activity = "unknown" /\ low) THEN "idle" ELSE r.activity
           n == IF decayed THEN 0 ELSE count
<1>1. Settle(r, p) = [r EXCEPT !.activity = a, !.lowCount = n]
  BY Zenon DEF Settle
<1>2. /\ r.lowCount \in Nat /\ r.lowCount < FinishedRecentlyLowReadings
      /\ r.lowCount # 0 => waiting
      /\ r.activity \in ClassActivities(r.class) /\ r.activity \in Activities
  BY DEF Good, Runtime, RuntimeOK, CountdownOnlyWhenFinished
<1>3. "idle" \in ClassActivities(r.class) \ Engaged /\ "idle" \in Activities
  BY DEF ClassActivities, Engaged, Activities
<1> HIDE DEF low
<1>4. count \in Nat
  BY <1>2
<1>5. /\ n \in Nat /\ n < FinishedRecentlyLowReadings
      /\ n # 0 => waiting /\ ~decayed
  BY <1>2, <1>4, RuntimeConstants
<1>6. /\ a \in ClassActivities(r.class) \ Engaged /\ a \in Activities
      /\ a = "finished_recently" => waiting
      /\ n # 0 => a = "finished_recently"
  BY <1>2, <1>3, <1>5
<1> HIDE DEF a, n
<1>7. /\ Good([r EXCEPT !.activity = a, !.lowCount = n])
      /\ [r EXCEPT !.activity = a, !.lowCount = n].cycle = r.cycle
  BY <1>5, <1>6, RestGood, Zenon
<1>8. QED
  BY <1>1, <1>7, Zenon

\* A reading of a two-threshold class.
LEMMA BetweenThresholdsLawful ==
    ASSUME NEW r, Good(r), NEW at \in Int, NEW p \in Int,
           r.class \in {"short_burst", "cycle_power", "media"},
           NEW engaged \in Engaged \intersect ClassActivities(r.class),
           NEW resting \in ClassActivities(r.class) \ Engaged, resting \in Activities
    PROVE  LET s == StepBetweenThresholds(r, at, p, engaged, resting).rt
           IN  Good(s) /\ Lawful(r, s)
<1> DEFINE low    == p <= Deref(r.thresholds.idleBelow)
           high   == p >= Deref(r.thresholds.activeAbove)
           falls  == IF low THEN Sighted(r.candidate, "low", at) ELSE Lost(r.candidate, "low")
           climbs == IF high THEN Sighted(r.candidate, "high", at) ELSE Lost(r.candidate, "high")
           step   == StepBetweenThresholds(r, at, p, engaged, resting)
<1>1. /\ r.candidate \in [kind : {"none", "high", "low"}, at : Int]
      /\ r.candidate.kind = "high" => r.activity \notin Engaged
      /\ r.candidate.kind = "low" => r.activity \in Engaged
      /\ r.activity \in Engaged <=> CycleActive(r)
  BY DEF Good, Runtime, RuntimeOK, CandidateOpposesActivity, EngagedIffCycleActive
<1>2. CASE r.activity \in Engaged
  <2>1. \/ step.rt = FinishCycle(r, at, resting)
        \/ step.rt = [r EXCEPT !.candidate = falls]
    BY <1>2 DEF StepBetweenThresholds, Finished, Quiet
  <2>2. /\ falls \in [kind : {"none", "high", "low"}, at : Int]
        /\ falls.kind # "high"
    BY <1>1, <1>2 DEF Sighted, Lost, NoCandidate
  <2> HIDE DEF falls, step
  <2>3. /\ Good([r EXCEPT !.candidate = falls])
        /\ [r EXCEPT !.candidate = falls].cycle = r.cycle
    BY <1>2, <2>2, CandidateGood
  <2>4. Good(FinishCycle(r, at, resting)) /\ Lawful(r, FinishCycle(r, at, resting))
    BY <1>1, <1>2, FinishLawful
  <2>5. QED
    BY <2>1, <2>3, <2>4 DEF Lawful, step
<1>3. CASE r.activity \notin Engaged
  <2>1. \/ step.rt = StartCycle(r, at, engaged)
        \/ step.rt = Settle([r EXCEPT !.candidate = climbs], p)
    BY <1>3 DEF StepBetweenThresholds, Started, Quiet
  <2>2. /\ climbs \in [kind : {"none", "high", "low"}, at : Int]
        /\ climbs.kind # "low"
    BY <1>1, <1>3 DEF Sighted, Lost, NoCandidate
  <2> HIDE DEF climbs, step
  <2> DEFINE c == [r EXCEPT !.candidate = climbs]
  <2>3. Good(c) /\ c.cycle = r.cycle /\ c.class = r.class /\ c.activity = r.activity
    BY <1>3, <2>2, CandidateGood
  <2> HIDE DEF c
  <2>4. Good(Settle(c, p)) /\ Settle(c, p).cycle = r.cycle
    BY <1>3, <2>3, SettleGood
  <2>5. QED
    BY <1>1, <1>3, <2>1, <2>4, StartLawful DEF Lawful, step, c
<1>4. QED
  BY <1>2, <1>3

\* Leaving every candidate behind, in a resting activity with no countdown.
LEMMA SettledGood ==
    ASSUME NEW r, Good(r), r.activity \notin Engaged, r.lowCount = 0,
           NEW a \in ClassActivities(r.class) \ Engaged, a \in Activities,
           a # "finished_recently"
    PROVE  /\ Good([r EXCEPT !.activity = a, !.candidate = NoCandidate])
           /\ [r EXCEPT !.activity = a, !.candidate = NoCandidate].cycle = r.cycle
<1> DEFINE s == [r EXCEPT !.activity = a, !.candidate = NoCandidate]
<1>1. NoCandidate \in [kind : {"none", "high", "low"}, at : Int]
  BY DEF NoCandidate
<1>2. s \in Runtime
  BY <1>1, Zenon DEF Good, Runtime
<1>3. /\ s.class = r.class /\ s.activity = a /\ s.candidate = NoCandidate
      /\ s.lowCount = 0 /\ s.cycle = r.cycle
  BY DEF Good, Runtime
<1> HIDE DEF s
<1>4. Good(s)
  BY <1>2, <1>3, RuntimeConstants
     DEF Good, RuntimeOK, EngagedIffCycleActive, CandidateOpposesActivity, CycleActive,
         CountdownOnlyWhenFinished, FinishedHasTimestamp, NoCandidate
<1>5. QED
  BY <1>3, <1>4 DEF s

\* A reading of an on/off class.
LEMMA OnOffLawful ==
    ASSUME NEW r, Good(r), NEW at \in Int, NEW on \in BOOLEAN,
           r.class \in {"continuous", "binary_state"},
           NEW engaged, ClassActivities(r.class) \intersect Engaged = {engaged},
           NEW resting \in ClassActivities(r.class) \ Engaged, resting \in Activities,
           NEW otherwise, r.activity \notin Engaged =>
               /\ otherwise \in ClassActivities(r.class) \ Engaged
               /\ otherwise \in Activities
    PROVE  LET s == StepOnOff(r, at, on, engaged, resting, otherwise).rt
           IN  Good(s) /\ Lawful(r, s)
<1> DEFINE falls  == Sighted(r.candidate, "low", at)
           climbs == Sighted(r.candidate, "high", at)
           step   == StepOnOff(r, at, on, engaged, resting, otherwise)
<1>1. /\ r.candidate \in [kind : {"none", "high", "low"}, at : Int]
      /\ r.candidate.kind = "high" => r.activity \notin Engaged
      /\ r.candidate.kind = "low" => r.activity \in Engaged
      /\ r.activity \in Engaged <=> CycleActive(r)
      /\ r.activity \in ClassActivities(r.class)
      /\ r.lowCount # 0 => r.activity = "finished_recently"
  BY DEF Good, Runtime, RuntimeOK, CandidateOpposesActivity, EngagedIffCycleActive,
         CountdownOnlyWhenFinished
<1>2. r.activity = engaged <=> r.activity \in Engaged
  BY <1>1
<1>3. /\ falls \in [kind : {"none", "high", "low"}, at : Int] /\ falls.kind = "low"
      /\ climbs \in [kind : {"none", "high", "low"}, at : Int] /\ climbs.kind = "high"
  BY <1>1 DEF Sighted
<1>4. NoCandidate \in [kind : {"none", "high", "low"}, at : Int] /\ NoCandidate.kind = "none"
  BY DEF NoCandidate
<1>5. CASE r.activity \in Engaged
  <2>1. \/ step.rt = FinishCycle(r, at, resting)
        \/ step.rt = [r EXCEPT !.candidate = falls]
        \/ step.rt = [r EXCEPT !.candidate = NoCandidate]
    BY <1>2, <1>5 DEF StepOnOff, Finished, Quiet
  <2> HIDE DEF falls, step
  <2>2. /\ Good([r EXCEPT !.candidate = falls])
        /\ [r EXCEPT !.candidate = falls].cycle = r.cycle
    BY <1>3, <1>5, CandidateGood
  <2>3. /\ Good([r EXCEPT !.candidate = NoCandidate])
        /\ [r EXCEPT !.candidate = NoCandidate].cycle = r.cycle
    BY <1>4, <1>5, CandidateGood
  <2>4. Good(FinishCycle(r, at, resting)) /\ Lawful(r, FinishCycle(r, at, resting))
    BY <1>1, <1>5, FinishLawful
  <2>5. QED
    BY <2>1, <2>2, <2>3, <2>4 DEF Lawful, step
<1>6. CASE r.activity \notin Engaged
  <2>1. \/ step.rt = StartCycle(r, at, engaged)
        \/ step.rt = [r EXCEPT !.candidate = climbs]
        \/ step.rt = [r EXCEPT !.activity = otherwise, !.candidate = NoCandidate]
    BY <1>2, <1>6 DEF StepOnOff, Started, Quiet
  <2> HIDE DEF climbs, step
  <2>2. /\ Good([r EXCEPT !.candidate = climbs])
        /\ [r EXCEPT !.candidate = climbs].cycle = r.cycle
    BY <1>3, <1>6, CandidateGood
  <2>3. r.lowCount = 0 /\ otherwise # "finished_recently"
    BY <1>1, <1>6 DEF ClassActivities
  <2>4. /\ Good([r EXCEPT !.activity = otherwise, !.candidate = NoCandidate])
        /\ [r EXCEPT !.activity = otherwise, !.candidate = NoCandidate].cycle = r.cycle
    BY <1>6, <2>3, SettledGood, Zenon
  <2>5. Good(StartCycle(r, at, engaged)) /\ Lawful(r, StartCycle(r, at, engaged))
    BY <1>1, <1>6, StartLawful
  <2>6. QED
    BY <2>1, <2>2, <2>4, <2>5 DEF Lawful, step
<1>7. QED
  BY <1>5, <1>6

-----------------------------------------------------------------------------
(* Whole handlers.                                                         *)

\* The energy paths leave everything else of the runtime alone.
LEMMA MeteredGood ==
    ASSUME NEW r, Good(r), NEW at \in Int, NEW q, q.power \in OptInt, q.energy \in OptInt
    PROVE  /\ Good(Metered(r, at, q)) /\ Metered(r, at, q).cycle = r.cycle
           /\ Metered(r, at, q).class = r.class
<1> DEFINE i == IF q.power = Nil THEN r.integrator
                ELSE IntegratorUpdate(r.integrator, at, q.power, MaxIntegrationGap)
           c == IF q.energy = Nil THEN r.counter ELSE CounterUpdate(r.counter, q.energy)
           s == [r EXCEPT !.integrator = i, !.counter = c]
<1>1. r.integrator \in Integrator /\ r.counter \in Counter
  BY DEF Good, Runtime
<1>2. i \in Integrator
  BY <1>1, IntegratorTyped, RuntimeConstants DEF OptInt
<1>3. c \in Counter
  BY <1>1, CounterTyped DEF OptInt
<1>4. Metered(r, at, q) = s
  BY Zenon DEF Metered
<1> HIDE DEF i, c
<1>5. s \in Runtime
  BY <1>2, <1>3, Zenon DEF Good, Runtime
<1>6. /\ s.class = r.class /\ s.activity = r.activity /\ s.candidate = r.candidate
      /\ s.lowCount = r.lowCount /\ s.cycle = r.cycle
  BY DEF Good, Runtime
<1> HIDE DEF s
<1>7. Good(s)
  BY <1>5, <1>6 DEF Good, RuntimeOK, EngagedIffCycleActive, CandidateOpposesActivity, CycleActive,
                    CountdownOnlyWhenFinished, FinishedHasTimestamp
<1>8. QED
  BY <1>4, <1>6, <1>7

\* Seeding the counter changes nothing but the counter.
LEMMA SeedGood ==
    ASSUME NEW r, Good(r), NEW v \in Int
    PROVE  Good(SeedCounter(r, v)) /\ SeedCounter(r, v).cycle = r.cycle
<1> DEFINE s == [r EXCEPT !.counter = SetBaseline(v)]
<1>1. SetBaseline(v) \in Counter
  BY DEF SetBaseline, Counter, OptInt
<1>2. s \in Runtime
  BY <1>1, Zenon DEF Good, Runtime
<1>3. /\ s.class = r.class /\ s.activity = r.activity /\ s.candidate = r.candidate
      /\ s.lowCount = r.lowCount /\ s.cycle = r.cycle
  BY DEF Good, Runtime
<1>4. SeedCounter(r, v) = r \/ SeedCounter(r, v) = s
  BY DEF SeedCounter
<1> HIDE DEF s
<1>5. Good(s)
  BY <1>2, <1>3 DEF Good, RuntimeOK, EngagedIffCycleActive, CandidateOpposesActivity, CycleActive,
                    CountdownOnlyWhenFinished, FinishedHasTimestamp
<1>6. QED
  BY <1>3, <1>4, <1>5

\* Marking a passive sensor as reporting.
LEMMA PassiveGood ==
    ASSUME NEW r, Good(r), r.class \in PassiveClasses, r.activity = "unknown"
    PROVE  /\ Good([r EXCEPT !.activity = "reporting"])
           /\ [r EXCEPT !.activity = "reporting"].cycle = r.cycle
<1> DEFINE s == [r EXCEPT !.activity = "reporting"]
<1>1. s \in Runtime
  BY DEF Good, Runtime, Activities
<1>2. /\ s.class = r.class /\ s.activity = "reporting" /\ s.candidate = r.candidate
      /\ s.lowCount = r.lowCount /\ s.cycle = r.cycle
  BY DEF Good, Runtime
<1> HIDE DEF s
<1>3. Good(s)
  BY <1>1, <1>2
     DEF Good, RuntimeOK, EngagedIffCycleActive, CandidateOpposesActivity, CycleActive, Engaged,
         CountdownOnlyWhenFinished, FinishedHasTimestamp, ClassActivities, PassiveClasses
<1>4. QED
  BY <1>2, <1>3 DEF s

\* The class-specific part of a reading, for every class.
LEMMA StepClassLawful ==
    ASSUME NEW r, Good(r), NEW at \in Int, NEW q, q.power \in OptInt
    PROVE  Good(StepClass(r, at, q).rt) /\ Lawful(r, StepClass(r, at, q).rt)
<1> DEFINE s == StepClass(r, at, q).rt
<1>1. r.class \in Classes /\ r.activity \in ClassActivities(r.class)
  BY DEF Good, Runtime, RuntimeOK
<1>2. CASE StepClass(r, at, q) = Quiet(r)
  BY <1>2 DEF Quiet, Lawful
<1>3. CASE r.class = "binary_state" /\ q.state # Nil
  <2> DEFINE otherwise == IF r.activity = "unknown" THEN "idle" ELSE r.activity
             on == q.state = "ON"
             after == StepOnOff(r, at, on, "active", "idle", otherwise)
  <2>1. /\ ClassActivities(r.class) \intersect Engaged = {"active"}
        /\ "idle" \in ClassActivities(r.class) \ Engaged
        /\ "idle" \in Activities
        /\ r.activity \notin Engaged => /\ otherwise \in ClassActivities(r.class) \ Engaged
                                        /\ otherwise \in Activities
    BY <1>1, <1>3 DEF ClassActivities, Engaged, Activities
  <2>2. on \in BOOLEAN
    OBVIOUS
  <2> HIDE DEF otherwise, on
  <2>3. Good(after.rt) /\ Lawful(r, after.rt)
    BY <1>3, <2>1, <2>2, OnOffLawful
  <2>4. StepClass(r, at, q) = after \/ StepClass(r, at, q) = Quiet(r)
    BY <1>3 DEF StepClass, StepBinary, PowerClasses, PassiveClasses, otherwise, on
  <2>5. QED
    BY <1>2, <2>3, <2>4
<1>4. CASE r.class \in PowerClasses /\ q.power # Nil
  <2>1. q.power \in Int
    BY <1>4 DEF OptInt
  <2>2. StepClass(r, at, q) = StepPower(r, at, q.power)
    BY <1>4 DEF StepClass, PowerClasses, PassiveClasses
  <2>3. CASE r.class = "short_burst"
    <3>1. /\ "active" \in Engaged \intersect ClassActivities(r.class)
          /\ "idle" \in ClassActivities(r.class) \ Engaged /\ "idle" \in Activities
      BY <2>3 DEF ClassActivities, Engaged, Activities
    <3>2. StepPower(r, at, q.power) = StepBetweenThresholds(r, at, q.power, "active", "idle")
      BY <2>3 DEF StepPower
    <3>3. QED
      BY <2>1, <2>2, <2>3, <3>1, <3>2, BetweenThresholdsLawful
  <2>4. CASE r.class = "cycle_power"
    <3>1. /\ "running" \in Engaged \intersect ClassActivities(r.class)
          /\ "finished_recently" \in ClassActivities(r.class) \ Engaged
          /\ "finished_recently" \in Activities
      BY <2>4 DEF ClassActivities, Engaged, Activities
    <3>2. StepPower(r, at, q.power)
            = StepBetweenThresholds(r, at, q.power, "running", "finished_recently")
      BY <2>4 DEF StepPower
    <3>3. QED
      BY <2>1, <2>2, <2>4, <3>1, <3>2, BetweenThresholdsLawful
  <2>5. CASE r.class = "media"
    <3>1. /\ "active" \in Engaged \intersect ClassActivities(r.class)
          /\ "standby" \in ClassActivities(r.class) \ Engaged /\ "standby" \in Activities
      BY <2>5 DEF ClassActivities, Engaged, Activities
    <3>2. StepPower(r, at, q.power) = StepBetweenThresholds(r, at, q.power, "active", "standby")
      BY <2>5 DEF StepPower
    <3>3. QED
      BY <2>1, <2>2, <2>5, <3>1, <3>2, BetweenThresholdsLawful
  <2>6. CASE r.class = "continuous"
    <3> DEFINE on == q.power >= CompressorThreshold(r.thresholds)
               after == StepOnOff(r, at, on, "active_cycle", "normal_idle", "normal_idle")
    <3>1. /\ ClassActivities(r.class) \intersect Engaged = {"active_cycle"}
          /\ "normal_idle" \in ClassActivities(r.class) \ Engaged
          /\ "normal_idle" \in Activities
      BY <2>6 DEF ClassActivities, Engaged, Activities
    <3>2. on \in BOOLEAN
      OBVIOUS
    <3>3. StepPower(r, at, q.power) = after
      BY <2>6 DEF StepPower, StepContinuous
    <3> HIDE DEF on
    <3>4. Good(after.rt) /\ Lawful(r, after.rt)
      BY <2>6, <3>1, <3>2, OnOffLawful
    <3>5. QED
      BY <2>2, <3>3, <3>4
  <2>7. QED
    BY <1>4, <2>3, <2>4, <2>5, <2>6 DEF PowerClasses
<1>5. CASE r.class \in PassiveClasses /\ r.activity = "unknown"
  <2>1. s = [r EXCEPT !.activity = "reporting"]
    BY <1>5 DEF StepClass, Quiet, PassiveClasses, PowerClasses
  <2>2. QED
    BY <1>5, <2>1, PassiveGood DEF Lawful
<1>6. QED
  BY <1>2, <1>3, <1>4, <1>5 DEF StepClass

\* OnReading as a whole: the class step, then the refresh of an open cycle.
LEMMA OnReadingLawful ==
    ASSUME NEW r, Good(r), NEW at \in Int, NEW q, q.power \in OptInt, q.energy \in OptInt
    PROVE  LET s == OnReading(r, at, q).rt
           IN  /\ Good(s)
               /\ \/ Opens(r, s) \/ Closes(r, s) \/ s.cycle = r.cycle
                  \/ /\ CycleActive(r) /\ CycleActive(s)
                     /\ s.cycle.startedAt = r.cycle.startedAt
                     /\ s.cycle.finishedAt = r.cycle.finishedAt
                     /\ s.cycle.kwh \in Nat
<1> DEFINE m    == Metered(r, at, q)
           step == StepClass(m, at, q)
           c    == step.rt
           s    == OnReading(r, at, q).rt
<1>1. Good(m) /\ m.cycle = r.cycle
  BY MeteredGood
<1> HIDE DEF m
<1>2. Good(c) /\ Lawful(m, c)
  BY <1>1, StepClassLawful
<1>3. s = IF CycleActive(c) THEN RefreshCycleEnergy(c, at) ELSE c
  BY DEF OnReading, m
<1> HIDE DEF c, s
<1>4. CASE ~CycleActive(c)
  BY <1>1, <1>2, <1>3, <1>4 DEF Lawful, Opens, Closes, CycleActive, s
<1>5. CASE CycleActive(c)
  <2> DEFINE f == RefreshCycleEnergy(c, at)
  <2>1. c \in Runtime
    BY <1>2 DEF Good
  <2>2. /\ f \in Runtime /\ f = [c EXCEPT !.cycle = f.cycle]
        /\ f.cycle.phase = c.cycle.phase
        /\ f.cycle.startedAt = c.cycle.startedAt
        /\ f.cycle.finishedAt = c.cycle.finishedAt
        /\ f.cycle.kwh \in Nat
        /\ Fresh(c) => f.cycle.kwh = 0
    BY <2>1, RefreshFrame
  <2> HIDE DEF f
  <2>4. /\ f.class = c.class /\ f.activity = c.activity /\ f.candidate = c.candidate
        /\ f.lowCount = c.lowCount /\ f.counter = c.counter
        /\ f.snap = c.snap /\ f.integrator = c.integrator
    BY <2>1, <2>2 DEF Runtime
  <2>5. Good(f)
    BY <1>2, <2>2, <2>4
       DEF Good, RuntimeOK, EngagedIffCycleActive, CandidateOpposesActivity, CycleActive,
           CountdownOnlyWhenFinished, FinishedHasTimestamp
  <2>6. Fresh(c) => Fresh(f)
    BY <2>4 DEF Fresh
  <2>7. s = f
    BY <1>3, <1>5 DEF f
  <2>8. QED
    BY <1>1, <1>2, <1>5, <2>2, <2>4, <2>5, <2>6, <2>7
       DEF Lawful, Opens, Closes, CycleActive, s
<1>6. QED
  BY <1>4, <1>5

\* The periodic tick only ever ends finished_recently.
LEMMA TickGood ==
    ASSUME NEW r, Good(r), NEW at \in Int
    PROVE  Good(Tick(r, at)) /\ Tick(r, at).cycle = r.cycle
<1>1. CASE Tick(r, at) = r
  BY <1>1
<1>2. CASE r.activity = "finished_recently" /\ Tick(r, at) = [r EXCEPT !.activity = "idle", !.lowCount = 0]
  <2>1. r.activity \notin Engaged /\ r.activity \in ClassActivities(r.class)
    BY <1>2 DEF Good, RuntimeOK, Engaged
  <2>2. /\ "idle" \in ClassActivities(r.class) \ Engaged /\ "idle" \in Activities
        /\ 0 \in Nat /\ 0 < FinishedRecentlyLowReadings /\ "idle" # "finished_recently"
    BY <1>2, <2>1, RuntimeConstants DEF ClassActivities, Engaged, Activities
  <2>3. /\ Good([r EXCEPT !.activity = "idle", !.lowCount = 0])
        /\ [r EXCEPT !.activity = "idle", !.lowCount = 0].cycle = r.cycle
    BY <2>1, <2>2, RestGood
  <2>4. QED
    BY <1>2, <2>3, Zenon
<1>3. QED
  BY <1>1, <1>2 DEF Tick

-----------------------------------------------------------------------------
(* What a reading does with the candidate, the countdown and the amounts.  *)

\* The classes that open and close cycles.
Switching == PowerClasses \union {"binary_state"}

\* A candidate stands only for a level this reading shows, and dates from this
\* reading or from where it stood; an edge needs its level held for its window.
Edges(r, s, at, high, low) ==
    /\ s.candidate.kind = "high" => high /\ (s.candidate.at = at \/ s.candidate = r.candidate)
    /\ s.candidate.kind = "low" => low /\ (s.candidate.at = at \/ s.candidate = r.candidate)
    /\ ~CycleActive(r) /\ CycleActive(s) =>
          high /\ s.cycle.startedAt = at /\ Held(r.candidate, "high", at, r.thresholds.activeFor)
    /\ CycleActive(r) /\ ~CycleActive(s) =>
          low /\ s.cycle.finishedAt = at /\ Held(r.candidate, "low", at, r.thresholds.inactiveFor)

\* finished_recently counts the low readings and leaves only on the last of them.
Countdown(r, s, below) ==
    IF r.activity = "finished_recently"
    THEN \/ CycleActive(s)
         \/ s.activity = "finished_recently" /\ s.lowCount = IF below THEN r.lowCount + 1 ELSE 0
         \/ s.activity = "idle" /\ below /\ r.lowCount + 1 >= FinishedRecentlyLowReadings
    ELSE s.activity = "finished_recently" => s.lowCount = 0

OpensAt(r, s, at) ==
    /\ ~CycleActive(r) /\ CycleActive(s)
    /\ s.counter = RebaselineAtLatest(r.counter)
    /\ s.snap.total = r.integrator.total
    /\ s.cycle.startedAt = at

ClosesAt(r, s, at) ==
    /\ CycleActive(r) /\ ~CycleActive(s)
    /\ s.counter = r.counter
    /\ s.cycle.integrated = Gained(r)
    /\ s.cycle.duration = at - r.cycle.startedAt

\* The class step writes no amounts but those of the cycle it opens or closes.
Amounts(r, s, at) ==
    /\ s.integrator = r.integrator
    /\ \/ OpensAt(r, s, at)
       \/ ClosesAt(r, s, at)
       \/ s.cycle = r.cycle /\ s.counter = r.counter /\ s.snap = r.snap

Moves(r, s, at, high, low, below) ==
    /\ s.class = r.class /\ s.thresholds = r.thresholds
    /\ Edges(r, s, at, high, low)
    /\ Countdown(r, s, below)
    /\ Amounts(r, s, at)

\* A reading the class has no use for.
Still(r, s) ==
    /\ s.class = r.class /\ s.thresholds = r.thresholds /\ s.candidate = r.candidate
    /\ s.lowCount = r.lowCount /\ s.cycle = r.cycle /\ s.integrator = r.integrator
    /\ s.counter = r.counter /\ s.snap = r.snap
    /\ s.activity = "finished_recently" <=> r.activity = "finished_recently"

\* Opening on a level that has held.
LEMMA StartMoves ==
    ASSUME NEW r, Good(r), ~CycleActive(r), NEW at \in Int, NEW low, NEW below,
           NEW activity \in Engaged, Held(r.candidate, "high", at, r.thresholds.activeFor)
    PROVE  Moves(r, StartCycle(r, at, activity), at, TRUE, low, below)
<1>1. r \in Runtime /\ activity \in Activities /\ activity # "finished_recently"
  BY DEF Good, Engaged, Activities
<1> DEFINE s == StartCycle(r, at, activity)
<1>2. /\ s.class = r.class /\ s.activity = activity /\ s.candidate = NoCandidate
      /\ s.cycle.phase = "active" /\ s.cycle.startedAt = at /\ s.lowCount = 0
      /\ s.snap.total = s.integrator.total /\ s.thresholds = r.thresholds
      /\ s.integrator = r.integrator /\ s.counter = RebaselineAtLatest(r.counter)
  BY <1>1, StartFrame
<1> HIDE DEF s
<1>3. QED
  BY <1>1, <1>2 DEF Moves, Edges, Countdown, Amounts, OpensAt, CycleActive, NoCandidate, s

\* Closing on a level that has held.
LEMMA FinishMoves ==
    ASSUME NEW r, Good(r), CycleActive(r), NEW at \in Int, NEW high, NEW below,
           NEW activity \in Activities, Held(r.candidate, "low", at, r.thresholds.inactiveFor)
    PROVE  Moves(r, FinishCycle(r, at, activity), at, high, TRUE, below)
<1>1. /\ r \in Runtime /\ r.activity \in Engaged /\ r.activity # "finished_recently"
      /\ r.lowCount = 0
  BY DEF Good, RuntimeOK, EngagedIffCycleActive, CountdownOnlyWhenFinished, Engaged
<1> DEFINE s == FinishCycle(r, at, activity)
<1>2. /\ s.class = r.class /\ s.activity = activity /\ s.candidate = NoCandidate
      /\ s.cycle.phase = "finished" /\ s.cycle.finishedAt = at /\ s.lowCount = r.lowCount
      /\ s.cycle.integrated = Gained(r) /\ s.cycle.duration = at - r.cycle.startedAt
      /\ s.thresholds = r.thresholds
      /\ s.integrator = r.integrator /\ s.counter = r.counter
  BY <1>1, FinishFrame
<1> HIDE DEF s
<1>3. QED
  BY <1>1, <1>2 DEF Moves, Edges, Countdown, Amounts, ClosesAt, CycleActive, NoCandidate, s

\* Any other step: the activity, the candidate and the countdown, nothing else.
Rests(r, s) ==
    /\ s.class = r.class /\ s.thresholds = r.thresholds
    /\ s.cycle = r.cycle /\ s.integrator = r.integrator
    /\ s.counter = r.counter /\ s.snap = r.snap

\* Such a step needs no more than a lawful candidate and a lawful countdown.
LEMMA RestMoves ==
    ASSUME NEW r, NEW s, Rests(r, s), NEW at, NEW high, NEW low, NEW below,
           s.candidate.kind = "high" => high /\ (s.candidate.at = at \/ s.candidate = r.candidate),
           s.candidate.kind = "low" => low /\ (s.candidate.at = at \/ s.candidate = r.candidate),
           Countdown(r, s, below)
    PROVE  Moves(r, s, at, high, low, below)
  BY DEF Rests, Moves, Edges, Amounts, CycleActive

\* The sightings of a level: at this reading, or where the candidate stood.
LEMMA Sightings ==
    ASSUME NEW c, NEW at, NEW kind \in {"high", "low"}
    PROVE  /\ Sighted(c, kind, at).kind = kind
           /\ Sighted(c, kind, at).at = at \/ Sighted(c, kind, at) = c
           /\ Lost(c, kind).kind # kind
           /\ Lost(c, kind) = c \/ Lost(c, kind) = NoCandidate
  BY DEF Sighted, Lost, NoCandidate

\* Settling counts the low readings of finished_recently and touches no amount.
LEMMA SettleMoves ==
    ASSUME NEW r, Good(r), ~CycleActive(r), NEW p \in Int
    PROVE  /\ Rests(r, Settle(r, p)) /\ Settle(r, p).candidate = r.candidate
           /\ Countdown(r, Settle(r, p), p < Deref(r.thresholds.idleBelow))
<1> DEFINE low     == p < Deref(r.thresholds.idleBelow)
           waiting == r.activity = "finished_recently"
           count   == IF ~waiting THEN r.lowCount ELSE IF low THEN r.lowCount + 1 ELSE 0
           decayed == waiting /\ count >= FinishedRecentlyLowReadings
           a == IF decayed \/ (r.activity = "unknown" /\ low) THEN "idle" ELSE r.activity
           n == IF decayed THEN 0 ELSE count
           s == [r EXCEPT !.activity = a, !.lowCount = n]
<1>1. Settle(r, p) = s
  BY Zenon DEF Settle
<1>2. r \in Runtime /\ r.lowCount \in Nat
  BY DEF Good, Runtime
<1> HIDE DEF a, n
<1>3. /\ Rests(r, s) /\ s.candidate = r.candidate
      /\ s.activity = a /\ s.lowCount = n
  BY <1>2 DEF Rests, Runtime
<1> HIDE DEF s
<1>4. Countdown(r, s, low)
  <2>1. CASE waiting /\ decayed
    BY <1>2, <1>3, <2>1, RuntimeConstants DEF Countdown, a, n
  <2>2. CASE waiting /\ ~decayed
    BY <1>3, <2>2 DEF Countdown, a, n
  <2>3. CASE ~waiting
    BY <1>3, <2>3 DEF Countdown, a, n
  <2>4. QED
    BY <2>1, <2>2, <2>3
<1>5. QED
  BY <1>1, <1>3, <1>4

\* A reading of a two-threshold class.
LEMMA BetweenThresholdsMoves ==
    ASSUME NEW r, Good(r), NEW at \in Int, NEW p \in Int,
           NEW engaged \in Engaged, NEW resting \in Activities
    PROVE  Moves(r, StepBetweenThresholds(r, at, p, engaged, resting).rt, at,
                 p >= Deref(r.thresholds.activeAbove), p <= Deref(r.thresholds.idleBelow),
                 p < Deref(r.thresholds.idleBelow))
<1> DEFINE high   == p >= Deref(r.thresholds.activeAbove)
           low    == p <= Deref(r.thresholds.idleBelow)
           below  == p < Deref(r.thresholds.idleBelow)
           falls  == IF low THEN Sighted(r.candidate, "low", at) ELSE Lost(r.candidate, "low")
           climbs == IF high THEN Sighted(r.candidate, "high", at) ELSE Lost(r.candidate, "high")
           s      == StepBetweenThresholds(r, at, p, engaged, resting).rt
<1>1. /\ r \in Runtime
      /\ r.candidate.kind = "high" => r.activity \notin Engaged
      /\ r.candidate.kind = "low" => r.activity \in Engaged
      /\ r.activity \in Engaged <=> CycleActive(r)
  BY DEF Good, Runtime, RuntimeOK, CandidateOpposesActivity, EngagedIffCycleActive
<1>2. CASE r.activity \in Engaged
  <2>1. \/ /\ s = FinishCycle(r, at, resting) /\ low
           /\ Held(r.candidate, "low", at, r.thresholds.inactiveFor)
        \/ s = [r EXCEPT !.candidate = falls]
    BY <1>2 DEF StepBetweenThresholds, Finished, Quiet
  <2>2. /\ falls.kind # "high"
        /\ falls.kind = "low" => low /\ (falls.at = at \/ falls = r.candidate)
    BY <1>1, <1>2, Sightings DEF NoCandidate
  <2> HIDE DEF falls, s, low, high, below
  <2>3. CASE s = [r EXCEPT !.candidate = falls]
    <3>1. /\ Rests(r, s) /\ s.candidate = falls
          /\ s.activity = r.activity /\ s.lowCount = r.lowCount
      BY <1>1, <2>3 DEF Rests, Runtime
    <3>2. Countdown(r, s, below)
      BY <1>2, <3>1 DEF Countdown, Engaged
    <3>3. Moves(r, s, at, high, low, below)
      BY <2>2, <3>1, <3>2, RestMoves, Zenon
    <3>4. QED
      BY <3>3 DEF s, low, high, below
  <2>4. CASE /\ s = FinishCycle(r, at, resting) /\ low
             /\ Held(r.candidate, "low", at, r.thresholds.inactiveFor)
    <3>1. Moves(r, s, at, high, TRUE, below)
      BY <1>1, <1>2, <2>4, FinishMoves
    <3>2. Moves(r, s, at, high, low, below)
      BY <2>4, <3>1 DEF Moves, Edges
    <3>3. QED
      BY <3>2 DEF s, low, high, below
  <2>5. QED
    BY <2>1, <2>3, <2>4
<1>3. CASE r.activity \notin Engaged
  <2> DEFINE c == [r EXCEPT !.candidate = climbs]
  <2>1. \/ /\ s = StartCycle(r, at, engaged) /\ high
           /\ Held(r.candidate, "high", at, r.thresholds.activeFor)
        \/ s = Settle(c, p)
    BY <1>3 DEF StepBetweenThresholds, Started, Quiet
  <2>2. /\ climbs \in [kind : {"none", "high", "low"}, at : Int]
        /\ climbs.kind # "low"
        /\ climbs.kind = "high" => high /\ (climbs.at = at \/ climbs = r.candidate)
    <3>1. r.candidate \in [kind : {"none", "high", "low"}, at : Int]
      BY <1>1 DEF Runtime
    <3>2. QED
      BY <1>1, <1>3, <3>1, Sightings DEF Sighted, Lost, NoCandidate
  <2> HIDE DEF climbs, s, low, high, below
  <2>3. CASE s = Settle(c, p)
    <3>1. /\ Rests(r, c) /\ c.candidate = climbs
          /\ c.activity = r.activity /\ c.lowCount = r.lowCount
      BY <1>1 DEF Rests, Runtime
    <3>2. Good(c)
      BY <1>3, <2>2, CandidateGood
    <3> HIDE DEF c
    <3>3. ~CycleActive(c)
      BY <1>1, <1>3, <3>1 DEF Rests, CycleActive
    <3>4. /\ Rests(c, s) /\ s.candidate = c.candidate
          /\ Countdown(c, s, p < Deref(c.thresholds.idleBelow))
      BY <2>3, <3>2, <3>3, SettleMoves
    <3>5. Rests(r, s)
      BY <3>1, <3>4 DEF Rests
    <3>6. c.thresholds = r.thresholds
      BY <3>1 DEF Rests
    <3>6a. Countdown(r, s, below)
      BY <3>1, <3>4, <3>6 DEF Countdown, below
    <3>7. Moves(r, s, at, high, low, below)
      BY <2>2, <3>1, <3>4, <3>5, <3>6a, RestMoves, Zenon
    <3>8. QED
      BY <3>7 DEF s, low, high, below
  <2>4. CASE /\ s = StartCycle(r, at, engaged) /\ high
             /\ Held(r.candidate, "high", at, r.thresholds.activeFor)
    <3>1. Moves(r, s, at, TRUE, low, below)
      BY <1>1, <1>3, <2>4, StartMoves
    <3>2. Moves(r, s, at, high, low, below)
      BY <2>4, <3>1 DEF Moves, Edges
    <3>3. QED
      BY <3>2 DEF s, low, high, below
  <2>5. QED
    BY <2>1, <2>3, <2>4
<1>4. QED
  BY <1>2, <1>3

\* A reading of an on/off class.
LEMMA OnOffMoves ==
    ASSUME NEW r, Good(r), NEW at \in Int, NEW on \in BOOLEAN, NEW below,
           r.class \in {"continuous", "binary_state"},
           NEW engaged, ClassActivities(r.class) \intersect Engaged = {engaged},
           NEW resting \in Activities,
           NEW otherwise, r.activity \notin Engaged => otherwise # "finished_recently"
    PROVE  Moves(r, StepOnOff(r, at, on, engaged, resting, otherwise).rt, at, on, ~on, below)
<1> DEFINE falls  == Sighted(r.candidate, "low", at)
           climbs == Sighted(r.candidate, "high", at)
           s      == StepOnOff(r, at, on, engaged, resting, otherwise).rt
<1>1. /\ r \in Runtime
      /\ r.activity \in Engaged <=> CycleActive(r)
      /\ r.activity \in ClassActivities(r.class)
      /\ r.activity # "finished_recently"
  BY DEF Good, RuntimeOK, EngagedIffCycleActive, ClassActivities
<1>2. /\ r.activity = engaged <=> r.activity \in Engaged
      /\ engaged \in Engaged
  BY <1>1
<1>3. /\ falls.kind = "low" /\ (falls.at = at \/ falls = r.candidate)
      /\ climbs.kind = "high" /\ (climbs.at = at \/ climbs = r.candidate)
      /\ NoCandidate.kind = "none"
  BY Sightings DEF NoCandidate
<1> HIDE DEF falls, climbs
<1>4. ASSUME NEW a, NEW c, s = [r EXCEPT !.activity = a, !.candidate = c],
             a # "finished_recently",
             c.kind = "high" => on /\ (c.at = at \/ c = r.candidate),
             c.kind = "low" => ~on /\ (c.at = at \/ c = r.candidate)
      PROVE  Moves(r, s, at, on, ~on, below)
  <2> HIDE DEF s
  <2>1. Rests(r, s) /\ s.candidate = c /\ s.activity = a
    BY <1>1, <1>4 DEF Rests, Runtime
  <2>2. Countdown(r, s, below)
    BY <1>1, <1>4, <2>1 DEF Countdown
  <2>3. QED
    BY <1>4, <2>1, <2>2, RestMoves, Zenon
<1>5. ASSUME NEW c, s = [r EXCEPT !.candidate = c],
             c.kind = "high" => on /\ (c.at = at \/ c = r.candidate),
             c.kind = "low" => ~on /\ (c.at = at \/ c = r.candidate)
      PROVE  Moves(r, s, at, on, ~on, below)
  <2> HIDE DEF s
  <2>1. Rests(r, s) /\ s.candidate = c /\ s.activity = r.activity
    BY <1>1, <1>5 DEF Rests, Runtime
  <2>2. Countdown(r, s, below)
    BY <1>1, <2>1 DEF Countdown
  <2>3. QED
    BY <1>5, <2>1, <2>2, RestMoves, Zenon
<1>6. CASE r.activity \in Engaged
  <2>1. CASE on
    <3>1. s = [r EXCEPT !.candidate = NoCandidate]
      BY <1>2, <1>6, <2>1 DEF StepOnOff, Quiet
    <3>2. QED
      BY <1>3, <1>5, <3>1
  <2>2. CASE ~on /\ Held(r.candidate, "low", at, r.thresholds.inactiveFor)
    <3>1. s = FinishCycle(r, at, resting)
      BY <1>2, <1>6, <2>2 DEF StepOnOff, Finished
    <3> HIDE DEF s
    <3>2. Moves(r, s, at, on, TRUE, below)
      BY <1>1, <1>6, <2>2, <3>1, FinishMoves
    <3>3. QED
      BY <2>2, <3>2 DEF Moves, Edges, s
  <2>3. CASE ~on /\ ~Held(r.candidate, "low", at, r.thresholds.inactiveFor)
    <3>1. s = [r EXCEPT !.candidate = falls]
      BY <1>2, <1>6, <2>3 DEF StepOnOff, Quiet, falls
    <3>2. QED
      BY <1>3, <1>5, <2>3, <3>1
  <2>4. QED
    BY <2>1, <2>2, <2>3
<1>7. CASE r.activity \notin Engaged
  <2>1. CASE ~on
    <3>1. s = [r EXCEPT !.activity = otherwise, !.candidate = NoCandidate]
      BY <1>2, <1>7, <2>1 DEF StepOnOff, Quiet
    <3>2. otherwise # "finished_recently" /\ NoCandidate.kind \notin {"high", "low"}
      BY <1>3, <1>7
    <3> HIDE DEF s
    <3>3. Moves(r, s, at, on, ~on, below)
      BY <1>4, <3>1, <3>2
    <3>4. QED
      BY <3>3 DEF s
  <2>2. CASE on /\ Held(r.candidate, "high", at, r.thresholds.activeFor)
    <3>1. s = StartCycle(r, at, engaged)
      BY <1>2, <1>7, <2>2 DEF StepOnOff, Started
    <3> HIDE DEF s
    <3>2. Moves(r, s, at, TRUE, ~on, below)
      BY <1>1, <1>2, <1>7, <2>2, <3>1, StartMoves
    <3>3. QED
      BY <2>2, <3>2 DEF Moves, Edges, s
  <2>3. CASE on /\ ~Held(r.candidate, "high", at, r.thresholds.activeFor)
    <3>1. s = [r EXCEPT !.candidate = climbs]
      BY <1>2, <1>7, <2>3 DEF StepOnOff, Quiet, climbs
    <3>2. QED
      BY <1>3, <1>5, <2>3, <3>1
  <2>4. QED
    BY <2>1, <2>2, <2>3
<1>8. QED
  BY <1>6, <1>7

\* The class-specific part of a reading: a class that switches moves by the level
\* the reading shows, and any other reading leaves everything but a first sighting.
LEMMA StepClassMoves ==
    ASSUME NEW r, Good(r), NEW at \in Int, NEW q, q.power \in OptInt
    PROVE  IF r.class \in Switching /\ Relevant(r, q)
           THEN Moves(r, StepClass(r, at, q).rt, at, High(r, q), Low(r, q),
                      q.power < Deref(r.thresholds.idleBelow))
           ELSE Still(r, StepClass(r, at, q).rt)
<1> DEFINE s == StepClass(r, at, q).rt
           below == q.power < Deref(r.thresholds.idleBelow)
<1>1. /\ r \in Runtime /\ r.class \in Classes /\ r.activity \in ClassActivities(r.class)
      /\ r.thresholds \in Thresholds
  BY DEF Good, Runtime, RuntimeOK
<1>2. CASE ~(r.class \in Switching /\ Relevant(r, q))
  <2>1. \/ StepClass(r, at, q) = Quiet(r)
        \/ StepClass(r, at, q) = Quiet([r EXCEPT !.activity = "reporting"]) /\ r.activity = "unknown"
    BY <1>1, <1>2 DEF StepClass, Switching, Relevant, PowerClasses, PassiveClasses, StepBinary
  <2>2. s = r \/ (s = [r EXCEPT !.activity = "reporting"] /\ r.activity = "unknown")
    BY <2>1 DEF Quiet
  <2> HIDE DEF s
  <2>3. Still(r, s)
    BY <1>1, <2>2 DEF Still, Runtime
  <2>4. QED
    BY <1>2, <2>3 DEF s
<1>3. CASE r.class = "binary_state" /\ Relevant(r, q)
  <2> DEFINE otherwise == IF r.activity = "unknown" THEN "idle" ELSE r.activity
             on == q.state = "ON"
             after == StepOnOff(r, at, on, "active", "idle", otherwise)
  <2>1. /\ ClassActivities(r.class) \intersect Engaged = {"active"}
        /\ "idle" \in Activities
        /\ r.activity # "finished_recently"
    BY <1>1, <1>3 DEF ClassActivities, Engaged, Activities
  <2>2. StepClass(r, at, q) = after
    BY <1>3, MachineConstants DEF PowerClasses, PassiveClasses, StepClass, StepBinary, Relevant
  <2>3. on \in BOOLEAN /\ otherwise # "finished_recently"
    BY <2>1
  <2>4. High(r, q) = on /\ Low(r, q) = ~on
    BY <1>3 DEF High, Low
  <2> HIDE DEF on, otherwise, below
  <2>5. Moves(r, after.rt, at, on, ~on, below)
    BY <1>3, <2>1, <2>3, OnOffMoves
  <2>6. QED
    BY <1>3, <2>2, <2>4, <2>5 DEF below, Switching
<1>4. CASE r.class \in PowerClasses /\ Relevant(r, q)
  <2>1. q.power \in Int /\ q.power # Nil
    BY <1>4 DEF OptInt, Relevant, PowerClasses
  <2>2. StepClass(r, at, q) = StepPower(r, at, q.power) /\ r.class \in Switching
    BY <1>4, <2>1 DEF StepClass, PowerClasses, PassiveClasses, Switching
  <2>3. CASE r.class \in {"short_burst", "cycle_power", "media"}
    <3>1. /\ High(r, q) = (q.power >= Deref(r.thresholds.activeAbove))
          /\ Low(r, q) = (q.power <= Deref(r.thresholds.idleBelow))
      BY <2>3 DEF High, Low
    <3>2. PICK engaged \in Engaged, resting \in Activities :
              StepPower(r, at, q.power) = StepBetweenThresholds(r, at, q.power, engaged, resting)
      <4>1. {"active", "running"} \subseteq Engaged
            /\ {"idle", "finished_recently", "standby"} \subseteq Activities
        BY DEF Engaged, Activities
      <4>2. CASE r.class = "short_burst"
        BY <4>1, <4>2 DEF StepPower
      <4>3. CASE r.class = "cycle_power"
        BY <4>1, <4>3 DEF StepPower
      <4>4. CASE r.class = "media"
        BY <4>1, <4>4 DEF StepPower
      <4>5. QED
        BY <2>3, <4>2, <4>3, <4>4
    <3>3. Moves(r, s, at, q.power >= Deref(r.thresholds.activeAbove),
                q.power <= Deref(r.thresholds.idleBelow), below)
      BY <2>1, <2>2, <3>2, BetweenThresholdsMoves
    <3>4. QED
      BY <1>4, <2>2, <3>1, <3>3
  <2>4. CASE r.class = "continuous"
    <3> DEFINE on == q.power >= CompressorThreshold(r.thresholds)
               after == StepOnOff(r, at, on, "active_cycle", "normal_idle", "normal_idle")
    <3>1. /\ ClassActivities(r.class) \intersect Engaged = {"active_cycle"}
          /\ "normal_idle" \in Activities
      BY <2>4 DEF ClassActivities, Engaged, Activities
    <3>2. on \in BOOLEAN
      OBVIOUS
    <3>3. StepPower(r, at, q.power) = after
      BY <2>4 DEF StepPower, StepContinuous
    <3>4. High(r, q) = on /\ Low(r, q) = ~on
      BY <2>4 DEF High, Low
    <3> HIDE DEF on, below
    <3>5. Moves(r, after.rt, at, on, ~on, below)
      BY <2>4, <3>1, <3>2, OnOffMoves
    <3>6. QED
      BY <1>4, <2>2, <3>3, <3>4, <3>5 DEF below
  <2>5. QED
    BY <1>4, <2>3, <2>4 DEF PowerClasses
<1>5. QED
  BY <1>2, <1>3, <1>4 DEF Switching

-----------------------------------------------------------------------------
(* The machine.                                                            *)

IInv == TypeOK /\ RuntimeInv /\ use.seen <= use.since

\* Whatever a reading says of the counter is a number the plug has shown.
LEMMA ShownTyped ==
    ASSUME IInv, NEW at \in Int, now - MaxLag <= at
    PROVE  Shown(at) \subseteq Nat
<1>1. meter \in Nat /\ now \in Nat /\ past \in [1..MaxLag -> Nat] /\ MaxLag \in Nat
  BY MachineConstants DEF IInv, TypeOK
<1>2. at < now => now - at \in 1..MaxLag
  BY <1>1
<1>3. QED
  BY <1>1, <1>2 DEF Shown

\* A reading's whole effect on the runtime, as Ingest composes it.
LEMMA IngestLawful ==
    ASSUME IInv, NEW q \in Payloads, NEW at \in Int, now - MaxLag <= at, Ingest(at, q)
    PROVE  /\ Good(rt')
           /\ \/ Opens(rt, rt') \/ Closes(rt, rt') \/ rt'.cycle = rt.cycle
              \/ /\ CycleActive(rt) /\ CycleActive(rt')
                 /\ rt'.cycle.startedAt = rt.cycle.startedAt
                 /\ rt'.cycle.finishedAt = rt.cycle.finishedAt
                 /\ rt'.cycle.kwh \in Nat
<1>0. PICK energy \in IF q.counter THEN Shown(at) ELSE {Nil} :
        rt' = OnReading(IF q.counter THEN SeedCounter(rt, energy) ELSE rt, at,
                        [power |-> q.power, energy |-> energy, state |-> q.state]).rt
  BY DEF Ingest
<1> DEFINE reading == [power |-> q.power, energy |-> energy, state |-> q.state]
           seeded  == IF q.counter THEN SeedCounter(rt, energy) ELSE rt
<1>1. /\ reading.power \in OptInt /\ reading.energy \in OptInt
      /\ q.counter => energy \in Int
  BY ShownTyped, MachineConstants DEF OptInt
<1>2. Good(seeded) /\ seeded.cycle = rt.cycle
  BY <1>1, SeedGood DEF IInv, TypeOK, RuntimeInv, Good
<1>3. rt' = OnReading(seeded, at, reading).rt
  BY <1>0
<1> HIDE DEF reading, seeded
<1>4. QED
  BY <1>1, <1>2, <1>3, OnReadingLawful DEF Opens, Closes, CycleActive

\* The initial runtime satisfies the invariant.
LEMMA InitOK == Init => IInv
<1> SUFFICES ASSUME Init PROVE IInv
  OBVIOUS
<1>1. PICK p \in Profiles : rt = NewRuntime(p.class, p.strategy, p.thresholds)
  BY DEF Init
<1>2. /\ p.class \in Classes /\ p.strategy \in Strategies /\ p.thresholds \in Thresholds
  BY MachineConstants
<1>3. rt \in Runtime
  <2>1. /\ EmptyCounter \in Counter /\ NewIntegrator \in Integrator /\ NoCycle \in Cycle
        /\ NoCandidate \in [kind : {"none", "high", "low"}, at : Int]
        /\ [total |-> 0, gaps |-> 0] \in Snapshot
    BY DEF EmptyCounter, Counter, NewIntegrator, Integrator, NoCycle, Cycle, NoCandidate, Snapshot, OptInt
  <2>2. "unknown" \in Activities /\ 0 \in Nat
    BY DEF Activities
  <2>3. QED
    BY <1>1, <1>2, <2>1, <2>2 DEF NewRuntime, Runtime
<1>4. RuntimeOK(rt)
  BY <1>1, RuntimeConstants
     DEF NewRuntime, RuntimeOK, EngagedIffCycleActive, CandidateOpposesActivity, CycleActive, Engaged,
         CountdownOnlyWhenFinished, FinishedHasTimestamp, ClassActivities, NoCandidate, NoCycle
<1>5. QED
  BY <1>3, <1>4 DEF Init, IInv, TypeOK, RuntimeInv, OptInt

\* Every step of the machine keeps it.
LEMMA NextOK == IInv /\ [Next]_vars => IInv'
<1> SUFFICES ASSUME IInv, [Next]_vars PROVE IInv'
  OBVIOUS
<1>1. ASSUME NEW q \in Payloads, NEW at \in (now - MaxLag)..(now + MaxSkew), Ingest(at, q)
      PROVE  IInv'
  <2>1. at \in Int /\ now - MaxLag <= at
    BY MachineConstants DEF IInv, TypeOK
  <2>2. Good(rt')
    BY <1>1, <2>1, IngestLawful
  <2>3. runs' \in [high : OptInt, low : OptInt]
    BY <1>1, <2>1 DEF Ingest, NextRuns, Extend, IInv, TypeOK, OptInt
  <2>4. lows' \in Nat
    BY <1>1 DEF Ingest, NextLows, IInv, TypeOK
  <2>5. use' \in [since : Nat, seen : Nat, reset : BOOLEAN] /\ use'.seen <= use'.since
    <3> DEFINE reported == IF ~q.counter THEN use
                           ELSE IF ~CycleActive(rt) \/ rt.counter.latest = Nil
                                THEN [since |-> 0, seen |-> 0, reset |-> FALSE]
                                ELSE [use EXCEPT !.seen = use.since]
    <3>1. reported \in [since : Nat, seen : Nat, reset : BOOLEAN] /\ reported.seen <= reported.since
      BY DEF IInv, TypeOK
    <3>2. use' = reported \/ use' = [reported EXCEPT !.since = reported.since - reported.seen, !.seen = 0]
      BY <1>1 DEF Ingest, NextUse
    <3> HIDE DEF reported
    <3>3. CASE use' = reported
      BY <3>1, <3>3
    <3>4. CASE use' = [reported EXCEPT !.since = reported.since - reported.seen, !.seen = 0]
      <4>1. /\ reported.since - reported.seen \in Nat
            /\ reported.reset \in BOOLEAN
        BY <3>1
      <4>2. /\ use' \in [since : Nat, seen : Nat, reset : BOOLEAN]
            /\ use'.since = reported.since - reported.seen /\ use'.seen = 0
        <5> DEFINE left == reported.since - reported.seen
        <5>1. left \in Nat /\ 0 \in Nat
          BY <4>1
        <5>2. use' = [reported EXCEPT !.since = left, !.seen = 0]
          BY <3>4
        <5> HIDE DEF left
        <5>3. /\ use' \in [since : Nat, seen : Nat, reset : BOOLEAN]
              /\ use'.since = left /\ use'.seen = 0
          BY <3>1, <5>1, <5>2, Zenon
        <5>4. QED
          BY <5>3 DEF left
      <4>3. QED
        BY <4>1, <4>2
    <3>5. QED
      BY <3>2, <3>3, <3>4
  <2>6. QED
    BY <1>1, <2>2, <2>3, <2>4, <2>5 DEF Ingest, IInv, TypeOK, RuntimeInv, Good
<1>2. CASE EngineTick
  <2>1. Good(rt)' /\ UNCHANGED <<now, meter, past, runs, use>>
    BY <1>2, TickGood DEF EngineTick, IInv, TypeOK, RuntimeInv, Good
  <2>2. lows' \in Nat
    BY <1>2 DEF EngineTick, IInv, TypeOK
  <2>3. QED
    BY <2>1, <2>2 DEF IInv, TypeOK, RuntimeInv, Good
<1>3. CASE AdvanceClock
  <2>1. past' \in [1..MaxLag -> Nat]
    <3>1. MaxLag \in Nat /\ meter \in Nat /\ past \in [1..MaxLag -> Nat]
      BY MachineConstants DEF IInv, TypeOK
    <3>2. ASSUME NEW age \in 1..MaxLag, age # 1 PROVE past[age - 1] \in Nat
      <4>1. age - 1 \in 1..MaxLag
        BY <3>1, <3>2
      <4>2. QED
        BY <3>1, <4>1
    <3>3. QED
      BY <1>3, <3>1, <3>2 DEF AdvanceClock
  <2>2. now' \in Nat /\ UNCHANGED <<rt, meter, runs, lows, use>>
    BY <1>3 DEF AdvanceClock, IInv, TypeOK
  <2>3. QED
    BY <2>1, <2>2 DEF IInv, TypeOK, RuntimeInv
<1>4. CASE Consume
  BY <1>4 DEF Consume, IInv, TypeOK, RuntimeInv
<1>5. CASE PlugReset
  BY <1>5 DEF PlugReset, IInv, TypeOK, RuntimeInv
<1>6. CASE UNCHANGED vars
  BY <1>6 DEF vars, IInv, TypeOK, RuntimeInv
<1>7. QED
  BY <1>1, <1>2, <1>3, <1>4, <1>5, <1>6 DEF Next

-----------------------------------------------------------------------------
(* What a reading does to the machine: the energy paths take it, the class *)
(* steps, the cycle in flight is refreshed.                                *)

\* m is rt once both energy paths have taken the reading.
Taken(m, at, q) ==
    /\ m.class = rt.class /\ m.thresholds = rt.thresholds /\ m.candidate = rt.candidate
    /\ m.activity = rt.activity /\ m.lowCount = rt.lowCount
    /\ m.cycle = rt.cycle /\ m.snap = rt.snap
    /\ m.integrator = IF q.power = Nil THEN rt.integrator
                      ELSE IntegratorUpdate(rt.integrator, at, q.power, MaxIntegrationGap)
    /\ IF ~q.counter THEN m.counter = rt.counter
       ELSE \E v \in Shown(at) :
               m.counter = IF CycleActive(rt) THEN CounterUpdate(rt.counter, v)
                                              ELSE SetBaseline(v)

\* c is m once its class has stepped.
Stepped(m, c, at, q) ==
    IF rt.class \in Switching /\ Relevant(rt, q)
    THEN Moves(m, c, at, High(rt, q), Low(rt, q), q.power < Deref(rt.thresholds.idleBelow))
    ELSE Still(m, c)

\* s is c with the amounts of a cycle in flight brought up to date.
Refreshed(c, s, at) ==
    /\ s.class = c.class /\ s.thresholds = c.thresholds /\ s.candidate = c.candidate
    /\ s.activity = c.activity /\ s.lowCount = c.lowCount
    /\ s.integrator = c.integrator /\ s.counter = c.counter /\ s.snap = c.snap
    /\ s.cycle.phase = c.cycle.phase
    /\ s.cycle.startedAt = c.cycle.startedAt /\ s.cycle.finishedAt = c.cycle.finishedAt
    /\ IF CycleActive(c)
       THEN /\ s.cycle.reported = Delta(c.counter)
            /\ s.cycle.integrated = Gained(c)
            /\ s.cycle.duration = at - c.cycle.startedAt
       ELSE s.cycle = c.cycle

\* What seeding and metering leave of the runtime.
LEMMA MeteredParts ==
    ASSUME NEW r \in Runtime, NEW at \in Int, NEW q, q.power \in OptInt, NEW v \in Int, NEW counted \in BOOLEAN,
           q.energy = IF counted THEN v ELSE Nil
    PROVE  LET d == IF counted THEN SeedCounter(r, v) ELSE r
               m == Metered(d, at, q)
           IN  /\ m.class = r.class /\ m.thresholds = r.thresholds /\ m.candidate = r.candidate
               /\ m.activity = r.activity /\ m.lowCount = r.lowCount
               /\ m.cycle = r.cycle /\ m.snap = r.snap
               /\ m.integrator = IF q.power = Nil THEN r.integrator
                                 ELSE IntegratorUpdate(r.integrator, at, q.power, MaxIntegrationGap)
               /\ m.counter = IF ~counted THEN r.counter
                              ELSE IF CycleActive(r) THEN CounterUpdate(r.counter, v)
                              ELSE SetBaseline(v)
<1> DEFINE d == IF counted THEN SeedCounter(r, v) ELSE r
           i == IF q.power = Nil THEN d.integrator
                ELSE IntegratorUpdate(d.integrator, at, q.power, MaxIntegrationGap)
           c == IF q.energy = Nil THEN d.counter ELSE CounterUpdate(d.counter, q.energy)
           m == Metered(d, at, q)
<1>1. /\ d.class = r.class /\ d.thresholds = r.thresholds /\ d.candidate = r.candidate
      /\ d.activity = r.activity /\ d.lowCount = r.lowCount
      /\ d.cycle = r.cycle /\ d.snap = r.snap /\ d.integrator = r.integrator
      /\ d.counter = IF counted /\ ~CycleActive(r) THEN SetBaseline(v) ELSE r.counter
      /\ d \in Runtime
  <2>1. SetBaseline(v) \in Counter
    BY DEF SetBaseline, Counter, OptInt
  <2>2. QED
    BY <2>1 DEF SeedCounter, Runtime
<1> HIDE DEF d
<1>2. m = [d EXCEPT !.integrator = i, !.counter = c]
  BY Zenon DEF Metered
<1>3. c = IF ~counted THEN r.counter
          ELSE IF CycleActive(r) THEN CounterUpdate(r.counter, v) ELSE SetBaseline(v)
  BY <1>1, NilAssumption DEF CounterUpdate, SetBaseline
<1>4. i = IF q.power = Nil THEN r.integrator
          ELSE IntegratorUpdate(r.integrator, at, q.power, MaxIntegrationGap)
  BY <1>1
<1> HIDE DEF i, c, m
<1>5. /\ m.class = d.class /\ m.thresholds = d.thresholds /\ m.candidate = d.candidate
      /\ m.activity = d.activity /\ m.lowCount = d.lowCount
      /\ m.cycle = d.cycle /\ m.snap = d.snap /\ m.integrator = i /\ m.counter = c
  BY <1>1, <1>2 DEF Runtime
<1>6. QED
  BY <1>1, <1>3, <1>4, <1>5 DEF m, d

\* Ingest, taken apart.
LEMMA IngestMoves ==
    ASSUME IInv, NEW q \in Payloads, NEW at \in Int, now - MaxLag <= at, Ingest(at, q)
    PROVE  \E m, c : /\ Good(m) /\ Good(c)
                     /\ Taken(m, at, q) /\ Stepped(m, c, at, q) /\ Refreshed(c, rt', at)
<1>0. PICK energy \in IF q.counter THEN Shown(at) ELSE {Nil} :
        rt' = OnReading(IF q.counter THEN SeedCounter(rt, energy) ELSE rt, at,
                        [power |-> q.power, energy |-> energy, state |-> q.state]).rt
  BY DEF Ingest
<1> DEFINE v       == IF q.counter THEN energy ELSE 0
           reading == [power |-> q.power, energy |-> energy, state |-> q.state]
           seeded  == IF q.counter THEN SeedCounter(rt, energy) ELSE rt
           m       == Metered(seeded, at, reading)
           c       == StepClass(m, at, reading).rt
<1>1. /\ reading.power = q.power /\ reading.state = q.state /\ reading.energy = energy
      /\ reading.power \in OptInt /\ reading.energy \in OptInt
      /\ q.counter \in BOOLEAN /\ v \in Int /\ Good(rt)
      /\ energy = IF q.counter THEN v ELSE Nil
  BY ShownTyped, MachineConstants DEF IInv, TypeOK, OptInt, RuntimeInv, Good
<1>2. seeded = IF q.counter THEN SeedCounter(rt, v) ELSE rt
  OBVIOUS
<1>3. rt' = IF CycleActive(c) THEN RefreshCycleEnergy(c, at) ELSE c
  BY <1>0 DEF OnReading
<1>3a. q.counter => v \in Shown(at)
  OBVIOUS
<1> HIDE DEF reading, seeded, c, v
<1>4. Good(seeded)
  BY <1>1, <1>2, SeedGood
<1>5. Good(m)
  BY <1>1, <1>4, MeteredGood
<1>6. Taken(m, at, q)
  <2>1. rt \in Runtime
    BY <1>1 DEF Good
  <2>2. QED
    BY <1>1, <1>2, <1>3a, <2>1, MeteredParts DEF Taken
<1> HIDE DEF m
<1>7. Good(c)
  BY <1>1, <1>5, StepClassLawful DEF c
<1>8. Stepped(m, c, at, q)
  <2>1. /\ Relevant(m, reading) = Relevant(rt, q)
        /\ High(m, reading) = High(rt, q) /\ Low(m, reading) = Low(rt, q)
    BY <1>1, <1>6 DEF Taken, Relevant, High, Low
  <2>2. IF m.class \in Switching /\ Relevant(m, reading)
        THEN Moves(m, c, at, High(m, reading), Low(m, reading),
                   reading.power < Deref(m.thresholds.idleBelow))
        ELSE Still(m, c)
    BY <1>1, <1>5, StepClassMoves DEF c
  <2>3. QED
    BY <1>1, <1>6, <2>1, <2>2 DEF Taken, Stepped
<1>9. Refreshed(c, rt', at)
  <2>1. CASE ~CycleActive(c)
    BY <1>3, <2>1 DEF Refreshed
  <2>2. CASE CycleActive(c)
    <3> DEFINE s == RefreshCycleEnergy(c, at)
    <3>1. c \in Runtime /\ rt' = s
      BY <1>3, <1>7, <2>2 DEF Good
    <3>2. /\ s = [c EXCEPT !.cycle = s.cycle]
          /\ s.cycle.phase = c.cycle.phase
          /\ s.cycle.startedAt = c.cycle.startedAt /\ s.cycle.finishedAt = c.cycle.finishedAt
          /\ s.cycle.reported = Delta(c.counter) /\ s.cycle.integrated = Gained(c)
          /\ s.cycle.duration = at - c.cycle.startedAt
      BY <2>2, <3>1, RefreshFrame
    <3> HIDE DEF s
    <3>3. /\ s.class = c.class /\ s.thresholds = c.thresholds /\ s.candidate = c.candidate
          /\ s.activity = c.activity /\ s.lowCount = c.lowCount
          /\ s.integrator = c.integrator /\ s.counter = c.counter /\ s.snap = c.snap
      BY <3>1, <3>2 DEF Runtime
    <3>4. QED
      BY <2>2, <3>1, <3>2, <3>3 DEF Refreshed
  <2>3. QED
    BY <2>1, <2>2
<1>10. QED
  BY <1>5, <1>6, <1>7, <1>8, <1>9

\* A tick leaves everything but the activity and its countdown.
LEMMA TickParts ==
    ASSUME NEW r \in Runtime, NEW at
    PROVE  /\ Rests(r, Tick(r, at)) /\ Tick(r, at).candidate = r.candidate
           /\ \/ Tick(r, at) = r
              \/ /\ r.activity = "finished_recently" /\ Tick(r, at).activity = "idle"
                 /\ at - r.cycle.finishedAt >= FinishedRecentlyTTL
<1> DEFINE s == [r EXCEPT !.activity = "idle", !.lowCount = 0]
<1>1. \/ Tick(r, at) = r
      \/ /\ Tick(r, at) = s
         /\ r.activity = "finished_recently" /\ at - r.cycle.finishedAt >= FinishedRecentlyTTL
  BY DEF Tick
<1>2. Rests(r, s) /\ s.candidate = r.candidate /\ s.activity = "idle"
  BY DEF Rests, Runtime
<1>3. Rests(r, r)
  BY DEF Rests
<1> HIDE DEF s
<1>4. QED
  BY <1>1, <1>2, <1>3

-----------------------------------------------------------------------------
(* The theorems.                                                           *)

(* For every class, every thresholds and every order of readings and ticks, a
   runtime stays well typed: statemachine.go keeps each field within the values
   its other methods assume. *)
THEOREM TypeCorrect == Spec => []TypeOK
<1>1. IInv => TypeOK
  BY DEF IInv
<1>2. QED
  BY <1>1, InitOK, NextOK, PTL DEF Spec

(* For every class, thresholds and order of readings and ticks, the activity,
   the in-flight cycle, the candidate and the countdown agree with each other:
   no reading leaves statemachine.go "running" without a cycle. *)
THEOREM RuntimeConsistent == Spec => []RuntimeInv
<1>1. IInv => RuntimeInv
  BY DEF IInv
<1>2. QED
  BY <1>1, InitOK, NextOK, PTL DEF Spec

(* The state machine implements the cycle ledger for all parameters: cycles
   open fresh, accrue only while open, and once closed are never edited. *)
THEOREM ImplementsLedger == Spec => LedgerSpec
<1>1. Init => Ledger!Init
  BY DEF Init, NewRuntime, NoCycle, Ledger!Init
<1>2. IInv /\ [Next]_vars => [Ledger!Next]_(Ledger!ledger)
  <2> SUFFICES ASSUME IInv, [Next]_vars PROVE Ledger!Next \/ UNCHANGED Ledger!ledger
    OBVIOUS
  <2>1. ASSUME NEW q \in Payloads, NEW at \in (now - MaxLag)..(now + MaxSkew), Ingest(at, q)
        PROVE  Ledger!Next \/ UNCHANGED Ledger!ledger
    <3>1. at \in Int /\ now - MaxLag <= at
      BY MachineConstants DEF IInv, TypeOK
    <3>2. CASE Opens(rt, rt')
      <4>1. rt'.cycle.startedAt \in Int
        BY <2>1, <3>1, IngestLawful DEF Good, Runtime, Cycle
      <4>2. QED
        BY <3>2, <4>1 DEF Opens, CycleActive, Ledger!Next, Ledger!Open
    <3>3. CASE Closes(rt, rt')
      BY <3>3 DEF Closes, CycleActive, Ledger!Next, Ledger!Close
    <3>4. CASE rt'.cycle = rt.cycle
      BY <3>4 DEF Ledger!ledger
    <3>5. CASE /\ CycleActive(rt) /\ CycleActive(rt')
               /\ rt'.cycle.startedAt = rt.cycle.startedAt
               /\ rt'.cycle.finishedAt = rt.cycle.finishedAt
               /\ rt'.cycle.kwh \in Nat
      BY <3>5 DEF CycleActive, Ledger!Next, Ledger!Accrue
    <3>6. QED
      BY <2>1, <3>1, <3>2, <3>3, <3>4, <3>5, IngestLawful
  <2>2. CASE EngineTick
    <3>1. Good(rt) /\ now \in Int
      BY DEF IInv, TypeOK, RuntimeInv, Good
    <3>2. rt' = Tick(rt, now)
      BY <2>2 DEF EngineTick
    <3>3. rt'.cycle = rt.cycle
      BY <3>1, <3>2, TickGood
    <3>4. QED
      BY <3>3 DEF Ledger!ledger
  <2>3. CASE AdvanceClock \/ Consume \/ PlugReset \/ UNCHANGED vars
    BY <2>3 DEF AdvanceClock, Consume, PlugReset, vars, Ledger!ledger
  <2>4. QED
    BY <2>1, <2>2, <2>3 DEF Next
<1>3. QED
  BY <1>1, <1>2, InitOK, NextOK, PTL DEF Spec, LedgerSpec, Ledger!Spec

-----------------------------------------------------------------------------
(* Edges and decay.                                                        *)

\* Only a class that switches has a candidate, and the level it stands for has
\* been reported without a break since no later than the candidate began.
EdgeInv ==
    /\ rt.candidate.kind # "none" => rt.class \in Switching
    /\ rt.candidate.kind = "high" => runs.high # Nil /\ runs.high <= rt.candidate.at
    /\ rt.candidate.kind = "low" => runs.low # Nil /\ runs.low <= rt.candidate.at

\* A reading keeps it, and an edge it causes was sustained.
LEMMA IngestEdges ==
    ASSUME IInv, EdgeInv, NEW q \in Payloads, NEW at \in Int, now - MaxLag <= at, Ingest(at, q)
    PROVE  EdgeInv' /\ EdgeSustained
<1>1. PICK m, c : /\ Good(m) /\ Good(c)
                  /\ Taken(m, at, q) /\ Stepped(m, c, at, q) /\ Refreshed(c, rt', at)
  BY IngestMoves
<1>2. /\ rt'.class = c.class /\ rt'.candidate = c.candidate
      /\ CycleActive(rt') <=> CycleActive(c)
      /\ rt'.cycle.startedAt = c.cycle.startedAt /\ rt'.cycle.finishedAt = c.cycle.finishedAt
  BY <1>1 DEF Refreshed, CycleActive
<1>3. /\ m.class = rt.class /\ m.thresholds = rt.thresholds /\ m.candidate = rt.candidate
      /\ CycleActive(m) <=> CycleActive(rt)
  BY <1>1 DEF Taken, CycleActive
<1>4. /\ runs \in [high : OptInt, low : OptInt]
      /\ rt.candidate.at \in Int /\ rt.candidate.kind \in {"none", "high", "low"}
      /\ c.candidate.at \in Int /\ c.candidate.kind \in {"none", "high", "low"}
      /\ rt.thresholds.activeFor \in Int /\ rt.thresholds.inactiveFor \in Int
  BY <1>1 DEF IInv, TypeOK, Runtime, Good, Thresholds
<1>5. CASE rt.class \in Switching /\ Relevant(rt, q)
  <2> DEFINE high == High(rt, q)
             low  == Low(rt, q)
  <2>1. /\ c.class = rt.class
        /\ Edges(m, c, at, high, low)
    BY <1>1, <1>3, <1>5 DEF Stepped, Moves
  <2>2. /\ runs'.high = Extend(runs.high, high, at)
        /\ runs'.low = Extend(runs.low, low, at)
    BY <1>5 DEF Ingest, NextRuns
  <2> HIDE DEF high, low
  <2>3. high => /\ runs'.high # Nil /\ runs'.high \in Int /\ runs'.high <= at
                /\ runs.high # Nil => runs'.high <= runs.high
    BY <1>4, <2>2, NilAssumption DEF Extend, OptInt
  <2>4. low => /\ runs'.low # Nil /\ runs'.low \in Int /\ runs'.low <= at
               /\ runs.low # Nil => runs'.low <= runs.low
    BY <1>4, <2>2, NilAssumption DEF Extend, OptInt
  <2>5. EdgeInv'
    <3>1. c.candidate.kind = "high" => runs'.high # Nil /\ runs'.high <= c.candidate.at
      BY <1>3, <1>4, <2>1, <2>3 DEF Edges, EdgeInv, OptInt
    <3>2. c.candidate.kind = "low" => runs'.low # Nil /\ runs'.low <= c.candidate.at
      BY <1>3, <1>4, <2>1, <2>4 DEF Edges, EdgeInv, OptInt
    <3>3. QED
      BY <1>2, <1>5, <2>1, <3>1, <3>2 DEF EdgeInv
  <2>6. ~CycleActive(rt) /\ CycleActive(rt') =>
          runs'.high # Nil /\ rt'.cycle.startedAt - runs'.high >= rt.thresholds.activeFor
    BY <1>2, <1>3, <1>4, <2>1, <2>3 DEF Edges, EdgeInv, OptInt, Held
  <2>7. CycleActive(rt) /\ ~CycleActive(rt') =>
          runs'.low # Nil /\ rt'.cycle.finishedAt - runs'.low >= rt.thresholds.inactiveFor
    BY <1>2, <1>3, <1>4, <2>1, <2>4 DEF Edges, EdgeInv, OptInt, Held
  <2>8. QED
    BY <2>5, <2>6, <2>7 DEF EdgeSustained
<1>6. CASE ~(rt.class \in Switching /\ Relevant(rt, q))
  <2>1. c.class = rt.class /\ c.candidate = rt.candidate /\ c.cycle = m.cycle
    BY <1>1, <1>3, <1>6 DEF Stepped, Still
  <2>2. CycleActive(rt') <=> CycleActive(rt)
    BY <1>2, <1>3, <2>1 DEF CycleActive
  <2>3. rt.candidate.kind = "none" \/ runs' = runs
    BY <1>4, <1>6 DEF EdgeInv, Ingest, NextRuns
  <2>4. EdgeInv'
    BY <1>2, <2>1, <2>3 DEF EdgeInv
  <2>5. QED
    BY <2>2, <2>4 DEF EdgeSustained
<1>7. QED
  BY <1>5, <1>6

\* So does every step.
LEMMA NextEdges == IInv /\ EdgeInv /\ [Next]_vars => EdgeInv' /\ (EdgeSustained \/ UNCHANGED vars)
<1> SUFFICES ASSUME IInv, EdgeInv, [Next]_vars PROVE EdgeInv' /\ (EdgeSustained \/ UNCHANGED vars)
  OBVIOUS
<1>1. ASSUME NEW q \in Payloads, NEW at \in (now - MaxLag)..(now + MaxSkew), Ingest(at, q)
      PROVE  EdgeInv' /\ EdgeSustained
  <2>1. at \in Int /\ now - MaxLag <= at
    BY MachineConstants DEF IInv, TypeOK
  <2>2. QED
    BY <1>1, <2>1, IngestEdges
<1>2. CASE EngineTick
  <2>1. rt \in Runtime /\ rt' = Tick(rt, now) /\ runs' = runs
    BY <1>2 DEF EngineTick, IInv, TypeOK
  <2>2. rt'.class = rt.class /\ rt'.candidate = rt.candidate /\ rt'.cycle = rt.cycle
    BY <2>1, TickParts DEF Rests
  <2>3. QED
    BY <2>1, <2>2 DEF EdgeInv, EdgeSustained, CycleActive
<1>3. CASE AdvanceClock \/ Consume \/ PlugReset \/ UNCHANGED vars
  <2>1. rt' = rt /\ runs' = runs
    BY <1>3 DEF AdvanceClock, Consume, PlugReset, vars
  <2>2. QED
    BY <2>1 DEF EdgeInv, EdgeSustained
<1>4. QED
  BY <1>1, <1>2, <1>3 DEF Next

(* For every class, thresholds and order of readings, however late or early
   their timestamps, a cycle opens or closes only when its level had been
   reported without a break for the configured window: the candidate that
   statemachine.go measures the window from is never older than the run of
   readings it stands for. *)
THEOREM EdgesSustained == Spec => SustainedEdges
<1>1. Init => EdgeInv
  BY DEF Init, NewRuntime, NoCandidate, EdgeInv
<1>2. QED
  BY <1>1, InitOK, NextOK, NextEdges, PTL DEF Spec, SustainedEdges

\* The countdown is never ahead of the low readings actually seen in a row.
LowsInv == rt.activity = "finished_recently" => rt.lowCount <= lows

\* A reading keeps it, and a decay it causes was counted out.
LEMMA IngestDecay ==
    ASSUME IInv, LowsInv, NEW q \in Payloads, NEW at \in Int, now - MaxLag <= at, Ingest(at, q)
    PROVE  LowsInv' /\ DecayJustified
<1>1. PICK m, c : /\ Good(m) /\ Good(c)
                  /\ Taken(m, at, q) /\ Stepped(m, c, at, q) /\ Refreshed(c, rt', at)
  BY IngestMoves
<1>2. /\ rt'.activity = c.activity /\ rt'.lowCount = c.lowCount
      /\ CycleActive(rt') <=> CycleActive(c)
  BY <1>1 DEF Refreshed, CycleActive
<1>3. m.activity = rt.activity /\ m.lowCount = rt.lowCount
  BY <1>1 DEF Taken
<1>4. /\ lows \in Nat /\ rt.lowCount \in Nat /\ c.lowCount \in Nat
      /\ rt.activity = "finished_recently" => rt.class = "cycle_power"
  BY <1>1 DEF IInv, TypeOK, Runtime, Good, RuntimeInv, RuntimeOK, ClassActivities
<1>5. lows' = NextLows(q, rt')
  BY DEF Ingest
<1>6. CASE rt.activity # "finished_recently"
  <2>1. rt'.activity = "finished_recently" => rt'.lowCount = 0
    BY <1>1, <1>2, <1>3, <1>6, RuntimeConstants
       DEF Stepped, Moves, Countdown, Still
  <2>2. lows' = 0
    BY <1>5, <1>6 DEF NextLows
  <2>3. QED
    BY <1>6, <2>1, <2>2 DEF LowsInv, DecayJustified
<1>7. CASE rt.activity = "finished_recently" /\ q.power = Nil
  <2>1. Still(m, c)
    BY <1>1, <1>4, <1>7 DEF Stepped, Relevant
  <2>2. rt'.activity = "finished_recently" /\ rt'.lowCount = rt.lowCount /\ lows' = lows
    BY <1>2, <1>3, <1>5, <1>7, <2>1 DEF Still, NextLows
  <2>3. QED
    BY <1>7, <2>2 DEF LowsInv, DecayJustified
<1>8. CASE rt.activity = "finished_recently" /\ q.power # Nil
  <2> DEFINE below == q.power < Deref(rt.thresholds.idleBelow)
  <2>1. Countdown(m, c, below)
    BY <1>1, <1>4, <1>8 DEF Stepped, Moves, Relevant, Switching, PowerClasses
  <2>2. rt'.activity = "finished_recently" => lows' = IF below THEN lows + 1 ELSE 0
    BY <1>5, <1>8 DEF NextLows
  <2> HIDE DEF below
  <2>3. CASE CycleActive(c)
    <3>1. rt'.activity # "finished_recently"
      BY <1>1, <1>2, <2>3 DEF Good, RuntimeOK, EngagedIffCycleActive, Engaged
    <3>2. QED
      BY <1>2, <2>3, <3>1 DEF LowsInv, DecayJustified
  <2>4. CASE c.activity = "finished_recently" /\ c.lowCount = IF below THEN rt.lowCount + 1 ELSE 0
    BY <1>2, <1>4, <1>8, <2>2, <2>4 DEF LowsInv, DecayJustified
  <2>5. CASE c.activity = "idle" /\ below /\ rt.lowCount + 1 >= FinishedRecentlyLowReadings
    BY <1>2, <1>4, <1>8, <2>5, RuntimeConstants DEF LowsInv, DecayJustified
  <2>6. QED
    BY <1>3, <1>8, <2>1, <2>3, <2>4, <2>5 DEF Countdown
<1>9. QED
  BY <1>6, <1>7, <1>8

\* So does every step.
LEMMA NextDecay == IInv /\ LowsInv /\ [Next]_vars => LowsInv' /\ (DecayJustified \/ UNCHANGED vars)
<1> SUFFICES ASSUME IInv, LowsInv, [Next]_vars PROVE LowsInv' /\ (DecayJustified \/ UNCHANGED vars)
  OBVIOUS
<1>1. ASSUME NEW q \in Payloads, NEW at \in (now - MaxLag)..(now + MaxSkew), Ingest(at, q)
      PROVE  LowsInv' /\ DecayJustified
  <2>1. at \in Int /\ now - MaxLag <= at
    BY MachineConstants DEF IInv, TypeOK
  <2>2. QED
    BY <1>1, <2>1, IngestDecay
<1>2. CASE EngineTick
  <2>1. /\ rt \in Runtime /\ rt' = Tick(rt, now)
        /\ lows' = IF rt'.activity = rt.activity THEN lows ELSE 0
    BY <1>2 DEF EngineTick, IInv, TypeOK
  <2>2. \/ rt' = rt
        \/ /\ rt.activity = "finished_recently" /\ rt'.activity = "idle"
           /\ now - rt.cycle.finishedAt >= FinishedRecentlyTTL
    BY <2>1, TickParts
  <2>3. QED
    BY <2>1, <2>2 DEF LowsInv, DecayJustified
<1>3. CASE AdvanceClock \/ Consume \/ PlugReset \/ UNCHANGED vars
  <2>1. rt' = rt /\ lows' = lows
    BY <1>3 DEF AdvanceClock, Consume, PlugReset, vars
  <2>2. QED
    BY <2>1 DEF LowsInv, DecayJustified
<1>4. QED
  BY <1>1, <1>2, <1>3 DEF Next

(* For every class, TTL and number of low readings, a finished appliance goes
   back to idle only past its TTL or after enough low readings in a row: the
   countdown of statemachine.go never runs ahead of what was reported. *)
THEOREM DecayAlwaysJustified == Spec => DecayIsJustified
<1>1. Init => LowsInv
  BY DEF Init, NewRuntime, LowsInv
<1>2. QED
  BY <1>1, InitOK, NextOK, NextDecay, PTL DEF Spec, DecayIsJustified

-----------------------------------------------------------------------------
(* The end of finished_recently without a reading.                         *)

\* The finish time is that of a reading, and no reading is dated further ahead
\* of the clock than the skew.
FinishInv == rt.cycle.finishedAt # Nil => rt.cycle.finishedAt <= now + MaxSkew

\* A reading leaves the finish time alone, clears it or sets it to its own time.
LEMMA IngestFinish ==
    ASSUME IInv, NEW q \in Payloads, NEW at \in Int, now - MaxLag <= at, Ingest(at, q)
    PROVE  rt'.cycle.finishedAt \in {rt.cycle.finishedAt, at, Nil}
<1>1. PICK m, c : /\ Good(m) /\ Good(c)
                  /\ Taken(m, at, q) /\ Stepped(m, c, at, q) /\ Refreshed(c, rt', at)
  BY IngestMoves
<1>2. m.cycle = rt.cycle /\ rt'.cycle.finishedAt = c.cycle.finishedAt
  BY <1>1 DEF Taken, Refreshed
<1>3. CASE Still(m, c) \/ c.cycle = m.cycle
  BY <1>2, <1>3 DEF Still
<1>4. CASE OpensAt(m, c, at)
  <2>1. c.cycle.phase = "active"
    BY <1>4 DEF OpensAt, CycleActive
  <2>2. c.cycle.finishedAt = Nil
    BY <1>1, <2>1 DEF Good, RuntimeOK, FinishedHasTimestamp
  <2>3. QED
    BY <1>2, <2>2
<1>5. CASE ClosesAt(m, c, at) /\ Edges(m, c, at, High(rt, q), Low(rt, q))
  <2>1. c.cycle.finishedAt = at
    BY <1>5 DEF ClosesAt, Edges
  <2>2. QED
    BY <1>2, <2>1
<1>6. QED
  BY <1>1, <1>3, <1>4, <1>5 DEF Stepped, Moves, Amounts

LEMMA NextFinish == IInv /\ FinishInv /\ [Next]_vars => FinishInv'
<1> SUFFICES ASSUME IInv, FinishInv, [Next]_vars PROVE FinishInv'
  OBVIOUS
<1>1. now \in Nat /\ rt.cycle.finishedAt \in OptInt
  BY DEF IInv, TypeOK, Runtime, Cycle
<1>2. ASSUME NEW q \in Payloads, NEW at \in (now - MaxLag)..(now + MaxSkew), Ingest(at, q)
      PROVE  FinishInv'
  <2>1. at \in Int /\ now - MaxLag <= at /\ at <= now + MaxSkew
    BY <1>1, MachineConstants
  <2>2. rt'.cycle.finishedAt \in {rt.cycle.finishedAt, at, Nil} /\ now' = now
    BY <1>2, <2>1, IngestFinish DEF Ingest
  <2>3. QED
    BY <2>1, <2>2 DEF FinishInv
<1>3. CASE EngineTick
  <2>1. rt'.cycle = rt.cycle /\ now' = now
    BY <1>3, TickParts DEF EngineTick, Rests, IInv, TypeOK
  <2>2. QED
    BY <2>1 DEF FinishInv
<1>4. CASE AdvanceClock
  <2>1. rt' = rt /\ now' = now + 1
    BY <1>4 DEF AdvanceClock
  <2>2. CASE rt.cycle.finishedAt = Nil
    BY <2>1, <2>2 DEF FinishInv
  <2>3. CASE rt.cycle.finishedAt # Nil
    <3>1. rt.cycle.finishedAt \in Int /\ MaxSkew \in Nat
      BY <1>1, <2>3, MachineConstants DEF OptInt
    <3>2. QED
      BY <1>1, <2>1, <2>3, <3>1 DEF FinishInv
  <2>4. QED
    BY <2>2, <2>3
<1>5. CASE Consume \/ PlugReset \/ UNCHANGED vars
  BY <1>5 DEF Consume, PlugReset, vars, FinishInv
<1>6. QED
  BY <1>2, <1>3, <1>4, <1>5 DEF Next

(* For every TTL and every skew of the readings, finished_recently needs no
   further reading to end: its finish time is at most the skew ahead of the clock,
   and no tick at or past the TTL after it leaves the device there.  So the first
   tick later than skew and TTL after the finish is the last.  (That the clock gets
   there and the ticker fires is FinishedRecentlyEnds, which TLC checks.) *)
THEOREM TickEndsFinished ==
    Spec => /\ [](rt.activity = "finished_recently" =>
                     rt.cycle.finishedAt \in Int /\ rt.cycle.finishedAt <= now + MaxSkew)
            /\ [][EngineTick /\ now >= rt.cycle.finishedAt + FinishedRecentlyTTL
                     => rt'.activity # "finished_recently"]_vars
<1>1. Init => FinishInv
  BY DEF Init, NewRuntime, NoCycle, FinishInv
<1>2. IInv /\ FinishInv =>
        (rt.activity = "finished_recently" =>
            rt.cycle.finishedAt \in Int /\ rt.cycle.finishedAt <= now + MaxSkew)
  BY DEF IInv, TypeOK, RuntimeInv, RuntimeOK, FinishedHasTimestamp, FinishInv, Runtime, Cycle, OptInt
<1>3. IInv /\ [Next]_vars =>
        [EngineTick /\ now >= rt.cycle.finishedAt + FinishedRecentlyTTL
            => rt'.activity # "finished_recently"]_vars
  <2> SUFFICES ASSUME IInv, EngineTick, now >= rt.cycle.finishedAt + FinishedRecentlyTTL,
                      rt'.activity = "finished_recently"
               PROVE  FALSE
    OBVIOUS
  <2>1. rt' = Tick(rt, now) /\ rt \in Runtime
    BY DEF EngineTick, IInv, TypeOK
  <2>2. rt.activity = "finished_recently"
    BY <2>1, TickParts
  <2>3. rt.cycle.finishedAt # Nil /\ rt.cycle.finishedAt \in Int /\ now \in Int
    BY <2>2 DEF IInv, TypeOK, RuntimeInv, RuntimeOK, FinishedHasTimestamp, Runtime, Cycle, OptInt
  <2>4. now - rt.cycle.finishedAt >= FinishedRecentlyTTL
    BY <2>3, RuntimeConstants
  <2>5. rt' = [rt EXCEPT !.activity = "idle", !.lowCount = 0]
    BY <2>1, <2>2, <2>3, <2>4 DEF Tick
  <2>6. rt'.activity = "idle"
    BY <2>1, <2>5 DEF Runtime
  <2>7. QED
    BY <2>6
<1>4. QED
  BY <1>1, <1>2, <1>3, InitOK, NextOK, NextFinish, PTL DEF Spec

-----------------------------------------------------------------------------
(* The counter path.                                                       *)

\* Counter c, with u consumed on the plug whose counter shows v: what the
\* counter has gained is what was consumed up to the newest report, and what it
\* has yet to see was consumed since; a reset can only lose consumption.
Meters(c, u, v) ==
    /\ c.baseline = Nil <=> c.latest = Nil
    /\ c.latest = Nil => u.seen = 0
    /\ c.latest # Nil =>
          /\ 0 <= c.baseline /\ c.baseline <= c.latest
          /\ c.latest - c.baseline <= u.seen
          /\ v <= c.latest + (u.since - u.seen)
          /\ ~u.reset => /\ c.latest - c.baseline = u.seen
                         /\ v = c.latest + (u.since - u.seen)

MeterInv ==
    /\ Meters(rt.counter, use, meter)
    /\ CycleActive(rt) => rt.cycle.reported = Delta(rt.counter)

Use == [since : Nat, seen : Nat, reset : BOOLEAN]

\* A report begins a new count outside a cycle, or when nothing had been counted.
LEMMA BaselineMeters ==
    ASSUME NEW c \in Counter, NEW v \in Nat
    PROVE  /\ Meters(SetBaseline(v), [since |-> 0, seen |-> 0, reset |-> FALSE], v)
           /\ c.latest = Nil /\ c.baseline = Nil
                => CounterUpdate(c, v) = SetBaseline(v)
  BY NilAssumption DEF Meters, SetBaseline, Counter, CounterUpdate, OptInt

\* A report inside a cycle counts everything consumed so far, but for a reset.
LEMMA ReportMeters ==
    ASSUME NEW c \in Counter, NEW v \in Nat, NEW u \in Use, u.seen <= u.since,
           Meters(c, u, v), c.latest # Nil
    PROVE  Meters(CounterUpdate(c, v), [u EXCEPT !.seen = u.since], v)
<1> DEFINE w == [u EXCEPT !.seen = u.since]
           d == CounterUpdate(c, v)
<1>1. w.since = u.since /\ w.seen = u.since /\ w.reset = u.reset
  BY DEF Use
<1>2. /\ c.baseline \in Int /\ c.latest \in Int
      /\ u.since \in Nat /\ u.seen \in Nat /\ u.reset \in BOOLEAN
  BY DEF Counter, OptInt, Meters, Use
<1>3. d.latest = v /\ d.baseline = IF v < c.baseline THEN v ELSE c.baseline
  BY <1>2, NilAssumption DEF CounterUpdate
<1> HIDE DEF w, d
<1>4. Meters(d, w, v)
  BY <1>1, <1>2, <1>3, NilAssumption DEF Meters
<1>5. QED
  BY <1>4 DEF d, w

\* Opening a cycle counts from the newest report.
LEMMA RebaselineMeters ==
    ASSUME NEW c \in Counter, NEW v \in Nat, NEW u \in Use, u.seen <= u.since, Meters(c, u, v)
    PROVE  Meters(RebaselineAtLatest(c), [u EXCEPT !.since = u.since - u.seen, !.seen = 0], v)
<1> DEFINE left == u.since - u.seen
           w == [u EXCEPT !.since = left, !.seen = 0]
           d == RebaselineAtLatest(c)
<1>1. w.since = left /\ w.seen = 0 /\ w.reset = u.reset
  BY DEF Use
<1>2. /\ left \in Nat /\ u.seen \in Nat /\ u.since \in Nat /\ u.reset \in BOOLEAN
      /\ c.baseline \in OptInt /\ c.latest \in OptInt
  BY DEF Counter, Use
<1>3. d.latest = c.latest /\ d.baseline = c.latest
  BY DEF RebaselineAtLatest, Counter, Meters
<1>3a. left = u.since - u.seen
  OBVIOUS
<1> HIDE DEF w, d, left
<1>4. Meters(d, w, v)
  BY <1>1, <1>2, <1>3, <1>3a, NilAssumption DEF Meters, OptInt
<1>5. QED
  BY <1>4 DEF d, w, left

\* A counter that meters its plug has gained no more than was seen, and exactly
\* that when the plug did not restart.
LEMMA MeteredDelta ==
    ASSUME NEW c \in Counter, NEW v \in Nat, NEW u \in Use, Meters(c, u, v)
    PROVE  Delta(c) <= u.seen /\ (~u.reset => Delta(c) = u.seen)
  BY NilAssumption DEF Meters, Delta, Counter, OptInt, Use

\* A reading keeps it.
LEMMA IngestMeter ==
    ASSUME IInv, MeterInv, MaxLag = 0, NEW q \in Payloads, NEW at \in Int, now <= at, Ingest(at, q)
    PROVE  MeterInv'
<1> DEFINE zero     == [since |-> 0, seen |-> 0, reset |-> FALSE]
           reported == IF ~q.counter THEN use
                       ELSE IF ~CycleActive(rt) \/ rt.counter.latest = Nil THEN zero
                       ELSE [use EXCEPT !.seen = use.since]
<1>1. PICK m, c : /\ Good(m) /\ Good(c)
                  /\ Taken(m, at, q) /\ Stepped(m, c, at, q) /\ Refreshed(c, rt', at)
  BY IngestMoves DEF IInv, TypeOK
<1>2. /\ rt'.counter = c.counter
      /\ CycleActive(rt') <=> CycleActive(c)
      /\ CycleActive(c) => rt'.cycle.reported = Delta(c.counter)
  BY <1>1 DEF Refreshed, CycleActive
<1>3. /\ CycleActive(m) <=> CycleActive(rt)
      /\ rt.counter \in Counter /\ m.counter \in Counter /\ meter \in Nat /\ use \in Use
      /\ use.seen <= use.since /\ Meters(rt.counter, use, meter) /\ q.counter \in BOOLEAN
  BY <1>1, MachineConstants DEF Taken, CycleActive, IInv, TypeOK, Good, Runtime, MeterInv, Use
<1>3a. q.counter => m.counter = IF CycleActive(rt) THEN CounterUpdate(rt.counter, meter)
                                ELSE SetBaseline(meter)
  <2>1. Shown(at) = {meter}
    BY DEF Shown, IInv, TypeOK
  <2>2. QED
    BY <1>1, <2>1 DEF Taken
<1>4. /\ Meters(m.counter, reported, meter)
      /\ reported \in Use /\ reported.seen <= reported.since
  <2>1. CASE ~q.counter
    BY <1>1, <1>3, <2>1 DEF Taken
  <2>2. CASE q.counter /\ (~CycleActive(rt) \/ rt.counter.latest = Nil)
    <3>1. m.counter = SetBaseline(meter)
      BY <1>3, <1>3a, <2>2, BaselineMeters DEF Meters
    <3>2. zero \in Use /\ zero.seen <= zero.since
      BY DEF Use
    <3>3. QED
      BY <1>3, <2>2, <3>1, <3>2, BaselineMeters
  <2>3. CASE q.counter /\ CycleActive(rt) /\ rt.counter.latest # Nil
    <3>1. m.counter = CounterUpdate(rt.counter, meter)
      BY <1>3a, <2>3
    <3>2. reported = [use EXCEPT !.seen = use.since]
      BY <2>3
    <3>3. reported \in Use /\ reported.seen <= reported.since
      BY <1>3, <3>2 DEF Use
    <3>4. QED
      BY <1>3, <2>3, <3>1, <3>2, <3>3, ReportMeters
  <2>4. QED
    BY <1>3, <2>1, <2>2, <2>3
<1>5. use' = IF ~CycleActive(rt) /\ CycleActive(rt')
             THEN [reported EXCEPT !.since = reported.since - reported.seen, !.seen = 0]
             ELSE reported
  BY DEF Ingest, NextUse
<1>6. meter' = meter
  BY DEF Ingest
<1> HIDE DEF reported
<1>7. CASE ~CycleActive(rt) /\ CycleActive(rt')
  <2>1. c.counter = RebaselineAtLatest(m.counter)
    BY <1>1, <1>2, <1>3, <1>7 DEF Stepped, Moves, Amounts, OpensAt, ClosesAt, Still, CycleActive
  <2>2. Meters(c.counter, use', meter)
    BY <1>3, <1>4, <1>5, <1>7, <2>1, RebaselineMeters
  <2>3. QED
    BY <1>2, <1>6, <2>2 DEF MeterInv
<1>8. CASE ~(~CycleActive(rt) /\ CycleActive(rt'))
  <2>1. c.counter = m.counter
    BY <1>1, <1>2, <1>3, <1>8 DEF Stepped, Moves, Amounts, OpensAt, ClosesAt, Still, CycleActive
  <2>2. Meters(c.counter, use', meter)
    BY <1>4, <1>5, <1>8, <2>1
  <2>3. QED
    BY <1>2, <1>6, <2>2 DEF MeterInv
<1>9. QED
  BY <1>7, <1>8

\* So does every step.
LEMMA NextMeter == MaxLag = 0 => (IInv /\ MeterInv /\ [Next]_vars => MeterInv')
<1> SUFFICES ASSUME MaxLag = 0, IInv, MeterInv, [Next]_vars PROVE MeterInv'
  OBVIOUS
<1>1. ASSUME NEW q \in Payloads, NEW at \in (now - MaxLag)..(now + MaxSkew), Ingest(at, q)
      PROVE  MeterInv'
  <2>1. at \in Int /\ now <= at
    BY MachineConstants DEF IInv, TypeOK
  <2>2. QED
    BY <1>1, <2>1, IngestMeter
<1>2. CASE EngineTick
  <2>1. rt \in Runtime /\ rt' = Tick(rt, now) /\ meter' = meter /\ use' = use
    BY <1>2 DEF EngineTick, IInv, TypeOK
  <2>2. rt'.counter = rt.counter /\ rt'.cycle = rt.cycle
    BY <2>1, TickParts DEF Rests
  <2>3. QED
    BY <2>1, <2>2 DEF MeterInv, CycleActive
<1>3. /\ rt.counter \in Counter /\ meter \in Nat /\ use \in Use /\ use.seen <= use.since
      /\ Meters(rt.counter, use, meter)
  BY DEF IInv, TypeOK, Runtime, MeterInv, Use
<1>4. rt.counter.latest \in OptInt /\ rt.counter.baseline \in OptInt
  BY <1>3 DEF Counter
<1>5. CASE Consume
  <2>1. rt' = rt /\ meter' = meter + 1
    BY <1>5 DEF Consume
  <2>2. use'.since = use.since + 1 /\ use'.seen = use.seen /\ use'.reset = use.reset
    BY <1>3, <1>5 DEF Consume, Use
  <2>3. Meters(rt.counter, use', meter')
    BY <1>3, <1>4, <2>1, <2>2, NilAssumption DEF Meters, OptInt, Use
  <2>4. QED
    BY <2>1, <2>3 DEF MeterInv
<1>6. CASE PlugReset
  <2>1. rt' = rt /\ meter' = 0
    BY <1>6 DEF PlugReset
  <2>2. use'.since = use.since /\ use'.seen = use.seen /\ use'.reset = TRUE
    BY <1>3, <1>6 DEF PlugReset, Use
  <2>3. Meters(rt.counter, use', meter')
    BY <1>3, <1>4, <2>1, <2>2, NilAssumption DEF Meters, OptInt, Use
  <2>4. QED
    BY <2>1, <2>3 DEF MeterInv
<1>7. CASE AdvanceClock \/ UNCHANGED vars
  BY <1>7 DEF AdvanceClock, vars, MeterInv
<1>8. QED
  BY <1>1, <1>2, <1>5, <1>6, <1>7 DEF Next

(* When readings are delivered in order - none is stamped behind the clock, so
   each carries the counter as it stands - then for every class and thresholds,
   and however often the plug restarts, the counter delta that statemachine.go
   reports for the cycle in flight never exceeds what the plug consumed between
   the last report before the cycle and the newest one, and equals it when the
   plug did not restart.  A late report breaks it (counter.go takes it for a
   restart and bills the difference twice). *)
THEOREM CounterAlwaysFaithful == MaxLag = 0 => (Spec => []CounterFaithful)
<1> SUFFICES ASSUME MaxLag = 0 PROVE Spec => []CounterFaithful
  OBVIOUS
<1>1. Init => MeterInv
  BY DEF Init, NewRuntime, EmptyCounter, NoCycle, CycleActive, MeterInv, Meters
<1>2. IInv /\ MeterInv => CounterFaithful
  <2> SUFFICES ASSUME IInv, MeterInv PROVE CounterFaithful
    OBVIOUS
  <2>1. /\ rt.counter \in Counter /\ meter \in Nat /\ use \in Use
        /\ Meters(rt.counter, use, meter)
    BY DEF IInv, TypeOK, Runtime, MeterInv, Use
  <2>2. QED
    BY <2>1, MeteredDelta DEF MeterInv, CounterFaithful
<1>2a. IInv /\ MeterInv /\ [Next]_vars => MeterInv'
  BY NextMeter
<1>3. QED
  BY <1>1, <1>2, <1>2a, InitOK, NextOK, PTL DEF Spec

-----------------------------------------------------------------------------
(* The integrated path.                                                    *)

\* Multiplying by a natural number keeps the order and distributes.
LEMMA Scaling ==
    ASSUME NEW k \in Nat, NEW a \in Int, NEW b \in Int
    PROVE  /\ k * a \in Int /\ k * 0 = 0
           /\ k * a + k * b = k * (a + b)
           /\ a <= b => k * a <= k * b
  OBVIOUS

\* Watts that average at most half of k charge at most k times the interval.
LEMMA Charging ==
    ASSUME NEW k \in Nat, NEW w \in Int, w <= k, NEW dt \in Nat
    PROVE  w * dt <= k * dt /\ w * dt \in Int
  OBVIOUS

\* One more reading, not older than the last, charges no more than k a tick.
LEMMA UpdateCharges ==
    ASSUME NEW i \in Integrator, NEW at \in Int, NEW w \in Int, NEW gap \in Int, NEW k \in Nat,
           2 * w <= k, i.lastWatts # Nil => 2 * i.lastWatts <= k /\ i.lastAt <= at
    PROVE  LET j == IntegratorUpdate(i, at, w, gap)
           IN  /\ j.lastWatts = w /\ j.lastAt = at
               /\ i.lastWatts # Nil => j.total - i.total <= k * (at - i.lastAt)
<1> DEFINE dt == at - i.lastAt
           j  == IntegratorUpdate(i, at, w, gap)
<1>1. j.lastWatts = w /\ j.lastAt = at
  BY DEF IntegratorUpdate
<1>2. ASSUME i.lastWatts # Nil PROVE j.total - i.total <= k * dt
  <2>1. i.lastWatts \in Int /\ i.total \in Int /\ i.lastAt \in Int
    BY <1>2 DEF Integrator, OptInt
  <2>2. dt \in Nat /\ i.lastWatts + w \in Int /\ i.lastWatts + w <= k
    BY <1>2, <2>1
  <2>3. /\ (i.lastWatts + w) * dt <= k * dt /\ (i.lastWatts + w) * dt \in Int
        /\ 0 <= k * dt /\ k * dt \in Int
    BY <2>2, Charging, Scaling
  <2>4. j.total = i.total \/ j.total = i.total + (i.lastWatts + w) * dt
    BY <1>2 DEF IntegratorUpdate
  <2> HIDE DEF dt, j
  <2>5. QED
    BY <2>1, <2>3, <2>4
<1>3. QED
  BY <1>1, <1>2

\* Since it opened at `from`, the cycle has been charged no more than k a tick.
Charged(i, snap, from, k) ==
    /\ i.lastWatts # Nil /\ from <= i.lastAt
    /\ i.total - snap.total <= k * (i.lastAt - from)

\* The newest power is at most w and not ahead of the clock; the bill of a cycle,
\* in flight or finished, is within what w could deliver in its duration.
ChargeInv(w) ==
    /\ rt.integrator.lastWatts # Nil =>
          2 * rt.integrator.lastWatts <= 2 * w /\ rt.integrator.lastAt <= now
    /\ rt.class # "binary_state" =>
          /\ rt.cycle.integrated <= 2 * w * rt.cycle.duration
          /\ CycleActive(rt) => Charged(rt.integrator, rt.snap, rt.cycle.startedAt, 2 * w)

\* A reading in order keeps it.
LEMMA IngestCharge ==
    ASSUME IInv, NEW w \in Nat, \A p \in Payloads : p.power # Nil => p.power <= w,
           ChargeInv(w), NEW q \in Payloads, Ingest(now, q)
    PROVE  ChargeInv(w)'
<1> DEFINE k == 2 * w
<1>1. PICK m, c : /\ Good(m) /\ Good(c)
                  /\ Taken(m, now, q) /\ Stepped(m, c, now, q) /\ Refreshed(c, rt', now)
  <2>1. now \in Int /\ now - MaxLag <= now
    BY MachineConstants DEF IInv, TypeOK
  <2>2. QED
    BY <2>1, IngestMoves
<1>2. /\ rt'.integrator = c.integrator /\ rt'.snap = c.snap /\ rt'.class = c.class
      /\ CycleActive(rt') <=> CycleActive(c)
      /\ rt'.cycle.startedAt = c.cycle.startedAt
  BY <1>1 DEF Refreshed, CycleActive
<1>3. /\ CycleActive(m) <=> CycleActive(rt)
      /\ m.cycle = rt.cycle /\ m.snap = rt.snap /\ m.class = rt.class
      /\ now \in Int /\ k \in Nat /\ now' = now
      /\ rt.integrator \in Integrator /\ m.integrator \in Integrator
      /\ rt.snap.total \in Int /\ rt.cycle.startedAt \in Int
      /\ c.class = m.class /\ c.integrator = m.integrator
  <2>1. m.cycle = rt.cycle /\ m.snap = rt.snap /\ m.class = rt.class
    BY <1>1 DEF Taken
  <2>2. now \in Int /\ now' = now /\ rt \in Runtime /\ m \in Runtime
    BY <1>1 DEF IInv, TypeOK, Good, Ingest
  <2>3. c.class = m.class /\ c.integrator = m.integrator
    BY <1>1 DEF Stepped, Moves, Still, Amounts
  <2>4. QED
    BY <2>1, <2>2, <2>3 DEF CycleActive, Runtime, Snapshot, Cycle
<1>3a. /\ rt.integrator.lastAt \in Int /\ rt.integrator.total \in Int
       /\ rt.integrator.lastWatts \in OptInt
       /\ m.integrator.lastAt \in Int /\ m.integrator.total \in Int
  BY <1>3 DEF Integrator
<1>3b. k = 2 * w
  OBVIOUS
<1> HIDE DEF k
<1>4. /\ m.integrator.lastWatts # Nil => 2 * m.integrator.lastWatts <= k /\ m.integrator.lastAt <= now
      /\ rt.integrator.lastWatts # Nil =>
            /\ m.integrator.lastWatts # Nil /\ rt.integrator.lastAt <= m.integrator.lastAt
            /\ m.integrator.total - rt.integrator.total
                 <= k * (m.integrator.lastAt - rt.integrator.lastAt)
      /\ q.power # Nil => m.integrator.lastWatts # Nil /\ m.integrator.lastAt = now
  <2>1. rt.integrator.lastWatts # Nil => 2 * rt.integrator.lastWatts <= k /\ rt.integrator.lastAt <= now
    BY <1>3b DEF ChargeInv
  <2>2. CASE q.power = Nil
    <3>1. m.integrator = rt.integrator
      BY <1>1, <2>2 DEF Taken
    <3>2. k * (rt.integrator.lastAt - rt.integrator.lastAt) = 0
      BY <1>3, <1>3a, Scaling
    <3>3. QED
      BY <1>3a, <2>1, <2>2, <3>1, <3>2
  <2>3. CASE q.power # Nil
    <3>1. q.power \in Int /\ q.power <= w
      BY <2>3, MachineConstants DEF OptInt
    <3>2. 2 * q.power <= k
      BY <1>3b, <3>1
    <3>3. m.integrator = IntegratorUpdate(rt.integrator, now, q.power, MaxIntegrationGap)
      BY <1>1, <2>3 DEF Taken
    <3>4. LET j == IntegratorUpdate(rt.integrator, now, q.power, MaxIntegrationGap)
          IN  /\ j.lastWatts = q.power /\ j.lastAt = now
              /\ rt.integrator.lastWatts # Nil =>
                   j.total - rt.integrator.total <= k * (now - rt.integrator.lastAt)
      <4>1. MaxIntegrationGap \in Int
        BY RuntimeConstants
      <4>2. QED
        BY <1>3, <2>1, <3>1, <3>2, <4>1, UpdateCharges, Zenon
    <3>5. QED
      BY <1>3, <1>3a, <2>1, <2>3, <3>2, <3>3, <3>4
  <2>4. QED
    BY <2>2, <2>3
<1>5. rt.class # "binary_state" /\ CycleActive(rt) =>
        Charged(m.integrator, m.snap, rt.cycle.startedAt, k)
  <2> SUFFICES ASSUME rt.class # "binary_state", CycleActive(rt)
               PROVE  Charged(m.integrator, m.snap, rt.cycle.startedAt, k)
    OBVIOUS
  <2> DEFINE a == rt.integrator.lastAt - rt.cycle.startedAt
             b == m.integrator.lastAt - rt.integrator.lastAt
  <2>1. /\ rt.integrator.lastWatts # Nil /\ rt.cycle.startedAt <= rt.integrator.lastAt
        /\ rt.integrator.total - rt.snap.total <= k * a
    BY <1>3b DEF ChargeInv, Charged
  <2>2. a \in Int /\ b \in Int /\ a + b = m.integrator.lastAt - rt.cycle.startedAt
    BY <1>3, <1>3a
  <2>3. k * a + k * b = k * (a + b) /\ k * a \in Int /\ k * b \in Int
    BY <1>3, <2>2, Scaling
  <2>4. m.integrator.total - rt.integrator.total <= k * b
    BY <1>4, <2>1
  <2> HIDE DEF a, b
  <2>5. m.integrator.total - rt.snap.total <= k * (a + b)
    BY <1>3, <1>3a, <2>1, <2>3, <2>4
  <2>6. QED
    BY <1>3, <1>3a, <1>4, <2>1, <2>2, <2>5 DEF Charged
<1>6. ASSUME NEW from \in Int, NEW r, r.integrator = m.integrator, r.snap.total \in Int,
             Charged(m.integrator, r.snap, from, k)
      PROVE  Gained(r) <= k * (now - from)
  <2>1. /\ from <= m.integrator.lastAt /\ m.integrator.lastAt <= now
        /\ m.integrator.total - r.snap.total <= k * (m.integrator.lastAt - from)
    BY <1>4, <1>6 DEF Charged
  <2>2. /\ k * (m.integrator.lastAt - from) <= k * (now - from) /\ 0 <= k * (now - from)
        /\ k * (m.integrator.lastAt - from) \in Int /\ k * (now - from) \in Int
    BY <1>3, <1>3a, <2>1, Scaling
  <2>3. QED
    BY <1>3a, <1>6, <2>1, <2>2 DEF Gained
<1>7. ASSUME rt.class # "binary_state"
      PROVE  /\ rt'.cycle.integrated <= k * rt'.cycle.duration
             /\ CycleActive(rt') => Charged(rt'.integrator, rt'.snap, rt'.cycle.startedAt, k)
  <2>1. CASE OpensAt(m, c, now)
    <3>1. q.power # Nil
      BY <1>1, <1>3, <1>7, <2>1 DEF Stepped, Still, OpensAt, CycleActive, Relevant
    <3>2. /\ c.snap.total = m.integrator.total /\ c.cycle.startedAt = now /\ CycleActive(c)
          /\ k * (now - now) = 0
      BY <1>3, <2>1, Scaling DEF OpensAt
    <3>3. Charged(m.integrator, c.snap, now, k)
      BY <1>3, <1>3a, <1>4, <3>1, <3>2 DEF Charged
    <3>4. Gained(c) <= k * (now - now)
      BY <1>3, <1>3a, <1>6, <3>2, <3>3
    <3>5. QED
      BY <1>1, <1>2, <1>3, <3>2, <3>3, <3>4 DEF Refreshed
  <2>2. CASE ClosesAt(m, c, now)
    <3>1. Charged(m.integrator, m.snap, rt.cycle.startedAt, k)
      BY <1>3, <1>5, <1>7, <2>2 DEF ClosesAt
    <3>2. Gained(m) <= k * (now - rt.cycle.startedAt)
      BY <1>3, <1>6, <3>1
    <3>3. /\ c.cycle.integrated = Gained(m) /\ c.cycle.duration = now - rt.cycle.startedAt
          /\ ~CycleActive(c)
      BY <1>3, <2>2 DEF ClosesAt
    <3>4. QED
      BY <1>1, <1>2, <3>2, <3>3 DEF Refreshed
  <2>3. CASE c.cycle = m.cycle /\ c.snap = m.snap
    <3>1. CASE CycleActive(rt)
      <4>1. Charged(m.integrator, m.snap, rt.cycle.startedAt, k)
        BY <1>5, <1>7, <3>1
      <4>2. Gained(c) <= k * (now - rt.cycle.startedAt)
        BY <1>3, <1>6, <2>3, <4>1
      <4>3. /\ CycleActive(c) /\ rt'.cycle.integrated = Gained(c)
            /\ rt'.cycle.duration = now - rt.cycle.startedAt
        BY <1>1, <1>3, <2>3, <3>1 DEF Refreshed, CycleActive
      <4>4. QED
        BY <1>2, <1>3, <2>3, <4>1, <4>2, <4>3
    <3>2. CASE ~CycleActive(rt)
      <4>1. ~CycleActive(c) /\ rt'.cycle = rt.cycle
        BY <1>1, <1>3, <2>3, <3>2 DEF Refreshed, CycleActive
      <4>2. QED
        BY <1>2, <1>3b, <1>7, <4>1 DEF ChargeInv
    <3>3. QED
      BY <3>1, <3>2
  <2>4. QED
    BY <1>1, <2>1, <2>2, <2>3 DEF Stepped, Moves, Amounts, Still
<1>8. QED
  BY <1>2, <1>3, <1>3b, <1>4, <1>7 DEF ChargeInv

\* So does every step, as long as readings come in order.
LEMMA NextCharge ==
    ASSUME MaxLag = 0, MaxSkew = 0, NEW w \in Nat, \A p \in Payloads : p.power # Nil => p.power <= w
    PROVE  IInv /\ ChargeInv(w) /\ [Next]_vars => ChargeInv(w)'
<1> SUFFICES ASSUME IInv, ChargeInv(w), [Next]_vars PROVE ChargeInv(w)'
  OBVIOUS
<1>1. ASSUME NEW q \in Payloads, NEW at \in (now - MaxLag)..(now + MaxSkew), Ingest(at, q)
      PROVE  ChargeInv(w)'
  <2>1. at = now
    BY DEF IInv, TypeOK
  <2>2. QED
    BY <1>1, <2>1, IngestCharge
<1>2. CASE EngineTick
  <2>1. rt \in Runtime /\ rt' = Tick(rt, now) /\ now' = now
    BY <1>2 DEF EngineTick, IInv, TypeOK
  <2>2. /\ rt'.class = rt.class /\ rt'.cycle = rt.cycle
        /\ rt'.integrator = rt.integrator /\ rt'.snap = rt.snap
    BY <2>1, TickParts DEF Rests
  <2>3. QED
    BY <2>1, <2>2 DEF ChargeInv, CycleActive
<1>3. CASE AdvanceClock
  <2>1. rt' = rt /\ now' = now + 1 /\ now \in Int /\ rt.integrator.lastAt \in Int
    BY <1>3 DEF AdvanceClock, IInv, TypeOK, Runtime, Integrator
  <2>2. QED
    BY <2>1 DEF ChargeInv
<1>4. CASE Consume \/ PlugReset \/ UNCHANGED vars
  <2>1. rt' = rt /\ now' = now
    BY <1>4 DEF Consume, PlugReset, vars
  <2>2. QED
    BY <2>1 DEF ChargeInv
<1>5. QED
  BY <1>1, <1>2, <1>3, <1>4 DEF Next

(* When readings arrive in order and their power has a largest value that is not
   negative, no cycle of a metered class is billed more integrated energy than
   that power delivers in the cycle's own duration, for every class, strategy
   and integration gap: the snapshot statemachine.go takes as a cycle opens
   keeps the gap before it off the bill. *)
THEOREM IntegratedAlwaysWithin ==
    ASSUME MaxLag = 0, MaxSkew = 0,
           \E q \in Payloads : /\ q.power \in Nat
                               /\ \A p \in Payloads : p.power # Nil => p.power <= q.power
    PROVE  Spec => []IntegratedWithinCycle
<1>1. MaxWatts \in Nat /\ \A p \in Payloads : p.power # Nil => p.power <= MaxWatts
  <2>1. PICK q \in Payloads : /\ q.power \in Nat
                              /\ \A p \in Payloads : p.power # Nil => p.power <= q.power
    OBVIOUS
  <2>2. q.power \in {p.power : p \in Payloads} \ {Nil}
    BY <2>1, NilAssumption
  <2>3. /\ MaxWatts \in {p.power : p \in Payloads} \ {Nil}
        /\ \A p \in Payloads : p.power # Nil => p.power <= MaxWatts
    BY <2>1, <2>2 DEF MaxWatts
  <2>4. MaxWatts \in Int /\ q.power <= MaxWatts
    BY <2>1, <2>3, NilAssumption, MachineConstants DEF OptInt
  <2>5. QED
    BY <2>1, <2>3, <2>4
<1> HIDE DEF MaxWatts
<1>2. Init => ChargeInv(MaxWatts)
  <2>1. 2 * MaxWatts * 0 = 0
    BY <1>1
  <2>2. QED
    BY <2>1 DEF Init, NewRuntime, NewIntegrator, NoCycle, CycleActive, ChargeInv
<1>3. IInv /\ ChargeInv(MaxWatts) /\ [Next]_vars => ChargeInv(MaxWatts)'
  BY <1>1, NextCharge
<1>4. ChargeInv(MaxWatts) => IntegratedWithinCycle
  BY DEF ChargeInv, IntegratedWithinCycle
<1>5. QED
  BY <1>2, <1>3, <1>4, InitOK, NextOK, PTL DEF Spec
=============================================================================
