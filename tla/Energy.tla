------------------------------- MODULE Energy -------------------------------
(***************************************************************************)
(* The two parallel energy paths of internal/energy: the device's own      *)
(* monotonic counter and the engine's trapezoid integration of power.      *)
(*                                                                         *)
(* Amounts are integers.  Power is in watts, time in ticks, and both       *)
(* energies are in half watt-ticks, so the trapezoid (w1 + w2) / 2 * dt is *)
(* the integer (w1 + w2) * dt; the code's division by 1000 is a unit.      *)
(***************************************************************************)
EXTENDS Integers

CONSTANT Nil   \* the Go nil of an optional number

ASSUME NilAssumption == Nil \notin Int

OptInt == Int \union {Nil}

-----------------------------------------------------------------------------
(* Counter (counter.go).                                                   *)

Counter == [baseline : OptInt, latest : OptInt]

EmptyCounter == [baseline |-> Nil, latest |-> Nil]

SetBaseline(v) == [baseline |-> v, latest |-> v]

\* A value below the baseline is a plug reset: the baseline rolls back to it.
CounterUpdate(c, v) ==
    [baseline |-> IF c.baseline = Nil THEN v
                  ELSE IF v < c.baseline THEN v ELSE c.baseline,
     latest   |-> v]

Delta(c) ==
    IF c.baseline = Nil \/ c.latest = Nil \/ c.latest < c.baseline
    THEN 0
    ELSE c.latest - c.baseline

RebaselineAtLatest(c) ==
    IF c.latest = Nil THEN c ELSE [c EXCEPT !.baseline = c.latest]

-----------------------------------------------------------------------------
(* Integrator (integration.go).                                            *)

Integrator == [lastWatts : OptInt, lastAt : Int, total : Int, gaps : Nat]

NewIntegrator == [lastWatts |-> Nil, lastAt |-> 0, total |-> 0, gaps |-> 0]

\* The first reading only seeds; an interval that is not positive, or longer
\* than maxGap, adds nothing.  The newest delivered value is always kept, even
\* when its timestamp is older than the one it replaces.
IntegratorUpdate(i, at, watts, maxGap) ==
    LET dt       == at - i.lastAt
        positive == i.lastWatts # Nil /\ dt > 0
        clamped  == positive /\ maxGap > 0 /\ dt > maxGap
    IN  [lastWatts |-> watts,
         lastAt    |-> at,
         total     |-> IF positive /\ ~clamped
                       THEN i.total + (i.lastWatts + watts) * dt
                       ELSE i.total,
         gaps      |-> IF clamped THEN i.gaps + 1 ELSE i.gaps]

Snapshot == [total : Int, gaps : Nat]

SnapshotState(i) == [total |-> i.total, gaps |-> i.gaps]

-----------------------------------------------------------------------------
(* Strategy (strategy.go).                                                 *)

Strategies == {"counter", "integration", "larger"}

\* Which of two totals, neither of them negative, a session reports; "larger"
\* stands for every strategy string the switch does not name.
SelectKWh(strategy, counter, integrated) ==
    LET source ==
          CASE strategy = "counter" ->
                 IF counter > 0 \/ integrated = 0 THEN "counter" ELSE "integration"
            [] strategy = "integration" ->
                 IF integrated > 0 \/ counter = 0 THEN "integration" ELSE "counter"
            [] OTHER ->
                 IF counter >= integrated THEN "counter" ELSE "integration"
    IN  [source |-> source,
         kwh    |-> IF source = "counter" THEN counter ELSE integrated]
=============================================================================
