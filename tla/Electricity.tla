------------------------------ MODULE Electricity ------------------------------
(***************************************************************************)
(* The whole-house electricity summary: every power reading updates its    *)
(* device's record, and the goroutine that delivered it then copies the    *)
(* device map, aggregates, and publishes under elecMu.  Copies, stamps and *)
(* publications of concurrent readings do not come in the same order.      *)
(*                                                                         *)
(* Device ids are numbers, ordered as the code orders strings; watts and   *)
(* energies are integers as in Energy.  since is a history variable, and   *)
(* so is whole, the part of a call that tells whether its copy of the      *)
(* devices is still what they are.                                         *)
(***************************************************************************)
EXTENDS Energy, FiniteSetsExt

CONSTANTS
    Handlers,    \* goroutines that deliver readings
    Meters,      \* ids of energy meters
    Plugs,       \* ids of power-monitored devices
    Watts,       \* the power a plug may report
    MeterWatts,  \* the power a meter may report, negative when exporting
    Totals,      \* what a meter may count since the last of its own resets
    Staleness,   \* ticks after which a plug's record no longer counts
    MaxGap,      \* the longest interval that is integrated
    MaxLag,      \* how far a reading's stamp may lie behind the clock
    MaxSkew,     \* how far it may lie ahead
    ClockMax     \* bound: the clock stops here

Devices == Meters \union Plugs

ASSUME ElectricityConstants ==
    /\ Devices \subseteq Nat /\ Meters \intersect Plugs = {}
    /\ Watts \subseteq Nat /\ MeterWatts \subseteq Int /\ Totals \subseteq Nat
    /\ Staleness \in Nat /\ MaxGap \in Nat
    /\ MaxLag \in Nat /\ MaxSkew \in Nat /\ ClockMax \in Nat

VARIABLES
    clock,
    latest,       \* each device's last delivered reading: watts and stamp
    absent,       \* the devices confirmed offline
    local,        \* what each handler is about to do
    lastElecAt,   \* stamp of the last publication
    integrators,  \* the gross, monitored and unmonitored integrators
    today,        \* the meter's own period total, as a publication last took it over
    summary,      \* House.Electricity
    since         \* stamp of the first publication

vars == <<clock, latest, absent, local, lastElecAt, integrators, today, summary, since>>

NoAggregate == [gross |-> 0, monitored |-> 0, stale |-> {}]
Idle == [pc |-> "idle", device |-> 0, at |-> 0, total |-> Nil, agg |-> NoAggregate, whole |-> FALSE]
NoSummary == [at |-> Nil, gross |-> 0, monitored |-> 0, unmonitored |-> 0, stale |-> {},
              today |-> Nil, session |-> [gross |-> 0, monitored |-> 0, unmonitored |-> 0]]

Init ==
    /\ clock = 0
    /\ latest = [d \in Devices |-> [watts |-> Nil, seen |-> 0]]
    /\ absent = {}
    /\ local = [h \in Handlers |-> Idle]
    /\ lastElecAt = Nil
    /\ integrators = [gross |-> NewIntegrator, monitored |-> NewIntegrator,
                      unmonitored |-> NewIntegrator]
    /\ today = Nil
    /\ summary = NoSummary
    /\ since = Nil

-----------------------------------------------------------------------------
(* Aggregation, a pure function of the device map.                         *)

Reporting(ids) == {d \in ids : latest[d].watts # Nil}

\* Of several meters the one with the lowest id supplies the gross power.
GrossWatts == latest[Min(Reporting(Meters))].watts

Fresh(d, at) == d \notin absent /\ at - latest[d].seen <= Staleness

Aggregate(at) ==
    LET fresh == {d \in Reporting(Plugs) : Fresh(d, at)}
    IN  [gross     |-> GrossWatts,
         monitored |-> MapThenSumSet(LAMBDA d : latest[d].watts, fresh),
         stale     |-> Reporting(Plugs) \ fresh]

-----------------------------------------------------------------------------
(* A reading: update the record, copy the map, publish.                    *)

(* The calls, when the devices change under them.                          *)
Disturbed == [h \in Handlers |-> [local[h] EXCEPT !.whole = FALSE]]

(* A meter counts its periods itself and resets them; a reading may come   *)
(* without the count.                                                      *)
Ingest(h, d, at, watts, total) ==
    /\ local[h].pc = "idle"
    /\ latest' = [latest EXCEPT ![d] = [watts |-> watts, seen |-> at]]
    /\ absent' = absent \ {d}
    /\ local' = [Disturbed EXCEPT ![h] =
          [Idle EXCEPT !.pc = "copy", !.device = d, !.at = at, !.total = total]]
    /\ UNCHANGED <<clock, lastElecAt, integrators, today, summary, since>>

\* Without a meter there is nothing to publish.
CopyDevices(h) ==
    /\ local[h].pc = "copy"
    /\ local' = [local EXCEPT ![h] =
          IF Reporting(Meters) = {} THEN Idle
          ELSE [local[h] EXCEPT !.pc = "publish", !.agg = Aggregate(local[h].at), !.whole = local[h].device \in Meters]]
    /\ UNCHANGED <<clock, latest, absent, lastElecAt, integrators, today, summary, since>>

\* Mutant: no guard.
NewerAlways(h) == TRUE

\* Mutant: a publication must be more than a tick newer.
NewerByMore(h) == lastElecAt = Nil \/ local[h].at > lastElecAt + 1

\* The monotonicity guard.
Newer(h) == lastElecAt = Nil \/ local[h].at > lastElecAt

\* Mutant: the unmonitored share is not allowed below zero.
AccruedClamped(at, agg) ==
    LET rest == IF agg.gross < agg.monitored THEN 0 ELSE agg.gross - agg.monitored
    IN  [gross       |-> IntegratorUpdate(integrators.gross, at, agg.gross, MaxGap),
         monitored   |-> IntegratorUpdate(integrators.monitored, at, agg.monitored, MaxGap),
         unmonitored |-> IntegratorUpdate(integrators.unmonitored, at, rest, MaxGap)]

\* The three integrators advance together.
Accrued(at, agg) ==
    LET rest == agg.gross - agg.monitored
    IN  [gross       |-> IntegratorUpdate(integrators.gross, at, agg.gross, MaxGap),
         monitored   |-> IntegratorUpdate(integrators.monitored, at, agg.monitored, MaxGap),
         unmonitored |-> IntegratorUpdate(integrators.unmonitored, at, rest, MaxGap)]

Publish(h) ==
    LET me == local[h] IN
    /\ me.pc = "publish"
    /\ local' = [local EXCEPT ![h] = Idle]
    /\ IF ~Newer(h)
       THEN UNCHANGED <<lastElecAt, integrators, today, summary, since>>
       ELSE /\ lastElecAt' = me.at
            /\ integrators' = Accrued(me.at, me.agg)
            /\ today' = IF me.device \in Meters /\ me.total # Nil THEN me.total ELSE today
            /\ summary' =
                 [at |-> me.at, gross |-> me.agg.gross, monitored |-> me.agg.monitored,
                  unmonitored |-> me.agg.gross - me.agg.monitored, stale |-> me.agg.stale,
                  today |-> today',
                  session |-> [gross       |-> integrators'.gross.total,
                               monitored   |-> integrators'.monitored.total,
                               unmonitored |-> integrators'.unmonitored.total]]
            /\ since' = IF since = Nil THEN me.at ELSE since
    /\ UNCHANGED <<clock, latest, absent>>

\* The debounce confirms a device offline (module Availability).
GoOffline(d) ==
    /\ d \in Reporting(Plugs) \ absent
    /\ absent' = absent \union {d}
    /\ local' = Disturbed
    /\ UNCHANGED <<clock, latest, lastElecAt, integrators, today, summary, since>>

AdvanceClock ==
    /\ clock < ClockMax
    /\ clock' = clock + 1
    /\ UNCHANGED <<latest, absent, local, lastElecAt, integrators, today, summary, since>>

Stamps == (clock - MaxLag)..(clock + MaxSkew)

Next ==
    \/ \E h \in Handlers, at \in Stamps :
          \/ \E d \in Plugs, w \in Watts : Ingest(h, d, at, w, Nil)
          \/ \E d \in Meters, w \in MeterWatts, t \in Totals \union {Nil} : Ingest(h, d, at, w, t)
    \/ \E h \in Handlers : CopyDevices(h) \/ Publish(h)
    \/ \E d \in Plugs : GoOffline(d)
    \/ AdvanceClock

Spec == Init /\ [][Next]_vars

-----------------------------------------------------------------------------
(* Properties.                                                             *)

\* Stamps, devices and the stages of a call keep their types.
TypeOK ==
    /\ clock \in Nat
    /\ latest \in [Devices -> [watts : OptInt, seen : Int]]
    /\ absent \subseteq Plugs
    /\ \A h \in Handlers :
          /\ local[h].pc \in {"idle", "copy", "publish"}
          /\ local[h].device \in Devices \union {0} /\ local[h].at \in Int
          /\ local[h].total \in OptInt /\ local[h].agg.stale \subseteq Plugs
          /\ local[h].whole \in BOOLEAN
    /\ lastElecAt \in OptInt /\ today \in OptInt /\ since \in OptInt
    /\ summary.at \in OptInt /\ summary.today \in OptInt /\ summary.stale \subseteq Plugs

\* The parts add up to the whole, in power and in energy since the start, across
\* gaps, exports, devices that come and go and publications that are discarded.
Additive ==
    /\ summary.gross = summary.monitored + summary.unmonitored
    /\ summary.session.gross = summary.session.monitored + summary.session.unmonitored

\* No slice of time is integrated twice, in whatever order readings arrive: the
\* session energy is within what the largest power could deliver since the
\* first publication.
MaxMeterWatts == Max(MeterWatts \union {0})

NoDoubleCount ==
    since # Nil => summary.session.gross <= 2 * MaxMeterWatts * (summary.at - since)

\* What a meter reading stamped with the present comes to when its call ends.  A
\* reading with its stamp was published before: it is dropped.  A stamp ahead of
\* the clock was: it is dropped too, and so are the next until the clock has
\* caught up, which is at most MaxSkew ticks away.  Otherwise it is published; and
\* unless the devices have changed since they were copied the summary is what
\* they come to at present, with every reading that was discarded before.
OnTimeMeterTickCounts ==
    [][\A h \in Handlers :
         LET me == local[h] IN
         /\ me.pc = "publish" /\ local'[h].pc = "idle"
         /\ me.device \in Meters /\ me.at = clock
         => \/ /\ summary'.at \in clock..(clock + MaxSkew) /\ summary.at = summary'.at
               /\ UNCHANGED <<summary, integrators>>
            \/ /\ summary'.at = clock
               /\ summary.at # Nil => summary.at < clock
               /\ me.total # Nil => summary'.today = me.total
               /\ me.whole => LET agg == Aggregate(clock) IN
                     /\ summary'.gross = agg.gross /\ summary'.monitored = agg.monitored
                     /\ summary'.stale = agg.stale]_vars
=============================================================================
