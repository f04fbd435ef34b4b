--------------------------- MODULE MCRuntimeMachine ---------------------------
(***************************************************************************)
(* Small instances of RuntimeMachine.  Watts 0..3; a device is off at or   *)
(* below 1 W, on from 2 W, so 1 W is low for maybeEnd yet not for the      *)
(* strict test that decays finished_recently.                              *)
(***************************************************************************)
EXTENDS RuntimeMachine

Window(onFor, offFor, compressor) ==
    [activeAbove |-> 3, idleBelow |-> 1, compressorAbove |-> compressor,
     activeFor |-> onFor, inactiveFor |-> offFor]

Device(class, onFor, offFor) ==
    [class |-> class, strategy |-> "counter", thresholds |-> Window(onFor, offFor, Nil)]

Power(w) == [power |-> w, state |-> Nil, counter |-> FALSE]
State(s) == [power |-> Nil, state |-> s, counter |-> FALSE]
Count(w) == [power |-> w, state |-> Nil, counter |-> TRUE]

\* Every class: windows on both edges, on one, and on none.
ActivityProfiles ==
    {Device(c, 2, 1) : c \in {"cycle_power", "binary_state"}}
    \union {Device("short_burst", 0, 2), Device("media", 1, 0), Device("binary_state", 0, 0),
            Device("passive", 0, 0), Device("unclassified", 0, 0)}
    \union {[class |-> "continuous", strategy |-> "integration", thresholds |-> Window(2, 0, 2)],
            Device("continuous", 0, 1)}
ActivityPayloads ==
    {Power(w) : w \in 0..3} \union {State(s) : s \in {"ON", "OFF", "other"}}

\* An appliance with a counter, no window: every edge is one reading.
EnergyProfiles ==
    {[class |-> "cycle_power", strategy |-> s, thresholds |-> Window(0, 0, Nil)] : s \in Strategies}
    \union {Device("continuous", 1, 0)}
EnergyPayloads == {Power(1), Power(3), Count(0), Count(3), Count(Nil)}

\* The view of the reordered run: everything an activity decision reads or
\* its properties mention.  Left out are the energy paths, which no step reads
\* to choose an activity, and which grow without bound when readings reorder.
ActivityView == <<rt.class, rt.thresholds, rt.activity, rt.candidate, rt.lowCount,
                  rt.cycle.phase, rt.cycle.startedAt, rt.cycle.finishedAt, now, runs, lows>>
=============================================================================
