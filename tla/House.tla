--------------------------------- MODULE House ---------------------------------
(***************************************************************************)
(* The whole-house state.  Device transitions, call events and ticks each  *)
(* change their store and then run Engine.RecomputeHouse, which reads the  *)
(* clock, the devices, the active signals and the high-water mark one lock *)
(* at a time, derives the house and stores it.  Recomputations overlap.    *)
(*                                                                         *)
(* floor is a history variable of a recomputation: the last activity that  *)
(* was known when it read its clock.                                       *)
(***************************************************************************)
EXTENDS Signals, ActivityLog, FiniteSets

CONSTANTS
    Devices,
    Discovered,         \* the devices discovered before the first message
    ClassOf,            \* the class of each device
    Handlers,           \* goroutines that carry a message
    Ticker,             \* the goroutine that ticks
    QuietAfter, EmptyAfter, SleepingAfter,
    NightHours,         \* the times that are night in the configured zone
    MaxMessages,        \* bound: messages that arrive
    Horizon,            \* bound: no message arrives after it
    MaxDelay            \* bound: how long a call lasts

Activities == {"unknown", "idle", "running", "finished_recently"}

ASSUME HouseConstants ==
    /\ IsFiniteSet(Devices) /\ IsFiniteSet(Calls)
    /\ Calls \subseteq RecordIDs /\ Nil \notin Calls
    /\ Nil \notin [state : Activities, changed : Nat]
    /\ Ticker \notin Handlers
    /\ QuietAfter \in Nat /\ EmptyAfter \in Nat /\ SleepingAfter \in Nat
    /\ MaxMessages \in Nat /\ Horizon \in Nat /\ MaxDelay \in Nat

Workers == Handlers \union {Ticker}

VARIABLES
    devices,    \* per device its activity and when that last changed, or Nil
    house,      \* Store.house
    local,      \* each worker's call
    messages    \* messages that have arrived

houseVars == <<signals, lastAt, clock, ring, devices, house, local, messages>>

-----------------------------------------------------------------------------
(* What a device contributes.                                              *)

isOccupancyRelevant(class) ==
    class \in {"short_burst_power_device", "cycle_power_device",
               "media_power_device", "binary_state_device"}

isActiveDeviceState(s) == s \in {"running", "finished_recently"}

Known == {d \in Devices : devices[d] # Nil}
Relevant == {d \in Known : isOccupancyRelevant(ClassOf[d])}
InUse == {d \in Known : isActiveDeviceState(devices[d].state)}

-----------------------------------------------------------------------------
(* DeriveHouseState, from what the three reads have gathered: seen.recent  *)
(* is the last activity, seen.occupied whether a relevant source is active *)
(* now, seen.units the active devices and signals, and seen.sources        *)
(* whether there is any device or signal at all.                           *)

Nothing == [recent |-> 0, occupied |-> FALSE, units |-> 0, sources |-> FALSE,
            active |-> {}]

(* A limit of zero switches its window off.                                *)
Occupancy(now, s) ==
    LET since == now - s.recent
    IN  IF s.occupied THEN "occupied"
        ELSE IF s.recent = 0 THEN "unknown"
        ELSE IF QuietAfter > 0 /\ since < QuietAfter THEN "occupied"
        ELSE IF EmptyAfter > 0 /\ since < EmptyAfter THEN "unknown"
        ELSE "empty"

Level(s) ==
    CASE ~s.sources                   -> "unknown"
      [] s.sources /\ s.units = 0     -> "idle"
      [] s.sources /\ s.units = 1     -> "quiet"
      [] s.sources /\ s.units \in 2..3 -> "active"
      [] OTHER                        -> "busy"

QuietFor(now, s) == IF s.recent = 0 THEN 0 ELSE now - s.recent

(* The arms of the switch, each given that the earlier ones do not apply.  *)
Away(now, s) ==
    Occupancy(now, s) = "empty" /\ EmptyAfter > 0 /\ QuietFor(now, s) > EmptyAfter

Sleeping(now, s) ==
    /\ Occupancy(now, s) # "empty"
    /\ Level(s) \in {"idle", "quiet"}
    /\ SleepingAfter > 0
    /\ QuietFor(now, s) > SleepingAfter

\* Mutant: one device in use does not make a day.
UpIfBusy(now, s) == Occupancy(now, s) = "occupied" /\ Level(s) \in {"active", "busy"}

UpAndAbout(now, s) ==
    Occupancy(now, s) = "occupied" /\ Level(s) \in {"quiet", "active", "busy"}

Resting(now, s) ==
    /\ Occupancy(now, s) # "empty"
    /\ Level(s) = "idle"
    /\ SleepingAfter = 0 \/ QuietFor(now, s) < SleepingAfter

Mode(now, s) ==
    IF Away(now, s) THEN "away"
    ELSE IF Sleeping(now, s) THEN "sleeping"
    ELSE IF UpAndAbout(now, s) THEN "day"
    ELSE IF Resting(now, s) THEN (IF now \in NightHours THEN "night" ELSE "day")
    ELSE "unknown"

DeriveHouseState(now, s) ==
    [occupancy |-> Occupancy(now, s), activity |-> Level(s), mode |-> Mode(now, s),
     active |-> s.active]

-----------------------------------------------------------------------------
(* The three reads of a recomputation.                                     *)

IsMax(m, S) == m \in S /\ \A n \in S : n <= m

(* The scan of the devices. *)
DeviceTimes == {0} \union {devices[d].changed : d \in Relevant}

SeesDevices(m) ==
    LET counted == {d \in InUse : ClassOf[d] # "continuous_power_device"}
    IN  [recent |-> m, occupied |-> Relevant \intersect InUse # {},
         units |-> Cardinality(counted), sources |-> Known # {}, active |-> counted]

(* The active signals, as of the recomputation's clock. *)
SignalTimes(s, now) == {s.recent} \union {signals[c].since : c \in ActiveAt(now)}

SeesSignals(s, now, m) ==
    [s EXCEPT !.recent = m, !.occupied = @ \/ ActiveAt(now) # {},
              !.units = @ + Cardinality(ActiveAt(now)),
              !.sources = @ \/ ActiveAt(now) # {}]

(* The high-water mark.                                                    *)
SeesMark(s) ==
    [s EXCEPT !.recent = IF lastAt > @ THEN lastAt ELSE @, !.sources = @ \/ lastAt # 0]

-----------------------------------------------------------------------------
Idle == [pc |-> "idle", now |-> 0, seen |-> Nothing, floor |-> 0,
         then |-> "nothing", call |-> Nil]

Init ==
    /\ signals = [c \in Calls |-> Nil] /\ lastAt = 0 /\ clock = 1
    /\ RingInit
    /\ devices = [d \in Devices |-> IF d \in Discovered THEN [state |-> "unknown", changed |-> 0]
                                                     ELSE Nil]
    /\ house = [occupancy |-> "unknown", activity |-> "unknown", mode |-> "unknown",
                active |-> {}]
    /\ local = [w \in Workers |-> Idle]
    /\ messages = 0

Begin(w, pc, then, c) ==
    /\ local[w].pc = "idle"
    /\ local' = [local EXCEPT ![w] = [Idle EXCEPT !.pc = pc, !.now = clock,
                                                  !.then = then, !.call = c]]

Arrives ==
    /\ messages < MaxMessages
    /\ clock <= Horizon
    /\ messages' = messages + 1

(* IngestReading up to its recomputation, when the reading changes the     *)
(* activity of a device.                                                   *)
DeviceChanges(h, d, to, ts) ==
    /\ Arrives
    /\ to # "unknown"
    /\ devices[d] # Nil => devices[d].state # to
    /\ devices' = [devices EXCEPT ![d] = [state |-> to, changed |-> ts]]
    /\ Begin(h, "clock", "nothing", Nil)
    /\ UNCHANGED <<signals, lastAt, clock, ring, house>>

(* handleCallEvent: a ringing or answered call asserts its signal and a    *)
(* hung up one clears it; the record follows when the house is recomputed. *)
CallAsserted(h, c, event, ts) ==
    /\ Arrives
    /\ Upsert(c, ts)
    /\ Begin(h, "clock", IF event = "ringing" THEN "append" ELSE "answer", c)
    /\ UNCHANGED <<clock, ring, devices, house>>

CallHungUp(h, c, ts) ==
    /\ Arrives
    /\ ClearAt(c, ts)
    /\ Begin(h, "clock", "end", c)
    /\ UNCHANGED <<clock, ring, devices, house>>

(* Tick: finished_recently may decay, expired signals are pruned.          *)
TickBegins ==
    /\ Begin(Ticker, "prune", "nothing", Nil)
    /\ \E decayed \in SUBSET {d \in Known : devices[d].state = "finished_recently"} :
         devices' = [d \in Devices |-> IF d \in decayed
                                       THEN [state |-> "idle", changed |-> clock]
                                       ELSE devices[d]]
    /\ UNCHANGED <<signals, lastAt, clock, ring, house, messages>>

\* Mutant: a tick that does not look at the house.
TickPrunesOnly ==
    /\ local[Ticker].pc = "prune"
    /\ Prune(local[Ticker].now)
    /\ local' = [local EXCEPT ![Ticker] = Idle]
    /\ UNCHANGED <<clock, ring, devices, house, messages>>

TickPrunes ==
    /\ local[Ticker].pc = "prune"
    /\ Prune(local[Ticker].now)
    /\ local' = [local EXCEPT ![Ticker].pc = "clock"]
    /\ UNCHANGED <<clock, ring, devices, house, messages>>

-----------------------------------------------------------------------------
(* RecomputeHouse.                                                         *)

stores == <<signals, lastAt, clock, ring, devices, messages>>

(* What was known when the clock was read: activity going on now counts    *)
(* as of now.                                                              *)
KnownTimes ==
    DeviceTimes \union {lastAt} \union {signals[c].since : c \in ActiveAt(clock)}
    \union (IF Relevant \intersect InUse # {} \/ ActiveAt(clock) # {} THEN {clock} ELSE {})

ReadClock(w) ==
    /\ local[w].pc = "clock"
    /\ \E m \in KnownTimes :
         /\ IsMax(m, KnownTimes)
         /\ local' = [local EXCEPT ![w].pc = "devices", ![w].now = clock, ![w].floor = m]
    /\ UNCHANGED <<stores, house>>

ReadDevices(w) ==
    /\ local[w].pc = "devices"
    /\ \E m \in DeviceTimes :
         /\ IsMax(m, DeviceTimes)
         /\ local' = [local EXCEPT ![w].pc = "signals", ![w].seen = SeesDevices(m)]
    /\ UNCHANGED <<stores, house>>

ReadSignals(w) ==
    LET me == local[w] IN
    /\ me.pc = "signals"
    /\ \E m \in SignalTimes(me.seen, me.now) :
         /\ IsMax(m, SignalTimes(me.seen, me.now))
         /\ local' = [local EXCEPT ![w].pc = "mark", ![w].seen = SeesSignals(@, me.now, m)]
    /\ UNCHANGED <<stores, house>>

ReadMark(w) ==
    /\ local[w].pc = "mark"
    /\ local' = [local EXCEPT ![w].pc = "set", ![w].seen = SeesMark(@)]
    /\ UNCHANGED <<stores, house>>

SetHouse(w) ==
    LET me == local[w] IN
    /\ me.pc = "set"
    /\ house' = DeriveHouseState(me.now, me.seen)
    /\ local' = [local EXCEPT ![w] = IF me.then = "nothing" THEN Idle
                                     ELSE [Idle EXCEPT !.pc = "record", !.now = me.now,
                                                       !.then = me.then, !.call = me.call]]
    /\ UNCHANGED stores

(* What the intercom adapter does once IngestSignal or ClearSignal is back. *)
Record(w) ==
    LET me == local[w] IN
    /\ me.pc = "record"
    /\ \/ me.then = "append" /\ AppendRecord(Started(me.call))
       \/ me.then = "answer" /\ UpdateRecord(me.call, "answered")
       \/ me.then = "end" /\ UpdateRecord(me.call, "ended")
    /\ local' = [local EXCEPT ![w] = Idle]
    /\ UNCHANGED <<signals, lastAt, clock, devices, messages, house>>

AdvanceClock ==
    /\ clock < ClockMax
    /\ \A w \in Workers : local[w].pc # "idle" => clock < local[w].now + MaxDelay
    /\ clock' = clock + 1
    /\ UNCHANGED <<signals, lastAt, ring, devices, house, local, messages>>

Message(h) ==
    \/ \E d \in Devices, to \in Activities, ts \in Stamps : DeviceChanges(h, d, to, ts)
    \/ \E c \in Calls, event \in {"ringing", "answered"}, ts \in Stamps :
         CallAsserted(h, c, event, ts)
    \/ \E c \in Calls, ts \in Stamps : CallHungUp(h, c, ts)

Proceed(w) ==
    ReadClock(w) \/ ReadDevices(w) \/ ReadSignals(w) \/ ReadMark(w) \/ SetHouse(w) \/ Record(w)

Tick == TickBegins \/ TickPrunes

Next ==
    \/ \E h \in Handlers : Message(h)
    \/ \E w \in Workers : Proceed(w)
    \/ Tick
    \/ AdvanceClock

(* Goroutines run, the ticker ticks and time passes; messages need not     *)
(* come.                                                                   *)
Spec ==
    /\ Init /\ [][Next]_houseVars
    /\ \A w \in Workers : WF_houseVars(Proceed(w))
    /\ WF_houseVars(Tick) /\ WF_houseVars(AdvanceClock)

-----------------------------------------------------------------------------
HouseStates == [occupancy : {"unknown", "occupied", "empty"},
                activity : {"unknown", "idle", "quiet", "active", "busy"},
                mode : {"unknown", "away", "sleeping", "day", "night"},
                active : SUBSET Devices]
SeenStates == [recent : Nat, occupied : BOOLEAN, units : Nat, sources : BOOLEAN,
               active : SUBSET Devices]
LocalStates ==
    {me \in [pc : {"idle", "prune", "clock", "devices", "signals", "mark", "set", "record"},
             now : Nat, seen : SeenStates, floor : Nat,
             then : {"nothing", "append", "answer", "end"}, call : Calls \union {Nil}] :
        me.then # "nothing" => me.call \in Calls}

(* The stores, the house and every call in progress keep their types.      *)
TypeOK ==
    /\ signals \in [Calls -> [since : Nat, expires : Nat] \union {Nil}]
    /\ lastAt \in Nat /\ clock \in Nat /\ messages \in Nat
    /\ buf \in [Slots -> Records \union {Started("")}] /\ head \in Slots /\ count \in 0..LogSize
    /\ devices \in [Devices -> [state : Activities, changed : Nat] \union {Nil}]
    /\ house \in HouseStates
    /\ local \in [Workers -> LocalStates]

(* A house is called empty only when everything that was known when its    *)
(* recomputation began is EmptyAfter old, whatever happens between its     *)
(* reads: a call that ends between them is seen as active or as ended.     *)
EmptyJustified(w) ==
    SetHouse(w) /\ house'.occupancy = "empty"
        => local[w].now + Lateness >= local[w].floor + EmptyAfter
EmptyIsJustified == [][\A w \in Workers : EmptyJustified(w)]_houseVars

(* The house every reader of a quiescent engine should see.                *)
HouseNow ==
    LET max(S) == CHOOSE m \in S : IsMax(m, S)
        seen == SeesDevices(max(DeviceTimes))
    IN  DeriveHouseState(clock,
            SeesMark(SeesSignals(seen, clock, max(SignalTimes(seen, clock)))))

(* A recomputation from old reads may store an old house over a new one,   *)
(* but ticks repair it: when messages stop, the house stored is in the end *)
(* the house that follows from the devices, the signals and the time.      *)
Converges == <>[](house = HouseNow)

(* A call whose hang-up is lost, or that rings after it, does not keep the *)
(* house occupied for good: its signal goes.                               *)
ZombiesEnd == \A c \in Calls : signals[c] # Nil ~> signals[c] = Nil

(* The mode is unknown only for a house without sources, while an          *)
(* irrelevant device is at work in a house of unknown occupancy, and at    *)
(* the exact instants the strict comparisons of the switch leave out.      *)
ModeJustified(w) ==
    LET me == local[w]
        quiet == QuietFor(me.now, me.seen)
    IN  SetHouse(w) /\ house'.mode = "unknown" =>
            \/ house'.activity = "unknown"
            \/ house'.occupancy = "empty" /\ quiet = EmptyAfter
            \/ house'.activity = "idle" /\ quiet = SleepingAfter
            \/ house'.occupancy = "unknown" /\ house'.active # {}
ModeGaps == [][\A w \in Workers : ModeJustified(w)]_houseVars
=============================================================================
