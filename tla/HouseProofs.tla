------------------------------ MODULE HouseProofs ------------------------------
(***************************************************************************)
(* Proofs about House for any devices, calls, workers, limits and bounds.  *)
(*                                                                         *)
(* At every stage of a recomputation there is evidence of its floor: the   *)
(* last activity known when it began is in a store it has yet to read, or  *)
(* it has seen it already.                                                 *)
(***************************************************************************)
EXTENDS House, FiniteSetTheorems, TLAPS

DeviceRecords == [state : Activities, changed : Nat]
SignalRecords == [since : Nat, expires : Nat]

\* Nothing is stamped ahead of the clock.
TimesOK ==
    /\ lastAt <= clock
    /\ \A c \in Calls : signals[c] # Nil => signals[c].since <= clock
    /\ \A d \in Devices : devices[d] # Nil => devices[d].changed <= clock
    /\ \A w \in Workers : local[w].now <= clock

InDevices(floor) ==
    \E d \in Relevant : d \in InUse \/ devices[d].changed + Lateness >= floor
InSignals(now) == \E c \in Calls : signals[c] # Nil /\ signals[c].expires >= now
InMark(floor) == lastAt + Lateness >= floor
Seen(me) == me.seen.occupied = TRUE \/ me.seen.recent + Lateness >= me.floor

\* What a recomputation has counted is a relevant source or a device it can name.
Counted(me) == me.seen.units # 0 => me.seen.occupied = TRUE \/ me.seen.active # {}

Evidence(me) ==
    /\ Counted(me)
    /\ me.pc \in {"devices", "signals", "mark", "set"} => me.floor <= me.now
    /\ me.pc = "devices" => InDevices(me.floor) \/ InSignals(me.now) \/ InMark(me.floor)
    /\ me.pc = "signals" => Seen(me) \/ InSignals(me.now) \/ InMark(me.floor)
    /\ me.pc = "mark" => Seen(me) \/ InMark(me.floor)
    /\ me.pc = "set" => Seen(me)

IInv ==
    /\ TypeOK
    /\ TimesOK
    /\ \A w \in Workers : Evidence(local[w])

-----------------------------------------------------------------------------
(* The stores.                                                             *)

\* The three stores keep their types and their times.
StoresOK ==
    /\ signals \in [Calls -> SignalRecords \union {Nil}]
    /\ devices \in [Devices -> DeviceRecords \union {Nil}]
    /\ lastAt \in Nat /\ clock \in Nat
    /\ lastAt <= clock
    /\ \A c \in Calls : signals[c] # Nil => signals[c].since <= clock
    /\ \A d \in Devices : devices[d] # Nil => devices[d].changed <= clock

LEMMA Bounds == /\ CallTTL \in Nat /\ Lateness \in Nat /\ ClockMax \in Nat
                /\ QuietAfter \in Nat /\ EmptyAfter \in Nat /\ SleepingAfter \in Nat
                /\ Nil \notin DeviceRecords /\ Nil \notin SignalRecords
BY SignalsConstants, HouseConstants DEF DeviceRecords, SignalRecords

\* A later time is as good an evidence.
LEMMA LaterStill ==
    ASSUME NEW early \in Nat, NEW late \in Nat, NEW floor \in Nat, early <= late
    PROVE  /\ early + Lateness >= floor => late + Lateness >= floor
           /\ early >= floor => late + Lateness >= floor
BY Bounds

\* What is evidence of a time stays evidence of it, in the stores that a
\* recomputation has yet to read.
Stable ==
    \A floor, now \in Nat :
        floor <= now /\ now <= clock =>
            /\ InDevices(floor) => InDevices(floor)'
            /\ InSignals(now) => InSignals(now)' \/ InMark(floor)'
            /\ InMark(floor) => InMark(floor)'

LEMMA DevicesStable ==
    ASSUME StoresOK, StoresOK',
           \A d \in Devices : \/ devices'[d] = devices[d]
                              \/ devices'[d] # Nil /\ devices'[d].changed + Lateness >= clock,
           UNCHANGED <<signals, lastAt>>
    PROVE  Stable
<1>1. ASSUME NEW floor \in Nat, floor <= clock, InDevices(floor) PROVE InDevices(floor)'
  <2>1. PICK d \in Relevant : d \in InUse \/ devices[d].changed + Lateness >= floor
    BY <1>1 DEF InDevices
  <2>2. d \in Devices /\ devices[d] # Nil
    BY <2>1 DEF Relevant, Known
  <2>3. CASE devices'[d] = devices[d]
    BY <2>1, <2>2, <2>3 DEF InDevices, Relevant, InUse, Known
  <2>4. CASE devices'[d] # Nil /\ devices'[d].changed + Lateness >= clock
    <3>1. devices'[d].changed \in Nat
      BY <2>2, <2>4 DEF StoresOK, DeviceRecords
    <3>2. devices'[d].changed + Lateness >= floor
      BY <1>1, <2>4, <3>1, Bounds DEF StoresOK
    <3>3. d \in Relevant'
      BY <2>1, <2>2, <2>4 DEF Relevant, Known
    <3> QED
      BY <3>2, <3>3 DEF InDevices
  <2> QED
    BY <2>2, <2>3, <2>4
<1>2. ASSUME NEW floor \in Nat PROVE InMark(floor)' <=> InMark(floor)
  BY DEF InMark
<1>3. ASSUME NEW now \in Nat PROVE InSignals(now)' <=> InSignals(now)
  BY DEF InSignals
<1> SUFFICES ASSUME NEW floor \in Nat, NEW now \in Nat, floor <= now, now <= clock
             PROVE  /\ InDevices(floor) => InDevices(floor)'
                    /\ InSignals(now) => InSignals(now)' \/ InMark(floor)'
                    /\ InMark(floor) => InMark(floor)'
  BY DEF Stable
<1>4. floor <= clock
  BY DEF StoresOK
<1> QED
  BY <1>1, <1>2, <1>3, <1>4

\* A signal stays, is renewed, or leaves its end behind in the mark.
SignalKept(c) ==
    signals[c] # Nil =>
        \/ signals'[c] = signals[c]
        \/ signals'[c] # Nil /\ signals'[c].expires >= clock
        \/ lastAt' + Lateness >= clock
        \/ lastAt' >= signals[c].expires

LEMMA SignalsStable ==
    ASSUME StoresOK, StoresOK', UNCHANGED <<devices, clock>>, lastAt' >= lastAt,
           \A c \in Calls : SignalKept(c)
    PROVE  Stable
<1>1. ASSUME NEW floor \in Nat PROVE InDevices(floor)' <=> InDevices(floor)
  BY DEF InDevices, Relevant, InUse, Known
<1>2. ASSUME NEW floor \in Nat, InMark(floor) PROVE InMark(floor)'
  <2>1. lastAt \in Nat /\ lastAt' \in Nat
    BY DEF StoresOK
  <2>2. lastAt + Lateness >= floor
    BY <1>2 DEF InMark
  <2>3. lastAt' + Lateness >= floor
    BY <2>1, <2>2, LaterStill
  <2> QED
    BY <2>3 DEF InMark
<1>3. ASSUME NEW floor \in Nat, NEW now \in Nat, floor <= now, now <= clock, InSignals(now)
      PROVE  InSignals(now)' \/ InMark(floor)'
  <2>1. PICK c \in Calls : signals[c] # Nil /\ signals[c].expires >= now
    BY <1>3 DEF InSignals
  <2>2. signals[c].expires \in Nat /\ SignalKept(c)
    BY <2>1 DEF StoresOK, SignalRecords
  <2>3. CASE signals'[c] = signals[c]
    BY <2>1, <2>3 DEF InSignals
  <2>4. CASE signals'[c] # Nil /\ signals'[c].expires >= clock
    <3>1. signals'[c].expires \in Nat
      BY <2>4 DEF StoresOK, SignalRecords
    <3> QED
      BY <1>3, <2>4, <3>1 DEF InSignals, StoresOK
  <2>5. CASE lastAt' + Lateness >= clock \/ lastAt' >= signals[c].expires
    <3>1. lastAt' \in Nat /\ clock \in Nat
      BY DEF StoresOK
    <3>2. \A late \in Nat : late + Lateness >= clock \/ late >= signals[c].expires
                             => late + Lateness >= floor
      BY <1>3, <2>1, <2>2, <3>1, Bounds
    <3>3. lastAt' + Lateness >= floor
      BY <2>5, <3>1, <3>2
    <3> QED
      BY <3>3 DEF InMark
  <2> QED
    BY <2>1, <2>2, <2>3, <2>4, <2>5 DEF SignalKept
<1> QED
  BY <1>1, <1>2, <1>3 DEF Stable

-----------------------------------------------------------------------------
(* What a step leaves alone.                                               *)

RingOK == buf \in [Slots -> Records \union {Started("")}] /\ head \in Slots /\ count \in 0..LogSize

LEMMA Parts ==
    IInv <=> /\ StoresOK /\ RingOK /\ messages \in Nat /\ house \in HouseStates
             /\ local \in [Workers -> LocalStates]
             /\ \A w \in Workers : local[w].now <= clock /\ Evidence(local[w])
BY DEF IInv, TypeOK, TimesOK, StoresOK, RingOK, SignalRecords, DeviceRecords

LEMMA Steady ==
    ASSUME StoresOK, UNCHANGED <<signals, lastAt, clock, devices>>
    PROVE  StoresOK' /\ Stable
BY DEF StoresOK, Stable, InDevices, InSignals, InMark, Relevant, InUse, Known

\* The others' evidence outlasts a step.
LEMMA OthersKeep ==
    ASSUME IInv, Stable, NEW v \in Workers, local'[v] = local[v]
    PROVE  Evidence(local[v])'
<1>1. local[v] \in LocalStates /\ local[v].now <= clock /\ Evidence(local[v])
  BY Parts
<1>2. local[v].now \in Nat /\ local[v].floor \in Nat
  BY <1>1 DEF LocalStates
<1>3. local[v].floor <= local[v].now =>
        /\ InDevices(local[v].floor) => InDevices(local[v].floor)'
        /\ InSignals(local[v].now) => InSignals(local[v].now)' \/ InMark(local[v].floor)'
        /\ InMark(local[v].floor) => InMark(local[v].floor)'
  BY <1>1, <1>2 DEF Stable, InDevices, InSignals, InMark
<1> QED
  BY <1>1, <1>3 DEF Evidence, Counted

\* A step of w that keeps the types, and evidence of it for the others.
WorkerStep(w) ==
    /\ local' \in [Workers -> LocalStates]
    /\ \A v \in Workers \ {w} : local'[v] = local[v]
    /\ local'[w].now <= clock'
    /\ Evidence(local[w])'

LEMMA StepKeeps ==
    ASSUME IInv, NEW w \in Workers, WorkerStep(w), StoresOK', Stable, clock' >= clock,
           RingOK', messages' \in Nat, house' \in HouseStates
    PROVE  IInv'
<1>1. \A v \in Workers \ {w} : local'[v].now <= clock' /\ Evidence(local[v])'
  <2> SUFFICES ASSUME NEW v \in Workers \ {w}
               PROVE  local'[v].now <= clock' /\ Evidence(local[v])'
    OBVIOUS
  <2>1. local'[v] = local[v]
    BY DEF WorkerStep
  <2>2. local[v].now \in Nat /\ local[v].now <= clock /\ clock \in Nat /\ clock' \in Nat
    BY Parts DEF StoresOK, LocalStates
  <2>3. local[v].now <= clock'
    BY <2>2
  <2> QED
    BY <2>1, <2>3, OthersKeep
<1>2. \A v \in Workers : local'[v].now <= clock' /\ Evidence(local[v])'
  BY <1>1 DEF WorkerStep
<1> QED
  BY <1>2, Zenon DEF WorkerStep, IInv, TypeOK, TimesOK, StoresOK, RingOK, SignalRecords, DeviceRecords

LEMMA IdleOK == Idle \in LocalStates /\ Idle.now = 0 /\ Idle.pc = "idle" /\ Idle.seen.units = 0
BY DEF Idle, LocalStates, Nothing, SeenStates

\* A call or a tick that begins has read nothing yet.
LEMMA BeginOK ==
    ASSUME IInv, NEW w \in Workers, NEW pc \in {"clock", "prune"},
           NEW then \in {"nothing", "append", "answer", "end"}, NEW c \in Calls \union {Nil},
           then # "nothing" => c \in Calls,
           Begin(w, pc, then, c), clock' = clock
    PROVE  WorkerStep(w)
<1> DEFINE me == [Idle EXCEPT !.pc = pc, !.now = clock, !.then = then, !.call = c]
<1>1. local \in [Workers -> LocalStates] /\ clock \in Nat
  BY Parts DEF StoresOK
<1>2. me \in LocalStates /\ me.pc = pc /\ me.now = clock /\ me.seen.units = 0
  BY <1>1, IdleOK DEF LocalStates
<1>3. local' = [local EXCEPT ![w] = me]
  BY DEF Begin
<1> HIDE DEF me
<1>4. local' \in [Workers -> LocalStates] /\ local'[w] = me
      /\ \A v \in Workers \ {w} : local'[v] = local[v]
  BY <1>1, <1>2, <1>3
<1>5. Evidence(local[w])'
  BY <1>2, <1>4 DEF Evidence, Counted
<1> QED
  BY <1>1, <1>2, <1>4, <1>5 DEF WorkerStep

-----------------------------------------------------------------------------
(* Messages and ticks.                                                     *)

LEMMA StampsOK == ASSUME IInv, NEW ts \in Stamps
    PROVE  ts \in Nat /\ ts <= clock /\ ts + Lateness >= clock
BY Parts DEF Stamps, StoresOK

\* A step that neither writes to the ring nor to the house.
LEMMA RingKept ==
    ASSUME IInv, UNCHANGED ring
    PROVE  RingOK'
<1>1. UNCHANGED <<buf, head, count>>
  BY DEF ring
<1> QED
  BY <1>1, Parts DEF RingOK, Slots, Records, Started

LEMMA Elsewhere ==
    ASSUME IInv, UNCHANGED <<ring, house>>
    PROVE  RingOK' /\ house' \in HouseStates
BY Parts, RingKept

LEMMA Arrived == ASSUME IInv, Arrives PROVE messages' \in Nat
BY Parts DEF Arrives

LEMMA DeviceChangesOK ==
    ASSUME IInv, NEW h \in Handlers, NEW d \in Devices, NEW to \in Activities, NEW ts \in Stamps,
           DeviceChanges(h, d, to, ts)
    PROVE  IInv'
<1> DEFINE record == [state |-> to, changed |-> ts]
<1>1. StoresOK /\ ts \in Nat /\ ts <= clock /\ ts + Lateness >= clock
  BY Parts, StampsOK
<1>2. record \in DeviceRecords /\ record.changed = ts
  BY <1>1 DEF DeviceRecords
<1>3. devices' = [devices EXCEPT ![d] = record] /\ UNCHANGED <<signals, lastAt, clock>>
  BY DEF DeviceChanges
<1> HIDE DEF record
<1>4. StoresOK'
  <2>1. devices' \in [Devices -> DeviceRecords \union {Nil}]
    BY <1>1, <1>2, <1>3 DEF StoresOK
  <2>2. \A e \in Devices : devices'[e] # Nil => devices'[e].changed <= clock
    BY <1>1, <1>2, <1>3 DEF StoresOK
  <2> QED
    BY <1>1, <1>3, <2>1, <2>2 DEF StoresOK
<1>5. Stable
  <2>1. \A e \in Devices : \/ devices'[e] = devices[e]
                           \/ devices'[e] # Nil /\ devices'[e].changed + Lateness >= clock
    BY <1>1, <1>2, <1>3, Bounds DEF StoresOK
  <2> QED
    BY <1>1, <1>3, <1>4, <2>1, DevicesStable
<1>6. h \in Workers /\ WorkerStep(h)
  BY <1>3, BeginOK DEF DeviceChanges, Workers
<1>7. RingOK' /\ house' \in HouseStates /\ messages' \in Nat /\ clock' >= clock
  BY <1>1, <1>3, Elsewhere, Arrived DEF DeviceChanges, StoresOK
<1> QED
  BY <1>4, <1>5, <1>6, <1>7, StepKeeps

LEMMA CallAssertedOK ==
    ASSUME IInv, NEW h \in Handlers, NEW c \in Calls, NEW event, NEW ts \in Stamps,
           CallAsserted(h, c, event, ts)
    PROVE  IInv'
<1> DEFINE record == [since |-> ts, expires |-> clock + CallTTL]
<1>1. StoresOK /\ ts \in Nat /\ ts <= clock /\ clock \in Nat /\ lastAt \in Nat /\ lastAt <= clock
  BY Parts, StampsOK DEF StoresOK
<1>2. /\ record \in SignalRecords /\ record.since = ts
      /\ record.expires >= clock
  BY <1>1, Bounds DEF SignalRecords
<1>3. /\ signals' = [signals EXCEPT ![c] = record] /\ UNCHANGED <<devices, clock>>
      /\ lastAt' = IF ts > lastAt THEN ts ELSE lastAt
  BY DEF CallAsserted, Upsert, Raise
<1> HIDE DEF record
<1>4. lastAt' \in Nat /\ lastAt' >= lastAt /\ lastAt' <= clock
  BY <1>1, <1>3
<1>5. StoresOK'
  <2>1. signals' \in [Calls -> SignalRecords \union {Nil}]
    BY <1>1, <1>2, <1>3 DEF StoresOK
  <2>2. \A e \in Calls : signals'[e] # Nil => signals'[e].since <= clock
    BY <1>1, <1>2, <1>3 DEF StoresOK
  <2> QED
    BY <1>1, <1>3, <1>4, <2>1, <2>2 DEF StoresOK
<1>6. Stable
  <2>1. \A e \in Calls : SignalKept(e)
    BY <1>1, <1>2, <1>3, Bounds DEF StoresOK, SignalKept
  <2> QED
    BY <1>1, <1>3, <1>4, <1>5, <2>1, SignalsStable
<1>7. h \in Workers /\ WorkerStep(h)
  <2>1. (IF event = "ringing" THEN "append" ELSE "answer") \in {"nothing", "append", "answer", "end"}
    OBVIOUS
  <2> QED
    BY <1>3, <2>1, BeginOK DEF CallAsserted, Workers
<1>8. RingOK' /\ house' \in HouseStates /\ messages' \in Nat /\ clock' >= clock
  BY <1>1, <1>3, Elsewhere, Arrived DEF CallAsserted
<1> QED
  BY <1>5, <1>6, <1>7, <1>8, StepKeeps

LEMMA CallHungUpOK ==
    ASSUME IInv, NEW h \in Handlers, NEW c \in Calls, NEW ts \in Stamps, CallHungUp(h, c, ts)
    PROVE  IInv'
<1>1. /\ StoresOK /\ ts \in Nat /\ ts <= clock /\ ts + Lateness >= clock
      /\ clock \in Nat /\ lastAt \in Nat /\ lastAt <= clock
  BY Parts, StampsOK DEF StoresOK
<1>2. /\ signals' = [signals EXCEPT ![c] = Nil] /\ UNCHANGED <<devices, clock>>
      /\ lastAt' = IF ts > lastAt THEN ts ELSE lastAt
  BY DEF CallHungUp, ClearAt, Raise
<1>3. lastAt' \in Nat /\ lastAt' >= lastAt /\ lastAt' <= clock /\ lastAt' >= ts
  BY <1>1, <1>2
<1>4. StoresOK'
  <2>1. signals' \in [Calls -> SignalRecords \union {Nil}]
    BY <1>1, <1>2 DEF StoresOK
  <2>2. \A e \in Calls : signals'[e] # Nil => signals'[e].since <= clock
    BY <1>1, <1>2 DEF StoresOK
  <2> QED
    BY <1>1, <1>2, <1>3, <2>1, <2>2 DEF StoresOK
<1>5. Stable
  <2>1. lastAt' + Lateness >= clock
    BY <1>1, <1>3, LaterStill
  <2>2. \A e \in Calls : SignalKept(e)
    BY <1>1, <1>2, <2>1 DEF StoresOK, SignalKept
  <2> QED
    BY <1>1, <1>2, <1>3, <1>4, <2>2, SignalsStable
<1>6. h \in Workers /\ WorkerStep(h)
  BY <1>2, BeginOK DEF CallHungUp, Workers
<1>7. RingOK' /\ house' \in HouseStates /\ messages' \in Nat /\ clock' >= clock
  BY <1>1, <1>2, Elsewhere, Arrived DEF CallHungUp
<1> QED
  BY <1>4, <1>5, <1>6, <1>7, StepKeeps

LEMMA TickBeginsOK ==
    ASSUME IInv, TickBegins
    PROVE  IInv'
<1>1. StoresOK /\ clock \in Nat
  BY Parts DEF StoresOK
<1>2. UNCHANGED <<signals, lastAt, clock>>
  BY DEF TickBegins
<1>3. PICK decayed \in SUBSET {d \in Known : devices[d].state = "finished_recently"} :
         devices' = [d \in Devices |-> IF d \in decayed
                                       THEN [state |-> "idle", changed |-> clock]
                                       ELSE devices[d]]
  BY DEF TickBegins
<1> DEFINE record == [state |-> "idle", changed |-> clock]
<1>4. record \in DeviceRecords /\ record.changed = clock
  BY <1>1 DEF DeviceRecords, Activities
<1>5. \A d \in Devices : devices'[d] = IF d \in decayed THEN record ELSE devices[d]
  BY <1>3
<1> HIDE DEF record
<1>6. StoresOK'
  <2>1. devices' \in [Devices -> DeviceRecords \union {Nil}]
    BY <1>1, <1>3, <1>4, <1>5 DEF StoresOK
  <2>2. \A d \in Devices : devices'[d] # Nil => devices'[d].changed <= clock
    BY <1>1, <1>4, <1>5 DEF StoresOK
  <2> QED
    BY <1>1, <1>2, <2>1, <2>2 DEF StoresOK
<1>7. Stable
  <2>1. \A d \in Devices : \/ devices'[d] = devices[d]
                           \/ devices'[d] # Nil /\ devices'[d].changed + Lateness >= clock
    BY <1>1, <1>4, <1>5, Bounds DEF StoresOK
  <2> QED
    BY <1>1, <1>2, <1>6, <2>1, DevicesStable
<1>8. Ticker \in Workers /\ WorkerStep(Ticker)
  BY <1>2, BeginOK DEF TickBegins, Workers
<1>9. RingOK' /\ house' \in HouseStates /\ messages' \in Nat /\ clock' >= clock
  BY <1>1, <1>2, Elsewhere, Parts DEF TickBegins
<1> QED
  BY <1>6, <1>7, <1>8, <1>9, StepKeeps

\* A step of w to a stage that needs no evidence.
LEMMA QuietOK ==
    ASSUME IInv, NEW w \in Workers, NEW me \in LocalStates,
           local' = [local EXCEPT ![w] = me], me.pc \in {"idle", "clock", "record"},
           me.now <= clock, Counted(me), clock' = clock
    PROVE  WorkerStep(w)
<1>1. local \in [Workers -> LocalStates]
  BY Parts
<1>2. /\ local' \in [Workers -> LocalStates] /\ local'[w] = me
      /\ \A v \in Workers \ {w} : local'[v] = local[v]
  BY <1>1
<1>3. Evidence(local[w])'
  BY <1>2 DEF Evidence, Counted
<1> QED
  BY <1>2, <1>3 DEF WorkerStep

LEMMA TickPrunesOK ==
    ASSUME IInv, TickPrunes
    PROVE  IInv'
<1> DEFINE now == local[Ticker].now
           dropped == {c \in Calls : signals[c] # Nil /\ Expired(signals[c], now)}
           marks == {lastAt} \union {signals[c].expires : c \in dropped}
<1>1. StoresOK /\ clock \in Nat /\ lastAt \in Nat /\ lastAt <= clock
  BY Parts DEF StoresOK
<1>2. /\ Ticker \in Workers /\ local[Ticker] \in LocalStates
      /\ now \in Nat /\ now <= clock
  BY Parts DEF Workers, LocalStates
<1>3. UNCHANGED <<devices, clock, ring, house, messages>>
  BY DEF TickPrunes
<1>4. signals' = [c \in Calls |-> IF c \in dropped THEN Nil ELSE signals[c]]
  BY DEF TickPrunes, Prune
<1>5. PICK m \in marks : (\A n \in marks : n <= m) /\ lastAt' = m
  BY DEF TickPrunes, Prune
<1>6. \A c \in dropped : signals[c] # Nil /\ signals[c].expires \in Nat /\ signals[c].expires < now
  BY <1>1, <1>2 DEF StoresOK, SignalRecords, Expired
<1>7. m \in Nat /\ m <= clock /\ lastAt <= m /\ \A c \in dropped : signals[c].expires <= m
  BY <1>1, <1>2, <1>5, <1>6
<1> HIDE DEF dropped, marks
<1>8. StoresOK'
  <2>1. signals' \in [Calls -> SignalRecords \union {Nil}]
    BY <1>1, <1>4 DEF StoresOK
  <2>2. \A c \in Calls : signals'[c] # Nil => signals'[c].since <= clock
    BY <1>1, <1>4 DEF StoresOK
  <2> QED
    BY <1>1, <1>3, <1>5, <1>7, <2>1, <2>2 DEF StoresOK
<1>9. Stable
  <2>1. lastAt' >= lastAt /\ \A c \in dropped : lastAt' >= signals[c].expires
    BY <1>5, <1>7, <1>1, <1>6
  <2>2. \A c \in Calls : SignalKept(c)
    BY <1>4, <2>1 DEF SignalKept
  <2> QED
    BY <1>1, <1>3, <1>8, <2>1, <2>2, SignalsStable
<1>10. WorkerStep(Ticker)
  <2> DEFINE me == [local[Ticker] EXCEPT !.pc = "clock"]
  <2>1. me \in LocalStates /\ me.pc = "clock" /\ me.now = now /\ me.seen = local[Ticker].seen
    BY <1>2 DEF LocalStates
  <2>2. local' = [local EXCEPT ![Ticker] = me]
    BY DEF TickPrunes
  <2> HIDE DEF me
  <2>3. Counted(me)
    <3>1. Counted(local[Ticker])
      BY <1>2, Parts DEF Evidence
    <3> QED
      BY <2>1, <3>1 DEF Counted
  <2> QED
    BY <1>2, <1>3, <2>1, <2>2, <2>3, QuietOK
<1>11. RingOK' /\ house' \in HouseStates /\ messages' \in Nat /\ clock' >= clock
  BY <1>1, <1>3, Elsewhere, Parts
<1> QED
  BY <1>2, <1>8, <1>9, <1>10, <1>11, StepKeeps

-----------------------------------------------------------------------------
(* A recomputation.                                                        *)

\* A step that moves w on and touches no store.
LEMMA ReadOK ==
    ASSUME IInv, NEW w \in Workers, NEW me \in LocalStates,
           local' = [local EXCEPT ![w] = me], UNCHANGED <<stores, house>>,
           me.now <= clock, Evidence(me)
    PROVE  IInv'
<1>1. UNCHANGED <<signals, lastAt, clock, devices, ring, messages, house>>
  BY DEF stores
<1>2. StoresOK' /\ Stable
  BY <1>1, Parts, Steady
<1>3. RingOK' /\ house' \in HouseStates /\ messages' \in Nat /\ clock' >= clock
  BY <1>1, Elsewhere, Parts DEF StoresOK
<1>4. local \in [Workers -> LocalStates]
  BY Parts
<1>5. /\ local' \in [Workers -> LocalStates] /\ local'[w] = me
      /\ \A v \in Workers \ {w} : local'[v] = local[v]
  BY <1>4
<1>6. Evidence(local[w])'
  <2>1. Evidence(me)'
    BY <1>1 DEF Evidence, Counted, InDevices, InSignals, InMark, Seen, Relevant, InUse, Known
  <2> QED
    BY <1>5, <2>1 DEF Evidence, Counted, InDevices, InSignals, InMark, Seen
<1>7. WorkerStep(w)
  BY <1>1, <1>5, <1>6 DEF WorkerStep
<1> QED
  BY <1>2, <1>3, <1>7, StepKeeps

LEMMA ReadClockOK ==
    ASSUME IInv, NEW w \in Workers, ReadClock(w)
    PROVE  IInv'
<1>1. /\ StoresOK /\ clock \in Nat /\ lastAt \in Nat /\ lastAt <= clock
      /\ local[w] \in LocalStates /\ Counted(local[w])
  BY Parts DEF StoresOK, Evidence
<1>2. PICK m \in KnownTimes :
         local' = [local EXCEPT ![w].pc = "devices", ![w].now = clock, ![w].floor = m]
  BY DEF ReadClock
<1> DEFINE me == [local[w] EXCEPT !.pc = "devices", !.now = clock, !.floor = m]
<1>3. /\ m \in Nat /\ m <= clock
      /\ InDevices(m) \/ InSignals(clock) \/ InMark(m)
  <2>1. CASE m = 0
    BY <1>1, <2>1, Bounds DEF InMark
  <2>2. ASSUME NEW d \in Relevant, m = devices[d].changed
        PROVE  m \in Nat /\ m <= clock /\ InDevices(m)
    <3>1. d \in Devices /\ devices[d] # Nil
      BY DEF Relevant, Known
    <3>2. m \in Nat /\ m <= clock
      BY <1>1, <2>2, <3>1 DEF StoresOK, DeviceRecords
    <3>3. m + Lateness >= m
      BY <3>2, Bounds
    <3> QED
      BY <2>2, <3>2, <3>3 DEF InDevices
  <2>3. CASE m = lastAt
    BY <1>1, <2>3, Bounds DEF InMark
  <2>4. ASSUME NEW c \in ActiveAt(clock)
        PROVE  signals[c].since \in Nat /\ signals[c].since <= clock /\ InSignals(clock)
    <3>1. c \in Calls /\ signals[c] # Nil /\ ~Expired(signals[c], clock)
      BY DEF ActiveAt
    <3>2. signals[c] \in SignalRecords /\ signals[c].since <= clock
      BY <1>1, <3>1 DEF StoresOK
    <3>3. signals[c].expires >= clock
      BY <1>1, <3>1, <3>2 DEF SignalRecords, Expired
    <3> QED
      BY <3>1, <3>2, <3>3 DEF SignalRecords, InSignals
  <2>5. ASSUME Relevant \intersect InUse # {}
        PROVE  InDevices(clock)
    BY <2>5 DEF InDevices
  <2>6. \/ m = 0 \/ m = lastAt
        \/ \E d \in Relevant : m = devices[d].changed
        \/ \E c \in ActiveAt(clock) : m = signals[c].since
        \/ m = clock /\ (Relevant \intersect InUse # {} \/ ActiveAt(clock) # {})
    BY DEF KnownTimes, DeviceTimes
  <2> QED
    BY <1>1, <2>1, <2>2, <2>3, <2>4, <2>5, <2>6
<1>4. /\ me \in LocalStates /\ me.pc = "devices" /\ me.now = clock /\ me.floor = m
      /\ me.seen = local[w].seen
  BY <1>1, <1>3 DEF LocalStates
<1>5. local' = [local EXCEPT ![w] = me]
  BY <1>2
<1> HIDE DEF me
<1>6. Evidence(me)
  BY <1>1, <1>3, <1>4 DEF Evidence, Counted
<1>7. me.now <= clock
  BY <1>1, <1>4
<1>8. UNCHANGED <<stores, house>>
  BY DEF ReadClock
<1> QED
  BY <1>4, <1>5, <1>6, <1>7, <1>8, ReadOK

\* The parts of a recomputation in progress that the reads use.
LEMMA Reading ==
    ASSUME IInv, NEW w \in Workers, local[w].pc \in {"devices", "signals", "mark", "set"}
    PROVE  /\ StoresOK /\ clock \in Nat /\ lastAt \in Nat
           /\ local[w] \in LocalStates /\ local[w].seen \in SeenStates
           /\ local[w].now \in Nat /\ local[w].floor \in Nat
           /\ local[w].now <= clock /\ local[w].floor <= local[w].now
           /\ Evidence(local[w])
BY Parts DEF StoresOK, LocalStates, Evidence

LEMMA ReadDevicesOK ==
    ASSUME IInv, NEW w \in Workers, ReadDevices(w)
    PROVE  IInv'
<1>1. local[w].pc = "devices" /\ UNCHANGED <<stores, house>>
  BY DEF ReadDevices
<1>2. PICK m \in DeviceTimes :
         /\ IsMax(m, DeviceTimes)
         /\ local' = [local EXCEPT ![w].pc = "signals", ![w].seen = SeesDevices(m)]
  BY DEF ReadDevices
<1> DEFINE now == local[w].now
           floor == local[w].floor
           seen == SeesDevices(m)
           me == [local[w] EXCEPT !.pc = "signals", !.seen = seen]
<1>3. StoresOK /\ local[w] \in LocalStates /\ now \in Nat /\ floor \in Nat
      /\ now <= clock /\ floor <= now
      /\ (InDevices(floor) \/ InSignals(now) \/ InMark(floor))
  BY <1>1, Reading DEF Evidence
<1>4. \A d \in Relevant : devices[d].changed \in Nat /\ devices[d].changed <= m
  <2> SUFFICES ASSUME NEW d \in Relevant
               PROVE  devices[d].changed \in Nat /\ devices[d].changed <= m
    OBVIOUS
  <2>1. devices[d].changed \in Nat
    BY <1>3 DEF Relevant, Known, StoresOK, DeviceRecords
  <2>2. devices[d].changed \in DeviceTimes
    BY DEF DeviceTimes
  <2> QED
    BY <1>2, <2>1, <2>2 DEF IsMax
<1>5. m \in Nat
  BY <1>2, <1>4 DEF DeviceTimes
<1>6. /\ seen \in SeenStates /\ seen.recent = m /\ seen.occupied = (Relevant \intersect InUse # {})
      /\ seen.units # 0 => seen.active # {}
  <2> DEFINE counted == {d \in InUse : ClassOf[d] # "continuous_power_device"}
  <2>1. counted \subseteq Devices
    BY DEF InUse, Known
  <2>2. Cardinality(counted) \in Nat
    BY <2>1, HouseConstants, FS_Subset, FS_CardinalityType
  <2>3. Cardinality(counted) # 0 => counted # {}
    BY FS_EmptySet
  <2> HIDE DEF counted
  <2>4. [recent |-> m, occupied |-> Relevant \intersect InUse # {},
         units |-> Cardinality(counted), sources |-> Known # {}, active |-> counted] \in SeenStates
    BY <1>5, <2>1, <2>2 DEF SeenStates
  <2> QED
    BY <2>3, <2>4 DEF SeesDevices, counted
<1> HIDE DEF seen
<1>7. /\ me \in LocalStates /\ me.pc = "signals" /\ me.now = now /\ me.floor = floor
      /\ me.seen = seen
  BY <1>3, <1>6 DEF LocalStates
<1>8. local' = [local EXCEPT ![w] = me]
  BY <1>2 DEF seen
<1> HIDE DEF me
<1>9. InDevices(floor) => Seen(me)
  <2> SUFFICES ASSUME InDevices(floor) PROVE Seen(me)
    OBVIOUS
  <2>1. PICK d \in Relevant : d \in InUse \/ devices[d].changed + Lateness >= floor
    BY DEF InDevices
  <2>2. CASE d \in InUse
    <3>1. seen.occupied = TRUE
      BY <1>6, <2>2, Zenon
    <3> QED
      BY <1>7, <3>1 DEF Seen
  <2>3. CASE devices[d].changed + Lateness >= floor
    BY <1>3, <1>4, <1>5, <1>6, <1>7, <2>3, LaterStill DEF Seen
  <2> QED
    BY <2>1, <2>2, <2>3
<1>10. Evidence(me)
  BY <1>3, <1>6, <1>7, <1>9 DEF Evidence, Counted
<1> QED
  BY <1>1, <1>3, <1>7, <1>8, <1>10, ReadOK

LEMMA ReadSignalsOK ==
    ASSUME IInv, NEW w \in Workers, ReadSignals(w)
    PROVE  IInv'
<1> DEFINE now == local[w].now
           floor == local[w].floor
           old == local[w].seen
<1>1. local[w].pc = "signals" /\ UNCHANGED <<stores, house>>
  BY DEF ReadSignals
<1>2. PICK m \in SignalTimes(old, now) :
         /\ IsMax(m, SignalTimes(old, now))
         /\ local' = [local EXCEPT ![w].pc = "mark", ![w].seen = SeesSignals(@, now, m)]
  BY DEF ReadSignals
<1>3. StoresOK /\ local[w] \in LocalStates /\ now \in Nat /\ floor \in Nat
      /\ old \in SeenStates /\ now <= clock /\ floor <= now
      /\ (Seen(local[w]) \/ InSignals(now) \/ InMark(floor)) /\ Counted(local[w])
  BY <1>1, Reading DEF Evidence
<1>4. local \in [Workers -> LocalStates]
  BY Parts
<1> DEFINE seen == SeesSignals(old, now, m)
           me == [local[w] EXCEPT !.pc = "mark", !.seen = seen]
<1>5. local' = [local EXCEPT ![w] = me]
  BY <1>2, <1>4
<1>6. m \in Nat /\ old.recent <= m /\ old.recent \in Nat
  <2>1. old.recent \in SignalTimes(old, now) /\ old.recent \in Nat
    BY <1>3 DEF SignalTimes, SeenStates
  <2>2. m \in Nat
    <3>1. ASSUME NEW c \in ActiveAt(now) PROVE signals[c].since \in Nat
      BY <1>3 DEF ActiveAt, StoresOK, SignalRecords
    <3> QED
      BY <1>2, <2>1, <3>1 DEF SignalTimes
  <2> QED
    BY <1>2, <2>1, <2>2 DEF IsMax
<1>7. /\ seen \in SeenStates /\ seen.recent = m
      /\ old.occupied = TRUE \/ ActiveAt(now) # {} => seen.occupied = TRUE
      /\ seen.units # 0 => old.units # 0 \/ ActiveAt(now) # {}
      /\ seen.active = old.active
  <2> DEFINE n == Cardinality(ActiveAt(now))
             some == ActiveAt(now) # {}
  <2>1. n \in Nat
    <3>1. ActiveAt(now) \subseteq Calls
      BY DEF ActiveAt
    <3> QED
      BY <3>1, HouseConstants, FS_Subset, FS_CardinalityType
  <2>2. n # 0 => some
    BY FS_EmptySet
  <2>3. seen = [old EXCEPT !.recent = m, !.occupied = @ \/ some, !.units = @ + n,
                           !.sources = @ \/ some]
    BY DEF SeesSignals
  <2> HIDE DEF n, some, seen
  <2>4. seen \in SeenStates /\ seen.recent = m /\ seen.units = old.units + n
        /\ seen.active = old.active
    <3>1. old.units + n \in Nat
      BY <1>3, <2>1 DEF SeenStates
    <3>2. (old.occupied \/ some) \in BOOLEAN /\ (old.sources \/ some) \in BOOLEAN
      OBVIOUS
    <3> QED
      BY <1>3, <1>6, <2>3, <3>1, <3>2, Zenon DEF SeenStates
  <2>5. seen.occupied = (old.occupied \/ some)
    BY <1>3, <2>3, Zenon DEF SeenStates
  <2>6. old.occupied = TRUE \/ some => seen.occupied = TRUE
    BY <2>5, Zenon
  <2>7. seen.units # 0 => old.units # 0 \/ some
    BY <1>3, <2>1, <2>2, <2>4 DEF SeenStates
  <2> QED
    BY <2>4, <2>6, <2>7 DEF some
<1> HIDE DEF seen
<1>8. /\ me \in LocalStates /\ me.pc = "mark" /\ me.now = now /\ me.floor = floor
      /\ me.seen = seen
  BY <1>3, <1>7 DEF LocalStates
<1> HIDE DEF me
<1>9. Seen(local[w]) => Seen(me)
  <2>1. CASE old.occupied = TRUE
    BY <1>7, <1>8, <2>1 DEF Seen
  <2>2. CASE old.recent + Lateness >= floor
    BY <1>3, <1>6, <1>7, <1>8, <2>2, LaterStill DEF Seen
  <2> QED
    BY <2>1, <2>2 DEF Seen
<1>10. InSignals(now) => Seen(me)
  <2> SUFFICES ASSUME InSignals(now) PROVE Seen(me)
    OBVIOUS
  <2>1. PICK c \in Calls : signals[c] # Nil /\ signals[c].expires >= now
    BY DEF InSignals
  <2>2. signals[c].expires \in Nat
    BY <1>3, <2>1 DEF StoresOK, SignalRecords
  <2>3. c \in ActiveAt(now)
    BY <1>3, <2>1, <2>2 DEF ActiveAt, Expired
  <2> QED
    BY <1>7, <1>8, <2>3 DEF Seen
<1>11. Counted(me)
  BY <1>3, <1>7, <1>8 DEF Counted
<1>12. Evidence(me)
  BY <1>3, <1>8, <1>9, <1>10, <1>11 DEF Evidence
<1> QED
  BY <1>1, <1>3, <1>5, <1>8, <1>12, ReadOK

LEMMA ReadMarkOK ==
    ASSUME IInv, NEW w \in Workers, ReadMark(w)
    PROVE  IInv'
<1> DEFINE now == local[w].now
           floor == local[w].floor
           old == local[w].seen
           seen == SeesMark(old)
           me == [local[w] EXCEPT !.pc = "set", !.seen = seen]
           m == IF lastAt > old.recent THEN lastAt ELSE old.recent
<1>1. local[w].pc = "mark" /\ UNCHANGED <<stores, house>>
  BY DEF ReadMark
<1>2. StoresOK /\ local[w] \in LocalStates /\ now \in Nat /\ floor \in Nat /\ lastAt \in Nat
      /\ old \in SeenStates /\ now <= clock /\ floor <= now
      /\ (Seen(local[w]) \/ InMark(floor)) /\ Counted(local[w])
  BY <1>1, Reading DEF Evidence
<1>3. local \in [Workers -> LocalStates]
  BY Parts
<1>4. local' = [local EXCEPT ![w] = me]
  BY <1>3 DEF ReadMark
<1>5. old.recent \in Nat /\ m \in Nat /\ old.recent <= m /\ lastAt <= m
  BY <1>2 DEF SeenStates
<1>6. /\ seen \in SeenStates /\ seen.recent = m /\ seen.occupied = old.occupied
      /\ seen.units = old.units /\ seen.active = old.active
  <2> DEFINE some == lastAt # 0
  <2>1. seen = [old EXCEPT !.recent = m, !.sources = @ \/ some]
    BY <1>2 DEF SeesMark, SeenStates
  <2>2. (old.sources \/ some) \in BOOLEAN
    OBVIOUS
  <2> HIDE DEF m, some, seen
  <2> QED
    BY <1>2, <1>5, <2>1, <2>2, Zenon DEF SeenStates
<1> HIDE DEF seen, m
<1>7. /\ me \in LocalStates /\ me.pc = "set" /\ me.now = now /\ me.floor = floor
      /\ me.seen = seen
  BY <1>2, <1>6 DEF LocalStates
<1> HIDE DEF me
<1>8. Seen(local[w]) => Seen(me)
  BY <1>2, <1>5, <1>6, <1>7, LaterStill DEF Seen
<1>9. InMark(floor) => Seen(me)
  BY <1>2, <1>5, <1>6, <1>7, LaterStill DEF Seen, InMark
<1>10. Evidence(me)
  BY <1>2, <1>6, <1>7, <1>8, <1>9 DEF Evidence, Counted
<1> QED
  BY <1>1, <1>2, <1>4, <1>7, <1>10, ReadOK

\* A recomputation ends; the house it stores has its type.
LEMMA DerivedOK ==
    ASSUME NEW now \in Nat, NEW s \in SeenStates
    PROVE  DeriveHouseState(now, s) \in HouseStates
<1>1. Occupancy(now, s) \in {"unknown", "occupied", "empty"}
  BY DEF Occupancy
<1>2. Level(s) \in {"unknown", "idle", "quiet", "active", "busy"}
  BY DEF Level
<1>3. Mode(now, s) \in {"unknown", "away", "sleeping", "day", "night"}
  BY DEF Mode
<1>4. s.active \in SUBSET Devices
  BY DEF SeenStates
<1> QED
  BY <1>1, <1>2, <1>3, <1>4 DEF DeriveHouseState, HouseStates

LEMMA SetHouseOK ==
    ASSUME IInv, NEW w \in Workers, SetHouse(w)
    PROVE  IInv'
<1> DEFINE old == local[w]
           me == IF old.then = "nothing" THEN Idle
                 ELSE [Idle EXCEPT !.pc = "record", !.now = old.now,
                                   !.then = old.then, !.call = old.call]
<1>1. old.pc = "set" /\ UNCHANGED stores /\ house' = DeriveHouseState(old.now, old.seen)
      /\ local' = [local EXCEPT ![w] = me]
  BY DEF SetHouse
<1>2. /\ StoresOK /\ old \in LocalStates /\ old.now \in Nat /\ old.seen \in SeenStates
      /\ old.now <= clock /\ clock \in Nat
  BY <1>1, Reading
<1>3. UNCHANGED <<signals, lastAt, clock, devices, ring, messages>>
  BY <1>1 DEF stores
<1>4. StoresOK' /\ Stable
  BY <1>2, <1>3, Steady
<1>5. house' \in HouseStates
  BY <1>1, <1>2, DerivedOK
<1>6. RingOK' /\ messages' \in Nat /\ clock' >= clock
  BY <1>2, <1>3, RingKept, Parts
<1>7. /\ me \in LocalStates /\ me.pc \in {"idle", "clock", "record"} /\ me.now <= clock
      /\ Counted(me)
  <2>1. CASE old.then = "nothing"
    BY <1>2, <2>1, IdleOK DEF Counted
  <2>2. CASE old.then # "nothing"
    <3>1. me = [Idle EXCEPT !.pc = "record", !.now = old.now, !.then = old.then,
                            !.call = old.call]
      BY <2>2
    <3> HIDE DEF me
    <3> QED
      BY <1>2, <2>2, <3>1, IdleOK DEF LocalStates, Counted
  <2> QED
    BY <2>1, <2>2
<1> HIDE DEF me
<1>8. WorkerStep(w)
  BY <1>1, <1>3, <1>7, QuietOK
<1> QED
  BY <1>4, <1>5, <1>6, <1>8, StepKeeps

\* Going back from the head over the slots in use stays in the ring.
LEMMA BackOK ==
    ASSUME NEW h \in Slots, NEW n \in 0..LogSize, NEW i \in 0..n - 1
    PROVE  (h - 1 - i + LogSize) % LogSize \in Slots
<1>1. PICK size \in Nat \ {0} : size = LogSize
  BY ActivityLogConstants
<1>2. h \in 0..size - 1 /\ i \in 0..size - 1
  BY <1>1 DEF Slots
<1>3. PICK k \in Nat : k = h - 1 - i + size
  BY <1>2
<1>4. k % size \in 0..size - 1
  BY SMT
<1> QED
  BY <1>1, <1>3, <1>4 DEF Slots

LEMMA RecordOK ==
    ASSUME IInv, NEW w \in Workers, Record(w)
    PROVE  IInv'
<1> DEFINE me == local[w]
           Entries == Records \union {Started("")}
<1>1. /\ local' = [local EXCEPT ![w] = Idle]
      /\ UNCHANGED <<signals, lastAt, clock, devices, messages, house>>
  BY DEF Record
<1>2. /\ StoresOK /\ RingOK /\ messages \in Nat /\ house \in HouseStates /\ clock \in Nat
      /\ me \in LocalStates
  BY Parts DEF StoresOK
<1>3. StoresOK' /\ Stable
  BY <1>1, <1>2, Steady
<1>4. WorkerStep(w)
  <2>1. Idle \in LocalStates /\ Idle.pc \in {"idle", "clock", "record"} /\ Idle.now <= clock
        /\ Counted(Idle)
    BY <1>2, IdleOK DEF Counted
  <2> QED
    BY <1>1, <2>1, QuietOK
<1>5. RingOK'
  <2>1. LogSize \in Nat \ {0} /\ head \in 0..LogSize - 1 /\ count \in 0..LogSize
        /\ buf \in [0..LogSize - 1 -> Entries]
    BY <1>2, ActivityLogConstants DEF RingOK, Slots
  <2>2. CASE AppendRecord(Started(me.call)) /\ me.call \in Calls
    <3> DEFINE record == Started(me.call)
    <3>1. record \in Entries
      BY <2>2, HouseConstants DEF Started, Records
    <3>2. buf' = [buf EXCEPT ![head] = record] /\ head' = (head + 1) % LogSize
          /\ count' = IF count < LogSize THEN count + 1 ELSE count
      BY <2>2 DEF AppendRecord
    <3> HIDE DEF record, Entries
    <3>3. buf' \in [0..LogSize - 1 -> Entries]
      BY <2>1, <3>1, <3>2
    <3>4. head' \in 0..LogSize - 1 /\ count' \in 0..LogSize
      BY <2>1, <3>2
    <3> QED
      BY <3>3, <3>4 DEF RingOK, Slots, Entries, Records, Started
  <2>3. ASSUME NEW stage \in {"answered", "ended"}, UpdateRecord(me.call, stage), me.call \in Calls
        PROVE  RingOK'
    <3> DEFINE id == me.call
    <3>1. UNCHANGED <<head, count>>
      BY <2>3 DEF UpdateRecord
    <3>2. CASE buf' = buf
      BY <1>2, <3>1, <3>2 DEF RingOK, Slots, Records, Started
    <3>3. CASE \E i \in 0..count - 1 : Found(id, i)
      <4> DEFINE i == CHOOSE i \in 0..count - 1 : Found(id, i)
      <4>1. i \in 0..count - 1 /\ Found(id, i)
        BY <3>3
      <4>2. buf' = [buf EXCEPT ![Back(i)][stage] = TRUE]
        BY <2>3, <3>3 DEF UpdateRecord
      <4> HIDE DEF i
      <4>3. Back(i) \in 0..LogSize - 1
        BY <2>1, <4>1, BackOK DEF Back, Slots
      <4>4. buf[Back(i)] \in Records
        <5>1. buf[Back(i)].id = id /\ id # ""
          BY <2>3, <4>1, HouseConstants, ActivityLogConstants DEF Found
        <5>2. buf[Back(i)] \in Records \union {Started("")}
          BY <2>1, <4>3
        <5>3. Started("").id = ""
          BY DEF Started
        <5> QED
          BY <5>1, <5>2, <5>3
      <4> DEFINE record == [buf[Back(i)] EXCEPT ![stage] = TRUE]
      <4>5. record \in Entries
        BY <2>3, <4>4 DEF Records
      <4>6. buf' = [buf EXCEPT ![Back(i)] = record]
        BY <4>2
      <4> HIDE DEF record, Entries
      <4>7. buf' \in [0..LogSize - 1 -> Entries]
        BY <2>1, <4>3, <4>5, <4>6
      <4> QED
        BY <2>1, <3>1, <4>7 DEF RingOK, Slots, Entries, Records, Started
    <3> QED
      BY <2>3, <3>2, <3>3 DEF UpdateRecord
  <2>4. me.call \in Calls
    BY <1>2 DEF Record, LocalStates
  <2> QED
    BY <2>2, <2>3, <2>4 DEF Record
<1>6. messages' \in Nat /\ house' \in HouseStates /\ clock' >= clock
  BY <1>1, <1>2
<1> QED
  BY <1>3, <1>4, <1>5, <1>6, StepKeeps

-----------------------------------------------------------------------------
(* Every step, and the theorems.                                           *)

LEMMA AdvanceClockOK ==
    ASSUME IInv, AdvanceClock
    PROVE  IInv'
<1>1. /\ StoresOK /\ RingOK /\ clock \in Nat /\ lastAt \in Nat
      /\ local \in [Workers -> LocalStates]
      /\ \A w \in Workers : local[w].now <= clock /\ Evidence(local[w])
  BY Parts DEF StoresOK
<1>2. clock' = clock + 1 /\ UNCHANGED <<signals, lastAt, ring, devices, house, local, messages>>
  BY DEF AdvanceClock
<1>3. clock' \in Nat /\ \A t \in Nat : t <= clock => t <= clock'
  BY <1>1, <1>2
<1>4. StoresOK'
  <2>1. \A c \in Calls : signals[c] # Nil => signals[c].since \in Nat
    BY <1>1 DEF StoresOK, SignalRecords
  <2>2. \A d \in Devices : devices[d] # Nil => devices[d].changed \in Nat
    BY <1>1 DEF StoresOK, DeviceRecords
  <2> QED
    BY <1>1, <1>2, <1>3, <2>1, <2>2 DEF StoresOK
<1>5. \A w \in Workers : local'[w].now <= clock' /\ Evidence(local[w])'
  <2> SUFFICES ASSUME NEW w \in Workers
               PROVE  local'[w].now <= clock' /\ Evidence(local[w])'
    OBVIOUS
  <2>1. local'[w] = local[w] /\ local[w].now \in Nat /\ local[w].now <= clock
    BY <1>1, <1>2 DEF LocalStates
  <2>2. Evidence(local[w])'
    BY <1>1, <1>2 DEF Evidence, Counted, InDevices, InSignals, InMark, Seen, Relevant, InUse, Known
  <2> QED
    BY <1>3, <2>1, <2>2
<1>6. RingOK' /\ messages' \in Nat /\ house' \in HouseStates /\ local' \in [Workers -> LocalStates]
  BY <1>1, <1>2, Elsewhere, Parts
<1> QED
  BY <1>4, <1>5, <1>6, Zenon
     DEF IInv, TypeOK, TimesOK, StoresOK, RingOK, SignalRecords, DeviceRecords

LEMMA RingStart == 0 \in Slots /\ 0 \in 0..LogSize
<1>1. PICK size \in Nat : size = LogSize /\ size # 0
  BY ActivityLogConstants
<1>2. 0 \in 0..size /\ 0 \in 0..size - 1
  BY <1>1
<1> QED
  BY <1>1, <1>2 DEF Slots

LEMMA InitOK == Init => IInv
<1> SUFFICES ASSUME Init PROVE IInv
  OBVIOUS
<1>1. StoresOK
  <2>1. signals = [c \in Calls |-> Nil] /\ lastAt = 0 /\ clock = 1
    BY DEF Init
  <2>2. devices \in [Devices -> DeviceRecords \union {Nil}]
        /\ \A d \in Devices : devices[d] # Nil => devices[d].changed = 0
    BY DEF Init, DeviceRecords, Activities
  <2> QED
    BY <2>1, <2>2 DEF StoresOK
<1>2. RingOK
  BY RingStart DEF Init, RingInit, RingOK
<1>3. messages \in Nat /\ house \in HouseStates
  BY DEF Init, HouseStates
<1>4. local \in [Workers -> LocalStates]
      /\ \A w \in Workers : local[w].now <= clock /\ Evidence(local[w])
  BY IdleOK DEF Init, Evidence, Counted
<1> QED
  BY <1>1, <1>2, <1>3, <1>4, Parts

LEMMA NextOK == IInv /\ [Next]_houseVars => IInv'
<1> SUFFICES ASSUME IInv, [Next]_houseVars PROVE IInv'
  OBVIOUS
<1>1. ASSUME NEW h \in Handlers, Message(h) PROVE IInv'
  BY <1>1, DeviceChangesOK, CallAssertedOK, CallHungUpOK DEF Message
<1>2. ASSUME NEW w \in Workers, Proceed(w) PROVE IInv'
  BY <1>2, ReadClockOK, ReadDevicesOK, ReadSignalsOK, ReadMarkOK, SetHouseOK, RecordOK
     DEF Proceed
<1>3. CASE Tick
  BY <1>3, TickBeginsOK, TickPrunesOK DEF Tick
<1>4. CASE AdvanceClock
  BY <1>4, AdvanceClockOK
<1>5. CASE UNCHANGED houseVars
  <2>1. UNCHANGED <<signals, lastAt, clock, ring, devices, house, local, messages>>
    BY <1>5 DEF houseVars
  <2>2. StoresOK'
    BY <2>1, Parts, Steady
  <2>3. RingOK' /\ messages' \in Nat /\ house' \in HouseStates /\ local' \in [Workers -> LocalStates]
    BY <2>1, Elsewhere, Parts
  <2>4. \A w \in Workers : local'[w].now <= clock' /\ Evidence(local[w])'
    BY <2>1, Parts DEF Evidence, Counted, InDevices, InSignals, InMark, Seen, Relevant, InUse, Known
  <2> QED
    BY <2>2, <2>3, <2>4, Zenon
       DEF IInv, TypeOK, TimesOK, StoresOK, RingOK, SignalRecords, DeviceRecords
<1> QED
  BY <1>1, <1>2, <1>3, <1>4, <1>5 DEF Next

(* The stores, the house, the ring of call records and every recomputation *)
(* in progress keep their types.                                           *)
THEOREM TypeCorrect == Spec => []TypeOK
<1>1. IInv => TypeOK
  BY DEF IInv
<1> QED
  BY <1>1, InitOK, NextOK, PTL DEF Spec

\* What SetHouse has seen decides whether it may call the house empty.
LEMMA EmptyStep ==
    ASSUME IInv, NEW w \in Workers
    PROVE  EmptyJustified(w)
<1> SUFFICES ASSUME SetHouse(w), house'.occupancy = "empty"
             PROVE  local[w].now + Lateness >= local[w].floor + EmptyAfter
  BY DEF EmptyJustified
<1> DEFINE me == local[w]
<1>1. /\ me.pc = "set" /\ house'.occupancy = Occupancy(me.now, me.seen)
  BY DEF SetHouse, DeriveHouseState
<1>2. /\ me.now \in Nat /\ me.floor \in Nat /\ me.seen \in SeenStates
      /\ Seen(me) /\ me.floor <= me.now
  BY <1>1, Reading DEF Evidence
<1>3. me.seen.recent \in Nat
  BY <1>2 DEF SeenStates
<1> HIDE DEF me
<1>4. me.seen.occupied # TRUE
  <2> SUFFICES ASSUME me.seen.occupied = TRUE PROVE FALSE
    OBVIOUS
  <2>1. me.seen.occupied
    BY Zenon
  <2> QED
    BY <1>1, <2>1 DEF Occupancy
<1>5. EmptyAfter > 0 => me.now - me.seen.recent >= EmptyAfter
  <2>1. QuietAfter \in Nat /\ EmptyAfter \in Nat
    BY Bounds
  <2> QED
    BY <1>1, <1>2, <1>3, <1>4, <2>1 DEF Occupancy
<1>6. me.seen.recent + Lateness >= me.floor
  BY <1>2, <1>4 DEF Seen
<1>7. EmptyAfter \in Nat /\ Lateness \in Nat
  BY Bounds
<1>8. me.now + Lateness >= me.floor + EmptyAfter
  BY ONLY <1>2, <1>3, <1>5, <1>6, <1>7
<1> QED
  BY <1>8 DEF me

(* No recomputation calls a house empty against what was known when it     *)
(* began, however device changes, calls and ticks fall between its reads:  *)
(* what leaves one store before it is read is in one that is read later.   *)
THEOREM EmptyOnlyWhenQuiet == Spec => EmptyIsJustified
<1>1. IInv => \A w \in Workers : EmptyJustified(w)
  BY EmptyStep
<1> QED
  BY <1>1, InitOK, NextOK, PTL DEF Spec, EmptyIsJustified

\* When the switch falls through.
LEMMA ModeUnknown ==
    ASSUME EmptyAfter > 0, NEW now \in Nat, NEW s \in SeenStates, Mode(now, s) = "unknown",
           s.units # 0 => s.occupied = TRUE \/ s.active # {}
    PROVE  \/ Level(s) = "unknown"
           \/ Occupancy(now, s) = "empty" /\ QuietFor(now, s) = EmptyAfter
           \/ Level(s) = "idle" /\ QuietFor(now, s) = SleepingAfter
           \/ Occupancy(now, s) = "unknown" /\ s.active # {}
<1> DEFINE quiet == QuietFor(now, s)
<1>1. /\ QuietAfter \in Nat /\ EmptyAfter \in Nat /\ SleepingAfter \in Nat
      /\ s.recent \in Nat /\ s.units \in Nat /\ quiet \in Int
  BY Bounds DEF SeenStates, QuietFor
<1>2. ~Away(now, s) /\ ~Sleeping(now, s) /\ ~UpAndAbout(now, s) /\ ~Resting(now, s)
  BY DEF Mode
<1>3. /\ Level(s) \in {"unknown", "idle", "quiet", "active", "busy"}
      /\ Level(s) \notin {"unknown", "idle"} => s.units # 0
  BY <1>1 DEF Level
<1>4. /\ Occupancy(now, s) \in {"unknown", "occupied", "empty"}
      /\ Occupancy(now, s) = "empty" => quiet >= EmptyAfter
      /\ s.occupied = TRUE => Occupancy(now, s) = "occupied"
  <2>1. Occupancy(now, s) \in {"unknown", "occupied", "empty"}
    BY DEF Occupancy
  <2>2. ASSUME Occupancy(now, s) = "empty" PROVE quiet >= EmptyAfter
    <3>1. s.recent # 0 /\ now - s.recent >= EmptyAfter
      BY <1>1, <2>2 DEF Occupancy
    <3> QED
      BY <3>1 DEF QuietFor
  <2>3. ASSUME s.occupied = TRUE PROVE Occupancy(now, s) = "occupied"
    <3>1. s.occupied
      BY <2>3, Zenon
    <3> QED
      BY <3>1 DEF Occupancy
  <2> QED
    BY <2>1, <2>2, <2>3
<1>5. CASE Occupancy(now, s) = "empty"
  BY <1>1, <1>2, <1>4, <1>5 DEF Away
<1> HIDE DEF quiet
<1>6. CASE Occupancy(now, s) # "empty" /\ Level(s) = "idle"
  <2>1. SleepingAfter > 0 => ~(quiet > SleepingAfter)
    BY <1>2, <1>6 DEF Sleeping, quiet
  <2>2. SleepingAfter # 0 /\ ~(quiet < SleepingAfter)
    BY <1>2, <1>6 DEF Resting, quiet
  <2>3. quiet = SleepingAfter
    BY <1>1, <2>1, <2>2
  <2> QED
    BY <1>6, <2>3 DEF quiet
<1>7. CASE Occupancy(now, s) # "empty" /\ Level(s) \in {"quiet", "active", "busy"}
  <2>1. Occupancy(now, s) # "occupied"
    BY <1>2, <1>7 DEF UpAndAbout
  <2>2. s.active # {}
    BY <1>3, <1>4, <1>7, <2>1
  <2> QED
    BY <1>4, <1>7, <2>1, <2>2
<1> QED
  BY <1>3, <1>5, <1>6, <1>7

(* With a limit for the empty house, the mode is unknown only where the    *)
(* switch of DeriveHouseState has no arm: no source, the exact instant of  *)
(* a limit, or an irrelevant device at work in a house of unknown          *)
(* occupancy.                                                              *)
THEOREM ModeFallsThrough == ASSUME EmptyAfter > 0 PROVE Spec => ModeGaps
<1>1. ASSUME IInv, NEW w \in Workers PROVE ModeJustified(w)
  <2> SUFFICES ASSUME SetHouse(w), house'.mode = "unknown"
               PROVE  \/ house'.activity = "unknown"
                      \/ house'.occupancy = "empty" /\ QuietFor(local[w].now, local[w].seen) = EmptyAfter
                      \/ house'.activity = "idle" /\ QuietFor(local[w].now, local[w].seen) = SleepingAfter
                      \/ house'.occupancy = "unknown" /\ house'.active # {}
    BY DEF ModeJustified
  <2> DEFINE now == local[w].now
             s == local[w].seen
  <2>1. /\ local[w].pc = "set" /\ house'.mode = Mode(now, s) /\ house'.activity = Level(s)
        /\ house'.occupancy = Occupancy(now, s) /\ house'.active = s.active
    BY DEF SetHouse, DeriveHouseState
  <2>2. now \in Nat /\ s \in SeenStates /\ (s.units # 0 => s.occupied = TRUE \/ s.active # {})
    BY <1>1, <2>1, Reading DEF Evidence, Counted
  <2> QED
    BY <2>1, <2>2, ModeUnknown
<1>2. IInv => \A w \in Workers : ModeJustified(w)
  BY <1>1
<1> QED
  BY <1>2, InitOK, NextOK, PTL DEF Spec, ModeGaps

-----------------------------------------------------------------------------
(* The ring holds the newest records.                                      *)

\* The slot that is k behind a head of h, and what a ring of n records holds.
At(h, k) == (h - 1 - k + LogSize) % LogSize
Held(b, h, n) == [i \in 1..n |-> b[At(h, n - i)]]

LEMMA SizeOK == LogSize \in Nat /\ LogSize > 0
<1>1. PICK size \in Nat : size = LogSize /\ size # 0
  BY ActivityLogConstants
<1> QED
  BY <1>1

LEMMA Remainder ==
    ASSUME NEW size \in Nat, size > 0, NEW x \in Int, 0 <= x, x < size + size
    PROVE  x % size = IF x < size THEN x ELSE x - size
BY SMT

LEMMA AtIs ==
    ASSUME NEW h \in Slots, NEW k \in 0..LogSize - 1
    PROVE  At(h, k) = IF h - 1 - k < 0 THEN h - 1 - k + LogSize ELSE h - 1 - k
<1>1. PICK size \in Nat : size = LogSize /\ size > 0
  BY SizeOK
<1>2. h \in Nat /\ h < size /\ k \in Nat /\ k < size
  BY <1>1 DEF Slots
<1>3. PICK x \in Int : x = h - 1 - k + size
  BY <1>2
<1>4. 0 <= x /\ x < size + size
  BY <1>2, <1>3
<1>5. x % size = IF x < size THEN x ELSE x - size
  BY <1>1, <1>4, Remainder
<1>6. At(h, k) = x % size
  BY <1>1, <1>3 DEF At
<1> QED
  BY <1>1, <1>2, <1>3, <1>5, <1>6

\* After a step of the head every slot in use is one further behind it, and the
\* slot it left is the newest.
LEMMA AtShifts ==
    ASSUME NEW h \in Slots, NEW g, g = (h + 1) % LogSize
    PROVE  /\ g \in Slots /\ At(g, 0) = h
           /\ \A k \in 0..LogSize - 2 : At(g, k + 1) = At(h, k) /\ At(h, k) # h
<1>1. PICK size \in Nat : size = LogSize /\ size > 0
  BY SizeOK
<1>2. h \in Nat /\ h < size
  BY <1>1 DEF Slots
<1>3. g = IF h + 1 < size THEN h + 1 ELSE 0
  <2>1. (h + 1) % size = IF h + 1 < size THEN h + 1 ELSE h + 1 - size
    BY <1>1, <1>2, Remainder
  <2> QED
    BY <1>1, <1>2, <2>1
<1>4. g \in Slots
  BY <1>1, <1>2, <1>3 DEF Slots
<1>5. At(g, 0) = IF g - 1 - 0 < 0 THEN g - 1 - 0 + size ELSE g - 1 - 0
  BY <1>1, <1>4, AtIs
<1>6. ASSUME NEW k \in 0..size - 2
      PROVE  At(g, k + 1) = At(h, k) /\ At(h, k) # h
  <2>1. At(g, k + 1) = IF g - 1 - (k + 1) < 0 THEN g - 1 - (k + 1) + size ELSE g - 1 - (k + 1)
    BY <1>1, <1>4, AtIs
  <2>2. At(h, k) = IF h - 1 - k < 0 THEN h - 1 - k + size ELSE h - 1 - k
    BY <1>1, AtIs
  <2> QED
    BY <1>2, <1>3, <2>1, <2>2
<1> QED
  BY <1>1, <1>2, <1>3, <1>4, <1>5, <1>6

LEMMA AtDistinct ==
    ASSUME NEW h \in Slots, NEW i \in 0..LogSize - 1, NEW j \in 0..LogSize - 1, At(h, i) = At(h, j)
    PROVE  i = j
<1>1. PICK size \in Nat : size = LogSize /\ size > 0
  BY SizeOK
<1>2. h \in Nat /\ h < size /\ i \in 0..size - 1 /\ j \in 0..size - 1
  BY <1>1 DEF Slots
<1>3. /\ At(h, i) = IF h - 1 - i < 0 THEN h - 1 - i + size ELSE h - 1 - i
      /\ At(h, j) = IF h - 1 - j < 0 THEN h - 1 - j + size ELSE h - 1 - j
  BY <1>1, AtIs
<1>4. CASE h - 1 - i < 0 /\ h - 1 - j < 0
  <2>1. h - 1 - i + size = h - 1 - j + size
    BY <1>3, <1>4
  <2> QED
    BY <1>2, <2>1
<1>5. CASE h - 1 - i < 0 /\ ~(h - 1 - j < 0)
  <2>1. h - 1 - i + size = h - 1 - j
    BY <1>3, <1>5
  <2> QED
    BY <1>2, <2>1
<1>6. CASE ~(h - 1 - i < 0) /\ h - 1 - j < 0
  <2>1. h - 1 - i = h - 1 - j + size
    BY <1>3, <1>6
  <2> QED
    BY <1>2, <2>1
<1>7. CASE ~(h - 1 - i < 0) /\ ~(h - 1 - j < 0)
  <2>1. h - 1 - i = h - 1 - j
    BY <1>3, <1>7
  <2> QED
    BY <1>2, <2>1
<1> QED
  BY <1>4, <1>5, <1>6, <1>7

Written(b, s, r) == [b EXCEPT ![s] = r]
Added(log, r) == Append(IF Len(log) = LogSize THEN Tail(log) ELSE log, r)

\* Adding a record.
LEMMA HeldAppend ==
    ASSUME NEW R, NEW b \in [Slots -> R], NEW h \in Slots, NEW n \in 0..LogSize, NEW r \in R,
           NEW g, g = (h + 1) % LogSize, NEW m, m = IF n < LogSize THEN n + 1 ELSE n
    PROVE  Held(Written(b, h, r), g, m) = Added(Held(b, h, n), r)
<1> DEFINE c == Written(b, h, r)
           old == Held(b, h, n)
<1>1. PICK size \in Nat : size = LogSize /\ size > 0
  BY SizeOK
<1>2. n \in Nat /\ n <= size
  BY <1>1
<1>3. ASSUME NEW k \in 0..size - 1 PROVE At(h, k) \in Slots
  <2>1. At(h, k) = IF h - 1 - k < 0 THEN h - 1 - k + size ELSE h - 1 - k
    BY <1>1, AtIs
  <2> QED
    BY <1>1, <2>1 DEF Slots
<1>4. /\ g \in Slots /\ At(g, 0) = h
      /\ \A k \in 0..size - 2 : At(g, k + 1) = At(h, k) /\ At(h, k) # h
  BY <1>1, AtShifts
<1>5. c[h] = r /\ \A s \in Slots : s # h => c[s] = b[s]
  BY DEF Written
<1> HIDE DEF c
<1>6. ASSUME NEW k \in 0..size - 2 PROVE c[At(g, k + 1)] = b[At(h, k)]
  <2>1. k \in 0..size - 1
    BY <1>1
  <2>2. At(h, k) \in Slots /\ At(g, k + 1) = At(h, k) /\ At(h, k) # h
    BY <1>3, <1>4, <2>1
  <2> QED
    BY <1>5, <2>2
<1>7. old = [i \in 1..n |-> b[At(h, n - i)]] /\ old \in Seq(R) /\ Len(old) = n
  <2>1. \A i \in 1..n : b[At(h, n - i)] \in R
    BY <1>2, <1>3
  <2> QED
    BY <1>2, <2>1 DEF Held
<1> HIDE DEF old
<1>8. CASE n < size
  <2>1. m = n + 1 /\ Len(old) # LogSize
    BY <1>1, <1>7, <1>8
  <2>2. ASSUME NEW i \in 1..n PROVE c[At(g, m - i)] = old[i]
    <3>1. n - i \in 0..size - 2 /\ m - i = (n - i) + 1
      BY <1>2, <1>8, <2>1
    <3>2. c[At(g, m - i)] = b[At(h, n - i)]
      BY <1>6, <3>1
    <3> QED
      BY <1>7, <3>2
  <2>3. c[At(g, m - m)] = r
    BY <1>2, <1>4, <1>5, <2>1
  <2>4. Append(old, r) = [i \in 1..m |-> IF i = m THEN r ELSE old[i]]
    BY <1>7, <2>1
  <2>5. \A i \in 1..m : c[At(g, m - i)] = IF i = m THEN r ELSE old[i]
    BY <1>2, <2>1, <2>2, <2>3
  <2> QED
    BY <2>1, <2>4, <2>5 DEF Held, Added, c, old
<1>9. CASE n = size
  <2>1. m = n /\ Len(old) = LogSize /\ n > 0
    BY <1>1, <1>7, <1>9
  <2>2. Tail(old) = [i \in 1..n - 1 |-> old[i + 1]]
    BY <1>7, <2>1
  <2>3. ASSUME NEW i \in 1..n - 1 PROVE c[At(g, m - i)] = old[i + 1]
    <3>1. n - (i + 1) \in 0..size - 2 /\ m - i = (n - (i + 1)) + 1 /\ i + 1 \in 1..n
      BY <1>2, <1>9, <2>1
    <3>2. c[At(g, m - i)] = b[At(h, n - (i + 1))]
      BY <1>6, <3>1
    <3> QED
      BY <1>7, <3>1, <3>2
  <2>4. c[At(g, m - m)] = r
    BY <1>2, <1>4, <1>5, <2>1
  <2>5. Append(Tail(old), r) = [i \in 1..m |-> IF i = m THEN r ELSE old[i + 1]]
    BY <1>2, <1>7, <2>1, <2>2
  <2>6. \A i \in 1..m : c[At(g, m - i)] = IF i = m THEN r ELSE old[i + 1]
    BY <1>2, <2>1, <2>3, <2>4
  <2> QED
    BY <2>1, <2>5, <2>6 DEF Held, Added, c, old
<1>10. n < size \/ n = size
  BY <1>2
<1> QED
  BY <1>8, <1>9, <1>10, Zenon

\* Changing the record k places back from the newest.
LEMMA HeldAmend ==
    ASSUME NEW R, NEW b \in [Slots -> R], NEW h \in Slots, NEW n \in 0..LogSize,
           NEW k \in 0..n - 1, NEW r \in R
    PROVE  Held(Written(b, At(h, k), r), h, n) = Written(Held(b, h, n), n - k, r)
<1> DEFINE c == Written(b, At(h, k), r)
<1>1. PICK size \in Nat : size = LogSize /\ size > 0
  BY SizeOK
<1>2. n \in Nat /\ n <= size /\ k \in Nat /\ k < n
  BY <1>1
<1>3. ASSUME NEW j \in 0..size - 1 PROVE At(h, j) \in Slots
  <2>1. At(h, j) = IF h - 1 - j < 0 THEN h - 1 - j + size ELSE h - 1 - j
    BY <1>1, AtIs
  <2> QED
    BY <1>1, <2>1 DEF Slots
<1>4. At(h, k) \in Slots
  BY <1>2, <1>3
<1>5. c[At(h, k)] = r /\ \A s \in Slots : s # At(h, k) => c[s] = b[s]
  BY <1>4 DEF Written
<1> HIDE DEF c
<1>6. ASSUME NEW i \in 1..n
      PROVE  c[At(h, n - i)] = IF i = n - k THEN r ELSE b[At(h, n - i)]
  <2>1. n - i \in 0..size - 1 /\ k \in 0..size - 1
    BY <1>2
  <2>2. CASE i = n - k
    <3>1. n - i = k
      BY <1>2, <2>2
    <3> QED
      BY <1>5, <2>2, <3>1
  <2>3. CASE i # n - k
    <3>1. n - i # k
      BY <1>2, <2>3
    <3>2. At(h, n - i) # At(h, k)
      BY <1>1, <2>1, <3>1, AtDistinct
    <3> QED
      BY <1>3, <1>5, <2>1, <2>3, <3>2
  <2> QED
    BY <2>2, <2>3
<1>7. n - k \in 1..n
  BY <1>2
<1> QED
  BY <1>6, <1>7 DEF Held, Written, c

\* What readers see of the ring.
ringLog == [i \in 1..count |-> RecentRecords(0)[count + 1 - i]]

LEMMA ReadsHeld ==
    ASSUME NEW n \in Nat, NEW b, NEW h
    PROVE  [i \in 1..n |-> [j \in 1..n |-> b[At(h, j - 1)]][n + 1 - i]] = Held(b, h, n)
<1>1. ASSUME NEW i \in 1..n
      PROVE  [j \in 1..n |-> b[At(h, j - 1)]][n + 1 - i] = b[At(h, n - i)]
  <2>1. n + 1 - i \in 1..n /\ (n + 1 - i) - 1 = n - i
    OBVIOUS
  <2> QED
    BY <2>1
<1> QED
  BY <1>1 DEF Held

LEMMA RingLogIs ==
    /\ ringLog = [i \in 1..count |-> [j \in 1..count |-> buf[At(head, j - 1)]][count + 1 - i]]
    /\ ringLog' = [i \in 1..count' |->
                      [j \in 1..count' |-> buf'[At(head', j - 1)]][count' + 1 - i]]
<1>1. RecentRecords(0) = [j \in 1..count |-> buf[Back(j - 1)]]
  BY DEF RecentRecords
<1>2. RecentRecords(0)' = [j \in 1..count' |-> buf'[Back(j - 1)']]
  BY DEF RecentRecords
<1> QED
  BY <1>1, <1>2, Zenon DEF ringLog, Back, At

LEMMA InRing == ASSUME NEW n \in 0..LogSize PROVE n \in Nat
<1>1. PICK size \in Nat : size = LogSize
  BY SizeOK
<1> QED
  BY <1>1

Entries == Records \union {Started("")}

LEMMA LogHeld ==
    /\ RingOK => /\ buf \in [Slots -> Entries] /\ head \in Slots /\ count \in 0..LogSize
                 /\ count \in Nat /\ ringLog = Held(buf, head, count)
    /\ RingOK' => count' \in Nat /\ ringLog' = Held(buf', head', count')
<1>1. ASSUME RingOK
      PROVE  /\ buf \in [Slots -> Entries] /\ head \in Slots /\ count \in 0..LogSize
             /\ count \in Nat /\ ringLog = Held(buf, head, count)
  <2>1. buf \in [Slots -> Entries] /\ head \in Slots /\ count \in 0..LogSize
    BY <1>1 DEF RingOK, Entries
  <2>2. count \in Nat
    BY <2>1, InRing
  <2> QED
    BY <2>1, <2>2, ReadsHeld, RingLogIs
<1>2. ASSUME RingOK'
      PROVE  count' \in Nat /\ ringLog' = Held(buf', head', count')
  <2>1. count' \in 0..LogSize
    BY <1>2 DEF RingOK
  <2>2. count' \in Nat
    BY <2>1, InRing
  <2> QED
    BY <2>2, ReadsHeld, RingLogIs
<1> QED
  BY <1>1, <1>2

LEMMA AppendIs ==
    ASSUME RingOK, RingOK', NEW r \in Records, AppendRecord(r)
    PROVE  Recent!Add(r)
<1>1. /\ buf \in [Slots -> Entries] /\ head \in Slots /\ count \in 0..LogSize
      /\ ringLog = Held(buf, head, count) /\ ringLog' = Held(buf', head', count')
  BY LogHeld
<1>2. /\ buf' = Written(buf, head, r) /\ head' = (head + 1) % LogSize
      /\ count' = IF count < LogSize THEN count + 1 ELSE count
  BY DEF AppendRecord, Written
<1>3. r \in Entries
  BY DEF Entries
<1>4. Held(Written(buf, head, r), head', count') = Added(Held(buf, head, count), r)
  BY <1>1, <1>2, <1>3, HeldAppend
<1>5. ringLog' = Added(ringLog, r)
  BY <1>1, <1>2, <1>4
<1> QED
  BY <1>5, Zenon DEF Recent!Add, Added, ringLog

LEMMA UpdateIs ==
    ASSUME RingOK, RingOK', NEW id \in RecordIDs, NEW stage \in {"answered", "ended"},
           UpdateRecord(id, stage)
    PROVE  Recent!Next \/ ringLog' = ringLog
<1>1. /\ buf \in [Slots -> Entries] /\ head \in Slots /\ count \in 0..LogSize /\ count \in Nat
      /\ ringLog = Held(buf, head, count) /\ ringLog' = Held(buf', head', count')
  BY LogHeld
<1>2. UNCHANGED <<head, count>>
  BY DEF UpdateRecord
<1>3. CASE buf' = buf
  BY <1>1, <1>2, <1>3
<1>4. CASE \E k \in 0..count - 1 : Found(id, k)
  <2> DEFINE k == CHOOSE k \in 0..count - 1 : Found(id, k)
  <2>1. k \in 0..count - 1 /\ Found(id, k)
    BY <1>4
  <2>2. buf' = [buf EXCEPT ![Back(k)][stage] = TRUE]
    BY <1>4 DEF UpdateRecord
  <2> HIDE DEF k
  <2> DEFINE i == count - k
             record == [buf[Back(k)] EXCEPT ![stage] = TRUE]
  <2>3. i \in 1..count /\ k = count - i
    BY <1>1, <2>1
  <2>4. Back(k) = At(head, k)
    BY DEF Back, At
  <2>5. Back(k) \in Slots
    BY <1>1, <2>1, BackOK DEF Back
  <2>6. buf[Back(k)] \in Records /\ buf[Back(k)].id = id
    <3>1. buf[Back(k)].id = id /\ id # ""
      BY <2>1, ActivityLogConstants DEF Found
    <3>2. buf[Back(k)] \in Records \union {Started("")} /\ Started("").id = ""
      BY <1>1, <2>5 DEF Entries, Started
    <3> QED
      BY <3>1, <3>2
  <2>7. record \in Records /\ record.id = id
    BY <2>6 DEF Records
  <2>8. buf' = Written(buf, At(head, k), record)
    BY <2>2, <2>4 DEF Written
  <2>9. record \in Entries
    BY <2>7 DEF Entries
  <2> HIDE DEF record
  <2>10. Held(Written(buf, At(head, k), record), head, count)
           = Written(Held(buf, head, count), count - k, record)
    BY <1>1, <2>1, <2>9, HeldAmend
  <2>11. ringLog' = Written(ringLog, i, record)
    BY <1>1, <1>2, <2>8, <2>10
  <2>12. Len(ringLog) = count /\ DOMAIN ringLog = 1..count
         /\ \A j \in 1..count : ringLog[j] = buf[At(head, count - j)]
    BY <1>1 DEF Held
  <2>13. \A j \in i + 1..Len(ringLog) : ringLog[j].id # ringLog[i].id
    <3> SUFFICES ASSUME NEW j \in i + 1..count PROVE ringLog[j].id # ringLog[i].id
      BY <2>12
    <3>1. j \in 1..count /\ count - j \in 0..k - 1
      BY <1>1, <2>1, <2>3
    <3>2. buf[Back(count - j)].id # id
      BY <2>1, <3>1 DEF Found
    <3>3. ringLog[j] = buf[Back(count - j)]
      BY <2>12, <3>1 DEF Back, At
    <3>4. ringLog[i] = buf[Back(k)]
      BY <2>3, <2>4, <2>12
    <3> QED
      BY <2>6, <3>2, <3>3, <3>4
  <2>14. ringLog[i].id = record.id
    BY <2>3, <2>4, <2>6, <2>7, <2>12
  <2>15. i \in DOMAIN ringLog
    BY <2>3, <2>12
  <2> HIDE DEF i
  <2>16. PICK j \in DOMAIN ringLog, r \in Records : j = i /\ r = record
    BY <2>7, <2>15
  <2>17. Recent!Amend(j, r)
    BY <2>11, <2>13, <2>14, <2>16, Zenon DEF Recent!Amend, Recent!Newest, Written, ringLog
  <2>18. \E l \in DOMAIN ringLog, q \in Records : Recent!Amend(l, q)
    BY <2>17
  <2> QED
    BY <2>18 DEF Recent!Next, ringLog
<1> QED
  BY <1>3, <1>4 DEF UpdateRecord

LEMMA RingStill == ASSUME UNCHANGED ring PROVE ringLog' = ringLog
<1>1. UNCHANGED <<buf, head, count>>
  BY DEF ring
<1> QED
  BY <1>1, RingLogIs

LEMMA RingStep ==
    ASSUME IInv, IInv', [Next]_houseVars
    PROVE  Recent!Next \/ ringLog' = ringLog
<1>1. RingOK /\ RingOK' /\ local \in [Workers -> LocalStates]
  BY Parts DEF IInv, TypeOK, RingOK
<1>2. ASSUME NEW w \in Workers, Record(w) PROVE Recent!Next \/ ringLog' = ringLog
  <2>1. local[w].call \in Calls
    BY <1>1, <1>2 DEF Record, LocalStates
  <2>2. local[w].call \in RecordIDs
    BY <2>1, HouseConstants
  <2>3. Started(local[w].call) \in Records
    BY <2>2 DEF Started, Records
  <2>4. CASE AppendRecord(Started(local[w].call))
    <3>1. PICK r \in Records : Recent!Add(r)
      BY <1>1, <2>3, <2>4, AppendIs
    <3> QED
      BY <3>1, Zenon DEF Recent!Next
  <2>5. CASE UpdateRecord(local[w].call, "answered")
    BY <1>1, <2>2, <2>5, UpdateIs
  <2>6. CASE UpdateRecord(local[w].call, "ended")
    BY <1>1, <2>2, <2>6, UpdateIs
  <2> QED
    BY <1>2, <2>4, <2>5, <2>6 DEF Record
<1>3. ASSUME NEW w \in Workers, Proceed(w), ~Record(w) PROVE UNCHANGED ring
  BY <1>3 DEF Proceed, ReadClock, ReadDevices, ReadSignals, ReadMark, SetHouse, stores
<1>4. ASSUME NEW h \in Handlers, Message(h) PROVE UNCHANGED ring
  BY <1>4 DEF Message, DeviceChanges, CallAsserted, CallHungUp
<1>5. ASSUME Tick \/ AdvanceClock \/ UNCHANGED houseVars PROVE UNCHANGED ring
  BY <1>5 DEF Tick, TickBegins, TickPrunes, AdvanceClock, houseVars
<1> QED
  BY <1>2, <1>3, <1>4, <1>5, RingStill DEF Next

(* The ring behind the recent activity is the bounded log it stands for:   *)
(* whatever its size and however often it wraps, it holds the newest       *)
(* records in order, and an answered or ended call amends only the newest  *)
(* record of its ID.                                                       *)
THEOREM RingImplementsLog == Spec => KeepsRecent
<1>1. Init => Recent!Init
  <2> SUFFICES ASSUME Init PROVE Recent!Init
    OBVIOUS
  <2>1. count = 0
    BY DEF Init, RingInit
  <2>2. [i \in 1..count |-> RecentRecords(0)[count + 1 - i]] = <<>>
    BY <2>1
  <2> QED
    BY <2>2, Zenon DEF Recent!Init
<1>2. IInv /\ IInv' /\ [Next]_houseVars
        => [Recent!Next]_([i \in 1..count |-> RecentRecords(0)[count + 1 - i]])
  BY RingStep DEF ringLog
<1> QED
  BY <1>1, <1>2, InitOK, NextOK, PTL DEF Spec, KeepsRecent, Recent!Spec
=============================================================================
