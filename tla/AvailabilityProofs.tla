--------------------------- MODULE AvailabilityProofs ---------------------------
(***************************************************************************)
(* Proofs about Availability for any number of handlers, any debounces and *)
(* any delays.                                                             *)
(***************************************************************************)
EXTENDS Availability, TLAPS

-----------------------------------------------------------------------------
(* The inductive invariant: what a call in progress may assume of its stale *)
(* clock reading, and that the debounce began after the last sign of life.  *)

CallOK(me) ==
    /\ me.pc \in {"begun", "apply"} => me.debounce \in Debounces
    /\ me.pc = "apply" => me.now <= clock /\ clock <= me.now + MaxDelay

SilenceOK == offlineAt # Nil => offlineAt <= clock /\ heard <= offlineAt + MaxDelay

IInv ==
    /\ TypeOK
    /\ DebounceArmed
    /\ \A w \in Workers : CallOK(local[w])
    /\ heard <= clock
    /\ SilenceOK

\* Why a step may confirm the absence.
Justified == avail # "offline" /\ avail' = "offline" =>
                 \E d \in Debounces : clock + MaxDelay >= heard + d

LEMMA IdleOK == Idle \in Local /\ CallOK(Idle) /\ Idle.pc = "idle"
  BY DEF Idle, Local, CallOK, Calls

\* A step of worker w that leaves it in the state me.
LEMMA WorkerStep ==
    ASSUME IInv, NEW w \in Workers, NEW me \in Local, CallOK(me), clock' = clock,
           local' = [local EXCEPT ![w] = me]
    PROVE  /\ local' \in [Workers -> Local]
           /\ \A v \in Workers : CallOK(local[v])'
  BY DEF IInv, TypeOK, CallOK

LEMMA EventOK ==
    ASSUME NEW a \in Availabilities
    PROVE  /\ [Idle EXCEPT !.pc = "emit", !.event = a] \in Local
           /\ CallOK([Idle EXCEPT !.pc = "emit", !.event = a])
<1> DEFINE me == [Idle EXCEPT !.pc = "emit", !.event = a]
<1>1. me \in Local /\ me.pc = "emit"
  BY DEF Idle, Local, Calls
<1>2. QED
  BY <1>1 DEF CallOK

\* Become and Silently leave the calls in order.
LEMMA AppliedOK ==
    ASSUME IInv, NEW w \in Workers, NEW a \in Availabilities, clock' = clock,
           Become(w, a) \/ Silently(w, a)
    PROVE  /\ avail' = a /\ local' \in [Workers -> Local] /\ returned' \in BOOLEAN
           /\ \A v \in Workers : CallOK(local[v])'
<1>1. CASE Become(w, a)
  <2> DEFINE me == [Idle EXCEPT !.pc = "emit", !.event = a]
  <2>1. me \in Local /\ CallOK(me)
    BY EventOK
  <2>2. local' = [local EXCEPT ![w] = me] /\ avail' = a /\ returned' = FALSE
    BY <1>1 DEF Become
  <2> HIDE DEF me
  <2>3. QED
    BY <2>1, <2>2, WorkerStep
<1>2. CASE Silently(w, a)
  <2>1. avail' = a /\ local' = [local EXCEPT ![w] = Idle]
        /\ (returned' = returned \/ returned' = (local[w].call = "reading"))
    BY <1>2 DEF Silently
  <2>2. returned' \in BOOLEAN
    BY <2>1 DEF IInv, TypeOK
  <2>3. QED
    BY <2>1, <2>2, IdleOK, WorkerStep
<1>3. QED
  BY <1>1, <1>2

LEMMA InitOK == Init => IInv
<1> SUFFICES ASSUME Init PROVE IInv
  OBVIOUS
<1>1. local \in [Workers -> Local] /\ \A w \in Workers : CallOK(local[w])
  BY IdleOK DEF Init
<1>2. returned \in BOOLEAN
  BY Zenon DEF Init
<1>3. avail = "unknown" /\ offlineAt = Nil /\ debounce \in Debounces /\ clock = 0 /\ heard = 0 /\ told = Nil
  BY DEF Init
<1>4. QED
  BY <1>1, <1>2, <1>3, AvailabilityConstants
     DEF IInv, TypeOK, DebounceArmed, SilenceOK, Availabilities

\* What every step may rely on.
LEMMA Typed ==
    ASSUME IInv, NEW w \in Workers
    PROVE  /\ avail \in Availabilities /\ offlineAt \in Nat \union {Nil}
           /\ clock \in Nat /\ heard \in Nat /\ MaxDelay \in Nat /\ heard <= clock
           /\ debounce \in Debounces /\ debounce \in Nat /\ Nil \notin Nat
           /\ told \in Availabilities \union {Nil}
           /\ local[w] \in Local /\ local[w].now \in Nat /\ local[w].debounce \in Nat
           /\ local[w].event \in Availabilities \union {Nil}
           /\ local[w].pc = "apply" =>
                 /\ local[w].debounce \in Debounces
                 /\ local[w].now <= clock /\ clock <= local[w].now + MaxDelay
  BY AvailabilityConstants DEF IInv, TypeOK, Local, CallOK

LEMMA BeginLawful ==
    ASSUME IInv, NEW w \in Workers, NEW call \in Calls, Begin(w, call)
    PROVE  IInv' /\ Justified
<1> DEFINE me == [Idle EXCEPT !.pc = "begun", !.call = call, !.now = clock, !.debounce = debounce]
<1>1. me \in Local /\ me.pc = "begun" /\ me.debounce = debounce
  BY Typed, Zenon DEF Idle, Local
<1>2. CallOK(me)
  BY <1>1, Typed DEF CallOK
<1>3. local' = [local EXCEPT ![w] = me] /\ UNCHANGED <<avail, offlineAt, debounce, clock, heard, told, returned>>
  BY DEF Begin
<1> HIDE DEF me
<1>4. local' \in [Workers -> Local] /\ \A v \in Workers : CallOK(local[v])'
  BY <1>1, <1>2, <1>3, WorkerStep
<1>5. QED
  BY <1>3, <1>4 DEF IInv, TypeOK, DebounceArmed, SilenceOK, Justified

LEMMA ReadClockLawful ==
    ASSUME IInv, NEW w \in Workers, ReadClock(w)
    PROVE  IInv' /\ Justified
<1> DEFINE me == [local[w] EXCEPT !.pc = "apply", !.now = clock]
<1>1. me \in Local /\ me.debounce = local[w].debounce /\ me.now = clock
  BY Typed, Zenon DEF Local
<1>2. local' = [local EXCEPT ![w] = me]
  BY Typed DEF ReadClock, IInv, TypeOK
<1>3. CallOK(me)
  BY <1>1, Typed DEF CallOK, IInv, ReadClock
<1>4. UNCHANGED <<avail, offlineAt, debounce, clock, heard, told, returned>>
  BY DEF ReadClock
<1> HIDE DEF me
<1>5. local' \in [Workers -> Local] /\ \A v \in Workers : CallOK(local[v])'
  BY <1>1, <1>2, <1>3, <1>4, WorkerStep
<1>6. QED
  BY <1>4, <1>5 DEF IInv, TypeOK, DebounceArmed, SilenceOK, Justified

\* A section: the entry's new availability and offline time are all it changes.
LEMMA SectionLawful ==
    ASSUME IInv, NEW w \in Workers, NEW a \in Availabilities,
           Become(w, a) \/ Silently(w, a), UNCHANGED <<debounce, clock, told>>,
           offlineAt' \in Nat \union {Nil}, heard' \in {heard, clock},
           DebounceArmed', SilenceOK', Justified
    PROVE  IInv' /\ Justified
<1>1. avail' = a /\ local' \in [Workers -> Local] /\ returned' \in BOOLEAN /\ \A v \in Workers : CallOK(local[v])'
  BY AppliedOK
<1>2. QED
  BY <1>1, Typed DEF IInv, TypeOK

LEMMA AliveLawful ==
    ASSUME IInv, NEW w \in Workers, ApplyOnline(w) \/ ApplyReading(w)
    PROVE  IInv' /\ Justified
<1>1. /\ Become(w, "online") \/ Silently(w, "online")
      /\ avail' = "online" /\ "online" \in Availabilities
      /\ offlineAt' = IF avail # "online" THEN Nil ELSE offlineAt
      /\ heard' = clock /\ UNCHANGED <<debounce, clock, told>>
  BY DEF ApplyOnline, ApplyReading, Applies, Become, Silently, Availabilities
<1>2. offlineAt' = Nil
  BY <1>1 DEF IInv, DebounceArmed
<1>3. DebounceArmed' /\ SilenceOK' /\ Justified
  BY <1>1, <1>2 DEF DebounceArmed, SilenceOK, Justified
<1>4. QED
  BY <1>1, <1>2, <1>3, SectionLawful

\* Confirming by age: the silence was long enough.
LEMMA AgedJustified ==
    ASSUME IInv, NEW w \in Workers, local[w].pc = "apply", Aged(w)
    PROVE  \E d \in Debounces : clock + MaxDelay >= heard + d
<1>1. /\ offlineAt # Nil /\ offlineAt \in Nat /\ local[w].now >= offlineAt + local[w].debounce
      /\ heard <= offlineAt + MaxDelay
  BY Typed DEF Aged, IInv, SilenceOK
<1>2. clock + MaxDelay >= heard + local[w].debounce
  BY <1>1, Typed
<1>3. QED
  BY <1>2, Typed

LEMMA OfflineLawful ==
    ASSUME IInv, NEW w \in Workers, ApplyOffline(w)
    PROVE  IInv' /\ Justified
<1> DEFINE arms == local[w].debounce > 0 /\ offlineAt = Nil
           to   == IF arms THEN "offline_pending"
                   ELSE IF local[w].debounce = 0 \/ Aged(w) THEN "offline" ELSE avail
<1>1. /\ local[w].pc = "apply" /\ heard' = heard /\ UNCHANGED <<debounce, clock, told>>
      /\ Become(w, to) \/ Silently(w, to)
      /\ offlineAt' = IF arms THEN local[w].now ELSE offlineAt
  BY DEF ApplyOffline, Applies
<1>2. to \in Availabilities /\ avail' = to
  BY <1>1, Typed DEF Availabilities, Become, Silently
<1>3. Justified
  <2> SUFFICES ASSUME avail # "offline", to = "offline"
               PROVE  \E d \in Debounces : clock + MaxDelay >= heard + d
    BY <1>2 DEF Justified
  <2>1. CASE local[w].debounce = 0
    BY <1>1, <2>1, Typed
  <2>2. CASE Aged(w)
    BY <1>1, <2>2, AgedJustified
  <2>3. QED
    BY <2>1, <2>2
<1>4. local[w].now \in Nat /\ local[w].now # Nil /\ clock \in Nat /\ heard \in Nat /\ MaxDelay \in Nat
      /\ heard <= clock /\ local[w].now <= clock /\ clock <= local[w].now + MaxDelay
  BY <1>1, Typed
<1> HIDE DEF arms
<1>5. DebounceArmed'
  BY <1>1, <1>2, <1>4 DEF IInv, DebounceArmed
<1>6. SilenceOK'
  BY <1>1, <1>4 DEF IInv, SilenceOK
<1>7. offlineAt' \in Nat \union {Nil}
  BY <1>1, Typed
<1> HIDE DEF to, arms
<1>8. QED
  BY <1>1, <1>2, <1>3, <1>5, <1>6, <1>7, SectionLawful

LEMMA TickLawful ==
    ASSUME IInv, NEW w \in Workers, ApplyTick(w)
    PROVE  IInv' /\ Justified
<1> DEFINE matured == avail = "offline_pending" /\ Aged(w)
           to == IF matured THEN "offline" ELSE avail
<1>1. /\ local[w].pc = "apply" /\ heard' = heard /\ offlineAt' = offlineAt
      /\ UNCHANGED <<debounce, clock, told>>
      /\ Become(w, to) \/ Silently(w, to)
  BY DEF ApplyTick, Applies
<1>2. to \in Availabilities /\ avail' = to
  BY <1>1, Typed DEF Availabilities, Become, Silently
<1>3. Justified
  BY <1>1, <1>2, AgedJustified DEF Justified
<1>4. DebounceArmed' /\ SilenceOK'
  BY <1>1, <1>2 DEF IInv, DebounceArmed, SilenceOK
<1> HIDE DEF to
<1>5. QED
  BY <1>1, <1>2, <1>3, <1>4, Typed, SectionLawful

LEMMA EmitLawful ==
    ASSUME IInv, NEW w \in Workers, Emit(w)
    PROVE  IInv' /\ Justified
<1>1. local' = [local EXCEPT ![w] = Idle] /\ UNCHANGED <<avail, offlineAt, debounce, clock, heard, returned>>
  BY DEF Emit
<1>2. told' \in Availabilities \union {Nil}
  BY Typed DEF Emit
<1>3. local' \in [Workers -> Local] /\ \A v \in Workers : CallOK(local[v])'
  BY <1>1, IdleOK, WorkerStep
<1>4. QED
  BY <1>1, <1>2, <1>3 DEF IInv, TypeOK, DebounceArmed, SilenceOK, Justified

LEMMA ClockLawful ==
    ASSUME IInv, AdvanceClock
    PROVE  IInv' /\ Justified
<1>1. clock' = clock + 1 /\ UNCHANGED <<avail, offlineAt, debounce, local, heard, told, returned>>
  BY DEF AdvanceClock
<1>2. ASSUME NEW v \in Workers PROVE CallOK(local[v])'
  BY <1>1, Typed DEF AdvanceClock, CallOK, IInv
<1>3. clock \in Nat /\ heard \in Nat /\ MaxDelay \in Nat /\ offlineAt \in Nat \union {Nil}
  BY AvailabilityConstants DEF IInv, TypeOK
<1>4. QED
  BY <1>1, <1>2, <1>3 DEF IInv, TypeOK, DebounceArmed, SilenceOK, Justified

LEMMA NextOK == IInv /\ [Next]_vars => IInv' /\ Justified
<1> SUFFICES ASSUME IInv, [Next]_vars PROVE IInv' /\ Justified
  OBVIOUS
<1>1. ASSUME NEW h \in Handlers, NEW call \in {"online", "offline", "reading"}, Message(h, call)
      PROVE  IInv' /\ Justified
  BY <1>1, BeginLawful DEF Message, Workers, Calls
<1>2. CASE TickBegins
  BY <1>2, BeginLawful DEF TickBegins, Workers, Calls
<1>3. ASSUME NEW w \in Workers, Run(w) PROVE IInv' /\ Justified
  BY <1>3, ReadClockLawful, AliveLawful, OfflineLawful, TickLawful, EmitLawful DEF Run
<1>4. CASE Reload
  BY <1>4 DEF Reload, IInv, TypeOK, DebounceArmed, CallOK, SilenceOK, Justified
<1>5. CASE UNCHANGED vars
  BY <1>5 DEF vars, IInv, TypeOK, DebounceArmed, CallOK, SilenceOK, Justified
<1>6. QED
  BY <1>1, <1>2, <1>3, <1>4, <1>5, ClockLawful DEF Next

-----------------------------------------------------------------------------
(* With a debounce that is always on, an absence is confirmed with a time.  *)

ConfirmedAt == avail = "offline" => offlineAt # Nil

Stays == avail = "offline" => avail' \in {"offline", "online"}

LEMMA ConfirmedStep ==
    ASSUME 0 \notin Debounces
    PROVE  IInv /\ ConfirmedAt /\ [Next]_vars => ConfirmedAt' /\ Stays
<1> SUFFICES ASSUME IInv, ConfirmedAt, [Next]_vars PROVE ConfirmedAt' /\ Stays
  OBVIOUS
<1>1. ASSUME avail' = avail, offlineAt' = offlineAt PROVE ConfirmedAt' /\ Stays
  BY <1>1 DEF ConfirmedAt, Stays
<1>2. ASSUME NEW w \in Workers, ApplyOnline(w) \/ ApplyReading(w) PROVE ConfirmedAt' /\ Stays
  BY <1>2 DEF ApplyOnline, ApplyReading, Become, Silently, ConfirmedAt, Stays
<1>3. ASSUME NEW w \in Workers, ApplyOffline(w) PROVE ConfirmedAt' /\ Stays
  <2>1. local[w].debounce # 0 /\ local[w].now # Nil
    BY <1>3, Typed DEF ApplyOffline, Applies
  <2> DEFINE arms == local[w].debounce > 0 /\ offlineAt = Nil
             to   == IF arms THEN "offline_pending"
                     ELSE IF local[w].debounce = 0 \/ Aged(w) THEN "offline" ELSE avail
  <2>2. avail' = to /\ offlineAt' = IF arms THEN local[w].now ELSE offlineAt
    BY <1>3 DEF ApplyOffline, Become, Silently
  <2>3. Aged(w) => offlineAt # Nil
    BY DEF Aged
  <2>4. QED
    BY <2>1, <2>2, <2>3 DEF ConfirmedAt, Stays
<1>4. ASSUME NEW w \in Workers, ApplyTick(w) PROVE ConfirmedAt' /\ Stays
  BY <1>4 DEF ApplyTick, Become, Silently, IInv, DebounceArmed, ConfirmedAt, Stays
<1>5. QED
  BY <1>1, <1>2, <1>3, <1>4
     DEF Next, Message, TickBegins, Begin, Run, ReadClock, Emit, Reload, AdvanceClock, vars

-----------------------------------------------------------------------------
(* What the sinks know, as long as calls do not overlap.                   *)

\* An event being told is of the present availability.
ToldInv ==
    /\ ToldOrReturned
    /\ \A w \in Workers : local[w].pc = "emit" => local[w].event = avail

\* While one call tells its event, no other can touch the entry.
LEMMA AloneWhileTelling ==
    ASSUME IInv, OneCallAtATime, OneCallAtATime', NEW w \in Workers, NEW v \in Workers,
           local[w].pc = "emit", v # w
    PROVE  ~Run(v) /\ ~(\E call \in Calls : Begin(v, call))
<1>1. local[v].pc = "idle"
  BY DEF OneCallAtATime
<1>2. ASSUME NEW call \in Calls, Begin(v, call) PROVE FALSE
  <2>1. local' = [local EXCEPT ![v] = [Idle EXCEPT !.pc = "begun", !.call = call,
                                                   !.now = clock, !.debounce = debounce]]
    BY <1>2 DEF Begin
  <2>2. local'[w].pc = "emit" /\ local'[v].pc = "begun"
    BY <2>1 DEF IInv, TypeOK, Idle
  <2>3. QED
    BY <2>2 DEF OneCallAtATime
<1>3. QED
  BY <1>1, <1>2 DEF Run, ReadClock, ApplyOnline, ApplyReading, ApplyOffline, ApplyTick, Applies, Emit

\* What a section may leave untold: no change, or a return a reading shows.
QuietMove(w, a) == a = avail \/ (a = "online" /\ local[w].call = "reading")

\* A section that tells of its change, or makes none but a return.
LEMMA SectionTold ==
    ASSUME IInv, ToldInv, NEW w \in Workers, NEW a \in Availabilities,
           \A v \in Workers : local[v].pc # "emit", told' = told,
           Become(w, a) \/ (Silently(w, a) /\ QuietMove(w, a))
    PROVE  ToldInv'
<1>1. CASE Become(w, a)
  <2> DEFINE me == [Idle EXCEPT !.pc = "emit", !.event = a]
  <2>1. local' = [local EXCEPT ![w] = me] /\ avail' = a /\ me.pc = "emit" /\ me.event = a
    BY <1>1 DEF Become, Idle
  <2> HIDE DEF me
  <2>2. local'[w] = me /\ \A v \in Workers \ {w} : local'[v] = local[v]
    BY <2>1 DEF IInv, TypeOK
  <2>3. QED
    BY <2>1, <2>2 DEF ToldInv, ToldOrReturned
<1>2. CASE Silently(w, a) /\ QuietMove(w, a)
  <2>1. /\ local' = [local EXCEPT ![w] = Idle] /\ avail' = a
        /\ returned' = IF avail = "online" THEN returned ELSE local[w].call = "reading"
    BY <1>2 DEF Silently
  <2>2. \A v \in Workers : local'[v].pc # "emit"
    BY <2>1, IdleOK DEF IInv, TypeOK
  <2>3. told = avail \/ (avail = "online" /\ returned) \/ (told = Nil /\ avail = "unknown")
    BY DEF ToldInv, ToldOrReturned
  <2>4. QED
    BY <1>2, <2>1, <2>2, <2>3 DEF ToldInv, ToldOrReturned, QuietMove
<1>3. QED
  BY <1>1, <1>2

\* Every step of calls that do not overlap leaves the sinks up to date.
LEMMA ToldStep ==
    IInv /\ ToldInv /\ OneCallAtATime /\ OneCallAtATime' /\ [Next]_vars => ToldInv'
<1> SUFFICES ASSUME IInv, ToldInv, OneCallAtATime, OneCallAtATime', [Next]_vars
             PROVE  ToldInv'
  OBVIOUS
<1>1. ASSUME NEW w \in Workers, NEW me \in Local, me.pc # "emit", local[w].pc # "emit",
             local' = [local EXCEPT ![w] = me], avail' = avail, told' = told,
             returned' = returned
      PROVE  ToldInv'
  <2>1. local'[w] = me /\ \A v \in Workers \ {w} : local'[v] = local[v]
    BY <1>1 DEF IInv, TypeOK
  <2>2. (\A v \in Workers : local'[v].pc # "emit") => \A v \in Workers : local[v].pc # "emit"
    BY <1>1, <2>1
  <2>3. QED
    BY <1>1, <2>1, <2>2 DEF ToldInv, ToldOrReturned
<1>2. ASSUME NEW w \in Workers, NEW call \in Calls, Begin(w, call) PROVE ToldInv'
  <2> DEFINE me == [Idle EXCEPT !.pc = "begun", !.call = call, !.now = clock, !.debounce = debounce]
  <2>1. me \in Local /\ me.pc = "begun"
    BY Typed, Zenon DEF Idle, Local
  <2>2. local' = [local EXCEPT ![w] = me] /\ avail' = avail /\ told' = told /\ returned' = returned /\ local[w].pc = "idle"
    BY <1>2 DEF Begin
  <2> HIDE DEF me
  <2>3. QED
    BY <1>1, <2>1, <2>2
<1>3. ASSUME NEW w \in Workers, ReadClock(w) PROVE ToldInv'
  <2> DEFINE me == [local[w] EXCEPT !.pc = "apply", !.now = clock]
  <2>1. me \in Local /\ me.pc = "apply"
    BY Typed, Zenon DEF Local
  <2>2. local' = [local EXCEPT ![w] = me] /\ avail' = avail /\ told' = told /\ returned' = returned /\ local[w].pc = "begun"
    BY <1>3, Typed DEF ReadClock, IInv, TypeOK
  <2> HIDE DEF me
  <2>3. QED
    BY <1>1, <2>1, <2>2
<1>4. ASSUME NEW w \in Workers, ApplyOnline(w) \/ ApplyReading(w) \/ ApplyOffline(w) \/ ApplyTick(w)
      PROVE  ToldInv'
  <2>1. \A v \in Workers : local[v].pc # "emit"
    BY <1>4, AloneWhileTelling
       DEF Run, ApplyOnline, ApplyReading, ApplyOffline, ApplyTick, Applies
  <2>2. PICK a \in Availabilities : Become(w, a) \/ (Silently(w, a) /\ QuietMove(w, a))
    <3>1. avail \in Availabilities /\ {"online", "offline", "offline_pending"} \subseteq Availabilities
      BY Typed DEF Availabilities
    <3>2. CASE ApplyOnline(w) \/ ApplyReading(w)
      BY <3>1, <3>2 DEF ApplyOnline, ApplyReading, Applies, QuietMove
    <3>3. CASE ApplyOffline(w)
      <4> DEFINE arms == local[w].debounce > 0 /\ offlineAt = Nil
                 to   == IF arms THEN "offline_pending"
                         ELSE IF local[w].debounce = 0 \/ Aged(w) THEN "offline" ELSE avail
      <4>1. to \in Availabilities
        BY <3>1
      <4>2. Become(w, to) \/ Silently(w, avail)
        BY <3>3 DEF ApplyOffline
      <4> HIDE DEF to
      <4>3. QED
        BY <3>1, <4>1, <4>2 DEF QuietMove
    <3>4. CASE ApplyTick(w)
      BY <3>1, <3>4 DEF ApplyTick, QuietMove
    <3>5. QED
      BY <1>4, <3>2, <3>3, <3>4
  <2>3. told' = told
    BY <1>4 DEF ApplyOnline, ApplyReading, ApplyOffline, ApplyTick, Applies
  <2>4. QED
    BY <2>1, <2>2, <2>3, SectionTold
<1>5. ASSUME NEW w \in Workers, Emit(w) PROVE ToldInv'
  <2>1. /\ local' = [local EXCEPT ![w] = Idle] /\ avail' = avail /\ local[w].pc = "emit"
        /\ told' = local[w].event
    BY <1>5 DEF Emit
  <2>2. local'[w] = Idle /\ \A v \in Workers \ {w} : local'[v] = local[v]
    BY <2>1 DEF IInv, TypeOK
  <2>3. told' = avail'
    BY <2>1 DEF ToldInv
  <2>4. QED
    BY <2>1, <2>2, <2>3, IdleOK DEF ToldInv, ToldOrReturned
<1>6. CASE Reload \/ AdvanceClock \/ UNCHANGED vars
  BY <1>6 DEF Reload, AdvanceClock, vars, ToldInv, ToldOrReturned
<1>7. QED
  BY <1>2, <1>3, <1>4, <1>5, <1>6 DEF Next, Message, TickBegins, Run, Workers, Calls

-----------------------------------------------------------------------------
(* The theorems.                                                           *)

\* Entry and calls keep their types (engine.go, SetAvailability and Tick).
THEOREM TypeCorrect == Spec => []TypeOK
<1>1. IInv => TypeOK
  BY DEF IInv
<1>2. QED
  BY <1>1, InitOK, NextOK, PTL DEF Spec

\* offline_pending and availabilityOfflineAt never disagree.
THEOREM AlwaysArmed == Spec => []DebounceArmed
<1>1. IInv => DebounceArmed
  BY DEF IInv
<1>2. QED
  BY <1>1, InitOK, NextOK, PTL DEF Spec

\* No device is confirmed offline after a silence shorter than a configured
\* debounce, but for the time a call waited for the lock.
THEOREM FlickerIgnored == Spec => FlickerNeverConfirmed
<1>1. Justified <=> (avail # "offline" /\ avail' = "offline" =>
                       \E d \in Debounces : clock + MaxDelay >= heard + d)
  BY DEF Justified
<1>2. QED
  BY <1>1, InitOK, NextOK, PTL DEF Spec, FlickerNeverConfirmed

\* If no reload turns the debounce off, only a sign of life takes a device out
\* of offline; SetAvailability never starts a confirmed absence over.
THEOREM ConfirmationStays == 0 \notin Debounces => (Spec => ConfirmedStays)
<1> SUFFICES ASSUME 0 \notin Debounces PROVE Spec => ConfirmedStays
  OBVIOUS
<1>1. Init => ConfirmedAt
  BY DEF Init, ConfirmedAt
<1>2. IInv /\ ConfirmedAt /\ [Next]_vars => ConfirmedAt' /\ Stays
  BY ConfirmedStep
<1>3. Stays <=> (avail = "offline" => avail' \in {"offline", "online"})
  BY DEF Stays
<1>4. QED
  BY <1>1, <1>2, <1>3, InitOK, NextOK, PTL DEF Spec, ConfirmedStays

\* While calls do not overlap, whoever listens to the engine's events knows the
\* present availability, but while it is a return that a reading showed: every
\* change SetAvailability and Tick make is told, and told as it is.
THEOREM SinksTold == Spec => ToldTheState
<1>1. Init => ToldInv
  BY IdleOK, AvailabilityConstants DEF Init, ToldInv, ToldOrReturned
<1>2. ToldInv => ToldOrReturned
  BY DEF ToldInv
<1>3. QED
  BY <1>1, <1>2, InitOK, NextOK, ToldStep, PTL DEF Spec, ToldTheState

\* The time from which a pending device is due never lies ahead of the clock,
\* and the first tick later than it by the debounce that the tick goes by and the
\* time it may wait for the lock finds the device due: whatever else overlaps,
\* one tick is enough (Engine.Tick).  That a tick comes is left to the run.
THEOREM DueIsConfirmed ==
    Spec => /\ [](avail = "offline_pending" => offlineAt \in Nat /\ offlineAt <= clock)
            /\ [][\A w \in Workers :
                     ApplyTick(w) /\ avail = "offline_pending"
                         /\ clock >= offlineAt + local[w].debounce + MaxDelay
                       => avail' = "offline"]_vars
<1> DEFINE Since == avail = "offline_pending" => offlineAt \in Nat /\ offlineAt <= clock
           Due   == \A w \in Workers :
                        ApplyTick(w) /\ avail = "offline_pending"
                            /\ clock >= offlineAt + local[w].debounce + MaxDelay
                          => avail' = "offline"
<1>1. IInv => Since
  BY DEF IInv, TypeOK, DebounceArmed, SilenceOK
<1>2. IInv => Due
  <2> SUFFICES ASSUME IInv, NEW w \in Workers, ApplyTick(w), avail = "offline_pending",
                      clock >= offlineAt + local[w].debounce + MaxDelay
               PROVE  avail' = "offline"
    OBVIOUS
  <2>1. /\ offlineAt \in Nat /\ offlineAt # Nil /\ clock \in Nat /\ MaxDelay \in Nat
        /\ local[w].now \in Nat /\ local[w].debounce \in Nat /\ clock <= local[w].now + MaxDelay
    BY Typed DEF ApplyTick, Applies, IInv, DebounceArmed
  <2>2. Aged(w)
    BY <2>1 DEF Aged
  <2> QED
    BY <2>2 DEF ApplyTick, Become
<1> HIDE DEF Since, Due
<1>3. Spec => []Since /\ [][Due]_vars
  BY <1>1, <1>2, InitOK, NextOK, PTL DEF Spec
<1> QED
  BY <1>3 DEF Since, Due
=============================================================================
