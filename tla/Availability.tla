----------------------------- MODULE Availability -----------------------------
(***************************************************************************)
(* The availability of one device: Engine.SetAvailability, the readings    *)
(* that show the device is alive, and the debounce that Engine.Tick        *)
(* matures.  Each call snapshots the configuration, reads the clock,       *)
(* changes the entry under the store's lock and emits its event after it   *)
(* has released it, so calls overlap and act on old times and debounces.   *)
(*                                                                         *)
(* heard, returned and told are history variables.                         *)
(***************************************************************************)
EXTENDS Naturals

CONSTANTS
    Nil,
    Handlers,    \* goroutines that carry a message
    Ticker,      \* the goroutine that ticks
    Debounces,   \* the offline debounces a reload may set
    MaxDelay,    \* bound: clock ticks before a call's clock read, and from it to its lock
    Horizon,     \* bound: no message arrives after it
    ClockMax     \* bound: the clock stops here

Availabilities == {"unknown", "online", "offline_pending", "offline"}

ASSUME AvailabilityConstants ==
    /\ Nil \notin Nat \union Availabilities
    /\ Ticker \notin Handlers
    /\ Debounces \subseteq Nat /\ Debounces # {}
    /\ MaxDelay \in Nat /\ Horizon \in Nat /\ ClockMax \in Nat

Workers == Handlers \union {Ticker}

VARIABLES
    avail,      \* Device.Availability
    offlineAt,  \* availabilityOfflineAt
    debounce,   \* the configured offline debounce
    clock,
    local,      \* each call in progress
    heard,      \* when the device was last shown to be alive
    told,       \* the availability the sinks were last told
    returned    \* the present "online" was shown by a reading alone

vars == <<avail, offlineAt, debounce, clock, local, heard, told, returned>>

Calls == {"online", "offline", "reading", "tick"}

Idle == [pc |-> "idle", call |-> "tick", now |-> 0, debounce |-> 0, event |-> Nil]

Init ==
    /\ avail = "unknown"
    /\ offlineAt = Nil
    /\ debounce \in Debounces
    /\ clock = 0
    /\ local = [w \in Workers |-> Idle]
    /\ heard = 0
    /\ told = Nil
    /\ returned = FALSE

-----------------------------------------------------------------------------
(* A call begins, and reads the clock.                                     *)

Begin(w, call) ==
    /\ local[w].pc = "idle"
    /\ local' = [local EXCEPT ![w] = [Idle EXCEPT !.pc = "begun", !.call = call,
                                                  !.now = clock, !.debounce = debounce]]
    /\ UNCHANGED <<avail, offlineAt, debounce, clock, heard, told, returned>>

Message(h, call) == clock <= Horizon /\ Begin(h, call)

TickBegins == Begin(Ticker, "tick")

ReadClock(w) ==
    /\ local[w].pc = "begun"
    /\ local' = [local EXCEPT ![w].pc = "apply", ![w].now = clock]
    /\ UNCHANGED <<avail, offlineAt, debounce, clock, heard, told, returned>>

-----------------------------------------------------------------------------
(* The critical section: what a call makes of the entry.                   *)

Applies(w, call) ==
    /\ local[w].pc = "apply"
    /\ local[w].call = call
    /\ UNCHANGED <<debounce, clock, told>>

\* The entry becomes a, an event to be told after the lock is released.
Become(w, a) ==
    /\ avail' = a
    /\ local' = [local EXCEPT ![w] = [Idle EXCEPT !.pc = "emit", !.event = a]]
    /\ returned' = FALSE

Silently(w, a) ==
    /\ avail' = a
    /\ returned' = IF avail = "online" THEN returned ELSE local[w].call = "reading"
    /\ local' = [local EXCEPT ![w] = Idle]

Aged(w) == offlineAt # Nil /\ local[w].now >= offlineAt + local[w].debounce

\* Mutant: an online report changes the entry and forgets its event.
ApplyOnlineSilently(w) ==
    /\ Applies(w, "online")
    /\ Silently(w, "online")
    /\ offlineAt' = IF avail # "online" THEN Nil ELSE offlineAt
    /\ heard' = clock

ApplyOnline(w) ==
    /\ Applies(w, "online")
    /\ IF avail # "online" THEN Become(w, "online") /\ offlineAt' = Nil
                           ELSE Silently(w, avail) /\ offlineAt' = offlineAt
    /\ heard' = clock

\* IngestReading: any reading shows the device is alive, and no event says so.
ApplyReading(w) ==
    /\ Applies(w, "reading")
    /\ Silently(w, "online")
    /\ offlineAt' = IF avail # "online" THEN Nil ELSE offlineAt
    /\ heard' = clock

\* Mutant: the debounce starts again with every offline report.
OfflineRestarting(w) ==
    LET arms == local[w].debounce > 0
        to   == IF arms THEN "offline_pending" ELSE "offline"
    IN  /\ Applies(w, "offline")
        /\ IF avail # to THEN Become(w, to) ELSE Silently(w, avail)
        /\ offlineAt' = IF arms THEN local[w].now ELSE offlineAt
        /\ UNCHANGED heard

\* An offline report arms the debounce, finds it matured, or (debounce = 0) acts
\* at once.
ApplyOffline(w) ==
    LET arms == local[w].debounce > 0 /\ offlineAt = Nil
        to   == IF arms THEN "offline_pending"
                ELSE IF local[w].debounce = 0 \/ Aged(w) THEN "offline" ELSE avail
    IN  /\ Applies(w, "offline")
        /\ IF avail # to THEN Become(w, to) ELSE Silently(w, avail)
        /\ offlineAt' = IF arms THEN local[w].now ELSE offlineAt
        /\ UNCHANGED heard

\* Mutants: the tick leaves confirming to the next offline report, or confirms
\* however briefly the device has been silent.
TickNever(w) ==
    /\ Applies(w, "tick")
    /\ Silently(w, avail)
    /\ UNCHANGED <<offlineAt, heard>>

TickAtOnce(w) ==
    /\ Applies(w, "tick")
    /\ IF avail = "offline_pending" THEN Become(w, "offline") ELSE Silently(w, avail)
    /\ UNCHANGED <<offlineAt, heard>>

\* Engine.Tick matures the debounce.
ApplyTick(w) ==
    /\ Applies(w, "tick")
    /\ IF avail = "offline_pending" /\ Aged(w) THEN Become(w, "offline") ELSE Silently(w, avail)
    /\ UNCHANGED <<offlineAt, heard>>

Emit(w) ==
    /\ local[w].pc = "emit"
    /\ told' = local[w].event
    /\ local' = [local EXCEPT ![w] = Idle]
    /\ UNCHANGED <<avail, offlineAt, debounce, clock, heard, returned>>

-----------------------------------------------------------------------------
Reload ==
    /\ clock <= Horizon
    /\ debounce' \in Debounces
    /\ UNCHANGED <<avail, offlineAt, clock, local, heard, told, returned>>

AdvanceClock ==
    /\ clock < ClockMax
    /\ \A w \in Workers : local[w].pc \in {"begun", "apply"} => clock < local[w].now + MaxDelay
    /\ clock' = clock + 1
    /\ UNCHANGED <<avail, offlineAt, debounce, local, heard, told, returned>>

Run(w) ==
    \/ ReadClock(w) \/ ApplyOnline(w) \/ ApplyReading(w)
    \/ ApplyOffline(w) \/ ApplyTick(w) \/ Emit(w)

Next ==
    \/ \E h \in Handlers, call \in {"online", "offline", "reading"} : Message(h, call)
    \/ TickBegins
    \/ \E w \in Workers : Run(w)
    \/ Reload
    \/ AdvanceClock

Spec == Init /\ [][Next]_vars

\* The ticker ticks, goroutines run and time passes; nothing need ever arrive.
FairSpec ==
    /\ Spec
    /\ WF_vars(TickBegins)
    /\ \A w \in Workers : WF_vars(Run(w))
    /\ WF_vars(AdvanceClock)

-----------------------------------------------------------------------------
(* Properties.                                                             *)

Local == [pc : {"idle", "begun", "apply", "emit"}, call : Calls, now : Nat,
          debounce : Nat, event : Availabilities \union {Nil}]

TypeOK ==
    /\ avail \in Availabilities
    /\ offlineAt \in Nat \union {Nil}
    /\ debounce \in Debounces
    /\ clock \in Nat
    /\ local \in [Workers -> Local]
    /\ heard \in Nat
    /\ told \in Availabilities \union {Nil}
    /\ returned \in BOOLEAN

\* A device that is pending has a time from which the tick can confirm it, and
\* one that answered, or never spoke, carries none from an earlier silence:
\* else the next silence would be confirmed at once, or never.
DebounceArmed ==
    /\ avail = "offline_pending" => offlineAt # Nil
    /\ avail \in {"unknown", "online"} => offlineAt = Nil

\* A device is confirmed offline only after a silence of a whole configured
\* debounce, however calls overlap, but for the time a call may have waited
\* between reading the clock and taking the lock.
FlickerNeverConfirmed ==
    [][avail # "offline" /\ avail' = "offline" =>
         \E d \in Debounces : clock + MaxDelay >= heard + d]_vars

\* Unless a reload may turn the debounce off, only a sign of life takes a device
\* out of offline: a late or repeated offline report never starts over.
ConfirmedStays ==
    [][avail = "offline" => avail' \in {"offline", "online"}]_vars

\* The order the tests use: a call begins when none is in progress.
OneCallAtATime ==
    \A v, w \in Workers : v # w => "idle" \in {local[v].pc, local[w].pc}

ToldOrReturned ==
    (\A w \in Workers : local[w].pc # "emit") =>
        \/ told = avail
        \/ avail = "online" /\ returned
        \/ told = Nil /\ avail = "unknown"

\* As long as calls do not overlap, the sinks have been told of the present
\* availability, except while it is a return that a reading showed, which no
\* event tells (an online report that comes later finds nothing to change).
ToldTheState == []OneCallAtATime => []ToldOrReturned

\* A pending device is confirmed or heard of again, even if no message comes.
PendingResolves == avail = "offline_pending" ~> avail # "offline_pending"
=============================================================================
