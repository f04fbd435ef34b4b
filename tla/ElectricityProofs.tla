--------------------------- MODULE ElectricityProofs ---------------------------
(***************************************************************************)
(* Proofs about Electricity for any devices, handlers, stamps and bounds.  *)
(* 1.  Publication: what a meter reading on time comes to.  The argument   *)
(*     is about stamps and about copies that are still what was copied.    *)
(* 2.  Energy: the parts add up to the whole, which needs that the powers  *)
(*     summed over a finite set of plugs are integers.                     *)
(* 3.  Energy: no slice of time counts twice.                              *)
(***************************************************************************)
EXTENDS Electricity, FiniteSetTheorems, TLAPS

\* A handler's state is a record of its call; its reading has a stamp.
CallOK(me) ==
    /\ DOMAIN me = {"pc", "device", "at", "total", "agg", "whole"}
    /\ me.pc \in {"idle", "copy", "publish"} /\ me.device \in Devices \union {0}
    /\ me.at \in Int /\ me.at <= clock + MaxSkew
    /\ me.total \in OptInt /\ me.agg.stale \subseteq Plugs /\ me.whole \in BOOLEAN

\* What is published is what was guarded: the summary's time is the time the
\* guard compares with, and no further ahead of the clock than a stamp may be.
PublishedOK ==
    /\ lastElecAt \in OptInt /\ since \in OptInt
    /\ lastElecAt # Nil => lastElecAt <= clock + MaxSkew
    /\ today \in OptInt
    /\ summary.at = lastElecAt /\ summary.today = today /\ summary.stale \subseteq Plugs

StoresOK ==
    /\ latest \in [Devices -> [watts : OptInt, seen : Int]]
    /\ absent \subseteq Plugs

IInv ==
    /\ clock \in Nat
    /\ DOMAIN local = Handlers
    /\ \A h \in Handlers : CallOK(local[h])
    /\ PublishedOK
    /\ StoresOK

LEMMA IdleOK == clock \in Nat => CallOK(Idle)
  BY ElectricityConstants DEF CallOK, Idle, NoAggregate, OptInt

LEMMA InitOK == Init => IInv
<1> SUFFICES ASSUME Init PROVE IInv
  OBVIOUS
<1>1. \A h \in Handlers : CallOK(local[h])
  BY IdleOK DEF Init
<1>2. PublishedOK
  BY DEF Init, NoSummary, PublishedOK, OptInt
<1>3. StoresOK
  BY DEF Init, StoresOK, OptInt
<1>4. QED
  BY <1>1, <1>2, <1>3 DEF Init, IInv

\* A call that was disturbed differs in its mark only.
LEMMA DisturbedOK ==
    ASSUME IInv
    PROVE  /\ DOMAIN Disturbed = Handlers
           /\ \A g \in Handlers : /\ CallOK(Disturbed[g])
                                  /\ Disturbed[g].agg = local[g].agg /\ ~Disturbed[g].whole
  BY DEF IInv, CallOK, Disturbed

\* A step of h that leaves it in the state me, and the others as they were or
\* disturbed.
LEMMA HandlerStep ==
    ASSUME IInv, NEW h \in Handlers, NEW me, CallOK(me), UNCHANGED clock,
           local' = [local EXCEPT ![h] = me] \/ local' = [Disturbed EXCEPT ![h] = me]
    PROVE  DOMAIN local' = Handlers /\ \A g \in Handlers : CallOK(local[g])'
<1>1. DOMAIN local' = Handlers
  BY DisturbedOK DEF IInv
<1>2. ASSUME NEW g \in Handlers PROVE CallOK(local[g])'
  <2>1. local'[g] = (IF g = h THEN me ELSE local[g]) \/ local'[g] = (IF g = h THEN me ELSE Disturbed[g])
    BY DisturbedOK DEF IInv
  <2>2. CallOK(local'[g])
    BY <2>1, DisturbedOK DEF IInv
  <2>3. QED
    BY <2>2 DEF CallOK
<1>3. QED
  BY <1>1, <1>2

LEMMA StillWithin ==
    ASSUME NEW x \in Int, NEW c \in Int, NEW later \in Int, NEW k \in Int, x <= c + k, c <= later
    PROVE  x <= later + k
  OBVIOUS

\* What does not publish only has to leave the stores and the calls in order.
LEMMA QuietStep ==
    ASSUME IInv, clock' \in Nat, clock' >= clock, UNCHANGED <<lastElecAt, today, summary, since>>,
           DOMAIN local' = Handlers, \A g \in Handlers : CallOK(local[g])', StoresOK'
    PROVE  IInv'
<1>1. PublishedOK'
  <2>1. PublishedOK /\ clock \in Nat
    BY DEF IInv
  <2>2. ASSUME lastElecAt # Nil PROVE lastElecAt <= clock' + MaxSkew
    <3>1. lastElecAt \in Int /\ lastElecAt <= clock + MaxSkew /\ MaxSkew \in Nat
      BY <2>1, <2>2, ElectricityConstants DEF PublishedOK, OptInt
    <3>2. clock \in Int /\ clock' \in Int /\ clock <= clock' /\ MaxSkew \in Int
      BY <2>1, <3>1
    <3>3. QED
      BY <3>1, <3>2, StillWithin
  <2>3. QED
    BY <2>1, <2>2 DEF PublishedOK
<1>2. QED
  BY <1>1 DEF IInv

LEMMA IngestOK ==
    ASSUME IInv, NEW h \in Handlers, NEW d \in Devices, NEW at \in Stamps, NEW w \in Int,
           NEW t \in OptInt, Ingest(h, d, at, w, t)
    PROVE  IInv'
<1> DEFINE me == [Idle EXCEPT !.pc = "copy", !.device = d, !.at = at, !.total = t]
           record == [watts |-> w, seen |-> at]
<1>1. at \in Int /\ clock \in Nat /\ at <= clock + MaxSkew
  BY ElectricityConstants DEF Stamps, IInv
<1>2. CallOK(me)
  BY <1>1 DEF CallOK, Idle, NoAggregate
<1>3. local' = [Disturbed EXCEPT ![h] = me] /\ UNCHANGED <<clock, lastElecAt, today, summary, since>>
  BY DEF Ingest
<1> HIDE DEF me
<1>4. DOMAIN local' = Handlers /\ \A g \in Handlers : CallOK(local[g])'
  BY <1>2, <1>3, HandlerStep
<1>5. StoresOK'
  <2>1. record \in [watts : OptInt, seen : Int]
    BY <1>1 DEF OptInt
  <2>2. latest' = [latest EXCEPT ![d] = record] /\ absent' = absent \ {d}
    BY DEF Ingest
  <2> HIDE DEF record
  <2>3. QED
    BY <2>1, <2>2 DEF IInv, StoresOK
<1>6. QED
  BY <1>1, <1>3, <1>4, <1>5, QuietStep

LEMMA CopyOK ==
    ASSUME IInv, NEW h \in Handlers, CopyDevices(h)
    PROVE  IInv'
<1> DEFINE whole  == local[h].device \in Meters
           copied == [local[h] EXCEPT !.pc = "publish", !.agg = Aggregate(local[h].at), !.whole = whole]
           me == IF Reporting(Meters) = {} THEN Idle ELSE copied
<1>1. clock \in Nat /\ CallOK(local[h]) /\ StoresOK
  BY DEF IInv
<1>2. CallOK(me)
  <2>1. Aggregate(local[h].at).stale \subseteq Plugs
    BY DEF Aggregate, Reporting
  <2>2. CallOK(copied)
    BY <1>1, <2>1 DEF CallOK
  <2>3. QED
    BY <1>1, <2>2, IdleOK
<1>3. local' = [local EXCEPT ![h] = me]
      /\ UNCHANGED <<clock, latest, absent, lastElecAt, today, summary, since>>
  BY DEF CopyDevices
<1> HIDE DEF me
<1>4. DOMAIN local' = Handlers /\ \A g \in Handlers : CallOK(local[g])'
  BY <1>2, <1>3, HandlerStep
<1>5. StoresOK' /\ clock' \in Nat /\ clock' >= clock
  BY <1>1, <1>3 DEF StoresOK
<1>6. QED
  BY <1>3, <1>4, <1>5, QuietStep

LEMMA PublishOK ==
    ASSUME IInv, NEW h \in Handlers, Publish(h)
    PROVE  IInv'
<1>1. clock \in Nat /\ CallOK(local[h]) /\ StoresOK /\ PublishedOK
  BY DEF IInv
<1>2. local' = [local EXCEPT ![h] = Idle] /\ UNCHANGED <<clock, latest, absent>>
  BY DEF Publish
<1>3. DOMAIN local' = Handlers /\ \A g \in Handlers : CallOK(local[g])'
  BY <1>1, <1>2, IdleOK, HandlerStep
<1>4. StoresOK' /\ clock' \in Nat /\ clock' >= clock
  BY <1>1, <1>2 DEF StoresOK
<1>5. CASE ~Newer(h)
  <2>1. UNCHANGED <<lastElecAt, today, summary, since>>
    BY <1>5 DEF Publish
  <2>2. QED
    BY <1>3, <1>4, <2>1, QuietStep
<1>6. CASE Newer(h)
  <2> DEFINE at == local[h].at
             total == local[h].total
             stale == local[h].agg.stale
  <2>1. at \in Int /\ stale \subseteq Plugs /\ at <= clock + MaxSkew /\ total \in OptInt
    BY <1>1 DEF CallOK
  <2>2. /\ lastElecAt' = at /\ summary'.at = at /\ summary'.today = today'
        /\ summary'.stale = stale
        /\ today' \in {total, today}
        /\ since' = (IF since = Nil THEN at ELSE since)
    BY <1>6 DEF Publish
  <2> HIDE DEF at, stale, total
  <2>3. PublishedOK'
    <3>1. /\ lastElecAt' \in OptInt /\ since' \in OptInt /\ today' \in OptInt
          /\ summary'.stale \subseteq Plugs
      BY <1>1, <2>1, <2>2 DEF PublishedOK, OptInt
    <3>2. lastElecAt' <= clock' + MaxSkew
      BY <1>2, <2>1, <2>2
    <3>3. QED
      BY <2>2, <3>1, <3>2 DEF PublishedOK
  <2>4. QED
    BY <1>3, <1>4, <2>3 DEF IInv
<1>7. QED
  BY <1>5, <1>6

LEMMA AdvanceClockOK ==
    ASSUME IInv, AdvanceClock
    PROVE  IInv'
<1>1. clock \in Nat /\ StoresOK /\ \A h \in Handlers : CallOK(local[h])
  BY DEF IInv
<1>2. clock' = clock + 1
      /\ UNCHANGED <<latest, absent, local, lastElecAt, today, summary, since>>
  BY DEF AdvanceClock
<1>3. clock' \in Nat /\ clock' >= clock
  BY <1>1, <1>2
<1>4. \A h \in Handlers : CallOK(local[h])'
  BY <1>1, <1>2, ElectricityConstants DEF CallOK
<1>5. DOMAIN local' = Handlers /\ StoresOK'
  BY <1>1, <1>2 DEF IInv, StoresOK
<1>6. QED
  BY <1>2, <1>3, <1>4, <1>5, QuietStep

LEMMA GoOfflineOK ==
    ASSUME IInv, NEW d \in Plugs, GoOffline(d)
    PROVE  IInv'
<1>1. /\ UNCHANGED <<clock, latest, lastElecAt, today, summary, since>>
      /\ local' = Disturbed /\ absent' = absent \union {d}
  BY DEF GoOffline
<1>2. clock \in Nat /\ StoresOK
  BY DEF IInv
<1>3. DOMAIN local' = Handlers /\ \A g \in Handlers : CallOK(local[g])'
  BY <1>1, DisturbedOK DEF CallOK
<1>4. StoresOK' /\ clock' \in Nat /\ clock' >= clock
  BY <1>1, <1>2 DEF StoresOK
<1>5. QED
  BY <1>1, <1>3, <1>4, QuietStep

LEMMA NextOK == IInv /\ [Next]_vars => IInv'
<1> SUFFICES ASSUME IInv, [Next]_vars PROVE IInv'
  OBVIOUS
<1>1. ASSUME NEW h \in Handlers, NEW at \in Stamps, NEW d \in Plugs, NEW w \in Watts,
             Ingest(h, d, at, w, Nil)
      PROVE  IInv'
  <2>1. d \in Devices /\ w \in Int /\ Nil \in OptInt
    BY ElectricityConstants DEF Devices, OptInt
  <2>2. QED
    BY <1>1, <2>1, IngestOK
<1>2. ASSUME NEW h \in Handlers, NEW at \in Stamps, NEW d \in Meters, NEW w \in MeterWatts,
             NEW t \in Totals \union {Nil}, Ingest(h, d, at, w, t)
      PROVE  IInv'
  <2>1. d \in Devices /\ w \in Int /\ t \in OptInt
    BY ElectricityConstants DEF Devices, OptInt
  <2>2. QED
    BY <1>2, <2>1, IngestOK
<1>3. ASSUME NEW h \in Handlers, CopyDevices(h) \/ Publish(h)
      PROVE  IInv'
  BY <1>3, CopyOK, PublishOK
<1>4. CASE AdvanceClock
  BY <1>4, AdvanceClockOK
<1>5. CASE UNCHANGED vars
  <2>1. UNCHANGED <<clock, latest, absent, local, lastElecAt, today, summary, since>>
    BY <1>5 DEF vars
  <2>2. clock \in Nat /\ StoresOK /\ DOMAIN local = Handlers /\ \A h \in Handlers : CallOK(local[h])
    BY DEF IInv
  <2>3. DOMAIN local' = Handlers /\ \A g \in Handlers : CallOK(local[g])'
    BY <2>1, <2>2 DEF CallOK
  <2>4. StoresOK' /\ clock' \in Nat /\ clock' >= clock
    BY <2>1, <2>2 DEF StoresOK
  <2>5. QED
    BY <2>1, <2>3, <2>4, QuietStep
<1>6. QED
  BY <1>1, <1>2, <1>3, <1>4, <1>5, GoOfflineOK DEF Next

\* Devices, stamps and the stages of every call keep their types.
THEOREM TypeCorrect == Spec => []TypeOK
<1>1. IInv => TypeOK
  <2> SUFFICES ASSUME IInv PROVE TypeOK
    OBVIOUS
  <2>1. clock \in Nat /\ StoresOK /\ PublishedOK /\ \A h \in Handlers : CallOK(local[h])
    BY DEF IInv
  <2>2. QED
    BY <2>1 DEF TypeOK, StoresOK, PublishedOK, CallOK
<1>2. QED
  BY <1>1, InitOK, NextOK, PTL DEF Spec

TotalWatts(r, ids) == MapThenSumSet(LAMBDA d : r[d].watts, ids)

\* Aggregate as a function of the records and of who is absent.
AggregateOf(records, gone, at) ==
    LET known(ids) == {d \in ids : records[d].watts # Nil}
        fresh == {d \in known(Plugs) : d \notin gone /\ at - records[d].seen <= Staleness}
    IN  [gross     |-> records[Min(known(Meters))].watts,
         monitored |-> TotalWatts(records, fresh),
         stale     |-> known(Plugs) \ fresh]

LEMMA AggregateIs == ASSUME NEW at PROVE Aggregate(at) = AggregateOf(latest, absent, at)
  BY DEF Aggregate, AggregateOf, TotalWatts, GrossWatts, Fresh, Reporting

\* A copy of the devices that nothing has changed since is what it was.
WholeInv ==
    \A h \in Handlers :
        local[h].whole => local[h].agg = AggregateOf(latest, absent, local[h].at)

LEMMA WholeNext == IInv /\ WholeInv /\ [Next]_vars => WholeInv'
<1> SUFFICES ASSUME IInv, WholeInv, [Next]_vars, NEW g \in Handlers, local'[g].whole
             PROVE  local'[g].agg = AggregateOf(latest', absent', local'[g].at)
  BY Zenon DEF WholeInv
<1>1. ASSUME NEW h \in Handlers, NEW d, NEW at, NEW w, NEW t, Ingest(h, d, at, w, t)
      PROVE  FALSE
  <2> DEFINE me == [Idle EXCEPT !.pc = "copy", !.device = d, !.at = at, !.total = t]
  <2>1. local' = [Disturbed EXCEPT ![h] = me] /\ me.whole = FALSE
    BY <1>1 DEF Ingest, Idle
  <2> HIDE DEF me
  <2>2. local'[g] = IF g = h THEN me ELSE Disturbed[g]
    BY <2>1, DisturbedOK
  <2>3. QED
    BY <2>1, <2>2, DisturbedOK
<1>2. ASSUME NEW d \in Plugs, GoOffline(d) PROVE FALSE
  BY <1>2, DisturbedOK DEF GoOffline
<1>3. ASSUME UNCHANGED <<latest, absent>>, local'[g] = local[g]
      PROVE  local'[g].agg = AggregateOf(latest', absent', local'[g].at)
  BY <1>3 DEF WholeInv
<1>4. ASSUME NEW h \in Handlers, CopyDevices(h)
      PROVE  local'[g].agg = AggregateOf(latest', absent', local'[g].at)
  <2> DEFINE agg == Aggregate(local[h].at)
             whole == local[h].device \in Meters
             copied == [local[h] EXCEPT !.pc = "publish", !.agg = agg, !.whole = whole]
             me == IF Reporting(Meters) = {} THEN Idle ELSE copied
  <2>1. local' = [local EXCEPT ![h] = me] /\ UNCHANGED <<latest, absent>>
    BY <1>4 DEF CopyDevices
  <2>2. CASE g # h
    BY <1>3, <2>1, <2>2
  <2>3. CASE g = h
    <3>1. local'[h] = me
      BY <2>1 DEF IInv
    <3>2. me = copied
      BY <2>3, <3>1 DEF Idle
    <3>3. local'[h].agg = agg /\ local'[h].at = local[h].at
      BY <3>1, <3>2 DEF IInv, CallOK
    <3>4. agg = AggregateOf(latest, absent, local[h].at)
      BY AggregateIs
    <3> HIDE DEF agg
    <3>5. QED
      BY <2>1, <2>3, <3>3, <3>4
  <2>4. QED
    BY <2>2, <2>3
<1>5. ASSUME NEW h \in Handlers, Publish(h)
      PROVE  local'[g].agg = AggregateOf(latest', absent', local'[g].at)
  <2>1. local' = [local EXCEPT ![h] = Idle] /\ UNCHANGED <<latest, absent>>
    BY <1>5 DEF Publish
  <2>2. g # h
    BY <2>1 DEF IInv, Idle
  <2>3. QED
    BY <1>3, <2>1, <2>2
<1>6. CASE AdvanceClock \/ UNCHANGED vars
  BY <1>3, <1>6 DEF AdvanceClock, vars
<1>7. QED
  BY <1>1, <1>2, <1>4, <1>5, <1>6 DEF Next

\* A call that leaves the publishing stage has published or been discarded.
LEMMA LeavesByPublish ==
    ASSUME IInv, [Next]_vars, NEW h \in Handlers, local[h].pc = "publish", local'[h].pc = "idle"
    PROVE  Publish(h)
<1>1. \A g \in Handlers : Disturbed[g].pc = local[g].pc
  BY DEF IInv, CallOK, Disturbed
<1>2. ASSUME NEW g \in Handlers, NEW d, NEW at, NEW w, NEW t, Ingest(g, d, at, w, t)
      PROVE  FALSE
  <2>1. /\ local[g].pc = "idle"
        /\ local' = [Disturbed EXCEPT ![g] = [Idle EXCEPT !.pc = "copy", !.device = d, !.at = at, !.total = t]]
    BY <1>2 DEF Ingest
  <2>2. local'[h] = Disturbed[h]
    BY <2>1
  <2>3. QED
    BY <1>1, <2>2
<1>3. ASSUME NEW g \in Handlers, g # h, CopyDevices(g) \/ Publish(g)
      PROVE  FALSE
  <2>1. local'[h] = local[h]
    BY <1>3 DEF CopyDevices, Publish, IInv
  <2>2. QED
    BY <2>1
<1>4. ~CopyDevices(h)
  BY DEF CopyDevices
<1>5. ASSUME NEW d \in Plugs, GoOffline(d) PROVE FALSE
  BY <1>1, <1>5 DEF GoOffline
<1>6. ASSUME UNCHANGED local PROVE FALSE
  BY <1>6
<1>7. QED
  BY <1>2, <1>3, <1>4, <1>5, <1>6 DEF Next, AdvanceClock, vars

\* What becomes of a call of h for a meter's reading that is stamped with the
\* present: dropped for a summary no further ahead than a stamp may be, or
\* published with what the devices come to.
Outcome(h) ==
    LET me == local[h] IN
    \/ /\ summary'.at \in clock..(clock + MaxSkew) /\ summary.at = summary'.at
       /\ UNCHANGED <<summary, integrators>>
    \/ /\ summary'.at = clock
       /\ summary.at # Nil => summary.at < clock
       /\ me.total # Nil => summary'.today = me.total
       /\ me.whole => LET agg == Aggregate(clock) IN
             /\ summary'.gross = agg.gross /\ summary'.monitored = agg.monitored
             /\ summary'.stale = agg.stale

LEMMA OnTimeStep ==
    ASSUME IInv, WholeInv, [Next]_vars, NEW h \in Handlers,
           local[h].pc = "publish", local'[h].pc = "idle",
           local[h].device \in Meters, local[h].at = clock
    PROVE  Outcome(h)
<1>1. clock \in Nat /\ CallOK(local[h]) /\ PublishedOK
  BY DEF IInv
<1>2. Publish(h)
  BY LeavesByPublish
<1>3. CASE ~Newer(h)
  <2>1. UNCHANGED <<summary, integrators>>
    BY <1>2, <1>3 DEF Publish
  <2>2. lastElecAt # Nil /\ ~(clock > lastElecAt)
    BY <1>3 DEF Newer
  <2>3. lastElecAt \in clock..(clock + MaxSkew)
    BY <1>1, <2>2, ElectricityConstants DEF PublishedOK, OptInt
  <2>4. QED
    BY <1>1, <2>1, <2>3 DEF PublishedOK, Outcome
<1>4. CASE Newer(h)
  <2> DEFINE a == local[h].agg
  <2>1. /\ summary'.at = clock /\ summary'.gross = a.gross /\ summary'.monitored = a.monitored
        /\ summary'.stale = a.stale /\ summary'.today = today'
        /\ local[h].total # Nil => today' = local[h].total
    BY <1>2, <1>4 DEF Publish
  <2>2. summary.at # Nil => summary.at < clock
    BY <1>1, <1>4 DEF Newer, PublishedOK, OptInt
  <2>3. local[h].whole => a = Aggregate(clock)
    BY AggregateIs DEF WholeInv
  <2> HIDE DEF a
  <2>4. QED
    BY <2>1, <2>2, <2>3 DEF Outcome
<1>5. QED
  BY <1>3, <1>4

\* Whatever stamps are ahead of the clock, and however calls overlap: a meter
\* reading that is on time is dropped only for a summary stamped with the present
\* or with what the clock reaches within MaxSkew, and if it is published the
\* summary is what the devices come to, discarded readings included, and carries
\* the meter's own count of the period.
THEOREM OnTimeCounts == Spec => OnTimeMeterTickCounts
<1> DEFINE OnTime ==
        \A h \in Handlers :
            /\ local[h].pc = "publish" /\ local'[h].pc = "idle"
            /\ local[h].device \in Meters /\ local[h].at = clock
            => Outcome(h)
<1>1. Init => IInv /\ WholeInv
  BY InitOK DEF Init, WholeInv, Idle
<1>2. (IInv /\ WholeInv) /\ [Next]_vars => (IInv /\ WholeInv)' /\ OnTime
  BY NextOK, WholeNext, OnTimeStep
<1> HIDE DEF OnTime
<1>3. Spec => [][OnTime]_vars
  BY <1>1, <1>2, PTL DEF Spec
<1>4. QED
  BY <1>3 DEF OnTimeMeterTickCounts, OnTime, Outcome

-----------------------------------------------------------------------------
(* The sum over the fresh plugs is a number.  The library sums a set by a  *)
(* function defined by recursion on its subsets; that there is such a      *)
(* function, and that its values are integers, goes by induction on the    *)
(* size of a subset.  The library's induction theorems take an operator    *)
(* and cannot be used, so induction is stated about a set of numbers and   *)
(* rests on the least element of its complement.                           *)

LEMMA LeastNatural ==
    ASSUME NEW T \in SUBSET Nat, T # {}
    PROVE  \E m \in T : \A k \in T : m <= k
<1> DEFINE Less == OpToRel(<, Nat)
<1>1. IsWellFoundedOn(Less, Nat)
  BY NatLessThanWellFounded
<1>2. Less = {ss \in Nat \X Nat : ss[1] < ss[2]}
  BY DEF OpToRel
<1> HIDE DEF Less
<1>3. PICK m \in T : \A k \in T : ~ (<<k, m>> \in Less)
  BY <1>1, WFMin
<1>4. ASSUME NEW k \in T PROVE m <= k
  <2>1. k \in Nat /\ m \in Nat /\ ~ (<<k, m>> \in Less)
    BY <1>3
  <2>2. ~ (k < m)
    BY <1>2, <2>1
  <2>3. QED
    BY <2>1, <2>2
<1>5. QED
  BY <1>4

LEMMA SetInduction ==
    ASSUME NEW T \in SUBSET Nat, 0 \in T, \A n \in T : n + 1 \in T
    PROVE  T = Nat
<1>1. SUFFICES ASSUME Nat \ T # {} PROVE FALSE
  OBVIOUS
<1>2. PICK m \in Nat \ T : \A k \in Nat \ T : m <= k
  BY <1>1, LeastNatural
<1>3. m # 0 /\ m - 1 \in Nat \ T
  OBVIOUS
<1>4. QED
  BY <1>2, <1>3

LEMMA SumIsInt ==
    ASSUME NEW r, NEW S, IsFiniteSet(S), \A x \in S : r[x].watts \in Int
    PROVE  TotalWatts(r, S) \in Int
<1> DEFINE c(s)     == CHOOSE x \in s : TRUE
           Def(g,s) == IF s = {} THEN 0 ELSE r[c(s)].watts + g[s \ {c(s)}]
           Upto(n)  == {s \in SUBSET S : Cardinality(s) <= n}
           Sums(g)  == g = [s \in SUBSET S |-> Def(g, s)]
<1>1. ASSUME NEW s \in SUBSET S
      PROVE  /\ Cardinality(s) \in Nat /\ Cardinality(s) <= Cardinality(S)
             /\ s = {} <=> Cardinality(s) = 0
             /\ s # {} => /\ c(s) \in s /\ r[c(s)].watts \in Int
                          /\ s \ {c(s)} \in SUBSET S
                          /\ Cardinality(s \ {c(s)}) = Cardinality(s) - 1
  <2>1. IsFiniteSet(s) /\ Cardinality(s) \in Nat /\ Cardinality(s) <= Cardinality(S)
    BY FS_Subset, FS_CardinalityType
  <2>2. s = {} <=> Cardinality(s) = 0
    BY <2>1, FS_EmptySet
  <2>3. s # {} => c(s) \in s
    OBVIOUS
  <2>4. s # {} => Cardinality(s \ {c(s)}) = Cardinality(s) - 1
    BY <2>1, <2>3, FS_RemoveElement
  <2>5. QED
    BY <2>1, <2>2, <2>3, <2>4
<1>2. /\ \A s \in Upto(0) : s = {}
      /\ Upto(Cardinality(S)) = SUBSET S /\ Cardinality(S) \in Nat
      /\ \A n \in Nat : /\ {} \in Upto(n)
                        /\ \A s \in Upto(n) : s \in Upto(n + 1)
                        /\ \A s \in Upto(n + 1) : s # {} => s \ {c(s)} \in Upto(n)
      /\ \A n \in Nat : \A s \in Upto(n) : s # {} => r[c(s)].watts \in Int
  <2> HIDE DEF c
  <2>1. ASSUME NEW s \in Upto(0) PROVE s = {}
    <3>1. s \in SUBSET S /\ Cardinality(s) <= 0
      OBVIOUS
    <3>2. Cardinality(s) \in Nat /\ (Cardinality(s) = 0 => s = {})
      <4> HIDE DEF Upto
      <4>1. QED
        BY <1>1, <3>1
    <3>3. QED
      BY <3>1, <3>2
  <2>2. Upto(Cardinality(S)) = SUBSET S /\ Cardinality(S) \in Nat
    BY <1>1
  <2>3. ASSUME NEW n \in Nat
        PROVE  /\ {} \in Upto(n)
               /\ \A s \in Upto(n) : s \in Upto(n + 1)
               /\ \A s \in Upto(n + 1) : s # {} => s \ {c(s)} \in Upto(n)
    <3>1. {} \in SUBSET S /\ Cardinality({}) <= n
      BY FS_EmptySet
    <3>2. ASSUME NEW s \in Upto(n) PROVE s \in Upto(n + 1)
      <4>1. s \in SUBSET S /\ Cardinality(s) \in Nat /\ Cardinality(s) <= n
        BY <1>1
      <4>2. QED
        BY <4>1
    <3>3. ASSUME NEW s \in Upto(n + 1), s # {} PROVE s \ {c(s)} \in Upto(n)
      <4>1. s \in SUBSET S /\ Cardinality(s) \in Nat /\ Cardinality(s) <= n + 1
        BY <1>1
      <4>2. s \ {c(s)} \in SUBSET S /\ Cardinality(s \ {c(s)}) = Cardinality(s) - 1
        BY <1>1, <3>3, <4>1
      <4>3. QED
        BY <4>1, <4>2
    <3>4. QED
      BY <3>1, <3>2, <3>3
  <2>4. \A n \in Nat : \A s \in Upto(n) : s # {} => r[c(s)].watts \in Int
    BY <1>1
  <2>5. QED
    BY <2>1, <2>2, <2>3, <2>4
<1> HIDE DEF c, Upto
<1>3. \A n \in Nat : \E g \in [Upto(n) -> Int] : \A s \in Upto(n) : g[s] = Def(g, s)
  <2> DEFINE T == {n \in Nat : \E g \in [Upto(n) -> Int] : \A s \in Upto(n) : g[s] = Def(g, s)}
  <2>1. 0 \in T
    <3> DEFINE g == [s \in Upto(0) |-> 0]
    <3>1. g \in [Upto(0) -> Int] /\ \A s \in Upto(0) : g[s] = Def(g, s)
      BY <1>2
    <3>2. QED
      BY <3>1
  <2>2. ASSUME NEW n \in T PROVE n + 1 \in T
    <3>1. PICK g \in [Upto(n) -> Int] : \A s \in Upto(n) : g[s] = Def(g, s)
      OBVIOUS
    <3> DEFINE f == [s \in Upto(n + 1) |-> Def(g, s)]
    <3>2. \A s \in Upto(n + 1) : s # {} => /\ s \ {c(s)} \in Upto(n)
                                           /\ r[c(s)].watts \in Int
      BY <1>2
    <3>3. f \in [Upto(n + 1) -> Int]
      BY <3>1, <3>2
    <3>4. \A s \in Upto(n) : f[s] = g[s]
      BY <1>2, <3>1
    <3>5. \A s \in Upto(n + 1) : f[s] = Def(f, s)
      BY <3>2, <3>4
    <3> HIDE DEF f, Def
    <3>6. QED
      BY <3>3, <3>5
  <2>3. T = Nat
    <3> HIDE DEF T
    <3>1. T \in SUBSET Nat
      BY DEF T
    <3>2. QED
      BY <2>1, <2>2, <3>1, SetInduction
  <2>4. QED
    BY <2>3
<1>4. \E g : Sums(g)
  <2> HIDE DEF Def
  <2>1. Cardinality(S) \in Nat /\ Upto(Cardinality(S)) = SUBSET S
    BY <1>2
  <2>2. \E g \in [Upto(Cardinality(S)) -> Int] : \A s \in Upto(Cardinality(S)) : g[s] = Def(g, s)
    BY <1>3, <2>1
  <2>3. PICK g \in [SUBSET S -> Int] : \A s \in SUBSET S : g[s] = Def(g, s)
    BY <2>1, <2>2
  <2>4. g = [s \in SUBSET S |-> Def(g, s)]
    BY <2>3
  <2>5. QED
    BY <2>4
<1>5. ASSUME NEW g, Sums(g) PROVE g[S] \in Int
  <2>1. \A n \in Nat : \A s \in Upto(n) : s \in SUBSET S
    BY DEF Upto
  <2>2. \A s \in SUBSET S : g[s] = Def(g, s)
    BY <1>5
  <2> DEFINE T == {n \in Nat : \A s \in Upto(n) : g[s] \in Int}
  <2>3. 0 \in T
    <3>1. {} \in SUBSET S /\ g[{}] = 0
      BY <2>2
    <3>2. ASSUME NEW s \in Upto(0) PROVE g[s] \in Int
      <4>1. s = {}
        BY <1>2
      <4>2. QED
        BY <3>1, <4>1
    <3>3. QED
      BY <3>2
  <2>4. ASSUME NEW n \in T PROVE n + 1 \in T
    <3>1. n \in Nat /\ n + 1 \in Nat /\ \A s \in Upto(n) : g[s] \in Int
      BY <2>4
    <3>2. ASSUME NEW s \in Upto(n + 1) PROVE g[s] \in Int
      <4>1. s \in SUBSET S /\ g[s] = Def(g, s)
        BY <2>1, <2>2, <3>1
      <4>2. CASE s = {}
        BY <4>1, <4>2
      <4>3. CASE s # {}
        <5>1. g[s \ {c(s)}] \in Int /\ r[c(s)].watts \in Int
          BY <1>2, <3>1, <4>3
        <5>2. QED
          BY <4>1, <4>3, <5>1
      <4>4. QED
        BY <4>2, <4>3
    <3>3. QED
      BY <3>1, <3>2
  <2>5. T = Nat
    <3> HIDE DEF T
    <3>1. T \in SUBSET Nat
      BY DEF T
    <3>2. QED
      BY <2>3, <2>4, <3>1, SetInduction
  <2>6. QED
    BY <1>2, <2>5
<1>6. TotalWatts(r, S) = (CHOOSE g : Sums(g))[S]
  BY DEF TotalWatts, MapThenSumSet, MapThenFoldSet, c
<1> HIDE DEF Sums
<1>7. QED
  BY <1>4, <1>5, <1>6

-----------------------------------------------------------------------------
(* The parts and the whole.  Of the three integrators each keeps its own   *)
(* last power and its own total; they are told together, so they agree on  *)
(* when and whether there was a last power, and each difference between    *)
(* the whole and its parts stays zero.                                     *)

Parts(agg) == agg.gross \in Int /\ agg.monitored \in Int

Held(i) == i.lastWatts \in OptInt /\ i.lastAt \in Int /\ i.total \in Int

SplitOf(g, m, u) ==
    /\ Held(g) /\ Held(m) /\ Held(u)
    /\ m.lastAt = g.lastAt /\ u.lastAt = g.lastAt
    /\ g.lastWatts = Nil <=> m.lastWatts = Nil
    /\ g.lastWatts = Nil <=> u.lastWatts = Nil
    /\ g.lastWatts # Nil => g.lastWatts = m.lastWatts + u.lastWatts
    /\ g.total = m.total + u.total

SplitInv ==
    /\ \A h \in Handlers : Parts(local[h].agg)
    /\ SplitOf(integrators.gross, integrators.monitored, integrators.unmonitored)
    /\ Additive

LEMMA Distributes ==
    ASSUME NEW x \in Int, NEW y \in Int, NEW z \in Int, NEW d \in Int, x = y + z
    PROVE  x * d = y * d + z * d
  OBVIOUS

\* Three integrators told the parts of one whole stay a split of it.
LEMMA UpdateSplits ==
    ASSUME NEW g, NEW m, NEW u, SplitOf(g, m, u), MaxGap \in Nat,
           NEW at \in Int, NEW a \in Int, NEW b \in Int
    PROVE  SplitOf(IntegratorUpdate(g, at, a, MaxGap), IntegratorUpdate(m, at, b, MaxGap),
                   IntegratorUpdate(u, at, a - b, MaxGap))
<1> DEFINE dt   == at - g.lastAt
           adds == g.lastWatts # Nil /\ dt > 0 /\ ~(MaxGap > 0 /\ dt > MaxGap)
           G == IntegratorUpdate(g, at, a, MaxGap)
           M == IntegratorUpdate(m, at, b, MaxGap)
           U == IntegratorUpdate(u, at, a - b, MaxGap)
<1>1. /\ G.lastWatts = a /\ G.lastAt = at
      /\ M.lastWatts = b /\ M.lastAt = at
      /\ U.lastWatts = a - b /\ U.lastAt = at
  BY DEF IntegratorUpdate
<1>2. /\ G.total = IF adds THEN g.total + (g.lastWatts + a) * dt ELSE g.total
      /\ M.total = IF adds THEN m.total + (m.lastWatts + b) * dt ELSE m.total
      /\ U.total = IF adds THEN u.total + (u.lastWatts + (a - b)) * dt ELSE u.total
  BY DEF IntegratorUpdate, SplitOf
<1> HIDE DEF G, M, U
<1>3. /\ g.total \in Int /\ m.total \in Int /\ u.total \in Int /\ dt \in Int
      /\ g.total = m.total + u.total
      /\ adds => /\ g.lastWatts \in Int /\ m.lastWatts \in Int /\ u.lastWatts \in Int
                 /\ g.lastWatts = m.lastWatts + u.lastWatts
  BY DEF SplitOf, Held, OptInt
<1> HIDE DEF dt, adds
<1>4. /\ G.total \in Int /\ M.total \in Int /\ U.total \in Int
      /\ G.total = M.total + U.total
  <2>1. CASE adds
    <3>1. (g.lastWatts + a) * dt = (m.lastWatts + b) * dt + (u.lastWatts + (a - b)) * dt
      <4>1. g.lastWatts + a = (m.lastWatts + b) + (u.lastWatts + (a - b))
        BY <1>3, <2>1
      <4>2. g.lastWatts + a \in Int /\ m.lastWatts + b \in Int /\ u.lastWatts + (a - b) \in Int
        BY <1>3, <2>1
      <4>3. QED
        BY <1>3, <4>1, <4>2, Distributes
    <3>2. /\ (g.lastWatts + a) * dt \in Int /\ (m.lastWatts + b) * dt \in Int
          /\ (u.lastWatts + (a - b)) * dt \in Int
      BY <1>3, <2>1
    <3>3. QED
      BY <1>2, <1>3, <2>1, <3>1, <3>2
  <2>2. CASE ~adds
    BY <1>2, <1>3, <2>2
  <2>3. QED
    BY <2>1, <2>2
<1>5. SplitOf(G, M, U)
  BY <1>1, <1>4, NilAssumption DEF SplitOf, Held, OptInt
<1>6. QED
  BY <1>5 DEF G, M, U

\* Of several reporting meters one with an id no other is below supplies the gross.
LEMMA GrossFromMeter ==
    ASSUME StoresOK, Reporting(Meters) # {}
    PROVE  \E d \in Meters : GrossWatts = latest[d].watts /\ latest[d].watts \in Int
<1>1. Reporting(Meters) \in SUBSET Nat
  BY ElectricityConstants DEF Reporting, Devices
<1>2. Min(Reporting(Meters)) \in Reporting(Meters)
  BY <1>1, LeastNatural DEF Min
<1>3. \A d \in Reporting(Meters) : d \in Meters /\ latest[d].watts \in Int
  BY DEF Reporting, StoresOK, Devices, OptInt
<1>4. QED
  BY <1>2, <1>3 DEF GrossWatts

LEMMA PartsOfAggregate ==
    ASSUME StoresOK, Reporting(Meters) # {}, IsFiniteSet(Plugs), NEW at
    PROVE  Parts(Aggregate(at))
<1> DEFINE fresh == {d \in Reporting(Plugs) : Fresh(d, at)}
<1>1. Aggregate(at).gross \in Int
  BY GrossFromMeter DEF Aggregate
<1>2. \A d \in fresh : latest[d].watts \in Int
  BY DEF Reporting, StoresOK, Devices, OptInt
<1>3. IsFiniteSet(fresh)
  BY FS_Subset DEF Reporting
<1>4. Aggregate(at).monitored = TotalWatts(latest, fresh)
  BY DEF Aggregate, TotalWatts
<1> HIDE DEF fresh
<1>5. TotalWatts(latest, fresh) \in Int
  BY <1>2, <1>3, SumIsInt
<1>6. QED
  BY <1>1, <1>4, <1>5 DEF Parts

LEMMA InitSplit == Init => SplitInv
<1> SUFFICES ASSUME Init PROVE SplitInv
  OBVIOUS
<1>1. \A h \in Handlers : Parts(local[h].agg)
  BY DEF Init, Idle, NoAggregate, Parts
<1>2. SplitOf(NewIntegrator, NewIntegrator, NewIntegrator)
  BY DEF SplitOf, Held, NewIntegrator, OptInt
<1>3. SplitOf(integrators.gross, integrators.monitored, integrators.unmonitored)
  BY <1>2 DEF Init
<1>4. Additive
  BY DEF Init, NoSummary, Additive
<1>5. QED
  BY <1>1, <1>3, <1>4 DEF SplitInv

\* A step of h that publishes nothing and leaves it with parts that are numbers.
LEMMA CallSplit ==
    ASSUME IInv, SplitInv, NEW h \in Handlers, NEW me, Parts(me.agg),
           local' = [local EXCEPT ![h] = me] \/ local' = [Disturbed EXCEPT ![h] = me],
           UNCHANGED <<integrators, summary>>
    PROVE  SplitInv'
<1>1. \A g \in Handlers : Parts(local'[g].agg)
  <2>1. \A g \in Handlers : local'[g].agg \in {me.agg, local[g].agg}
    BY DisturbedOK DEF IInv
  <2>2. QED
    BY <2>1 DEF SplitInv
<1>2. \A g \in Handlers : Parts(local[g].agg)'
  BY <1>1 DEF Parts
<1>3. QED
  BY <1>2 DEF SplitInv, Additive

LEMMA PublishSplit ==
    ASSUME IInv, SplitInv, NEW h \in Handlers, Publish(h)
    PROVE  SplitInv'
<1>1. Parts(Idle.agg)
  BY DEF Parts, Idle, NoAggregate
<1>2. local' = [local EXCEPT ![h] = Idle]
  BY DEF Publish
<1>3. CASE ~Newer(h)
  <2>1. UNCHANGED <<integrators, summary>>
    BY <1>3 DEF Publish
  <2>2. QED
    BY <1>1, <1>2, <2>1, CallSplit
<1>4. CASE Newer(h)
  <2> DEFINE at == local[h].at
             a  == local[h].agg.gross
             b  == local[h].agg.monitored
  <2>1. at \in Int /\ a \in Int /\ b \in Int /\ MaxGap \in Nat
    BY ElectricityConstants DEF IInv, CallOK, SplitInv, Parts
  <2>2. integrators' = Accrued(at, local[h].agg)
    BY <1>4 DEF Publish
  <2>3. /\ summary'.gross = a /\ summary'.monitored = b /\ summary'.unmonitored = a - b
        /\ summary'.session.gross = integrators'.gross.total
        /\ summary'.session.monitored = integrators'.monitored.total
        /\ summary'.session.unmonitored = integrators'.unmonitored.total
    BY <1>4 DEF Publish
  <2>4. /\ integrators'.gross = IntegratorUpdate(integrators.gross, at, a, MaxGap)
        /\ integrators'.monitored = IntegratorUpdate(integrators.monitored, at, b, MaxGap)
        /\ integrators'.unmonitored = IntegratorUpdate(integrators.unmonitored, at, a - b, MaxGap)
    BY <2>2 DEF Accrued
  <2> HIDE DEF at, a, b
  <2>5. SplitOf(integrators'.gross, integrators'.monitored, integrators'.unmonitored)
    BY <2>1, <2>4, UpdateSplits DEF SplitInv
  <2>6. Additive'
    BY <2>1, <2>3, <2>5 DEF Additive, SplitOf
  <2>7. \A g \in Handlers : Parts(local[g].agg)'
    <3>1. \A g \in Handlers : Parts(local'[g].agg)
      BY <1>1, <1>2 DEF IInv, SplitInv
    <3>2. QED
      BY <3>1 DEF Parts
  <2>8. QED
    BY <2>5, <2>6, <2>7 DEF SplitInv, SplitOf, Held
<1>5. QED
  BY <1>3, <1>4

LEMMA NextSplit ==
    ASSUME IsFiniteSet(Plugs), IInv, SplitInv, [Next]_vars
    PROVE  SplitInv'
<1>1. ASSUME NEW h \in Handlers, NEW d, NEW at, NEW w, NEW t, Ingest(h, d, at, w, t)
      PROVE  SplitInv'
  <2> DEFINE me == [Idle EXCEPT !.pc = "copy", !.device = d, !.at = at, !.total = t]
  <2>1. local' = [Disturbed EXCEPT ![h] = me] /\ UNCHANGED <<integrators, summary>>
    BY <1>1 DEF Ingest
  <2>2. Parts(me.agg)
    BY DEF Parts, Idle, NoAggregate
  <2> HIDE DEF me
  <2>3. QED
    BY <2>1, <2>2, CallSplit
<1>2. ASSUME NEW h \in Handlers, CopyDevices(h) PROVE SplitInv'
  <2> DEFINE agg == Aggregate(local[h].at)
             whole == local[h].device \in Meters
             me  == IF Reporting(Meters) = {} THEN Idle
                    ELSE [local[h] EXCEPT !.pc = "publish", !.agg = agg, !.whole = whole]
  <2>1. local' = [local EXCEPT ![h] = me] /\ UNCHANGED <<integrators, summary>>
    BY <1>2 DEF CopyDevices
  <2>2. StoresOK /\ CallOK(local[h])
    BY DEF IInv
  <2>3. Reporting(Meters) # {} => Parts(agg)
    BY <2>2, PartsOfAggregate
  <2> HIDE DEF agg
  <2>4. Parts(me.agg)
    BY <2>2, <2>3 DEF Parts, Idle, NoAggregate, CallOK
  <2> HIDE DEF me
  <2>5. QED
    BY <2>1, <2>4, CallSplit
<1>3. ASSUME \/ \E d \in Plugs : GoOffline(d)
             \/ AdvanceClock \/ UNCHANGED vars
      PROVE  SplitInv'
  <2>1. /\ local' = local \/ local' = Disturbed
        /\ UNCHANGED <<integrators, summary>>
    BY <1>3 DEF GoOffline, AdvanceClock, vars
  <2>2. \A g \in Handlers : Parts(local'[g].agg)
    BY <2>1, DisturbedOK DEF SplitInv
  <2>3. QED
    BY <2>1, <2>2 DEF SplitInv, Parts, Additive
<1>4. QED
  BY <1>1, <1>2, <1>3, PublishSplit DEF Next

\* However concurrent readings are copied, ordered and discarded, the published
\* parts add up to the published whole, in power and in energy since the start.
\* The devices are the keys of a Go map, so there are finitely many plugs.
THEOREM AlwaysAdditive == ASSUME IsFiniteSet(Plugs) PROVE Spec => []Additive
<1>1. Init => IInv /\ SplitInv
  BY InitOK, InitSplit
<1>2. (IInv /\ SplitInv) /\ [Next]_vars => (IInv /\ SplitInv)'
  BY NextOK, NextSplit
<1>3. SplitInv => Additive
  BY DEF SplitInv
<1>4. QED
  BY <1>1, <1>2, <1>3, PTL DEF Spec

-----------------------------------------------------------------------------
(* What the gross may come to.  Every publication that passes the guard    *)
(* moves the integrator's last time to its own stamp, which is the last    *)
(* published one, so the intervals integrated are disjoint; and no power   *)
(* in the map, in a copy or in the integrator exceeds the largest one a    *)
(* meter reports.                                                          *)

Within(x) == x \in Int /\ x <= MaxMeterWatts

TimeOK ==
    /\ lastElecAt \in OptInt /\ since \in OptInt
    /\ lastElecAt = Nil <=> since = Nil
    /\ lastElecAt = Nil <=> integrators.gross.lastWatts = Nil
    /\ lastElecAt # Nil => /\ since <= lastElecAt
                           /\ integrators.gross.lastAt = lastElecAt
                           /\ Within(integrators.gross.lastWatts)

BoundInv ==
    /\ \A d \in Meters : latest[d].watts # Nil => Within(latest[d].watts)
    /\ \A h \in Handlers : Within(local[h].agg.gross)
    /\ TimeOK
    /\ integrators.gross.total \in Int
    /\ since # Nil =>
          integrators.gross.total <= (2 * MaxMeterWatts) * (lastElecAt - since)
    /\ since = Nil => integrators.gross.total = 0
    /\ summary.session.gross = integrators.gross.total

\* The powers a meter may report have a largest, or are none of them positive.
LargestPower == \E m \in MeterWatts \union {0} : \A w \in MeterWatts \union {0} : m >= w

LEMMA LargestIsMax ==
    ASSUME LargestPower
    PROVE  MaxMeterWatts \in Nat /\ \A w \in MeterWatts : Within(w)
<1>1. /\ MaxMeterWatts \in MeterWatts \union {0}
      /\ \A w \in MeterWatts \union {0} : MaxMeterWatts >= w
  BY DEF LargestPower, MaxMeterWatts, Max
<1>2. \A w \in MeterWatts \union {0} : w \in Int
  BY ElectricityConstants
<1>3. MaxMeterWatts \in Int /\ MaxMeterWatts >= 0
  BY <1>1, <1>2
<1>4. QED
  BY <1>1, <1>2, <1>3 DEF Within

LEMMA Monotone ==
    ASSUME NEW x \in Int, NEW y \in Int, NEW d \in Nat, x <= y
    PROVE  x * d <= y * d
<1>1. (y - x) * d >= 0
  OBVIOUS
<1>2. y = x + (y - x)
  OBVIOUS
<1>3. y * d = x * d + (y - x) * d
  BY <1>2, Distributes
<1>4. x * d \in Int /\ y * d \in Int /\ (y - x) * d \in Int
  OBVIOUS
<1>5. QED
  BY <1>1, <1>3, <1>4

LEMMA InitBound == ASSUME LargestPower PROVE Init => BoundInv
<1> SUFFICES ASSUME Init PROVE BoundInv
  OBVIOUS
<1>1. MaxMeterWatts \in Nat /\ Within(0)
  BY LargestIsMax DEF Within
<1>2. \A d \in Meters : latest[d].watts = Nil
  BY DEF Init, Devices
<1>3. \A h \in Handlers : local[h].agg.gross = 0
  BY DEF Init, Idle, NoAggregate
<1>4. TimeOK
  BY DEF Init, NewIntegrator, TimeOK, OptInt
<1>5. integrators.gross.total = 0 /\ summary.session.gross = 0 /\ since = Nil
  BY DEF Init, NewIntegrator, NoSummary
<1>6. QED
  BY <1>1, <1>2, <1>3, <1>4, <1>5 DEF BoundInv

LEMMA CallBound ==
    ASSUME IInv, BoundInv, NEW h \in Handlers, NEW me, Within(me.agg.gross),
           local' = [local EXCEPT ![h] = me] \/ local' = [Disturbed EXCEPT ![h] = me],
           \A d \in Meters : latest'[d].watts # Nil => Within(latest'[d].watts),
           UNCHANGED <<lastElecAt, integrators, since, summary>>
    PROVE  BoundInv'
<1>1. \A g \in Handlers : Within(local'[g].agg.gross)
  <2>1. \A g \in Handlers : local'[g].agg \in {me.agg, local[g].agg}
    BY DisturbedOK DEF IInv
  <2>2. QED
    BY <2>1 DEF BoundInv
<1>2. /\ \A g \in Handlers : Within(local[g].agg.gross)'
      /\ \A d \in Meters : (latest[d].watts # Nil => Within(latest[d].watts))'
  BY <1>1 DEF Within, MaxMeterWatts
<1>3. TimeOK'
  BY DEF BoundInv, TimeOK, Within, MaxMeterWatts
<1>4. QED
  BY <1>2, <1>3 DEF BoundInv, MaxMeterWatts

LEMMA IngestBound ==
    ASSUME LargestPower, IInv, BoundInv, NEW h \in Handlers, NEW d \in Devices, NEW at, NEW w, NEW t,
           d \in Meters => w \in MeterWatts, Ingest(h, d, at, w, t)
    PROVE  BoundInv'
<1> DEFINE me == [Idle EXCEPT !.pc = "copy", !.device = d, !.at = at, !.total = t]
<1>1. /\ local' = [Disturbed EXCEPT ![h] = me]
      /\ latest' = [latest EXCEPT ![d] = [watts |-> w, seen |-> at]]
      /\ UNCHANGED <<lastElecAt, integrators, since, summary>>
  BY DEF Ingest
<1>2. Within(me.agg.gross)
  BY LargestIsMax DEF Within, Idle, NoAggregate
<1>3. DOMAIN latest = Devices
  BY DEF IInv, StoresOK
<1>4. \A e \in Meters : latest'[e].watts # Nil => Within(latest'[e].watts)
  <2>1. \A e \in Meters : latest'[e].watts = IF e = d THEN w ELSE latest[e].watts
    BY <1>1, <1>3 DEF Devices
  <2>2. QED
    BY <2>1, LargestIsMax DEF BoundInv
<1> HIDE DEF me
<1>5. QED
  BY <1>1, <1>2, <1>4, CallBound

LEMMA CopyBound ==
    ASSUME LargestPower, IInv, BoundInv, NEW h \in Handlers, CopyDevices(h)
    PROVE  BoundInv'
<1> DEFINE agg == Aggregate(local[h].at)
           whole == local[h].device \in Meters
           me  == IF Reporting(Meters) = {} THEN Idle
                  ELSE [local[h] EXCEPT !.pc = "publish", !.agg = agg, !.whole = whole]
<1>1. /\ local' = [local EXCEPT ![h] = me]
      /\ UNCHANGED <<latest, lastElecAt, integrators, since, summary>>
  BY DEF CopyDevices
<1>2. StoresOK /\ CallOK(local[h])
  BY DEF IInv
<1>3. Reporting(Meters) # {} => Within(agg.gross)
  <2>1. agg.gross = GrossWatts
    BY DEF Aggregate
  <2>2. QED
    BY <1>2, <2>1, GrossFromMeter, NilAssumption DEF BoundInv
<1>4. Within(Idle.agg.gross)
  BY LargestIsMax DEF Within, Idle, NoAggregate
<1> HIDE DEF agg
<1>5. Within(me.agg.gross)
  BY <1>2, <1>3, <1>4 DEF CallOK
<1> HIDE DEF me
<1>6. \A d \in Meters : latest'[d].watts # Nil => Within(latest'[d].watts)
  BY <1>1 DEF BoundInv
<1>7. QED
  BY <1>1, <1>5, <1>6, CallBound

\* One interval of at most dt more, at a mean power of at most the largest.
LEMMA TotalGrows ==
    ASSUME MaxMeterWatts \in Nat, NEW total \in Int, NEW from \in Int, NEW last \in Int, NEW at \in Int,
           total <= (2 * MaxMeterWatts) * (last - from), last < at,
           NEW x \in Int, NEW y \in Int, x <= MaxMeterWatts, y <= MaxMeterWatts
    PROVE  /\ total + (x + y) * (at - last) <= (2 * MaxMeterWatts) * (at - from)
           /\ total <= (2 * MaxMeterWatts) * (at - from)
<1> DEFINE M  == 2 * MaxMeterWatts
           dt == at - last
<1>1. dt \in Nat /\ M \in Int /\ x + y \in Int /\ x + y <= M /\ 0 <= M
  OBVIOUS
<1>2. (x + y) * dt <= M * dt /\ 0 * dt <= M * dt
  BY <1>1, Monotone
<1>3. M * (at - from) = M * (last - from) + M * dt
  <2>1. (at - from) * M = (last - from) * M + dt * M
    BY <1>1, Distributes
  <2>2. QED
    BY <1>1, <2>1
<1>4. /\ M * (at - from) \in Int /\ M * (last - from) \in Int /\ M * dt \in Int
      /\ (x + y) * dt \in Int /\ 0 * dt = 0 /\ total <= M * (last - from)
  BY <1>1
<1> HIDE DEF M, dt
<1>5. total + (x + y) * dt <= M * (at - from) /\ total <= M * (at - from)
  BY <1>2, <1>3, <1>4
<1>6. QED
  BY <1>5 DEF M, dt

LEMMA PublishBound ==
    ASSUME LargestPower, IInv, BoundInv, NEW h \in Handlers, Publish(h)
    PROVE  BoundInv'
<1>1. /\ local' = [local EXCEPT ![h] = Idle] /\ UNCHANGED latest
      /\ Within(Idle.agg.gross)
      /\ \A d \in Meters : latest'[d].watts # Nil => Within(latest'[d].watts)
  BY LargestIsMax DEF Publish, Within, Idle, NoAggregate, BoundInv
<1>2. CASE ~Newer(h)
  <2>1. UNCHANGED <<lastElecAt, integrators, since, summary>>
    BY <1>2 DEF Publish
  <2>2. QED
    BY <1>1, <2>1, CallBound
<1>3. CASE Newer(h)
  <2> DEFINE at == local[h].at
             a  == local[h].agg.gross
             i  == integrators.gross
             j  == integrators'.gross
             dt == at - i.lastAt
             Capped == j.total \in Int /\ j.total <= (2 * MaxMeterWatts) * (lastElecAt' - since')
  <2>1. at \in Int /\ Within(a) /\ TimeOK /\ i.total \in Int /\ MaxMeterWatts \in Nat
    BY LargestIsMax DEF IInv, CallOK, BoundInv
  <2>2. /\ lastElecAt' = at /\ since' = (IF since = Nil THEN at ELSE since)
        /\ integrators' = Accrued(at, local[h].agg)
        /\ summary'.session.gross = integrators'.gross.total
    BY <1>3 DEF Publish
  <2>3. j = IntegratorUpdate(i, at, a, MaxGap)
    BY <2>2 DEF Accrued
  <2>4. j.lastWatts = a /\ j.lastAt = at
    BY <2>3 DEF IntegratorUpdate
  <2>5. since = Nil => j.total = i.total
    <3>1. since = Nil => i.lastWatts = Nil
      BY <2>1 DEF TimeOK
    <3>2. QED
      BY <2>3, <3>1 DEF IntegratorUpdate
  <2>6. since # Nil => j.total \in {i.total, i.total + (i.lastWatts + a) * dt}
    BY <2>3 DEF IntegratorUpdate
  <2>7. since # Nil => /\ since \in Int /\ lastElecAt \in Int /\ lastElecAt < at
                       /\ i.lastAt = lastElecAt /\ Within(i.lastWatts)
    BY <1>3, <2>1 DEF TimeOK, OptInt, Newer
  <2> HIDE DEF at, a, j, i, dt
  <2>8. TimeOK'
    <3>1. lastElecAt' \in Int /\ since' \in Int /\ since' <= lastElecAt'
      BY <2>1, <2>2, <2>7 DEF TimeOK, OptInt
    <3>2. /\ integrators'.gross.lastWatts = a /\ integrators'.gross.lastAt = lastElecAt'
          /\ a \in Int /\ a <= MaxMeterWatts
      BY <2>1, <2>2, <2>4 DEF j, Within
    <3>3. QED
      BY <3>1, <3>2, NilAssumption DEF TimeOK, Within, OptInt, MaxMeterWatts
  <2>9. ASSUME since = Nil PROVE Capped
    <3>1. j.total = 0 /\ since' = at /\ lastElecAt' = at
      BY <2>2, <2>5, <2>9 DEF BoundInv, i
    <3>2. QED
      BY <2>1, <3>1
  <2>10. ASSUME since # Nil PROVE Capped
    <3>1. i.total <= (2 * MaxMeterWatts) * (lastElecAt - since) /\ dt = at - lastElecAt
      BY <2>7, <2>10 DEF BoundInv, i, dt
    <3>2. i.lastWatts \in Int /\ i.lastWatts <= MaxMeterWatts /\ a \in Int /\ a <= MaxMeterWatts
      BY <2>1, <2>7, <2>10 DEF Within
    <3>3. /\ i.total + (i.lastWatts + a) * dt <= (2 * MaxMeterWatts) * (at - since)
          /\ i.total <= (2 * MaxMeterWatts) * (at - since)
      BY <2>1, <2>7, <2>10, <3>1, <3>2, TotalGrows
    <3>4. (i.lastWatts + a) * dt \in Int
      BY <2>1, <2>7, <2>10, <3>1, <3>2
    <3>5. QED
      BY <2>1, <2>2, <2>6, <2>10, <3>3, <3>4
  <2>11. Capped /\ since' # Nil
    BY <2>1, <2>2, <2>9, <2>10, NilAssumption DEF TimeOK, OptInt
  <2>12. \A g \in Handlers : Within(local'[g].agg.gross)
    BY <1>1 DEF IInv, BoundInv
  <2>13. /\ \A g \in Handlers : Within(local[g].agg.gross)'
         /\ \A d \in Meters : (latest[d].watts # Nil => Within(latest[d].watts))'
    BY <1>1, <2>12 DEF Within, MaxMeterWatts
  <2>14. QED
    BY <2>2, <2>8, <2>11, <2>13 DEF BoundInv, j, MaxMeterWatts
<1>4. QED
  BY <1>2, <1>3

LEMMA NextBound ==
    ASSUME LargestPower, IInv, BoundInv, [Next]_vars
    PROVE  BoundInv'
<1>1. ASSUME NEW h \in Handlers, NEW at \in Stamps, NEW d \in Plugs, NEW w \in Watts,
             Ingest(h, d, at, w, Nil)
      PROVE  BoundInv'
  <2>1. d \in Devices /\ d \notin Meters
    BY ElectricityConstants DEF Devices
  <2>2. QED
    BY <1>1, <2>1, IngestBound
<1>2. ASSUME NEW h \in Handlers, NEW at \in Stamps, NEW d \in Meters, NEW w \in MeterWatts,
             NEW t, Ingest(h, d, at, w, t)
      PROVE  BoundInv'
  BY <1>2, IngestBound DEF Devices
<1>3. ASSUME NEW h \in Handlers, CopyDevices(h) \/ Publish(h) PROVE BoundInv'
  BY <1>3, CopyBound, PublishBound
<1>4. ASSUME \/ \E d \in Plugs : GoOffline(d)
             \/ AdvanceClock \/ UNCHANGED vars
      PROVE  BoundInv'
  <2>1. /\ local' = local \/ local' = Disturbed
        /\ UNCHANGED <<latest, lastElecAt, integrators, since, summary>>
    BY <1>4 DEF GoOffline, AdvanceClock, vars
  <2>2. \A g \in Handlers : Within(local'[g].agg.gross)
    BY <2>1, DisturbedOK DEF BoundInv
  <2>3. QED
    BY <2>1, <2>2 DEF BoundInv, TimeOK, Within, MaxMeterWatts
<1>5. QED
  BY <1>1, <1>2, <1>3, <1>4 DEF Next

\* In whatever order stamps arrive and publications are guarded, no slice of time
\* is integrated twice: the gross energy of the session stays within what the
\* largest power could deliver since the first publication.
THEOREM NeverDoubleCounts == ASSUME LargestPower PROVE Spec => []NoDoubleCount
<1>1. Init => IInv /\ BoundInv
  BY InitOK, InitBound
<1>2. (IInv /\ BoundInv) /\ [Next]_vars => (IInv /\ BoundInv)'
  BY NextOK, NextBound
<1>3. IInv /\ BoundInv => NoDoubleCount
  <2>1. IInv /\ BoundInv => summary.at = lastElecAt
    BY DEF IInv, PublishedOK
  <2>2. QED
    BY <2>1 DEF BoundInv, NoDoubleCount
<1>4. QED
  BY <1>1, <1>2, <1>3, PTL DEF Spec
=============================================================================
