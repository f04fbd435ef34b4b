------------------------------ MODULE SinkProofs ------------------------------
(***************************************************************************)
(* The two sinks that main registers for derived events: the publisher,    *)
(* with its bounded queue and its shutdown, and the log of the recent      *)
(* events in memory and on disk.  They share no state, and neither do the  *)
(* two parts of this module.                                               *)
(***************************************************************************)
EXTENDS Publisher, History, FiniteSetTheorems, SequenceTheorems, TLAPS

(***************************************************************************)
(* 1.  The publisher: shutdown, for any number of emitters, parts,         *)
(* filters, changes and losses of the connection and any size of the       *)
(* queue.                                                                  *)
(***************************************************************************)

(* What Close, the worker and main have agreed on.                         *)
Shutdown ==
    /\ boot = "subscribing" => worker = "none"
    /\ closed => ~open /\ boot \in {"closing", "left"}
    /\ worker = "ended" => closed /\ queue = <<>>
    /\ boot = "left" => worker = "ended"

(* An emitter that has read a payload still has the topic it is for.       *)
Reading == \A e \in Emitters : local[e].payload # Unread => local[e].topics # <<>>

IInv == TypeOK /\ Shutdown /\ Reading

-----------------------------------------------------------------------------
(* What the store holds for a topic is a payload.                          *)
LEMMA PresentType ==
    ASSUME store \in [Parts -> 0..MaxChanges], NEW t \in Topics
    PROVE  Present(t) \in Payloads
<1>1. CASE t = "snapshot"
  BY <1>1 DEF Present, Payloads
<1>2. CASE t # "snapshot"
  <2>1. {t} \intersect Parts \in SUBSET Parts
    OBVIOUS
  <2>2. Present(t) \in [{t} \intersect Parts -> 0..MaxChanges]
    BY <1>2 DEF Present
  <2> QED
    BY <2>1, <2>2 DEF Payloads
<1> QED
  BY <1>1, <1>2

(* The topics of an event and of a heartbeat are sequences of topics.      *)
LEMMA EventTopicsType ==
    ASSUME NEW p \in Parts, NEW relevant \in BOOLEAN
    PROVE  EventTopics(p, relevant) \in Seq(Topics)
<1>1. p \in Topics /\ "events" \in Topics /\ "snapshot" \in Topics
  BY DEF Topics, Stateful
<1>2. <<"events", p>> \in Seq(Topics) /\ <<"snapshot">> \in Seq(Topics) /\ <<>> \in Seq(Topics)
  BY <1>1
<1> QED
  BY <1>2 DEF EventTopics

LEMMA HeartbeatTopicsType ==
    ASSUME NEW topics \in HeartbeatTopics
    PROVE  topics \in Seq(Topics)
<1>1. Cardinality(Parts) \in Nat
  BY FS_CardinalityType, PublisherConstants
<1>2. topics \in [1..Cardinality(Parts) + 1 -> Stateful] /\ Stateful \subseteq Topics
  BY DEF HeartbeatTopics, Topics
<1> DEFINE n == Cardinality(Parts) + 1
<1>3. n \in Nat /\ topics \in [1..n -> Topics]
  BY <1>1, <1>2
<1> QED
  BY <1>3

-----------------------------------------------------------------------------
LEMMA InitOK == Init => IInv
<1> SUFFICES ASSUME Init PROVE IInv
  OBVIOUS
<1> USE MqttClientConstants, PublisherConstants DEF Init, ClientInit
<1>1. TypeOK
  <2>1. store \in [Parts -> 0..MaxChanges] /\ retained \in [Stateful -> Payloads \union {Unread}]
    OBVIOUS
  <2>2. Rest \in [topics : Seq(Topics), payload : Payloads \union {Unread}]
    BY DEF Rest
  <2>3. local \in [Emitters -> [topics : Seq(Topics), payload : Payloads \union {Unread}]]
    BY <2>2
  <2>4. queue \in Seq(Jobs) /\ Len(queue) <= QueueSize /\ job \in Seq(Jobs)
    OBVIOUS
  <2> QED
    BY <2>1, <2>3, <2>4 DEF TypeOK
<1>2. Shutdown /\ Reading
  BY DEF Shutdown, Reading, Rest
<1> QED
  BY <1>1, <1>2 DEF IInv

-----------------------------------------------------------------------------
(* The connection changes only its own variables.                          *)
ClientTypeOK ==
    /\ link \in {"down", "up", "closed"} /\ losses \in 0..MaxLosses
    /\ subs \subseteq Filters /\ active \subseteq subs /\ pending \subseteq subs
    /\ calling \subseteq subs /\ starting \in Nat /\ reconnects \in Nat

OwnTypeOK ==
    /\ boot \in {"subscribing", "running", "closing", "left"}
    /\ store \in [Parts -> 0..MaxChanges]
    /\ queue \in Seq(Jobs) /\ Len(queue) <= QueueSize /\ job \in Seq(Jobs)
    /\ worker \in {"none", "waiting", "publishing", "ended"}
    /\ worker = "publishing" <=> job # <<>>
    /\ local \in [Emitters -> [topics : Seq(Topics), payload : Payloads \union {Unread}]]
    /\ retained \in [Stateful -> Payloads \union {Unread}]

OwnInv == OwnTypeOK /\ Shutdown /\ Reading

LEMMA Split == IInv <=> ClientTypeOK /\ OwnInv
BY DEF IInv, TypeOK, ClientTypeOK, OwnTypeOK, OwnInv

LEMMA ClientStep ==
    ASSUME ClientTypeOK,
           \/ Background \/ ConnectionLost \/ Disconnect \/ UNCHANGED clientVars
           \/ \E f \in Filters : SubscribeRecords(f) \/ SubscribeSends(f)
    PROVE  ClientTypeOK'
<1> USE MqttClientConstants DEF ClientTypeOK
<1>1. CASE Connected
  BY <1>1 DEF Connected
<1>2. CASE OnConnect
  BY <1>2 DEF OnConnect
<1>3. CASE \E f \in Filters : resubscribe(f)
  BY <1>3 DEF resubscribe, Sent
<1>4. CASE ConnectionLost
  BY <1>4 DEF ConnectionLost
<1>5. CASE Disconnect
  BY <1>5 DEF Disconnect
<1>6. CASE UNCHANGED clientVars
  BY <1>6 DEF clientVars
<1>7. CASE \E f \in Filters : SubscribeRecords(f)
  BY <1>7 DEF SubscribeRecords
<1>8. CASE \E f \in Filters : SubscribeSends(f)
  BY <1>8 DEF SubscribeSends, Sent
<1> QED
  BY <1>1, <1>2, <1>3, <1>4, <1>5, <1>6, <1>7, <1>8 DEF Background

-----------------------------------------------------------------------------
(* The publisher's own state.                                              *)

ownVars == <<boot, publishing>>

LEMMA Stutter == OwnInv /\ UNCHANGED ownVars => OwnInv'
BY DEF OwnInv, OwnTypeOK, Shutdown, Reading, ownVars, publishing

LEMMA MainStep ==
    ASSUME OwnInv, Start \/ Close \/ (Leave /\ boot' = "left")
    PROVE  OwnInv'
<1> USE DEF OwnInv, OwnTypeOK, Shutdown, Reading, publishing
<1>1. CASE Start
  BY <1>1 DEF Start
<1>2. CASE Close
  BY <1>2 DEF Close
<1>3. CASE Leave
  BY <1>3 DEF Leave
<1> QED
  BY <1>1, <1>2, <1>3

(* A payload handed to the client leaves the retained ones well typed.     *)
LEMMA PublishType ==
    ASSUME retained \in [Stateful -> Payloads \union {Unread}],
           NEW t, NEW payload \in Payloads, Publish(t, payload)
    PROVE  retained' \in [Stateful -> Payloads \union {Unread}]
BY DEF Publish

LEMMA WorkerStep ==
    ASSUME OwnInv, Worker
    PROVE  OwnInv'
<1>1. CASE Take
  <2> USE <1>1 DEF Take, OwnInv, OwnTypeOK
  <2>1. queue \in Seq(Jobs) /\ queue # <<>>
    OBVIOUS
  <2>2. Head(queue) \in Jobs /\ Tail(queue) \in Seq(Jobs) /\ Len(Tail(queue)) = Len(queue) - 1
    BY <2>1, HeadTailProperties
  <2>3. queue' \in Seq(Jobs) /\ Len(queue') <= QueueSize
    BY <2>2, PublisherConstants
  <2>4. job' \in Seq(Jobs) /\ job' # <<>>
    BY <2>2
  <2> QED
    BY <2>3, <2>4 DEF Shutdown, Reading
<1>2. CASE Deliver
  <2> USE <1>2 DEF Deliver, OwnInv, OwnTypeOK
  <2>1. job \in Seq(Jobs) /\ job # <<>>
    OBVIOUS
  <2>2. job[1] \in Jobs
    BY <2>1
  <2>3. job[1].payload \in Payloads
    BY <2>2 DEF Jobs
  <2>4. retained' \in [Stateful -> Payloads \union {Unread}]
    BY <2>3, PublishType
  <2>5. job' \in Seq(Jobs) /\ job' = <<>>
    OBVIOUS
  <2> QED
    BY <2>4, <2>5 DEF Shutdown, Reading
<1>3. CASE WorkerEnds
  BY <1>3 DEF WorkerEnds, OwnInv, OwnTypeOK, Shutdown, Reading
<1> QED
  BY <1>1, <1>2, <1>3 DEF Worker

LEMMA MessageStep ==
    ASSUME OwnInv, NEW h \in Handlers, NEW p \in Parts, NEW relevant \in BOOLEAN,
           Message(h, p, relevant)
    PROVE  OwnInv'
<1> USE DEF OwnInv, OwnTypeOK
<1>1. store[p] \in 0..MaxChanges /\ store[p] < MaxChanges
  BY DEF Message
<1>2. store' \in [Parts -> 0..MaxChanges]
  BY <1>1, PublisherConstants DEF Message
<1> DEFINE topics == EventTopics(p, relevant)
<1>3. topics \in Seq(Topics) /\ <<>> \in Seq(Topics)
  BY EventTopicsType
<1> HIDE DEF topics
<1>4. Emit(h, topics) /\ h \in Emitters
  BY DEF Message, topics, Emitters
<1>5. local' \in [Emitters -> [topics : Seq(Topics), payload : Payloads \union {Unread}]]
  BY <1>3, <1>4 DEF Emit
<1>6. Reading'
  BY <1>4 DEF Emit, Rest, Reading
<1> QED
  BY <1>2, <1>5, <1>6 DEF Message, Shutdown

LEMMA HeartbeatStep ==
    ASSUME OwnInv, Heartbeat
    PROVE  OwnInv'
<1> USE DEF OwnInv, OwnTypeOK
<1>1. PICK topics \in HeartbeatTopics : Emit(Snapshotter, topics)
  BY DEF Heartbeat
<1>2. topics \in Seq(Topics) /\ <<>> \in Seq(Topics) /\ Snapshotter \in Emitters
  BY HeartbeatTopicsType DEF Emitters
<1>3. local' \in [Emitters -> [topics : Seq(Topics), payload : Payloads \union {Unread}]]
  BY <1>1, <1>2 DEF Emit
<1>4. Reading'
  BY <1>1, <1>2 DEF Emit, Rest, Reading
<1> QED
  BY <1>3, <1>4 DEF Heartbeat, Shutdown

LEMMA EmitterStep ==
    ASSUME OwnInv, NEW e \in Emitters, Proceed(e)
    PROVE  OwnInv'
<1> USE DEF OwnInv, OwnTypeOK
<1>1. CASE Read(e)
  <2>1. local[e].topics \in Seq(Topics) /\ local[e].topics # <<>>
    BY <1>1 DEF Read
  <2>2. Head(local[e].topics) \in Topics
    BY <2>1, HeadTailProperties
  <2> DEFINE payload == Present(Head(local[e].topics))
  <2>3. payload \in Payloads
    BY <2>2, PresentType
  <2> HIDE DEF payload
  <2>4. local' = [local EXCEPT ![e].payload = payload]
    BY <1>1 DEF Read, payload
  <2>5. local' \in [Emitters -> [topics : Seq(Topics), payload : Payloads \union {Unread}]]
    BY <2>3, <2>4
  <2>6. Reading'
    BY <2>1, <2>4 DEF Reading
  <2> QED
    BY <1>1, <2>5, <2>6 DEF Read, Shutdown
<1>2. ASSUME Offers(e)
      PROVE  /\ Job(e) \in Jobs /\ Job(e).payload \in Payloads
             /\ local' \in [Emitters -> [topics : Seq(Topics), payload : Payloads \union {Unread}]]
             /\ Reading'
  <2>1. local[e].payload # Unread /\ local[e].topics # <<>> /\ local[e].topics \in Seq(Topics)
    BY <1>2 DEF Offers, Reading
  <2>2. Head(local[e].topics) \in Topics /\ Tail(local[e].topics) \in Seq(Topics)
    BY <2>1, HeadTailProperties
  <2>3. local[e].payload \in Payloads
    BY <2>1
  <2>4. Job(e) \in Jobs /\ Job(e).payload \in Payloads
    BY <2>2, <2>3 DEF Job, Jobs
  <2>5. local' \in [Emitters -> [topics : Seq(Topics), payload : Payloads \union {Unread}]]
    BY <1>2, <2>2 DEF Offers
  <2>6. Reading'
    BY <1>2 DEF Offers, Reading
  <2> QED
    BY <2>4, <2>5, <2>6
<1>3. CASE Enqueue(e)
  <2>1. Offers(e) /\ queue' = Append(queue, Job(e)) /\ Len(queue) < QueueSize /\ open
    BY <1>3 DEF Enqueue
  <2>2. Job(e) \in Jobs
    BY <2>1, <1>2
  <2> DEFINE new == Job(e)
  <2> HIDE DEF new
  <2>3. new \in Jobs /\ queue \in Seq(Jobs) /\ queue' = Append(queue, new)
    BY <2>1, <2>2 DEF new
  <2>4. queue' \in Seq(Jobs) /\ Len(queue') = Len(queue) + 1
    BY <2>3
  <2>5. Len(queue') <= QueueSize
    BY <2>1, <2>3, <2>4, PublisherConstants
  <2>6. ~closed /\ worker # "ended"
    BY <2>1 DEF Shutdown
  <2>7. UNCHANGED <<boot, store, open, closed, worker, job, retained>>
    BY <1>3 DEF Enqueue, Offers
  <2>8. OwnTypeOK'
    BY <2>1, <1>2, <2>4, <2>5, <2>7
  <2>9. Shutdown'
    BY <2>6, <2>7 DEF Shutdown
  <2> QED
    BY <2>1, <2>8, <2>9, <1>2
<1>4. CASE Drop(e)
  <2>1. Offers(e) /\ UNCHANGED <<boot, store, queue, open, closed, worker, job, retained>>
    BY <1>4 DEF Drop, Offers
  <2> QED
    BY <2>1, <1>2 DEF Shutdown
<1>5. CASE PublishNow(e)
  <2>1. /\ Offers(e) /\ Publish(Job(e).topic, Job(e).payload)
        /\ UNCHANGED <<boot, store, queue, open, closed, worker, job>>
    BY <1>5 DEF PublishNow, Offers
  <2>2. retained' \in [Stateful -> Payloads \union {Unread}]
    BY <2>1, <1>2, PublishType
  <2> QED
    BY <2>1, <2>2, <1>2 DEF Shutdown
<1> QED
  BY <1>1, <1>3, <1>4, <1>5 DEF Proceed

-----------------------------------------------------------------------------
LEMMA NextOK == IInv /\ [Next]_publisherVars => IInv'
<1> SUFFICES ASSUME ClientTypeOK, OwnInv, [Next]_publisherVars
             PROVE  ClientTypeOK' /\ OwnInv'
  BY DEF IInv, TypeOK, ClientTypeOK, OwnTypeOK, OwnInv
<1>1. CASE Subscribe
  BY <1>1, ClientStep, Stutter DEF Subscribe, ownVars
<1>2. CASE Start \/ Close
  BY <1>2, ClientStep, MainStep DEF Start, Close
<1>3. CASE Leave
  BY <1>3, ClientStep, MainStep DEF Leave
<1>4. CASE Connection
  BY <1>4, ClientStep, Stutter DEF Connection, ownVars
<1>5. CASE Worker
  BY <1>5, ClientStep, WorkerStep DEF Worker, Take, Deliver, WorkerEnds
<1>6. CASE \E h \in Handlers, p \in Parts, relevant \in BOOLEAN : Message(h, p, relevant)
  BY <1>6, ClientStep, MessageStep DEF Message
<1>7. CASE Heartbeat
  BY <1>7, ClientStep, HeartbeatStep DEF Heartbeat
<1>8. CASE \E e \in Emitters : Proceed(e)
  BY <1>8, ClientStep, EmitterStep DEF Proceed, Read, Enqueue, Drop, PublishNow, Offers
<1>9. CASE UNCHANGED publisherVars
  BY <1>9, ClientStep, Stutter DEF publisherVars, ownVars, publishing
<1> QED
  BY <1>1, <1>2, <1>3, <1>4, <1>5, <1>6, <1>7, <1>8, <1>9 DEF Next, Main

(* The connection, the queue within its bound and the payloads keep their  *)
(* types, whatever emitters, worker, shutdown and reconnects do.           *)
THEOREM TypeCorrect == Spec => []TypeOK
<1>1. IInv => TypeOK
  BY DEF IInv
<1> QED
  BY <1>1, InitOK, NextOK, PTL DEF Spec

(* Main disconnects only after the worker has handed on everything the     *)
(* queue accepted: no emitter adds to it once Close has begun.             *)
THEOREM NothingLeftBehind == Spec => []DrainedBeforeLeaving
<1>1. IInv => DrainedBeforeLeaving
  BY DEF IInv, Shutdown, DrainedBeforeLeaving
<1> QED
  BY <1>1, InitOK, NextOK, PTL DEF Spec

(* An emitter that outlives Close never sends on the closed channel.       *)
THEOREM ClosedStaysClosed == Spec => NoSendOnClosed
<1>1. IInv /\ [Next]_publisherVars => [closed => Len(queue') <= Len(queue)]_publisherVars
  <2> SUFFICES ASSUME IInv, Next, closed PROVE Len(queue') <= Len(queue)
    OBVIOUS
  <2>1. queue \in Seq(Jobs) /\ Len(queue) \in Nat
    BY DEF IInv, TypeOK
  <2>2. ~open
    BY DEF IInv, Shutdown
  <2>3. CASE Take
    <3>1. queue # <<>> /\ queue' = Tail(queue)
      BY <2>3 DEF Take
    <3>2. Len(Tail(queue)) = Len(queue) - 1
      BY <2>1, <3>1, HeadTailProperties
    <3> QED
      BY <2>1, <3>1, <3>2
  <2>4. CASE queue' = queue
    BY <2>1, <2>4
  <2>5. queue' = queue \/ Take
    BY <2>2 DEF Next, Main, Subscribe, Start, Leave, Close, Connection, Worker, Deliver,
       WorkerEnds, Message, Heartbeat, Proceed, Read, Enqueue, Drop, PublishNow, publishing
  <2> QED
    BY <2>3, <2>4, <2>5
<1> QED
  BY <1>1, InitOK, NextOK, PTL DEF Spec, NoSendOnClosed

-----------------------------------------------------------------------------
(* The publisher keeps the promise of Outbox.  What this adds to Shutdown: *)
(* p.in is set exactly while main runs, an emission before that goes       *)
(* nowhere, and after the disconnect the connection stays closed.          *)
Gate ==
    /\ open <=> boot = "running"
    /\ boot = "subscribing" => \A e \in Emitters : local[e] = Rest
    /\ boot = "left" => link = "closed"

LEMMA GateOK ==
    /\ Init => Gate
    /\ IInv /\ Gate /\ [Next]_publisherVars => Gate'
<1>1. Init => Gate
  BY DEF Init, Gate
<1> SUFFICES ASSUME IInv, Gate, [Next]_publisherVars PROVE Gate'
  BY <1>1
<1> USE DEF Gate
<1>2. CASE Subscribe
  BY <1>2 DEF Subscribe, SubscribeRecords, SubscribeSends, publishing
<1>3. CASE Start
  BY <1>3 DEF Start
<1>4. CASE Close
  BY <1>4 DEF Close, clientVars
<1>5. CASE Leave
  BY <1>5 DEF Leave, Disconnect, publishing
<1>6. CASE Connection
  BY <1>6 DEF Connection, Background, Connected, OnConnect, resubscribe, ConnectionLost, publishing
<1>7. CASE Worker
  BY <1>7 DEF Worker, Take, Deliver, WorkerEnds, clientVars
<1>8. CASE \E h \in Handlers, p \in Parts, relevant \in BOOLEAN : Message(h, p, relevant)
  <2>1. PICK h \in Handlers, p \in Parts, relevant \in BOOLEAN : Message(h, p, relevant)
    BY <1>8
  <2>2. UNCHANGED <<boot, open, link>>
    BY <2>1 DEF Message, clientVars
  <2>3. local \in [Emitters -> [topics : Seq(Topics), payload : Payloads \union {Unread}]]
    BY DEF IInv, TypeOK
  <2>4. boot = "subscribing" => local' = [local EXCEPT ![h].topics = <<>>] /\ local[h] = Rest
    BY <2>1 DEF Message, Emit
  <2>5. boot = "subscribing" => \A e \in Emitters : local'[e] = Rest
    BY <2>3, <2>4 DEF Rest
  <2> QED
    BY <2>2, <2>5
<1>9. CASE Heartbeat
  BY <1>9 DEF Heartbeat, Due, clientVars
<1>10. CASE \E e \in Emitters : Proceed(e)
  <2>1. PICK e \in Emitters : Proceed(e)
    BY <1>10
  <2>2. UNCHANGED <<boot, open, link>>
    BY <2>1 DEF Proceed, Read, Enqueue, Drop, PublishNow, Offers, clientVars
  <2>3. local[e] # Rest
    BY <2>1 DEF Proceed, Read, Enqueue, Drop, PublishNow, Offers, Rest
  <2> QED
    BY <2>2, <2>3
<1>11. CASE UNCHANGED publisherVars
  BY <1>11 DEF publisherVars, clientVars
<1> QED
  BY <1>2, <1>3, <1>4, <1>5, <1>6, <1>7, <1>8, <1>9, <1>10, <1>11 DEF Next, Main

(* What the client does with a job is what Outbox calls reaching the       *)
(* broker, and over a closed connection nothing.                           *)
LEMMA PublishReaches ==
    ASSUME NEW j, Publish(j.topic, j.payload)
    PROVE  Promised!Reaches(j) /\ (link = "closed" => retained' = retained)
BY DEF Publish, Promised!Reaches

(* The worker is between main's Start and its Leave.                       *)
LEMMA WorkerKeepsOrder ==
    ASSUME IInv, Worker
    PROVE  [Promised!Next]_(Promised!vars)
<1> USE DEF IInv, Shutdown, TypeOK
<1>1. CASE Take
  <2>1. boot \in {"running", "closing"} /\ job = <<>>
    BY <1>1 DEF Take
  <2> QED
    BY <1>1, <2>1 DEF Take, Promised!Pick, Promised!Next
<1>2. CASE Deliver
  <2>1. boot \in {"running", "closing"} /\ job # <<>>
    BY <1>2 DEF Deliver
  <2>2. Promised!Reaches(job[1])
    BY <1>2, PublishReaches DEF Deliver
  <2> QED
    BY <1>2, <2>1, <2>2 DEF Deliver, Promised!HandOver, Promised!Next
<1>3. CASE WorkerEnds
  BY <1>3 DEF WorkerEnds, Promised!vars
<1> QED
  BY <1>1, <1>2, <1>3 DEF Worker

(* An emitter's turn is an acceptance while main runs, and goes past the   *)
(* queue only while main closes.                                           *)
LEMMA EmitterKeepsOrder ==
    ASSUME IInv, Gate, NEW e \in Emitters, Proceed(e)
    PROVE  [Promised!Next]_(Promised!vars)
<1>1. CASE Read(e)
  BY <1>1 DEF Read, Promised!vars
<1>2. CASE Drop(e)
  BY <1>2 DEF Drop, Offers, Promised!vars
<1>3. ASSUME Offers(e) PROVE Job(e) \in Jobs
  <2>1. local \in [Emitters -> [topics : Seq(Topics), payload : Payloads \union {Unread}]]
    BY DEF IInv, TypeOK
  <2>2. local[e].payload # Unread /\ local[e].topics # <<>>
    BY <1>3 DEF Offers, IInv, Reading
  <2>3. Head(local[e].topics) \in Topics
    BY <2>1, <2>2, HeadTailProperties
  <2> QED
    BY <2>1, <2>2, <2>3 DEF Job, Jobs
<1>4. CASE Enqueue(e)
  <2>1. Job(e) \in Jobs
    BY <1>3, <1>4 DEF Enqueue
  <2>2. Promised!Accept(Job(e))
    BY <1>4 DEF Enqueue, Offers, Gate, Promised!Accept
  <2> QED
    BY <2>1, <2>2 DEF Promised!Next
<1>5. CASE PublishNow(e)
  <2>1. Job(e) \in Jobs /\ Promised!Reaches(Job(e)) /\ (link = "closed" => retained' = retained)
    BY <1>3, <1>5, PublishReaches DEF PublishNow
  <2>2. UNCHANGED <<boot, queue, job>>
    BY <1>5 DEF PublishNow, Offers
  <2>3. boot # "subscribing"
    BY <1>5 DEF PublishNow, Offers, Gate, Rest
  <2>4. boot # "running"
    BY <1>5 DEF PublishNow, Gate
  <2>5. CASE boot = "closing"
    BY <2>1, <2>2, <2>5 DEF Promised!AtOnce, Promised!Next
  <2>6. CASE boot = "left"
    BY <2>1, <2>2, <2>6 DEF Gate, Promised!vars
  <2> QED
    BY <2>3, <2>4, <2>5, <2>6 DEF IInv, TypeOK
<1> QED
  BY <1>1, <1>2, <1>4, <1>5 DEF Proceed

LEMMA StepKeepsOrder ==
    ASSUME IInv, Gate, [Next]_publisherVars
    PROVE  [Promised!Next]_(Promised!vars)
<1>1. CASE Subscribe \/ Connection
  BY <1>1 DEF Subscribe, Connection, publishing, Promised!vars
<1>2. CASE Start
  BY <1>2 DEF Start, Promised!Turn, Promised!Next
<1>3. CASE Close
  BY <1>3 DEF Close, Promised!Turn, Promised!Next
<1>4. CASE Leave
  <2>1. queue = <<>> /\ job = <<>>
    BY <1>4 DEF Leave, IInv, Shutdown, TypeOK
  <2> QED
    BY <1>4, <2>1 DEF Leave, publishing, Promised!Turn, Promised!Leave, Promised!Next
<1>5. CASE Worker
  BY <1>5, WorkerKeepsOrder
<1>6. CASE \E h \in Handlers, p \in Parts, relevant \in BOOLEAN : Message(h, p, relevant)
  BY <1>6 DEF Message, Promised!vars
<1>7. CASE Heartbeat
  BY <1>7 DEF Heartbeat, Promised!vars
<1>8. CASE \E e \in Emitters : Proceed(e)
  BY <1>8, EmitterKeepsOrder
<1>9. CASE UNCHANGED publisherVars
  BY <1>9 DEF publisherVars, Promised!vars
<1> QED
  BY <1>1, <1>2, <1>3, <1>4, <1>5, <1>6, <1>7, <1>8, <1>9 DEF Next, Main

(* The publisher implements Outbox, for any number of emitters and any     *)
(* size of the queue: while it runs, what the broker learns has waited its *)
(* turn, once and in the order of acceptance.                              *)
THEOREM ImplementsOutbox == Spec => QueueKept
<1>1. Init => Promised!Init
  BY DEF Init, Promised!Init
<1> QED
  BY <1>1, InitOK, NextOK, GateOK, StepKeepsOrder, PTL DEF Spec, QueueKept, Promised!Spec

-----------------------------------------------------------------------------
(* The subscriptions: what is recorded and not in place on a connection    *)
(* that is up is in the hands of some call that will still send it, an     *)
(* OnConnect handler that has not copied the list yet among them.          *)
Carried ==
    /\ boot # "subscribing" => subs = Filters /\ calling = {}
    /\ link = "up" /\ starting = 0 => subs \subseteq active \union pending \union calling

LEMMA CarriedOK ==
    /\ Init => Carried
    /\ IInv /\ Carried /\ [Next]_publisherVars => Carried'
<1>1. Init => Carried
  BY DEF Init, ClientInit, Carried
<1> SUFFICES ASSUME ClientTypeOK, Carried, [Next]_publisherVars PROVE Carried'
  BY <1>1, Split
<1> USE DEF Carried
<1>2. CASE Subscribe
  <2>1. CASE \E f \in Filters : SubscribeRecords(f)
    BY <1>2, <2>1 DEF Subscribe, SubscribeRecords
  <2>2. CASE \E f \in Filters : SubscribeSends(f)
    BY <1>2, <2>2 DEF Subscribe, SubscribeSends, Sent
  <2> QED
    BY <1>2, <2>1, <2>2 DEF Subscribe
<1>3. CASE Start
  BY <1>3 DEF Start, clientVars
<1>4. CASE Leave
  BY <1>4 DEF Leave, Disconnect
<1>5. CASE Connection
  <2> USE <1>5 DEF Connection
  <2>1. CASE Connected
    BY <2>1 DEF Connected, ClientTypeOK
  <2>2. CASE OnConnect
    BY <2>2 DEF OnConnect
  <2>3. CASE \E f \in Filters : resubscribe(f)
    BY <2>3 DEF resubscribe, Sent
  <2>4. CASE ConnectionLost
    BY <2>4 DEF ConnectionLost
  <2> QED
    BY <2>1, <2>2, <2>3, <2>4 DEF Background
<1>6. CASE UNCHANGED clientVars /\ (boot' = "subscribing" <=> boot = "subscribing")
  BY <1>6 DEF clientVars
<1>7. Worker \/ Close \/ Heartbeat \/ (\E e \in Emitters : Proceed(e)) \/ UNCHANGED publisherVars
      \/ (\E h \in Handlers, p \in Parts, relevant \in BOOLEAN : Message(h, p, relevant))
      => UNCHANGED clientVars /\ (boot' = "subscribing" <=> boot = "subscribing")
  BY DEF Worker, Take, Deliver, WorkerEnds, Close, Heartbeat, Proceed, Read, Enqueue, Drop,
     PublishNow, Offers, Message, publisherVars
<1> QED
  BY <1>2, <1>3, <1>4, <1>5, <1>6, <1>7 DEF Next, Main

(* While the process runs on a connection that is up, every filter the     *)
(* broker does not have subscribed is about to be sent: one that no call   *)
(* will send again, whose messages would be missed until the next loss of  *)
(* the connection, does not occur.  In particular when no OnConnect        *)
(* handler is at work, every filter is subscribed.                         *)
THEOREM NoFilterForgotten ==
    Spec => [](boot # "subscribing" /\ link = "up" /\ starting = 0
               => Filters \ active \subseteq pending)
<1>1. Carried =>
        (boot # "subscribing" /\ link = "up" /\ starting = 0 => Filters \ active \subseteq pending)
  BY DEF Carried
<1> QED
  BY <1>1, InitOK, NextOK, CarriedOK, PTL DEF Spec

-----------------------------------------------------------------------------
(***************************************************************************)
(* 2.  The history log: what rotation, failures and crashes leave in       *)
(* memory and on disk, for any limits, any number of entries and any       *)
(* number of faults.                                                       *)
(*                                                                         *)
(* The operators on sequences are recursive functions of History.  What    *)
(* they return is shown by induction on the length in the form of a set:   *)
(* the lengths for which the fact holds contain zero and every successor.  *)
(***************************************************************************)
LEMMA SetInduction ==
    ASSUME NEW T \in SUBSET Nat, 0 \in T, \A n \in T : n + 1 \in T
    PROVE  T = Nat
<1> DEFINE Less == OpToRel(<, Nat)
<1>1. SUFFICES ASSUME Nat \ T # {} PROVE FALSE
  OBVIOUS
<1>2. IsWellFoundedOn(Less, Nat)
  BY NatLessThanWellFounded
<1>3. Less = {ss \in Nat \X Nat : ss[1] < ss[2]}
  BY DEF OpToRel
<1> HIDE DEF Less
<1>4. PICK m \in Nat \ T : \A k \in Nat \ T : ~ (<<k, m>> \in Less)
  BY <1>1, <1>2, WFMin
<1>5. m # 0 /\ m - 1 \in Nat \ T /\ <<m - 1, m>> \in Less
  BY <1>3
<1>6. QED
  BY <1>4, <1>5

\* What of s[1..n] has been kept: wanted elements only, all of them, in order.
IsOnly(s, wanted, n, k) ==
    /\ k \in Seq(Nat) /\ Len(k) <= n
    /\ \A i \in DOMAIN k : \E j \in 1..n : s[j] = k[i] /\ s[j] \in wanted
    /\ \A j \in 1..n : s[j] \in wanted => \E i \in DOMAIN k : k[i] = s[j]

Ascending(s, wanted) ==
    \A i, j \in DOMAIN s : i < j /\ s[i] \in wanted /\ s[j] \in wanted => s[i] < s[j]

LEMMA OnlyStep ==
    ASSUME NEW s \in Seq(Nat), NEW wanted, NEW n \in Nat, n + 1 <= Len(s), Ascending(s, wanted),
           NEW k, IsOnly(s, wanted, n, k), Increasing(k), s[n + 1] \in wanted
    PROVE  /\ IsOnly(s, wanted, n + 1, Append(k, s[n + 1]))
           /\ Increasing(Append(k, s[n + 1]))
<1> DEFINE x == s[n + 1]
           m == Append(k, x)
<1>1. x \in Nat /\ k \in Seq(Nat) /\ Len(k) \in Nat /\ Len(k) <= n
  BY DEF IsOnly
<1>2. /\ m \in Seq(Nat) /\ Len(m) = Len(k) + 1 /\ DOMAIN m = 1..Len(k) + 1
      /\ \A i \in 1..Len(k) : m[i] = k[i]
      /\ m[Len(k) + 1] = x
  BY <1>1
<1>3. DOMAIN k = 1..Len(k) /\ DOMAIN s = 1..Len(s)
  BY <1>1
<1>4. x \in wanted
  OBVIOUS
<1> HIDE DEF m
<1>5. \A i \in DOMAIN m : \E j \in 1..n + 1 : s[j] = m[i] /\ s[j] \in wanted
  <2>1. TAKE i \in DOMAIN m
  <2>2. CASE i = Len(k) + 1
    BY <1>2, <1>4, <2>2
  <2>3. CASE i \in 1..Len(k)
    <3>1. PICK j \in 1..n : s[j] = k[i] /\ s[j] \in wanted
      BY <1>3, <2>3 DEF IsOnly
    <3>2. j \in 1..n + 1 /\ s[j] = m[i] /\ s[j] \in wanted
      BY <1>2, <2>3, <3>1
    <3>3. QED
      BY <3>2
  <2>4. QED
    BY <1>1, <1>2, <2>2, <2>3
<1>6. \A j \in 1..n + 1 : s[j] \in wanted => \E i \in DOMAIN m : m[i] = s[j]
  <2>1. TAKE j \in 1..n + 1
  <2>2. HAVE s[j] \in wanted
  <2>3. CASE j = n + 1
    BY <1>1, <1>2, <2>3
  <2>4. CASE j \in 1..n
    <3>1. PICK i \in DOMAIN k : k[i] = s[j]
      BY <2>2, <2>4 DEF IsOnly
    <3>2. i \in DOMAIN m /\ m[i] = s[j]
      BY <1>1, <1>2, <1>3, <3>1
    <3>3. QED
      BY <3>2
  <2>5. QED
    BY <2>3, <2>4
<1>7. \A i \in 1..Len(k) : k[i] < x
  <2>1. TAKE i \in 1..Len(k)
  <2>2. PICK j \in 1..n : s[j] = k[i] /\ s[j] \in wanted
    BY <1>3 DEF IsOnly
  <2>3. j \in DOMAIN s /\ n + 1 \in DOMAIN s /\ j < n + 1
    BY <1>3
  <2>4. QED
    BY <1>4, <2>2, <2>3 DEF Ascending
<1>8. Increasing(m)
  <2>1. \A i, j \in 1..Len(k) + 1 : i < j => m[i] < m[j]
    <3>1. TAKE i, j \in 1..Len(k) + 1
    <3>2. HAVE i < j
    <3>3. i \in 1..Len(k)
      BY <1>1, <3>2
    <3>4. CASE j = Len(k) + 1
      BY <1>2, <1>7, <3>3, <3>4
    <3>5. CASE j \in 1..Len(k)
      BY <1>2, <1>3, <3>2, <3>3, <3>5 DEF Increasing
    <3>6. j = Len(k) + 1 \/ j \in 1..Len(k)
      BY <1>1
    <3>7. QED
      BY <3>4, <3>5, <3>6
  <2>2. QED
    BY <1>2, <2>1 DEF Increasing
<1>9. IsOnly(s, wanted, n + 1, m)
  BY <1>1, <1>2, <1>5, <1>6 DEF IsOnly
<1>10. QED
  BY <1>8, <1>9 DEF m

\* The elements of a sequence that are wanted: no others, all of them, in an
\* order that is strict when it was strict between them.
LEMMA OnlyKeeps ==
    ASSUME NEW s \in Seq(Nat), NEW wanted, Ascending(s, wanted)
    PROVE  /\ IsOnly(s, wanted, Len(s), Only(s, wanted))
           /\ Increasing(Only(s, wanted))
<1> DEFINE Body(k, n) == IF n = 0 THEN <<>>
                         ELSE IF s[n] \in wanted THEN Append(k[n - 1], s[n]) ELSE k[n - 1]
           Good(k, n) == IsOnly(s, wanted, n, k) /\ Increasing(k)
           Kepts(k)   == k = [n \in 0..Len(s) |-> Body(k, n)]
<1>1. Len(s) \in Nat
  OBVIOUS
<1>2. Good(<<>>, 0)
  BY DEF IsOnly, Increasing
<1>3. ASSUME NEW n \in Nat, n + 1 <= Len(s), NEW k, Good(k, n), s[n + 1] \notin wanted
      PROVE  Good(k, n + 1)
  BY <1>3 DEF IsOnly
<1>4. ASSUME NEW n \in Nat, n + 1 <= Len(s), NEW k, Good(k, n), s[n + 1] \in wanted
      PROVE  Good(Append(k, s[n + 1]), n + 1)
  BY <1>4, OnlyStep
<1> HIDE DEF Good
<1>5. \E k : Kepts(k)
  <2> DEFINE T == {m \in Nat : \E k : k = [n \in 0..m |-> Body(k, n)]}
  <2>1. 0 \in T
    <3> DEFINE k == [n \in 0..0 |-> <<>>]
    <3>1. k = [n \in 0..0 |-> Body(k, n)]
      OBVIOUS
    <3>2. QED
      BY <3>1
  <2>2. ASSUME NEW m \in T PROVE m + 1 \in T
    <3>1. m \in Nat
      OBVIOUS
    <3>2. PICK k : k = [n \in 0..m |-> Body(k, n)]
      BY <2>2
    <3> DEFINE g == [n \in 0..m + 1 |-> Body(k, n)]
    <3>3. ASSUME NEW n \in 0..m PROVE g[n] = k[n]
      <4>1. n \in 0..m + 1
        BY <3>1
      <4> HIDE DEF Body
      <4>2. g[n] = Body(k, n)
        BY <4>1
      <4>3. k[n] = Body(k, n)
        BY <3>2
      <4>4. QED
        BY <4>2, <4>3
    <3>4. ASSUME NEW n \in 0..m + 1 PROVE Body(g, n) = Body(k, n)
      <4>1. CASE n = 0
        BY <4>1
      <4>2. CASE n # 0
        <5>1. n - 1 \in 0..m
          BY <3>1, <4>2
        <5>2. g[n - 1] = k[n - 1]
          BY <3>3, <5>1
        <5> HIDE DEF g
        <5>3. QED
          BY <5>2
      <4>3. QED
        BY <4>1, <4>2
    <3>5. g = [n \in 0..m + 1 |-> Body(g, n)]
      BY <3>4
    <3> HIDE DEF g, Body
    <3>6. QED
      BY <3>1, <3>5
  <2>3. T = Nat
    <3> HIDE DEF T
    <3>1. T \in SUBSET Nat
      BY DEF T
    <3>2. QED
      BY <2>1, <2>2, <3>1, SetInduction
  <2>4. QED
    BY <1>1, <2>3
<1>6. ASSUME NEW k, Kepts(k) PROVE Good(k[Len(s)], Len(s))
  <2>1. \A n \in 0..Len(s) : k[n] = Body(k, n)
    BY <1>6
  <2> DEFINE T == {n \in Nat : n <= Len(s) => Good(k[n], n)}
  <2>2. 0 \in T
    <3>1. k[0] = <<>>
      BY <1>1, <2>1
    <3>2. QED
      BY <1>2, <3>1
  <2>3. ASSUME NEW n \in T PROVE n + 1 \in T
    <3>1. SUFFICES ASSUME n + 1 <= Len(s) PROVE Good(k[n + 1], n + 1)
      OBVIOUS
    <3>2. n \in Nat /\ Good(k[n], n) /\ n + 1 # 0 /\ (n + 1) - 1 = n
      BY <1>1, <2>3, <3>1
    <3>3. k[n + 1] = Body(k, n + 1)
      BY <1>1, <2>1, <3>1, <3>2
    <3>4. k[n + 1] = IF s[n + 1] \in wanted THEN Append(k[n], s[n + 1]) ELSE k[n]
      BY <3>2, <3>3
    <3>5. QED
      BY <1>3, <1>4, <3>1, <3>2, <3>4
  <2>4. T = Nat
    <3> HIDE DEF T
    <3>1. T \in SUBSET Nat
      BY DEF T
    <3>2. QED
      BY <2>2, <2>3, <3>1, SetInduction
  <2>5. QED
    BY <1>1, <2>4
<1>7. Only(s, wanted) = (CHOOSE k : Kepts(k))[Len(s)]
  BY DEF Only
<1> HIDE DEF Kepts
<1>8. QED
  BY <1>5, <1>6, <1>7 DEF Good

LEMMA Spread ==
    ASSUME NEW s \in Seq(Nat), Increasing(s), NEW i \in DOMAIN s, NEW j \in DOMAIN s, i <= j
    PROVE  s[i] + (j - i) <= s[j]
<1> DEFINE T == {n \in Nat : i + n <= Len(s) => s[i] + n <= s[i + n]}
<1>1. DOMAIN s = 1..Len(s) /\ Len(s) \in Nat /\ \A n \in DOMAIN s : s[n] \in Nat
  OBVIOUS
<1>2. 0 \in T
  BY <1>1
<1>3. ASSUME NEW n \in T PROVE n + 1 \in T
  <2>1. n \in Nat /\ (i + n <= Len(s) => s[i] + n <= s[i + n])
    BY <1>3
  <2>2. SUFFICES ASSUME i + (n + 1) <= Len(s) PROVE s[i] + (n + 1) <= s[i + (n + 1)]
    BY <2>1
  <2>3. i + n \in DOMAIN s /\ i + (n + 1) \in DOMAIN s /\ i + n < i + (n + 1) /\ i + n <= Len(s)
    BY <1>1, <2>1, <2>2
  <2>4. s[i + n] < s[i + (n + 1)] /\ s[i + n] \in Nat /\ s[i + (n + 1)] \in Nat
    BY <1>1, <2>3 DEF Increasing
  <2>5. QED
    BY <1>1, <2>1, <2>3, <2>4
<1>4. T = Nat
  <2> HIDE DEF T
  <2>1. T \in SUBSET Nat
    BY DEF T
  <2>2. QED
    BY <1>2, <1>3, <2>1, SetInduction
<1>5. j - i \in T /\ i + (j - i) = j
  BY <1>1, <1>4
<1>6. QED
  BY <1>1, <1>5

LEMMA SuffixIs ==
    ASSUME NEW s \in Seq(Nat), NEW first \in Nat, NEW n \in Nat, first + n = Len(s)
    PROVE  /\ SubSeq(s, first + 1, Len(s)) \in Seq(Nat)
           /\ Len(SubSeq(s, first + 1, Len(s))) = n
           /\ DOMAIN SubSeq(s, first + 1, Len(s)) = 1..n
           /\ \A i \in 1..n : SubSeq(s, first + 1, Len(s))[i] = s[first + i]
<1> DEFINE low == first + 1
           m   == SubSeq(s, low, Len(s))
<1>1. /\ low \in Int /\ Len(s) \in Int /\ Len(s) - low + 1 = n
      /\ n = IF low <= Len(s) THEN n ELSE 0
  OBVIOUS
<1>2. \A i \in low..Len(s) : s[i] \in Nat
  OBVIOUS
<1>3. \A i \in 1..n : low + i - 1 = first + i
  OBVIOUS
<1> HIDE DEF low
<1>4. /\ m \in Seq(Nat) /\ Len(m) = (IF low <= Len(s) THEN Len(s) - low + 1 ELSE 0)
      /\ \A i \in 1..Len(s) - low + 1 : m[i] = s[low + i - 1]
  BY <1>1, <1>2, SubSeqProperties
<1> HIDE DEF m
<1>5. m \in Seq(Nat) /\ Len(m) = n /\ \A i \in 1..n : m[i] = s[low + i - 1]
  BY <1>1, <1>4
<1>6. DOMAIN m = 1..n
  BY <1>5
<1>7. QED
  BY <1>3, <1>5, <1>6 DEF m, low

\* The newest n of an increasing sequence; what is left out lies n below the newest.
LEMMA LastOfKeeps ==
    ASSUME NEW s \in Seq(Nat), Increasing(s), NEW n \in Nat, NEW top \in Nat,
           \A i \in DOMAIN s : s[i] <= top
    PROVE  /\ LastOf(s, n) \in Seq(Nat) /\ Increasing(LastOf(s, n))
           /\ Len(LastOf(s, n)) <= n /\ Len(LastOf(s, n)) <= Len(s)
           /\ Set(LastOf(s, n)) \subseteq Set(s)
           /\ \A x \in Set(s) \ Set(LastOf(s, n)) : x + n <= top
<1>1. DOMAIN s = 1..Len(s) /\ Len(s) \in Nat /\ \A i \in DOMAIN s : s[i] \in Nat
  OBVIOUS
<1>2. CASE Len(s) <= n
  BY <1>1, <1>2 DEF LastOf
<1>3. CASE Len(s) > n
  <2> DEFINE m == LastOf(s, n)
             first == Len(s) - n
  <2>1. m = SubSeq(s, first + 1, Len(s)) /\ first \in Nat /\ first + n = Len(s)
    BY <1>1, <1>3 DEF LastOf
  <2> HIDE DEF first
  <2>2. /\ m \in Seq(Nat) /\ Len(m) = n /\ DOMAIN m = 1..n
        /\ \A i \in 1..n : m[i] = s[first + i] /\ first + i \in DOMAIN s
    <3>0. SubSeq(s, first + 1, Len(s)) = m /\ first + n = Len(s) /\ first \in Nat
      BY <2>1
    <3> HIDE DEF m
    <3>1. /\ m \in Seq(Nat) /\ Len(m) = n /\ DOMAIN m = 1..n
          /\ \A i \in 1..n : m[i] = s[first + i]
      BY <3>0, SuffixIs
    <3>2. \A i \in 1..n : first + i \in DOMAIN s
      BY <1>1, <2>1
    <3>3. QED
      BY <3>1, <3>2
  <2> HIDE DEF m
  <2>3. Increasing(m)
    <3>1. \A i, j \in 1..n : i < j => s[first + i] < s[first + j]
      <4>1. TAKE i, j \in 1..n
      <4>2. HAVE i < j
      <4>3. first + i < first + j
        BY <2>1, <4>2
      <4>4. QED
        BY <2>2, <4>3 DEF Increasing
    <3>2. QED
      BY <2>2, <3>1 DEF Increasing
  <2>4. Set(m) \subseteq Set(s)
    BY <2>2 DEF Set
  <2>5. ASSUME NEW x \in Set(s) \ Set(m) PROVE x + n <= top
    <3>1. PICK i \in DOMAIN s : s[i] = x
      BY DEF Set
    <3>2. i <= first
      <4>1. SUFFICES ASSUME i > first PROVE FALSE
        BY <1>1, <2>1
      <4>2. i - first \in 1..n /\ first + (i - first) = i
        BY <1>1, <2>1, <4>1
      <4>3. m[i - first] = x
        BY <2>2, <3>1, <4>2
      <4>4. QED
        BY <2>2, <4>2, <4>3 DEF Set
    <3>3. Len(s) \in DOMAIN s /\ i <= Len(s) /\ Len(s) - i >= n
      BY <1>1, <2>1, <3>2
    <3>4. s[i] + (Len(s) - i) <= s[Len(s)]
      BY <3>3, Spread
    <3>5. s[Len(s)] <= top /\ s[Len(s)] \in Nat /\ s[i] \in Nat
      BY <1>1, <3>3
    <3>6. QED
      BY <1>1, <3>1, <3>3, <3>4, <3>5
  <2>6. Len(m) <= n /\ Len(m) <= Len(s)
    BY <1>1, <1>3, <2>2
  <2>7. QED
    BY <2>2, <2>3, <2>4, <2>5, <2>6 DEF m
<1>4. QED
  BY <1>1, <1>2, <1>3

-----------------------------------------------------------------------------
(* What the log has in hand, on disk and in memory.                        *)

Disk == Set(Scanned) \ {Garbage}

\* An append is under way, and its file is open.
Working == pc \notin {"idle", "down"}
Written == pc \in {"rotate", "rename", "reopen"} \/ (pc = "memory" /\ handle = "open")

LogTypeOK ==
    /\ lines \in Seq(Nat) /\ tail \in Seq(Nat) /\ Len(tail) <= 1
    /\ tmp \in Seq(Nat) /\ memory \in Seq(Nat)
    /\ limit \in Limits /\ size \in Nat /\ written \in Nat /\ torn \in Nat
    /\ entry \in 0..MaxEntries /\ faults \in Nat
    /\ old \subseteq 1..entry /\ acked \subseteq 1..entry /\ dropped \subseteq 1..entry
    /\ pc \in {"idle", "line", "newline", "rotate", "rename", "reopen", "memory", "down"}
    /\ handle \in {"open", "broken", "nil"}

\* Where an append is says which handle it holds and what follows the last newline.
Stages ==
    /\ pc \in {"newline", "rotate", "rename", "reopen"} => handle = "open"
    /\ pc = "line" => handle # "nil"
    /\ pc = "memory" => handle # "broken"
    /\ pc = "newline" => tail \in {<<entry>>, <<Garbage>>}
    /\ Written => tail = <<>>
    /\ Working => entry >= 1 /\ entry \notin acked

\* Lines that parse stand in the order of their appends, in memory too, and the
\* entry that is being appended comes after all of them.
InOrder ==
    /\ Ascending(Scanned, Nat \ {Garbage})
    /\ \A x \in Set(Scanned) : x <= entry /\ (pc = "line" => x < entry)
    /\ Increasing(memory)
    /\ \A x \in Set(memory) : 1 <= x /\ x <= entry /\ (Working => x < entry)

\* Expired, or followed by as many entries as some limit allows.
Gone(d) == (Retains /\ d \in old) \/ \E m \in Limits \ {0} : d + m <= entry

\* What a rotation replaces the file with: the lines of the file without those
\* that are gone, within the limit.
Rotating ==
    /\ pc = "rename" =>
          /\ Increasing(tmp) /\ Set(tmp) \subseteq Disk
          /\ \A d \in Disk \ Set(tmp) : Gone(d)
          /\ limit > 0 => Len(tmp) <= limit
    /\ \A d \in dropped : Gone(d)

\* Acknowledged entries that are no longer on disk though no rotation dropped
\* them, and the one that is about to join them: the entry a fault has left
\* unfinished is not acknowledged, but it spoils the next one.
Missing == acked \ (Disk \union dropped)
Spoiled ==
    IF pc = "newline" THEN tail = <<Garbage>>
    ELSE IF Written THEN entry \notin Disk \union dropped
    ELSE tail # <<>>

Accounted ==
    /\ Set(tail) \intersect acked = {}
    /\ Cardinality(Missing) + (IF Spoiled THEN 1 ELSE 0) <= faults

\* The log believes the file no smaller than it is, but for what appends that
\* failed within their line left in it and for the line under way, and it rotates
\* before it remembers.
Sized ==
    /\ handle = "open" /\ pc # "reopen" =>
          size <= written + torn + (IF pc = "newline" THEN 1 ELSE 0)
    /\ pc = "reopen" => size = Len(lines) /\ (limit > 0 => size <= limit)
    /\ pc = "memory" /\ handle = "open" /\ limit > 0 => written <= limit

LogInv == LogTypeOK /\ Stages /\ InOrder /\ Rotating /\ Accounted

-----------------------------------------------------------------------------
(* The file, and what a rotation would keep of it.                         *)

LEMMA Joined ==
    ASSUME NEW s \in Seq(Nat), NEW t \in Seq(Nat)
    PROVE  s \o t \in Seq(Nat) /\ Len(s \o t) = Len(s) + Len(t) /\ Set(s \o t) = Set(s) \union Set(t)
<1>1. /\ s \o t \in Seq(Nat) /\ Len(s \o t) = Len(s) + Len(t)
      /\ \A i \in 1..Len(s) + Len(t) : (s \o t)[i] = IF i <= Len(s) THEN s[i] ELSE t[i - Len(s)]
  BY ConcatProperties
<1>2. /\ DOMAIN s = 1..Len(s) /\ DOMAIN t = 1..Len(t) /\ DOMAIN (s \o t) = 1..Len(s) + Len(t)
      /\ Len(s) \in Nat /\ Len(t) \in Nat
  BY <1>1
<1> DEFINE u == s \o t
<1> HIDE DEF u
<1>3. Set(u) \subseteq Set(s) \union Set(t)
  <2>1. ASSUME NEW i \in DOMAIN u PROVE u[i] \in Set(s) \union Set(t)
    <3>1. i \in 1..Len(s) + Len(t) /\ u[i] = IF i <= Len(s) THEN s[i] ELSE t[i - Len(s)]
      BY <1>1, <1>2 DEF u
    <3>2. CASE i <= Len(s)
      BY <1>2, <3>1, <3>2 DEF Set
    <3>3. CASE ~ (i <= Len(s))
      <4>1. i - Len(s) \in DOMAIN t /\ u[i] = t[i - Len(s)]
        BY <1>2, <3>1, <3>3
      <4>2. QED
        BY <4>1 DEF Set
    <3>4. QED
      BY <3>2, <3>3
  <2>2. QED
    BY <2>1 DEF Set
<1>4. Set(s) \subseteq Set(u)
  <2>1. ASSUME NEW i \in DOMAIN s PROVE s[i] \in Set(u)
    <3>1. i \in DOMAIN u /\ u[i] = s[i]
      BY <1>1, <1>2 DEF u
    <3>2. QED
      BY <3>1 DEF Set
  <2>2. QED
    BY <2>1 DEF Set
<1>5. Set(t) \subseteq Set(u)
  <2>1. ASSUME NEW i \in DOMAIN t PROVE t[i] \in Set(u)
    <3>1. i + Len(s) \in DOMAIN u /\ u[i + Len(s)] = t[i]
      BY <1>1, <1>2 DEF u
    <3>2. QED
      BY <3>1 DEF Set
  <2>2. QED
    BY <2>1 DEF Set
<1>6. QED
  BY <1>1, <1>3, <1>4, <1>5 DEF u

LEMMA ScannedIs ==
    ASSUME LogTypeOK
    PROVE  /\ Scanned \in Seq(Nat) /\ Len(Scanned) = Len(lines) + Len(tail)
           /\ Set(Scanned) = Set(lines) \union Set(tail)
BY Joined DEF LogTypeOK, Scanned

LEMMA OnlyIs ==
    ASSUME NEW s \in Seq(Nat), NEW wanted, Ascending(s, wanted)
    PROVE  /\ Only(s, wanted) \in Seq(Nat) /\ Increasing(Only(s, wanted))
           /\ Len(Only(s, wanted)) <= Len(s)
           /\ Set(Only(s, wanted)) = Set(s) \intersect wanted
<1>1. IsOnly(s, wanted, Len(s), Only(s, wanted)) /\ Increasing(Only(s, wanted))
  BY OnlyKeeps
<1>2. DOMAIN s = 1..Len(s)
  OBVIOUS
<1> DEFINE o == Only(s, wanted)
<1> HIDE DEF o
<1>3. o \in Seq(Nat) /\ Increasing(o) /\ Len(o) <= Len(s)
  BY <1>1 DEF IsOnly, o
<1>4. /\ \A i \in DOMAIN o : \E j \in DOMAIN s : s[j] = o[i] /\ s[j] \in wanted
      /\ \A j \in DOMAIN s : s[j] \in wanted => \E i \in DOMAIN o : o[i] = s[j]
  BY <1>1, <1>2 DEF IsOnly, o
<1>5. Set(o) = Set(s) \intersect wanted
  BY <1>4 DEF Set
<1>6. QED
  BY <1>3, <1>5 DEF o

LEMMA ParsedIs ==
    ASSUME LogTypeOK, InOrder
    PROVE  /\ Parsed \in Seq(Nat) /\ Increasing(Parsed) /\ Len(Parsed) <= Len(Scanned)
           /\ Set(Parsed) = Disk
<1>1. Scanned \in Seq(Nat)
  BY ScannedIs
<1>2. Ascending(Scanned, Entries)
  BY HistoryConstants DEF InOrder, Ascending, Entries, Garbage
<1>3. Set(Scanned) \intersect Entries = Disk
  <2>1. \A x \in Set(Scanned) : x \in Nat /\ x <= entry
    BY <1>1 DEF Set, InOrder
  <2>2. entry \in Nat /\ entry <= MaxEntries
    BY HistoryConstants DEF LogTypeOK
  <2>3. QED
    BY <2>1, <2>2, HistoryConstants DEF Disk, Entries, Garbage
<1>4. QED
  BY <1>1, <1>2, <1>3, OnlyIs DEF Parsed

LEMMA KeptIs ==
    ASSUME LogTypeOK, InOrder
    PROVE  /\ Kept \in Seq(Nat) /\ Increasing(Kept)
           /\ Set(Kept) \subseteq Disk /\ \A d \in Disk \ Set(Kept) : Gone(d)
           /\ limit > 0 => Len(Kept) <= limit
<1> DEFINE fresh == Only(Parsed, Unexpired)
<1>1. Parsed \in Seq(Nat) /\ Increasing(Parsed) /\ Set(Parsed) = Disk
  BY ParsedIs
<1>2. /\ fresh \in Seq(Nat) /\ Increasing(fresh)
      /\ Set(fresh) = Disk \intersect Unexpired
  <2>1. Ascending(Parsed, Unexpired)
    BY <1>1 DEF Ascending, Increasing
  <2>2. QED
    BY <1>1, <2>1, OnlyIs
<1>3. /\ limit \in Limits /\ limit \in Nat /\ entry \in Nat /\ entry <= MaxEntries
  BY HistoryConstants DEF LogTypeOK
<1>4. \A x \in Disk : x \in Entries /\ x <= entry
  <2>1. \A x \in Set(Scanned) : x \in Nat
    BY ScannedIs DEF Set
  <2>2. QED
    BY <1>3, <2>1, HistoryConstants DEF InOrder, Disk, Entries, Garbage
<1>5. \A d \in Disk \ Set(fresh) : Gone(d)
  BY <1>2, <1>4 DEF Unexpired, Gone
<1>6. Kept = IF limit > 0 THEN LastOf(fresh, limit) ELSE fresh
  BY DEF Kept
<1> HIDE DEF fresh
<1>7. CASE limit > 0
  <2>1. \A i \in DOMAIN fresh : fresh[i] <= entry
    BY <1>2, <1>4 DEF Set
  <2>2. /\ Kept \in Seq(Nat) /\ Increasing(Kept) /\ Len(Kept) <= limit
        /\ Set(Kept) \subseteq Set(fresh)
        /\ \A x \in Set(fresh) \ Set(Kept) : x + limit <= entry
    BY <1>2, <1>3, <1>6, <1>7, <2>1, LastOfKeeps
  <2>3. limit \in Limits \ {0}
    BY <1>3, <1>7
  <2>4. \A d \in Disk \ Set(Kept) : Gone(d)
    BY <1>5, <2>2, <2>3 DEF Gone
  <2>5. QED
    BY <1>2, <2>2, <2>4
<1>8. CASE ~ (limit > 0)
  BY <1>2, <1>5, <1>6, <1>8
<1>9. QED
  BY <1>7, <1>8

-----------------------------------------------------------------------------
(* Every step keeps the invariant.                                         *)

LEMMA MissingIs ==
    ASSUME LogTypeOK
    PROVE  IsFiniteSet(Missing) /\ Cardinality(Missing) \in Nat /\ Missing \subseteq acked
<1>1. entry \in Nat
  BY HistoryConstants DEF LogTypeOK
<1>2. IsFiniteSet(1..entry)
  BY <1>1, FS_Interval
<1>3. IsFiniteSet(Missing)
  BY <1>2, FS_Subset DEF LogTypeOK, Missing
<1>4. QED
  BY <1>3, FS_CardinalityType DEF Missing

\* What is missing does not grow, and what is newly spoiled is paid with a fault.
LEMMA NothingLost ==
    ASSUME LogInv, LogTypeOK', Missing' \subseteq Missing,
           Set(tail') \intersect acked' = {},
           \/ faults' = faults /\ (Spoiled' => Spoiled)
           \/ faults' = faults + 1
    PROVE  Accounted'
<1>1. /\ IsFiniteSet(Missing) /\ Cardinality(Missing) \in Nat /\ faults \in Nat
      /\ Cardinality(Missing) + (IF Spoiled THEN 1 ELSE 0) <= faults
  BY MissingIs DEF LogInv, LogTypeOK, Accounted
<1>2. Cardinality(Missing') \in Nat /\ Cardinality(Missing') <= Cardinality(Missing)
  BY <1>1, FS_Subset, FS_CardinalityType
<1>3. Cardinality(Missing') + (IF Spoiled' THEN 1 ELSE 0) <= faults'
  <2>1. CASE faults' = faults + 1
    BY <1>1, <1>2, <2>1
  <2>2. CASE faults' = faults /\ (Spoiled' => Spoiled)
    BY <1>1, <1>2, <2>2
  <2>3. QED
    BY <2>1, <2>2
<1>4. Cardinality(Missing)' = Cardinality(Missing') /\ Set(tail)' = Set(tail')
  BY DEF Set
<1>5. QED
  BY <1>3, <1>4 DEF Accounted

LEMMA GoneStays ==
    ASSUME LogTypeOK, LogTypeOK', entry' >= entry, old \subseteq old', NEW d \in Nat, Gone(d)
    PROVE  Gone(d)'
<1>1. entry \in Nat /\ entry' \in Nat /\ \A m \in Limits : m \in Nat
  BY HistoryConstants DEF LogTypeOK
<1>2. QED
  BY <1>1 DEF Gone

LEMMA DiskIsNat == ASSUME LogTypeOK PROVE \A x \in Disk : x \in Nat
BY ScannedIs DEF Disk, Set

\* A step that leaves the file's lines alone.
LEMMA FileSame ==
    ASSUME LogInv, UNCHANGED <<lines, tail>>, LogTypeOK', Stages', Rotating',
           entry' >= entry, UNCHANGED <<acked, dropped>>,
           pc' = "line" => entry' > entry \/ (pc = "line" /\ entry' = entry),
           Increasing(memory'),
           \A x \in Set(memory') : 1 <= x /\ x <= entry' /\ (Working' => x < entry'),
           \/ faults' = faults /\ (Spoiled' => Spoiled)
           \/ faults' = faults + 1
    PROVE  LogInv'
<1>1. Scanned' = Scanned /\ Disk' = Disk /\ Missing' = Missing
  BY DEF Scanned, Disk, Set, Missing
<1>2. /\ LogTypeOK /\ InOrder /\ Accounted /\ entry \in Nat /\ entry' \in Nat
      /\ \A x \in Set(Scanned) : x \in Nat
  <2>1. LogTypeOK /\ InOrder /\ Accounted
    BY DEF LogInv
  <2>2. entry \in Nat /\ entry' \in Nat
    BY HistoryConstants DEF LogInv, LogTypeOK
  <2>3. Scanned \in Seq(Nat)
    BY <2>1, ScannedIs
  <2>4. \A x \in Set(Scanned) : x \in Nat
    BY <2>3 DEF Set
  <2>5. QED
    BY <2>1, <2>2, <2>4
<1>3. InOrder'
  <2>1. Ascending(Scanned, Nat \ {Garbage})'
    BY <1>1, <1>2 DEF InOrder, Ascending
  <2>2. \A x \in Set(Scanned) : x <= entry' /\ (pc' = "line" => x < entry')
    BY <1>2 DEF InOrder
  <2>3. Set(Scanned)' = Set(Scanned) /\ Set(memory)' = Set(memory')
    BY <1>1 DEF Set
  <2>4. Increasing(memory)'
    BY DEF Increasing
  <2>5. QED
    BY <2>1, <2>2, <2>3, <2>4 DEF InOrder
<1>4. Accounted'
  <2>1. Set(tail') \intersect acked' = {}
    BY <1>2 DEF Accounted, Set
  <2>2. QED
    BY <1>1, <2>1, NothingLost
<1>5. QED
  BY <1>3, <1>4 DEF LogInv

LEMMA MemorySame ==
    ASSUME LogInv, UNCHANGED memory, entry' >= entry,
           Working' => entry' > entry \/ (Working /\ entry' = entry), entry' \in Nat
    PROVE  /\ Increasing(memory')
           /\ \A x \in Set(memory') : 1 <= x /\ x <= entry' /\ (Working' => x < entry')
<1>1. \A x \in Set(memory) : x \in Nat
  BY DEF LogInv, LogTypeOK, Set
<1>2. entry \in Nat
  BY HistoryConstants DEF LogInv, LogTypeOK
<1>3. QED
  BY <1>1, <1>2 DEF LogInv, InOrder

\* Rotating says nothing of a step that only ends or starts an append.
LEMMA RotatingSame ==
    ASSUME LogInv, LogTypeOK', UNCHANGED dropped, entry' >= entry, old \subseteq old', pc' # "rename"
    PROVE  Rotating'
<1>1. ASSUME NEW d \in dropped PROVE Gone(d)'
  <2>1. LogTypeOK /\ d \in Nat /\ Gone(d)
    BY HistoryConstants DEF LogInv, LogTypeOK, Rotating
  <2>2. QED
    BY <2>1, GoneStays
<1>2. QED
  BY <1>1 DEF LogInv, Rotating

LEMMA BeginOK == ASSUME LogInv, Begin PROVE LogInv'
<1>1. /\ entry' = entry + 1 /\ entry < MaxEntries /\ pc = "idle" /\ entry \in Nat
      /\ pc' = (IF handle = "nil" THEN "memory" ELSE "line")
      /\ UNCHANGED <<lines, tail, tmp, size, limit, handle, written, memory, old, torn, acked, dropped, faults>>
      /\ LogTypeOK /\ Stages /\ entry' >= entry /\ entry' > entry
  BY HistoryConstants DEF Begin, LogInv, LogTypeOK, file
<1>2. LogTypeOK'
  <2>1. entry' \in 0..MaxEntries /\ 1..entry \subseteq 1..entry'
    BY <1>1, HistoryConstants
  <2>2. QED
    BY <1>1, <2>1 DEF LogTypeOK
<1>3. Stages'
  BY <1>1 DEF Stages, LogTypeOK, Written, Working
<1>4. Rotating'
  BY <1>1, <1>2, RotatingSame
<1>5. Spoiled' => Spoiled
  BY <1>1 DEF Spoiled, Written
<1>6. entry' \in Nat
  BY <1>1
<1>7. QED
  BY <1>1, <1>2, <1>3, <1>4, <1>5, <1>6, MemorySame, FileSame

LEMMA RefusedOK == ASSUME LogInv, WriteRefused PROVE LogInv'
<1>1. /\ pc = "line" /\ handle = "broken" /\ pc' = "idle" /\ entry \in Nat
      /\ UNCHANGED <<lines, tail, tmp, size, limit, handle, written, memory, entry, old, torn, acked, dropped, faults>>
      /\ LogTypeOK /\ Stages /\ entry' >= entry
  BY HistoryConstants DEF WriteRefused, Goes, LogInv, LogTypeOK, file
<1>2. LogTypeOK' /\ Stages'
  BY <1>1 DEF LogTypeOK, Stages, Written, Working
<1>3. Rotating'
  BY <1>1, <1>2, RotatingSame
<1>4. Spoiled' => Spoiled
  BY <1>1 DEF Spoiled, Written
<1>5. Working' => FALSE
  BY <1>1 DEF Working
<1>6. QED
  BY <1>1, <1>2, <1>3, <1>4, <1>5, MemorySame, FileSame

\* An append that ends with an error: what it had written stays, and it costs a
\* fault.
LEMMA FailsOK ==
    ASSUME LogInv, Fails, UNCHANGED <<lines, tail>>, tmp' \in Seq(Nat), size' \in Nat, torn' \in Nat
    PROVE  LogInv'
<1>1. /\ pc' = "idle" /\ entry \in Nat /\ faults' = faults + 1 /\ faults \in Nat
      /\ UNCHANGED <<lines, tail, limit, handle, written, memory, entry, old, acked, dropped>>
      /\ LogTypeOK /\ Stages /\ entry' >= entry
  BY HistoryConstants DEF Fails, Fault, LogInv, LogTypeOK
<1>2. LogTypeOK' /\ Stages'
  BY <1>1 DEF LogTypeOK, Stages, Written, Working
<1>3. Rotating'
  BY <1>1, <1>2, RotatingSame
<1>4. Working' => FALSE
  BY <1>1 DEF Working
<1>5. QED
  BY <1>1, <1>2, <1>3, <1>4, MemorySame, FileSame

\* A line put after the last newline: this append's entry, or a broken one.
LEMMA TailWritten ==
    ASSUME LogInv, LogTypeOK', pc = "line", UNCHANGED <<lines, entry>>,
           NEW x, tail' = <<x>>, x = Garbage \/ x = entry
    PROVE  /\ Ascending(Scanned', Nat \ {Garbage})
           /\ \A y \in Set(Scanned') : y <= entry
           /\ Disk' = (Set(lines) \union {x}) \ {Garbage}
<1>1. /\ LogTypeOK /\ entry \in Nat /\ entry >= 1 /\ InOrder /\ lines \in Seq(Nat) /\ tail \in Seq(Nat)
      /\ x \in Nat /\ x <= entry
  BY HistoryConstants DEF LogInv, LogTypeOK, Stages, Working, Garbage
<1>2. <<x>> \in Seq(Nat) /\ Len(<<x>>) = 1 /\ Set(<<x>>) = {x}
  BY <1>1 DEF Set
<1>3. Scanned' = lines \o <<x>>
  BY DEF Scanned
<1> DEFINE s == Scanned
           u == lines \o <<x>>
<1>4. /\ s \in Seq(Nat) /\ Len(s) = Len(lines) + Len(tail) /\ Set(s) = Set(lines) \union Set(tail)
      /\ \A i \in 1..Len(lines) : i \in DOMAIN s /\ s[i] = lines[i]
  BY <1>1, Joined, ConcatProperties DEF Scanned
<1>5. /\ u \in Seq(Nat) /\ Len(u) = Len(lines) + 1 /\ Set(u) = Set(lines) \union {x}
  BY <1>1, <1>2, Joined
<1>6. /\ \A i \in 1..Len(lines) : u[i] = lines[i]
      /\ u[Len(lines) + 1] = x
      /\ DOMAIN u = 1..Len(lines) + 1
  BY <1>1, <1>2, <1>5, ConcatProperties
<1>7. \A y \in Set(s) : y < entry /\ y \in Nat
  BY <1>4 DEF LogInv, InOrder, Set
<1>8. \A i \in 1..Len(lines) : lines[i] < entry /\ lines[i] \in Nat
  BY <1>4, <1>7 DEF Set
<1> HIDE DEF u
<1>9. Ascending(u, Nat \ {Garbage})
  <2>1. SUFFICES ASSUME NEW i \in DOMAIN u, NEW j \in DOMAIN u, i < j,
                        u[i] \in Nat \ {Garbage}, u[j] \in Nat \ {Garbage}
                 PROVE  u[i] < u[j]
    BY DEF Ascending
  <2>2. i \in 1..Len(lines) /\ (j \in 1..Len(lines) \/ j = Len(lines) + 1)
    BY <1>1, <1>6, <2>1
  <2>3. CASE j \in 1..Len(lines)
    <3>1. i \in DOMAIN s /\ j \in DOMAIN s /\ s[i] = u[i] /\ s[j] = u[j]
      BY <1>4, <1>6, <2>2, <2>3
    <3>2. QED
      BY <2>1, <3>1 DEF LogInv, InOrder, Ascending
  <2>4. CASE j = Len(lines) + 1
    BY <1>6, <1>8, <2>1, <2>2, <2>4
  <2>5. QED
    BY <2>2, <2>3, <2>4
<1>10. \A y \in Set(u) : y <= entry
  BY <1>1, <1>4, <1>5, <1>7
<1>11. Disk' = Set(u) \ {Garbage}
  BY <1>3 DEF Disk, u, Set
<1>12. QED
  BY <1>3, <1>5, <1>9, <1>10, <1>11 DEF u

LEMMA WriteLineOK == ASSUME LogInv, WriteLine PROVE LogInv'
<1>1. /\ pc = "line" /\ handle = "open" /\ UNCHANGED <<lines, tmp, written>>
      /\ LogTypeOK /\ Stages /\ InOrder /\ Rotating /\ Accounted
      /\ entry \in Nat /\ entry >= 1 /\ entry \notin acked /\ Garbage \notin acked
  BY HistoryConstants DEF WriteLine, LogInv, LogTypeOK, Stages, Working, Garbage
<1>2. CASE UNCHANGED <<tail, size, torn>> /\ Fails
  BY <1>1, <1>2, FailsOK DEF LogTypeOK
<1>3. ASSUME NEW x, tail' = <<x>>, x = Garbage \/ x = entry, size' \in Nat, torn' \in Nat,
             UNCHANGED <<limit, handle, memory, entry, old, acked, dropped>>,
             \/ pc' = "idle" /\ faults' = faults + 1
             \/ pc' = "newline" /\ faults' = faults /\ (x = Garbage => tail # <<>>)
      PROVE  LogInv'
  <2>1. LogTypeOK'
    <3>1. tail' \in Seq(Nat) /\ Len(tail') <= 1
      BY <1>1, <1>3 DEF Garbage
    <3>2. faults' \in Nat
      BY <1>1, <1>3 DEF LogTypeOK
    <3>3. QED
      BY <1>1, <1>3, <3>1, <3>2 DEF LogTypeOK
  <2>2. Stages'
    BY <1>1, <1>3 DEF Stages, Written, Working
  <2>3. /\ Ascending(Scanned', Nat \ {Garbage})
        /\ \A y \in Set(Scanned') : y <= entry
        /\ Disk' = (Set(lines) \union {x}) \ {Garbage}
    BY <1>1, <1>3, <2>1, TailWritten
  <2>4. InOrder'
    <3>1. Set(Scanned)' = Set(Scanned') /\ Set(memory)' = Set(memory) /\ Increasing(memory)'
      BY <1>1, <1>3 DEF Set, Increasing, InOrder
    <3>2. Ascending(Scanned, Nat \ {Garbage})'
      BY <2>3 DEF Ascending
    <3>3. \A y \in Set(memory) : 1 <= y /\ y <= entry /\ y < entry
      BY <1>1 DEF InOrder, Working
    <3>4. QED
      BY <1>3, <2>3, <3>1, <3>2, <3>3 DEF InOrder
  <2>5. Rotating'
    BY <1>1, <1>3 DEF Rotating, Gone
  <2>6. Accounted'
    <3>1. Disk = (Set(lines) \union Set(tail)) \ {Garbage}
      BY <1>1, ScannedIs DEF Disk
    <3>2. Missing' \subseteq Missing
      BY <1>1, <1>3, <2>3, <3>1 DEF Missing, Accounted
    <3>3. Set(tail') \intersect acked' = {}
      BY <1>1, <1>3 DEF Set
    <3>4. faults' = faults => (Spoiled' => Spoiled)
      <4>1. faults \in Nat
        BY <1>1 DEF LogTypeOK
      <4>2. SUFFICES ASSUME faults' = faults, Spoiled' PROVE Spoiled
        OBVIOUS
      <4>3. pc' = "newline" /\ (x = Garbage => tail # <<>>)
        BY <1>3, <4>1, <4>2
      <4>4. x = Garbage
        BY <1>3, <4>2, <4>3 DEF Spoiled
      <4>5. QED
        BY <1>1, <4>3, <4>4 DEF Spoiled, Written
    <3>5. QED
      BY <1>3, <2>1, <3>2, <3>3, <3>4, NothingLost
  <2>7. QED
    BY <2>1, <2>2, <2>4, <2>5, <2>6 DEF LogInv
<1>4. CASE tail' = Glued(Garbage) /\ size' = size + 1 /\ torn' = torn + 1 /\ Fails
  <2>1. tail' = <<Garbage>> /\ size' \in Nat /\ torn' \in Nat
    BY <1>1, <1>4 DEF Glued, LogTypeOK
  <2>2. QED
    BY <1>3, <1>4, <2>1 DEF Fails, Fault
<1>5. CASE tail' = Glued(entry) /\ size' = size + 1 /\ UNCHANGED torn /\ Goes("newline")
  <2> size' \in Nat /\ torn' \in Nat
    BY <1>1, <1>5 DEF LogTypeOK
  <2>1. CASE tail = <<>>
    <3>1. tail' = <<entry>>
      BY <1>5, <2>1 DEF Glued
    <3>2. entry # Garbage
      BY <1>1 DEF Garbage
    <3>3. QED
      BY <1>3, <1>5, <3>1, <3>2 DEF Goes
  <2>2. CASE tail # <<>>
    <3>1. tail' = <<Garbage>>
      BY <1>5, <2>2 DEF Glued
    <3>2. QED
      BY <1>3, <1>5, <2>2, <3>1 DEF Goes
  <2>3. QED
    BY <2>1, <2>2
<1>6. QED
  BY <1>2, <1>4, <1>5 DEF WriteLine

LEMMA NewlineOK == ASSUME LogInv, WriteNewline PROVE LogInv'
<1>1. /\ pc = "newline" /\ handle = "open" /\ UNCHANGED <<tmp, size>>
      /\ LogTypeOK /\ Stages /\ InOrder /\ Rotating /\ Accounted
      /\ entry \in Nat /\ entry >= 1 /\ written \in Nat /\ tail \in {<<entry>>, <<Garbage>>}
      /\ entry \notin acked
  BY HistoryConstants DEF WriteNewline, LogInv, LogTypeOK, Stages, Working
<1>2. CASE Fails /\ UNCHANGED <<lines, tail, written>> /\ torn' = torn + 1
  BY <1>1, <1>2, FailsOK DEF LogTypeOK
<1>3. ASSUME lines' = Scanned, tail' = <<>>, written' = written + 1, UNCHANGED torn,
             Goes(IF Exceeds(written + 1) THEN "rotate" ELSE "memory")
      PROVE  LogInv'
  <2>1. /\ pc' = (IF Exceeds(written + 1) THEN "rotate" ELSE "memory")
        /\ UNCHANGED <<limit, handle, memory, entry, old, acked, dropped, faults>>
    BY <1>3 DEF Goes
  <2>2. /\ Scanned \in Seq(Nat) /\ Len(Scanned) = Len(lines) + Len(tail)
        /\ Set(Scanned) = Set(lines) \union Set(tail)
    BY <1>1, ScannedIs
  <2>4. Scanned' = Scanned
    <3>1. Scanned \o <<>> = Scanned
      BY <2>2, ConcatEmptySeq
    <3>2. Scanned' = lines' \o tail'
      BY DEF Scanned
    <3>3. QED
      BY <1>3, <3>1, <3>2
  <2>5. LogTypeOK'
    BY <1>1, <1>3, <2>1, <2>2 DEF LogTypeOK
  <2>6. Stages'
    BY <1>1, <1>3, <2>1 DEF Stages, Written, Working
  <2>7. InOrder'
    <3>1. Set(Scanned)' = Set(Scanned) /\ Set(memory)' = Set(memory) /\ Increasing(memory)'
      BY <1>1, <2>1, <2>4 DEF Set, Increasing, InOrder
    <3>2. Ascending(Scanned, Nat \ {Garbage})'
      BY <1>1, <2>4 DEF Ascending, InOrder
    <3>3. QED
      BY <1>1, <2>1, <3>1, <3>2 DEF InOrder, Working
  <2>8. Rotating'
    BY <1>1, <1>3, <2>1 DEF Rotating, Gone
  <2>9. Accounted'
    <3>1. Disk' = Disk /\ Missing' = Missing
      BY <2>1, <2>4 DEF Disk, Missing, Set
    <3>2. Set(tail') \intersect acked' = {}
      BY <1>3 DEF Set
    <3>3. Spoiled' => Spoiled
      <4>1. tail = <<entry>> => entry \in Set(tail)
        BY DEF Set
      <4>2. tail = <<entry>> => entry \in Disk
        BY <1>1, <2>2, <4>1 DEF Disk, Garbage
      <4>3. Spoiled' => entry \notin Disk
        BY <1>1, <2>1, <3>1 DEF Spoiled, Written
      <4>4. QED
        BY <1>1, <4>2, <4>3 DEF Spoiled
    <3>4. QED
      BY <2>1, <2>5, <3>1, <3>2, <3>3, NothingLost
  <2>10. QED
    BY <2>5, <2>6, <2>7, <2>8, <2>9 DEF LogInv
<1>4. QED
  BY <1>2, <1>3 DEF WriteNewline

LEMMA WriteTmpOK == ASSUME LogInv, WriteTmp PROVE LogInv'
<1>1. /\ pc = "rotate" /\ UNCHANGED <<lines, tail, size, written, torn>>
      /\ LogTypeOK /\ Stages /\ InOrder /\ Rotating /\ entry \in Nat /\ entry' = entry
  BY HistoryConstants DEF WriteTmp, Goes, Fails, LogInv, LogTypeOK
<1>2. /\ Kept \in Seq(Nat) /\ Increasing(Kept)
      /\ Set(Kept) \subseteq Disk /\ \A d \in Disk \ Set(Kept) : Gone(d)
      /\ limit > 0 => Len(Kept) <= limit
  BY <1>1, KeptIs
<1>3. CASE tmp' \in {tmp, <<>>} /\ Fails
  <2>1. tmp' \in Seq(Nat)
    <3>1. tmp \in Seq(Nat) /\ <<>> \in Seq(Nat)
      BY <1>1 DEF LogTypeOK
    <3>2. QED
      BY <1>3, <3>1
  <2>2. QED
    BY <1>1, <1>3, <2>1, FailsOK DEF LogTypeOK
<1>4. CASE tmp' = Kept /\ Goes("rename")
  <2>1. /\ pc' = "rename"
        /\ UNCHANGED <<lines, tail, limit, handle, written, memory, entry, old, acked, dropped, faults>>
    BY <1>1, <1>4 DEF Goes
  <2> DEFINE k == Kept
  <2> HIDE DEF k
  <2>2. /\ tmp' = k /\ k \in Seq(Nat) /\ Increasing(k)
        /\ Set(k) \subseteq Disk /\ \A d \in Disk \ Set(k) : Gone(d)
        /\ limit > 0 => Len(k) <= limit
    BY <1>2, <1>4 DEF k
  <2>3. LogTypeOK'
    BY <1>1, <2>1, <2>2 DEF LogTypeOK
  <2>4. Stages'
    BY <1>1, <2>1 DEF Stages, Written, Working
  <2>5. Rotating'
    <3>1. Disk' = Disk /\ Set(tmp)' = Set(k) /\ Increasing(tmp)'
      BY <2>1, <2>2 DEF Disk, Scanned, Set, Increasing
    <3>2. \A d : Gone(d)' <=> Gone(d)
      BY <2>1 DEF Gone
    <3>3. QED
      BY <1>1, <2>1, <2>2, <3>1, <3>2 DEF Rotating
  <2>6. Spoiled' => Spoiled
    BY <1>1, <2>1 DEF Spoiled, Written, Disk, Scanned, Set
  <2>7. Working /\ entry' \in Nat /\ entry' >= entry
    BY <1>1 DEF Working
  <2>8. QED
    BY <1>1, <2>1, <2>3, <2>4, <2>5, <2>6, <2>7, MemorySame, FileSame
<1>5. QED
  BY <1>3, <1>4 DEF WriteTmp

LEMMA RenameOK == ASSUME LogInv, Rename PROVE LogInv'
<1>1. /\ pc = "rename" /\ UNCHANGED <<written, torn>> /\ handle = "open" /\ tail = <<>>
      /\ LogTypeOK /\ Stages /\ InOrder /\ Rotating /\ Accounted /\ entry \in Nat
  BY HistoryConstants DEF Rename, LogInv, LogTypeOK, Stages, Written
<1>2. CASE UNCHANGED file /\ Fails
  BY <1>1, <1>2, FailsOK DEF file, LogTypeOK
<1>3. ASSUME lines' = tmp, tail' = <<>>, tmp' = <<>>, size' = Len(tmp), pc' = "reopen",
             dropped' = dropped \union (Set(Parsed) \ Set(tmp)),
             UNCHANGED <<limit, handle, memory, entry, old, acked, faults>>
      PROVE  LogInv'
  <2>1. Set(Parsed) = Disk /\ \A x \in Disk : x \in Nat /\ x # Garbage /\ x <= entry
    BY <1>1, ParsedIs, DiskIsNat DEF InOrder, Disk
  <2>2. Scanned' = tmp
    <3>1. tmp \o <<>> = tmp
      BY <1>1, ConcatEmptySeq DEF LogTypeOK
    <3>2. Scanned' = lines' \o tail'
      BY DEF Scanned
    <3>3. QED
      BY <1>3, <3>1, <3>2
  <2>3. Increasing(tmp) /\ Set(tmp) \subseteq Disk /\ \A d \in Disk \ Set(tmp) : Gone(d)
    BY <1>1 DEF Rotating
  <2>4. Set(Scanned)' = Set(tmp) /\ Disk' = Set(tmp)
    BY <2>1, <2>2, <2>3 DEF Disk, Set
  <2>5. dropped' = dropped \union (Disk \ Set(tmp))
    BY <1>3, <2>1
  <2>6. LogTypeOK'
    <3>1. dropped' \subseteq 1..entry
      <4>1. \A x \in Disk : x \in 1..entry
        BY <1>1, <2>1 DEF Garbage
      <4>2. QED
        BY <1>1, <2>5, <4>1 DEF LogTypeOK
    <3>2. QED
      BY <1>1, <1>3, <3>1 DEF LogTypeOK
  <2>7. Stages'
    BY <1>1, <1>3 DEF Stages, Written, Working
  <2>8. InOrder'
    <3>1. Ascending(Scanned, Nat \ {Garbage})'
      BY <2>2, <2>3 DEF Ascending, Increasing
    <3>2. \A x \in Set(tmp) : x <= entry
      BY <2>1, <2>3
    <3>3. Set(memory)' = Set(memory) /\ Increasing(memory)'
      BY <1>1, <1>3 DEF Set, Increasing, InOrder
    <3>4. QED
      BY <1>1, <1>3, <2>4, <3>1, <3>2, <3>3 DEF InOrder, Working
  <2>9. Rotating'
    <3>1. \A d : Gone(d)' <=> Gone(d)
      BY <1>3 DEF Gone
    <3>2. \A d \in dropped' : Gone(d)
      BY <1>1, <2>3, <2>5 DEF Rotating
    <3>3. QED
      BY <1>3, <3>1, <3>2 DEF Rotating
  <2>10. Accounted'
    <3>1. Missing' \subseteq Missing
      BY <1>3, <2>3, <2>4, <2>5 DEF Missing
    <3>2. Set(tail') \intersect acked' = {}
      BY <1>3 DEF Set
    <3>3. Spoiled' => Spoiled
      BY <1>1, <1>3, <2>3, <2>4, <2>5 DEF Spoiled, Written
    <3>4. QED
      BY <1>3, <2>6, <3>1, <3>2, <3>3, NothingLost
  <2>11. QED
    BY <2>6, <2>7, <2>8, <2>9, <2>10 DEF LogInv
<1>4. QED
  BY <1>2, <1>3 DEF Rename

LEMMA ReopenOK == ASSUME LogInv, Reopen PROVE LogInv'
<1>1. /\ pc = "reopen" /\ UNCHANGED <<lines, tail, tmp, size>> /\ handle = "open"
      /\ LogTypeOK /\ Stages /\ InOrder /\ Rotating /\ entry \in Nat
      /\ UNCHANGED <<limit, memory, entry, old, acked, dropped>>
  BY HistoryConstants DEF Reopen, Goes, file, LogInv, LogTypeOK, Stages
<1>2. \A d : Gone(d)' <=> Gone(d)
  BY <1>1 DEF Gone
<1>3. Working /\ entry' \in Nat /\ entry' >= entry
  BY <1>1 DEF Working
<1>4. CASE written' = Len(lines) /\ torn' = 0 /\ Goes("memory")
  <2>1. /\ pc' = "memory" /\ UNCHANGED <<handle, faults>> /\ Len(lines) \in Nat
    BY <1>1, <1>4 DEF Goes, LogTypeOK
  <2>2. LogTypeOK'
    BY <1>1, <1>4, <2>1 DEF LogTypeOK
  <2>3. Stages'
    BY <1>1, <2>1 DEF Stages, Written, Working
  <2>4. Rotating'
    BY <1>1, <1>2, <1>4, <2>1 DEF Rotating
  <2>5. Spoiled' => Spoiled
    BY <1>1, <2>1 DEF Spoiled, Written, Disk, Scanned, Set
  <2>6. QED
    BY <1>1, <1>3, <2>1, <2>2, <2>3, <2>4, <2>5, MemorySame, FileSame
<1>5. CASE Fault /\ pc' = "idle" /\ handle' = "broken" /\ UNCHANGED <<written, torn>>
  <2>1. faults' = faults + 1 /\ faults \in Nat
    BY <1>1, <1>5 DEF Fault, LogTypeOK
  <2>2. LogTypeOK'
    BY <1>1, <1>5, <2>1 DEF LogTypeOK
  <2>3. Stages' /\ ~Working'
    BY <1>1, <1>5 DEF Stages, Written, Working
  <2>4. Rotating'
    BY <1>1, <1>2, <1>5 DEF Rotating
  <2>5. QED
    BY <1>1, <1>3, <1>5, <2>1, <2>2, <2>3, <2>4, MemorySame, FileSame
<1>6. QED
  BY <1>4, <1>5 DEF Reopen

LEMMA CloseOK == ASSUME LogInv, CloseFile PROVE LogInv'
<1>1. /\ pc = "idle" /\ handle' = "nil" /\ entry \in Nat /\ entry' >= entry
      /\ UNCHANGED <<lines, tail, tmp, size, limit, written, memory, pc, entry, old, torn, acked, dropped, faults>>
      /\ LogTypeOK /\ Stages
  BY HistoryConstants DEF CloseFile, file, LogInv, LogTypeOK
<1>2. LogTypeOK'
  BY <1>1 DEF LogTypeOK
<1>3. Stages' /\ ~Working'
  BY <1>1 DEF Stages, Written, Working
<1>4. Rotating'
  BY <1>1, <1>2, RotatingSame
<1>5. Spoiled' => Spoiled
  BY <1>1 DEF Spoiled, Written
<1>6. QED
  BY <1>1, <1>2, <1>3, <1>4, <1>5, MemorySame, FileSame

LEMMA StopOK == ASSUME LogInv, Stop PROVE LogInv'
<1>1. /\ pc' = "down" /\ handle' = "nil" /\ memory' = <<>> /\ entry \in Nat /\ entry' >= entry
      /\ UNCHANGED <<lines, tail, tmp, size, limit, written, entry, old, torn, acked, dropped>>
      /\ LogTypeOK /\ Stages /\ faults \in Nat
      /\ faults' = faults + 1 \/ (faults' = faults /\ pc = "idle")
  BY HistoryConstants DEF Stop, Fault, file, LogInv, LogTypeOK
<1>2. LogTypeOK'
  <2>1. memory' \in Seq(Nat) /\ faults' \in Nat
    BY <1>1
  <2>2. QED
    BY <1>1, <2>1 DEF LogTypeOK
<1>3. Stages' /\ ~Working'
  BY <1>1 DEF Stages, Written, Working
<1>4. Rotating'
  BY <1>1, <1>2, RotatingSame
<1>5. pc = "idle" => (Spoiled' => Spoiled)
  BY <1>1 DEF Spoiled, Written
<1>6. Increasing(memory') /\ Set(memory') = {}
  BY <1>1 DEF Increasing, Set
<1>7. QED
  BY <1>1, <1>2, <1>3, <1>4, <1>5, <1>6, FileSame

LEMMA OpenOK == ASSUME LogInv, Open PROVE LogInv'
<1>1. /\ pc = "down" /\ pc' = "idle" /\ limit' \in Limits /\ entry \in Nat /\ entry' >= entry
      /\ UNCHANGED <<lines, tail, tmp, size, entry, old, acked, dropped>> /\ torn' = 0
      /\ LogTypeOK /\ Stages /\ InOrder /\ Rotating /\ faults \in Nat
  BY HistoryConstants DEF Open, file, LogInv, LogTypeOK
<1>2. \A d : Gone(d)' <=> Gone(d)
  BY <1>1 DEF Gone
<1>3. ASSUME handle' \in {"open", "nil"}, written' \in Nat,
             faults' = faults \/ faults' = faults + 1,
             memory' \in Seq(Nat), Increasing(memory'),
             \A x \in Set(memory') : 1 <= x /\ x <= entry
      PROVE  LogInv'
  <2>1. LogTypeOK'
    <3>1. faults' \in Nat
      BY <1>1, <1>3
    <3>2. QED
      BY <1>1, <1>3, <3>1 DEF LogTypeOK
  <2>2. Stages' /\ ~Working'
    BY <1>1 DEF Stages, Written, Working
  <2>3. Rotating'
    BY <1>1, <1>2, <1>3 DEF Rotating
  <2>4. Spoiled' => Spoiled
    BY <1>1 DEF Spoiled, Written
  <2>5. QED
    BY <1>1, <1>3, <2>1, <2>2, <2>3, <2>4, FileSame
<1>4. CASE /\ handle' = "open" /\ written' = size
           /\ memory' = LastOf(Parsed, MemoryLimit) /\ UNCHANGED faults
  <2>2. Parsed \in Seq(Nat) /\ Increasing(Parsed) /\ Set(Parsed) = Disk
    BY <1>1, ParsedIs
  <2>3. \A x \in Disk : x \in Nat /\ 1 <= x /\ x <= entry
    BY <1>1, DiskIsNat DEF InOrder, Disk, Garbage
  <2>4. \A i \in DOMAIN Parsed : Parsed[i] <= entry
    BY <2>2, <2>3 DEF Set
  <2> DEFINE p == Parsed
             m == LastOf(p, MemoryLimit)
  <2> HIDE DEF p
  <2>5. m \in Seq(Nat) /\ Increasing(m) /\ Set(m) \subseteq Set(p)
    <3>1. p \in Seq(Nat) /\ Increasing(p) /\ MemoryLimit \in Nat /\ \A i \in DOMAIN p : p[i] <= entry
      BY <2>2, <2>4, HistoryConstants DEF p
    <3>2. QED
      BY <1>1, <3>1, LastOfKeeps
  <2> HIDE DEF m
  <2>6. memory' = m /\ Set(p) = Disk
    BY <1>4, <2>2 DEF m, p
  <2>7. written' \in Nat
    BY <1>1, <1>4 DEF LogTypeOK
  <2>8. QED
    BY <1>3, <1>4, <2>3, <2>5, <2>6, <2>7
<1>5. CASE handle' = "nil" /\ written' = 0 /\ memory' = <<>> /\ Fault
  <2>1. memory' \in Seq(Nat) /\ Increasing(memory') /\ Set(memory') = {}
    BY <1>5 DEF Increasing, Set
  <2>2. QED
    BY <1>3, <1>5, <2>1 DEF Fault
<1>6. QED
  BY <1>4, <1>5 DEF Open

LEMMA AgeOK == ASSUME LogInv, Age PROVE LogInv'
<1>1. /\ UNCHANGED <<lines, tail, tmp, size, limit, handle, written, memory, pc, entry, torn, acked, dropped, faults>>
      /\ LogTypeOK /\ Stages /\ Rotating /\ entry \in Nat /\ entry' >= entry
      /\ old \subseteq old' /\ old' \subseteq 1..entry
  BY HistoryConstants DEF Age, file, LogInv, LogTypeOK
<1>2. LogTypeOK'
  BY <1>1 DEF LogTypeOK
<1>3. Stages'
  BY <1>1 DEF Stages, Written, Working
<1>4. Rotating'
  <2>1. \A d : Gone(d) => Gone(d)'
    BY <1>1 DEF Gone
  <2>2. Disk' = Disk /\ Set(tmp)' = Set(tmp) /\ (Increasing(tmp)' <=> Increasing(tmp))
    BY <1>1 DEF Disk, Scanned, Set, Increasing
  <2>3. QED
    BY <1>1, <2>1, <2>2 DEF Rotating
<1>5. Spoiled' => Spoiled
  BY <1>1 DEF Spoiled, Written, Disk, Scanned, Set
<1>6. Working' <=> Working
  BY <1>1 DEF Working
<1>7. QED
  BY <1>1, <1>2, <1>3, <1>4, <1>5, <1>6, MemorySame, FileSame

LEMMA AppendIncreases ==
    ASSUME NEW s \in Seq(Nat), Increasing(s), NEW x \in Nat, \A i \in DOMAIN s : s[i] < x
    PROVE  /\ Append(s, x) \in Seq(Nat) /\ Increasing(Append(s, x))
           /\ Set(Append(s, x)) \subseteq Set(s) \union {x}
<1> DEFINE m == Append(s, x)
<1>1. /\ m \in Seq(Nat) /\ Len(m) = Len(s) + 1 /\ Len(s) \in Nat
      /\ \A i \in 1..Len(s) : m[i] = s[i]
      /\ m[Len(s) + 1] = x
      /\ DOMAIN m = 1..Len(s) + 1 /\ DOMAIN s = 1..Len(s)
  BY AppendProperties
<1> HIDE DEF m
<1>2. \A i \in DOMAIN m : i \in DOMAIN s \/ i = Len(s) + 1
  BY <1>1
<1>3. Increasing(m)
  <2>1. SUFFICES ASSUME NEW i \in DOMAIN m, NEW j \in DOMAIN m, i < j PROVE m[i] < m[j]
    BY DEF Increasing
  <2>2. i \in DOMAIN s
    BY <1>1, <2>1
  <2>3. CASE j \in DOMAIN s
    BY <1>1, <2>1, <2>2, <2>3 DEF Increasing
  <2>4. CASE j = Len(s) + 1
    BY <1>1, <2>2, <2>4
  <2>5. QED
    BY <1>2, <2>3, <2>4
<1>4. Set(m) \subseteq Set(s) \union {x}
  BY <1>1, <1>2 DEF Set
<1>5. QED
  BY <1>1, <1>3, <1>4 DEF m

LEMMA RememberOK == ASSUME LogInv, Remember PROVE LogInv'
<1>1. /\ pc = "memory" /\ pc' = "idle" /\ entry \in Nat /\ entry >= 1 /\ handle # "broken"
      /\ UNCHANGED <<lines, tail, tmp, size, limit, handle, written, entry, old, torn, dropped, faults>>
      /\ LogTypeOK /\ Stages /\ InOrder /\ Rotating /\ Accounted /\ Working /\ ~Working'
      /\ acked' = (IF handle = "open" THEN acked \union {entry} ELSE acked)
      /\ memory' = LastOf(Append(memory, entry), MemoryLimit)
  BY HistoryConstants DEF Remember, file, LogInv, LogTypeOK, Stages, Working
<1>2. /\ memory' \in Seq(Nat) /\ Increasing(memory')
      /\ \A x \in Set(memory') : 1 <= x /\ x <= entry
  <2> DEFINE longer == Append(memory, entry)
  <2>1. memory \in Seq(Nat) /\ Increasing(memory) /\ \A x \in Set(memory) : 1 <= x /\ x < entry /\ x \in Nat
    BY <1>1 DEF LogTypeOK, InOrder, Set
  <2>2. \A i \in DOMAIN memory : memory[i] < entry
    BY <2>1 DEF Set
  <2>3. /\ longer \in Seq(Nat) /\ Increasing(longer)
        /\ Set(longer) \subseteq Set(memory) \union {entry}
    BY <1>1, <2>1, <2>2, AppendIncreases
  <2>4. memory' = LastOf(longer, MemoryLimit)
    BY <1>1
  <2> HIDE DEF longer
  <2>5. \A x \in Set(longer) : 1 <= x /\ x <= entry
    BY <1>1, <2>1, <2>3
  <2>6. \A i \in DOMAIN longer : longer[i] <= entry
    BY <2>5 DEF Set
  <2>7. MemoryLimit \in Nat
    BY HistoryConstants
  <2>8. memory' \in Seq(Nat) /\ Increasing(memory') /\ Set(memory') \subseteq Set(longer)
    BY <1>1, <2>3, <2>4, <2>6, <2>7, LastOfKeeps
  <2>9. QED
    BY <2>5, <2>8
<1>3. LogTypeOK'
  <2>1. acked' \subseteq 1..entry
    BY <1>1 DEF LogTypeOK
  <2>2. QED
    BY <1>1, <1>2, <2>1 DEF LogTypeOK
<1>4. Stages'
  BY <1>1 DEF Stages, Written, Working
<1>5. Disk' = Disk /\ Scanned' = Scanned
  BY <1>1 DEF Disk, Scanned, Set
<1>6. InOrder'
  <2>1. /\ Set(Scanned)' = Set(Scanned) /\ Set(memory)' = Set(memory')
        /\ Increasing(memory)'
    BY <1>2, <1>5 DEF Set, Increasing
  <2>2. Ascending(Scanned, Nat \ {Garbage})'
    BY <1>1, <1>5 DEF Ascending, InOrder
  <2>3. QED
    BY <1>1, <1>2, <2>1, <2>2 DEF InOrder
<1>7. Rotating'
  BY <1>1 DEF Rotating, Gone
<1>8. CASE handle = "open" /\ entry \notin Disk \union dropped
  <2>1. Spoiled /\ tail = <<>> /\ ~Spoiled'
    BY <1>1, <1>8 DEF Spoiled, Written, Stages
  <2>2. Missing' \subseteq Missing \union {entry}
    BY <1>1, <1>5 DEF Missing
  <2>3. /\ IsFiniteSet(Missing) /\ Cardinality(Missing) \in Nat /\ faults \in Nat
        /\ Cardinality(Missing) + 1 <= faults
    BY <1>1, <2>1, MissingIs DEF Accounted, LogTypeOK
  <2>4. /\ IsFiniteSet(Missing \union {entry})
        /\ Cardinality(Missing \union {entry}) <= Cardinality(Missing) + 1
        /\ Cardinality(Missing \union {entry}) \in Nat
    BY <2>3, FS_AddElement
  <2>5. Cardinality(Missing') \in Nat /\ Cardinality(Missing') <= Cardinality(Missing \union {entry})
    BY <2>2, <2>4, FS_Subset, FS_CardinalityType
  <2>6. Cardinality(Missing') + (IF Spoiled' THEN 1 ELSE 0) <= faults'
    BY <1>1, <2>1, <2>3, <2>4, <2>5
  <2>7. Set(tail)' \intersect acked' = {}
    BY <1>1, <2>1 DEF Set
  <2>8. Accounted'
    BY <2>6, <2>7 DEF Accounted
  <2>9. QED
    BY <1>3, <1>4, <1>6, <1>7, <2>8 DEF LogInv
<1>9. CASE ~ (handle = "open" /\ entry \notin Disk \union dropped)
  <2>1. Missing' \subseteq Missing
    BY <1>1, <1>5, <1>9 DEF Missing
  <2>2. Set(tail') \intersect acked' = {}
    BY <1>1 DEF Accounted, Stages, Written, Set
  <2>3. Spoiled' => Spoiled
    BY <1>1 DEF Spoiled, Written, Stages
  <2>4. Accounted'
    BY <1>1, <1>3, <2>1, <2>2, <2>3, NothingLost
  <2>5. QED
    BY <1>3, <1>4, <1>6, <1>7, <2>4 DEF LogInv
<1>10. QED
  BY <1>8, <1>9

LEMMA LogInitOK == LogInit => LogInv
<1> SUFFICES ASSUME LogInit PROVE LogInv
  OBVIOUS
<1>1. /\ Scanned = <<>> /\ Set(Scanned) = {} /\ Set(memory) = {} /\ Set(tail) = {} /\ Missing = {}
  BY DEF LogInit, Scanned, Set, Missing
<1>2. LogTypeOK
  <2>1. <<>> \in Seq(Nat) /\ Len(<<>>) = 0 /\ 0 \in 0..MaxEntries
    BY HistoryConstants
  <2>2. QED
    BY <2>1 DEF LogInit, LogTypeOK
<1>3. Stages
  BY DEF LogInit, Stages, Working, Written
<1>4. InOrder
  BY <1>1 DEF LogInit, InOrder, Ascending, Increasing, Working
<1>5. Rotating
  BY DEF LogInit, Rotating
<1>6. Accounted
  BY <1>1, FS_EmptySet DEF LogInit, Accounted, Spoiled, Written
<1>7. QED
  BY <1>2, <1>3, <1>4, <1>5, <1>6 DEF LogInv

LEMMA LogNextOK == LogInv /\ [LogNext]_logVars => LogInv'
<1> SUFFICES ASSUME LogInv, [LogNext]_logVars PROVE LogInv'
  OBVIOUS
<1>1. CASE UNCHANGED logVars
  <2>1. /\ UNCHANGED <<lines, tail, tmp, size, limit, handle, written, memory, pc, entry, old, torn,
                       acked, dropped, faults>>
        /\ LogTypeOK /\ Stages /\ Rotating /\ entry \in Nat /\ entry' >= entry
    BY <1>1, HistoryConstants DEF logVars, LogInv, LogTypeOK
  <2>2. LogTypeOK'
    BY <2>1 DEF LogTypeOK
  <2>3. Stages'
    BY <2>1 DEF Stages, Written, Working
  <2>4. Rotating'
    <3>1. \A d : Gone(d) => Gone(d)'
      BY <2>1 DEF Gone
    <3>2. Disk' = Disk /\ Set(tmp)' = Set(tmp) /\ (Increasing(tmp)' <=> Increasing(tmp))
      BY <2>1 DEF Disk, Scanned, Set, Increasing
    <3>3. QED
      BY <2>1, <3>1, <3>2 DEF Rotating
  <2>5. Spoiled' => Spoiled
    BY <2>1 DEF Spoiled, Written, Disk, Scanned, Set
  <2>6. Working' <=> Working
    BY <2>1 DEF Working
  <2>7. QED
    BY <2>1, <2>2, <2>3, <2>4, <2>5, <2>6, MemorySame, FileSame
<1>2. QED
  BY <1>1, BeginOK, WriteLineOK, RefusedOK, NewlineOK, WriteTmpOK, RenameOK, ReopenOK, RememberOK,
     CloseOK, StopOK, OpenOK, AgeOK DEF LogNext

-----------------------------------------------------------------------------
(* The size of the file against the count of it.                           *)

LEMMA SizedInitOK == LogInit => Sized
BY DEF LogInit, Sized

LEMMA SizedNextOK == LogInv /\ Sized /\ [LogNext]_logVars => Sized'
<1> SUFFICES ASSUME LogInv, Sized, [LogNext]_logVars PROVE Sized'
  OBVIOUS
<1>1. /\ size \in Nat /\ written \in Nat /\ torn \in Nat /\ limit \in Nat
      /\ Stages /\ LogTypeOK /\ Rotating
  BY HistoryConstants DEF LogInv, LogTypeOK
<1>2. CASE WriteLine
  BY <1>1, <1>2 DEF WriteLine, Goes, Fails, Sized
<1>3. CASE WriteNewline
  BY <1>1, <1>3 DEF WriteNewline, Goes, Fails, Exceeds, Stages, Sized
<1>4. CASE WriteTmp
  BY <1>1, <1>4 DEF WriteTmp, Goes, Fails, Stages, Sized
<1>5. CASE Rename
  BY <1>1, <1>5 DEF Rename, Fails, file, Rotating, Sized
<1>6. CASE Reopen
  BY <1>1, <1>6 DEF Reopen, Goes, file, Sized
<1>7. CASE Open
  BY <1>1, <1>7 DEF Open, file, Sized
<1>8. CASE Begin \/ WriteRefused \/ Remember \/ CloseFile \/ Stop \/ Age \/ UNCHANGED logVars
  BY <1>1, <1>8 DEF Begin, WriteRefused, Goes, Remember, CloseFile, Stop, Age, logVars, file, Stages, Sized
<1>9. QED
  BY <1>2, <1>3, <1>4, <1>5, <1>6, <1>7, <1>8 DEF LogNext

-----------------------------------------------------------------------------
(* File, memory and the sets of entries keep their types, the tail after   *)
(* the last newline is one line at most, and only entries that were        *)
(* appended are acknowledged, expire or are dropped.                       *)
THEOREM LogTypeCorrect == LogSpec => []LogTypeOK
<1>1. LogInv => LogTypeOK
  BY DEF LogInv
<1>2. QED
  BY <1>1, LogInitOK, LogNextOK, PTL DEF LogSpec

(* An acknowledged entry is on disk until a rotation drops it, except for  *)
(* at most one for each failed step and each crash, wherever they strike   *)
(* an append or a rotation.                                                *)
THEOREM LossesAreBounded == LogSpec => []LossBound
<1>1. LogInv => LossBound
  <2>1. SUFFICES ASSUME LogInv PROVE LossBound
    OBVIOUS
  <2>2. Set(Parsed) = Disk
    BY <2>1, ParsedIs DEF LogInv
  <2>3. Cardinality(Missing) \in Nat /\ faults \in Nat
    BY <2>1, MissingIs DEF LogInv, LogTypeOK
  <2>4. Cardinality(Missing) <= faults
    BY <2>1, <2>3 DEF LogInv, Accounted
  <2>5. QED
    BY <2>2, <2>4 DEF LossBound, Missing
<1> QED
  BY <1>1, LogInitOK, LogNextOK, PTL DEF LogSpec

(* Whatever interrupts rotations, the file's entries and those in memory   *)
(* stay in the order of their appends and come once.                       *)
THEOREM AlwaysOnceInOrder == LogSpec => []OnceInOrder
<1>1. LogInv => OnceInOrder
  BY ParsedIs DEF LogInv, InOrder, OnceInOrder
<1> QED
  BY <1>1, LogInitOK, LogNextOK, PTL DEF LogSpec

(* What a rotation drops has passed the retention or is followed by as     *)
(* many entries as the limit keeps.                                        *)
THEOREM RotationDropsOldest == LogSpec => []DropsOldestOnly
<1>1. LogInv => DropsOldestOnly
  <2>1. SUFFICES ASSUME LogInv, NEW d \in dropped, NEW m \in Limits \ {0}, d + m <= entry
                 PROVE  Cardinality({e \in Entries : e > d /\ e <= entry}) >= m
    BY DEF LogInv, Rotating, Gone, DropsOldestOnly
  <2>2. d \in Nat /\ m \in Nat /\ entry \in Nat /\ entry <= MaxEntries /\ MaxEntries \in Nat
    <3>1. entry \in 0..MaxEntries /\ MaxEntries \in Nat /\ d \in 1..entry /\ m \in Nat
      BY <2>1, HistoryConstants DEF LogInv, LogTypeOK
    <3>2. QED
      BY <3>1
  <2>3. {e \in Entries : e > d /\ e <= entry} = d + 1..entry
    BY <2>2 DEF Entries
  <2>4. Cardinality(d + 1..entry) = entry - d
    <3>1. d + 1 \in Int /\ entry \in Int /\ (d + 1 > entry => entry = d)
      BY <2>1, <2>2
    <3>2. Cardinality(d + 1..entry) = IF d + 1 > entry THEN 0 ELSE entry - (d + 1) + 1
      BY <3>1, FS_Interval
    <3>3. QED
      BY <2>2, <3>1, <3>2
  <2>5. entry - d >= m
    BY <2>1, <2>2
  <2>6. QED
    BY <2>3, <2>4, <2>5
<1> QED
  BY <1>1, LogInitOK, LogNextOK, PTL DEF LogSpec

(* An append that reaches memory with its file in hand leaves the file     *)
(* within its limit but for one line for each append that failed within    *)
(* its own since the file was opened or rotated, also after a limit that   *)
(* shrank or a rotation that failed.                                       *)
THEOREM AlwaysBounded == LogSpec => Bounded
<1> DEFINE Within == pc = "memory" /\ pc' = "idle" /\ handle = "open" /\ limit > 0
                        => size <= limit + torn
<1>1. LogInv /\ Sized => Within
  BY HistoryConstants DEF LogInv, LogTypeOK, Sized
<1> HIDE DEF Within
<1>2. LogSpec => [][Within]_logVars
  BY <1>1, LogInitOK, LogNextOK, SizedInitOK, SizedNextOK, PTL DEF LogSpec
<1> QED
  BY <1>2 DEF Bounded, Within
===============================================================================
