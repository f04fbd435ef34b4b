------------------------------- MODULE Publisher -------------------------------
(***************************************************************************)
(* The process around the broker: main subscribes the adapters, starts the *)
(* publisher and registers it, and at shutdown closes the publisher and    *)
(* then the connection, while message handlers and the snapshot ticker go  *)
(* on emitting.  An emission reads the store, encodes what it read and     *)
(* then offers it to the bounded queue, topic by topic; one worker hands   *)
(* queued jobs to the client.                                              *)
(*                                                                         *)
(* The state of a device and of the house are version numbers.            *)
(***************************************************************************)
EXTENDS MqttClient, Sequences

CONSTANTS
    Handlers,       \* goroutines that carry a message
    Unread,         \* no payload
    Snapshotter,    \* the goroutine that publishes the snapshot
    Parts,          \* what the store holds: devices, and the house if it is among them
    QueueSize,      \* publishQueueSize
    MaxChanges      \* bound: changes of the store

ASSUME PublisherConstants ==
    /\ Snapshotter \notin Handlers
    /\ IsFiniteSet(Parts) /\ "events" \notin Parts /\ "snapshot" \notin Parts
    /\ QueueSize \in Nat \ {0} /\ MaxChanges \in Nat

Emitters == Handlers \union {Snapshotter}

VARIABLES
    boot,       \* where main is
    store,      \* versions of the device and of the house
    queue,      \* the channel behind p.in
    open,       \* whether p.in is set
    closed,     \* whether the channel is closed
    worker,     \* the worker goroutine: "none", "waiting", "publishing" or "ended"
    job,        \* what it is publishing
    local,      \* each emitter: the topics still to publish, and the payload read
    retained    \* what the broker retains

publisherVars == <<clientVars, boot, store, queue, open, closed, worker, job, local, retained>>

Stateful == Parts \union {"snapshot"}
Topics == Stateful \union {"events"}

(* OnDerivedEvent about a part: the event, the part's own topic, and the   *)
(* snapshot when the event is relevant to it.                              *)
EventTopics(p, relevant) == <<"events", p>> \o (IF relevant THEN <<"snapshot">> ELSE <<>>)

(* PublishSnapshot: the snapshot, the house, then every device.            *)
HeartbeatTopics == {s \in [1..Cardinality(Parts) + 1 -> Stateful] :
    /\ s[1] = "snapshot"
    /\ "house" \in Parts => s[2] = "house"
    /\ \A p \in Parts : \E i \in DOMAIN s : s[i] = p}

(* What the store holds for a topic.                                       *)
Present(t) == IF t = "snapshot" THEN store ELSE [p \in {t} \intersect Parts |-> store[p]]

Rest == [topics |-> <<>>, payload |-> Unread]

Init ==
    /\ ClientInit
    /\ boot = "subscribing"
    /\ store = [p \in Parts |-> 0]
    /\ queue = <<>> /\ open = FALSE /\ closed = FALSE /\ worker = "none" /\ job = <<>>
    /\ local = [e \in Emitters |-> Rest]
    /\ retained = [t \in Stateful |-> Unread]

-----------------------------------------------------------------------------
(* The main goroutine.                                                     *)

publishing == <<store, queue, open, closed, worker, job, local, retained>>

Subscribe ==
    /\ boot = "subscribing"
    /\ \/ calling = {} /\ \E f \in Filters : SubscribeRecords(f)
       \/ \E f \in Filters : SubscribeSends(f)
    /\ UNCHANGED <<boot, publishing>>

Start ==
    /\ boot = "subscribing" /\ subs = Filters /\ calling = {}
    /\ boot' = "running"
    /\ open' = TRUE /\ worker' = "waiting"
    /\ UNCHANGED <<clientVars, store, queue, closed, job, local, retained>>

\* Mutant: the channel is closed and stays where emitters find it.
CloseLeavingOpen ==
    /\ boot = "running" /\ boot' = "closing" /\ closed' = TRUE
    /\ UNCHANGED <<clientVars, open, store, queue, worker, job, local, retained>>

Close ==
    /\ boot = "running"
    /\ boot' = "closing"
    /\ open' = FALSE /\ closed' = TRUE
    /\ UNCHANGED <<clientVars, store, queue, worker, job, local, retained>>

(* Close returns when the worker has ended; then the client disconnects.   *)
Leave ==
    /\ boot = "closing" /\ worker = "ended"
    /\ boot' = "left"
    /\ Disconnect
    /\ UNCHANGED publishing

Main == Subscribe \/ Start \/ Leave

-----------------------------------------------------------------------------
(* The client's Publish: the broker keeps a retained payload, if it is     *)
(* reached; a failure is only logged.                                      *)
Publish(t, payload) ==
    retained' = IF link = "up" /\ t \in Stateful THEN [retained EXCEPT ![t] = payload]
                                                 ELSE retained

(* The worker drains the channel and ends when it is closed and empty.     *)
Take ==
    /\ worker = "waiting" /\ queue # <<>>
    /\ worker' = "publishing" /\ job' = <<Head(queue)>> /\ queue' = Tail(queue)
    /\ UNCHANGED <<clientVars, boot, store, open, closed, local, retained>>

Deliver ==
    /\ worker = "publishing"
    /\ Publish(job[1].topic, job[1].payload)
    /\ worker' = "waiting" /\ job' = <<>>
    /\ UNCHANGED <<clientVars, boot, store, queue, open, closed, local>>

\* Mutant: the worker ends as soon as the channel is closed.
WorkerQuits ==
    /\ worker = "waiting" /\ closed
    /\ worker' = "ended"
    /\ UNCHANGED <<clientVars, boot, store, queue, open, closed, job, local, retained>>

WorkerEnds ==
    /\ worker = "waiting" /\ closed /\ queue = <<>>
    /\ worker' = "ended"
    /\ UNCHANGED <<clientVars, boot, store, queue, open, closed, job, local, retained>>

Worker == Take \/ Deliver \/ WorkerEnds

-----------------------------------------------------------------------------
(* Emitters.  An event reaches the publisher only once it is registered.   *)

Emit(e, topics) ==
    /\ local[e] = Rest
    /\ local' = [local EXCEPT ![e].topics = IF boot = "subscribing" THEN <<>> ELSE topics]

Message(h, p, relevant) ==
    /\ link = "up" /\ active # {}
    /\ store[p] < MaxChanges
    /\ store' = [store EXCEPT ![p] = @ + 1]
    /\ Emit(h, EventTopics(p, relevant))
    /\ UNCHANGED <<clientVars, boot, queue, open, closed, worker, job, retained>>

(* A heartbeat is due every 30 s.  That is far longer than it takes to     *)
(* publish a full queue over a working connection, so the queue is drained *)
(* by then; over a broken one it may not be.                               *)
Due == boot = "running" /\ (link = "up" => queue = <<>> /\ worker = "waiting")

\* Mutant: the ticker publishes the snapshot alone.
HeartbeatSnapshotOnly ==
    /\ Due
    /\ local[Snapshotter] = Rest
    /\ local' = [local EXCEPT ![Snapshotter].topics = <<"snapshot">>]
    /\ UNCHANGED <<clientVars, boot, store, queue, open, closed, worker, job, retained>>

Heartbeat ==
    /\ Due
    /\ \E topics \in HeartbeatTopics : Emit(Snapshotter, topics)
    /\ UNCHANGED <<clientVars, boot, store, queue, open, closed, worker, job, retained>>

Read(e) ==
    /\ local[e].topics # <<>> /\ local[e].payload = Unread
    /\ local' = [local EXCEPT ![e].payload = Present(Head(local[e].topics))]
    /\ UNCHANGED <<clientVars, boot, store, queue, open, closed, worker, job, retained>>

(* publishJSON under p.mu.                                                 *)
Offers(e) ==
    /\ local[e].payload # Unread
    /\ local' = [local EXCEPT ![e] = [topics |-> Tail(@.topics), payload |-> Unread]]
    /\ UNCHANGED <<clientVars, boot, store, open, closed, worker, job>>

Job(e) == [topic |-> Head(local[e].topics), payload |-> local[e].payload]

Enqueue(e) ==
    /\ Offers(e)
    /\ open /\ Len(queue) < QueueSize
    /\ queue' = Append(queue, Job(e))
    /\ UNCHANGED retained

\* Mutant: a full queue falls back to publishing at once.
DropPublishing(e) ==
    /\ Offers(e)
    /\ open /\ Len(queue) >= QueueSize
    /\ Publish(Job(e).topic, Job(e).payload)
    /\ UNCHANGED queue

Drop(e) ==
    /\ Offers(e)
    /\ open /\ Len(queue) >= QueueSize
    /\ UNCHANGED <<queue, retained>>

(* The fallback when p.in is nil, which it is again once Close has begun.  *)
PublishNow(e) ==
    /\ Offers(e)
    /\ ~open
    /\ Publish(Job(e).topic, Job(e).payload)
    /\ UNCHANGED queue

Proceed(e) == Read(e) \/ Enqueue(e) \/ Drop(e) \/ PublishNow(e)

Connection ==
    /\ Background \/ ConnectionLost
    /\ UNCHANGED <<boot, publishing>>

Next ==
    \/ Main \/ Close
    \/ Connection
    \/ Worker
    \/ \E h \in Handlers, p \in Parts, relevant \in BOOLEAN : Message(h, p, relevant)
    \/ Heartbeat
    \/ \E e \in Emitters : Proceed(e)

(* Goroutines run, the ticker ticks, and the client connects again as long *)
(* as it is not closed.  Messages and shutdown need not come.              *)
Spec ==
    /\ Init /\ [][Next]_publisherVars
    /\ WF_publisherVars(Main)
    /\ WF_publisherVars(Worker)
    /\ WF_publisherVars(Connection /\ ~ConnectionLost)
    /\ WF_publisherVars(Heartbeat)
    /\ \A e \in Emitters : WF_publisherVars(Proceed(e))

-----------------------------------------------------------------------------
Payloads == UNION {[P -> 0..MaxChanges] : P \in SUBSET Parts}
Jobs == [topic : Topics, payload : Payloads]

(* The connection, the queue within its bound and the payloads keep their  *)
(* types.                                                                  *)
TypeOK ==
    /\ link \in {"down", "up", "closed"} /\ losses \in 0..MaxLosses
    /\ subs \subseteq Filters /\ active \subseteq subs /\ pending \subseteq subs
    /\ calling \subseteq subs /\ starting \in Nat /\ reconnects \in Nat
    /\ boot \in {"subscribing", "running", "closing", "left"}
    /\ store \in [Parts -> 0..MaxChanges]
    /\ queue \in Seq(Jobs) /\ Len(queue) <= QueueSize /\ job \in Seq(Jobs)
    /\ worker \in {"none", "waiting", "publishing", "ended"}
    /\ worker = "publishing" <=> job # <<>>
    /\ local \in [Emitters -> [topics : Seq(Topics), payload : Payloads \union {Unread}]]
    /\ retained \in [Stateful -> Payloads \union {Unread}]

(* No emitter sends on the closed channel, which would panic: a call that  *)
(* outlives Close finds p.in cleared.                                      *)
NoSendOnClosed == [][closed => Len(queue') <= Len(queue)]_publisherVars

(* The client is disconnected only after everything the queue accepted has *)
(* been handed to it.                                                      *)
DrainedBeforeLeaving == boot = "left" => queue = <<>> /\ worker = "ended"

(* While the publisher runs, a payload reaches the broker only through the *)
(* queue, once, and in the order of acceptance: a full queue drops a job   *)
(* and never overtakes it.  Only a call that finds Close begun goes past   *)
(* the queue, and after the disconnect nothing arrives.                    *)
Promised == INSTANCE Outbox WITH
    phase <- boot, waiting <- queue, handing <- job, kept <- retained,
    Topics <- Stateful, Nothing <- Unread, Size <- QueueSize

QueueKept == Promised!Spec

(* Drops, failed publishes and payloads overtaken between their read and   *)
(* their place in the queue leave old states with the broker; if the       *)
(* connection stays up and the process runs, the heartbeat replaces them.  *)
Heals ==
    [](boot \notin {"closing", "left"})
        => <>[](\A t \in Stateful : retained[t] = Present(t))

(* While the process runs, a connection that stays up ends with every      *)
(* subscription in place, whatever the order of Subscribe, OnConnect and   *)
(* the losses before it.                                                   *)
SubscriptionsReturn ==
    [](boot \notin {"closing", "left"}) => <>[](active = Filters)
=============================================================================
