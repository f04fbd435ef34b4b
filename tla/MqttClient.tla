------------------------------ MODULE MqttClient ------------------------------
(***************************************************************************)
(* pahoClient: the connection to the broker with its automatic reconnects, *)
(* the list of subscriptions recorded for them, and the subscriptions the  *)
(* broker's clean session has.  OnConnect handlers run in goroutines of    *)
(* their own, beside the main goroutine that subscribes at startup.        *)
(***************************************************************************)
EXTENDS Naturals, FiniteSets

CONSTANTS
    Filters,    \* topic filters of the adapters
    MaxLosses   \* bound: how often the connection breaks

ASSUME MqttClientConstants == IsFiniteSet(Filters) /\ MaxLosses \in Nat

VARIABLES
    link,       \* "down", "up", or "closed" after Disconnect
    subs,       \* recorded subscriptions
    active,     \* subscriptions of the broker's session
    starting,   \* OnConnect handlers that have not copied subs yet
    pending,    \* what the OnConnect handlers still have to re-subscribe
    calling,    \* filters Subscribe has recorded and not yet sent
    connected,  \* whether it ever connected
    reconnects, \* connects after the first
    losses

clientVars == <<link, subs, active, starting, pending, calling, connected, reconnects, losses>>

ClientInit ==
    /\ link = "down" /\ connected = FALSE /\ reconnects = 0 /\ losses = 0
    /\ subs = {} /\ active = {} /\ pending = {} /\ calling = {}
    /\ starting = 0

(* The broker accepts the connection; OnConnect is called asynchronously.  *)
Connected ==
    /\ link = "down"
    /\ link' = "up"
    /\ active' = {}
    /\ starting' = starting + 1
    /\ UNCHANGED <<subs, pending, calling, connected, reconnects, losses>>

ConnectionLost ==
    /\ link = "up" /\ losses < MaxLosses
    /\ link' = "down"
    /\ active' = {}
    /\ losses' = losses + 1
    /\ UNCHANGED <<subs, starting, pending, calling, connected, reconnects>>

\* Mutant: only the first connect issues the list.
OnConnectOnce ==
    /\ starting > 0 /\ starting' = starting - 1
    /\ connected' = TRUE
    /\ reconnects' = IF connected THEN reconnects + 1 ELSE reconnects
    /\ pending' = IF connected THEN pending ELSE pending \union subs
    /\ UNCHANGED <<link, subs, active, calling, losses>>

(* OnConnect: count, then copy the list and re-issue it without waiting.   *)
OnConnect ==
    /\ starting > 0
    /\ starting' = starting - 1
    /\ connected' = TRUE
    /\ reconnects' = IF connected THEN reconnects + 1 ELSE reconnects
    /\ pending' = pending \union subs
    /\ UNCHANGED <<link, subs, active, calling, losses>>

Sent(f) == active' = IF link = "up" THEN active \union {f} ELSE active

resubscribe(f) ==
    /\ f \in pending
    /\ pending' = pending \ {f}
    /\ Sent(f)
    /\ UNCHANGED <<link, subs, starting, calling, connected, reconnects, losses>>

(* Subscribe records first, then sends; it fails when not connected.       *)
SubscribeRecords(f) ==
    /\ f \notin subs
    /\ subs' = subs \union {f}
    /\ calling' = calling \union {f}
    /\ UNCHANGED <<link, active, starting, pending, connected, reconnects, losses>>

SubscribeSends(f) ==
    /\ f \in calling
    /\ calling' = calling \ {f}
    /\ Sent(f)
    /\ UNCHANGED <<link, subs, starting, pending, connected, reconnects, losses>>

Disconnect ==
    /\ link # "closed"
    /\ link' = "closed"
    /\ active' = {}
    /\ UNCHANGED <<subs, starting, pending, calling, connected, reconnects, losses>>

Background == Connected \/ OnConnect \/ \E f \in Filters : resubscribe(f)
=============================================================================
