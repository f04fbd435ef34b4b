-------------------------------- MODULE Signals --------------------------------
(***************************************************************************)
(* SignalStore: the activity signals asserted by sources that are not      *)
(* devices (calls, in this program), their expiry, and lastAt, the         *)
(* high-water mark of all signal activity.  Each operation is one critical *)
(* section of the store's lock.                                            *)
(***************************************************************************)
EXTENDS Naturals

CONSTANTS
    Nil,
    Calls,      \* signal IDs: the call IDs of the intercom
    CallTTL,    \* safety-net expiry of a call signal
    Lateness,   \* bound: how far behind the clock a payload's timestamp may be
    ClockMax    \* bound: the clock stops here

ASSUME SignalsConstants ==
    /\ CallTTL \in Nat /\ Lateness \in Nat /\ ClockMax \in Nat
    /\ Nil \notin [since : Nat, expires : Nat]

VARIABLES
    signals,    \* per call the asserted signal, or Nil
    lastAt,     \* high-water mark, 0 when no signal was ever seen
    clock

(* The times a sanitised payload timestamp may have.  0 is the zero time.  *)
Stamps == {ts \in 1..clock : ts + Lateness >= clock}

(* At its ExpiresAt a signal still counts: IsExpired asks for a later now. *)
Expired(s, now) == now > s.expires

ActiveAt(now) == {c \in Calls : signals[c] # Nil /\ ~Expired(signals[c], now)}

Raise(ts) == lastAt' = IF ts > lastAt THEN ts ELSE lastAt

Upsert(c, since) ==
    /\ signals' = [signals EXCEPT ![c] = [since |-> since, expires |-> clock + CallTTL]]
    /\ Raise(since)

\* Mutant: ending a signal is not remembered as activity.
ClearForgetting(c, ts) ==
    signals' = [signals EXCEPT ![c] = Nil] /\ UNCHANGED lastAt

ClearAt(c, ts) ==
    /\ signals' = [signals EXCEPT ![c] = Nil]
    /\ Raise(ts)

\* Mutant: expired signals are skipped by readers and never removed.
PruneNothing(now) == UNCHANGED <<signals, lastAt>>

(* lastAt becomes the latest of itself and the expiries of what is dropped. *)
Prune(now) ==
    LET dropped == {c \in Calls : signals[c] # Nil /\ Expired(signals[c], now)}
        marks == {lastAt} \union {signals[c].expires : c \in dropped}
    IN  /\ signals' = [c \in Calls |-> IF c \in dropped THEN Nil ELSE signals[c]]
        /\ \E m \in marks : (\A n \in marks : n <= m) /\ lastAt' = m
=============================================================================
