--------------------------------- MODULE Outbox ---------------------------------
(***************************************************************************)
(* What the publisher promises of the jobs offered to it.  While it runs,  *)
(* the broker learns of a job only when its turn has come: accepted jobs   *)
(* are handed over one at a time, in the order in which they were          *)
(* accepted, never twice, and none is skipped.  Once closing, nothing is   *)
(* accepted: what still comes is handed over at once, past the jobs that   *)
(* wait.  It leaves only when nothing waits, and after that the broker     *)
(* learns nothing.                                                         *)
(***************************************************************************)
EXTENDS Naturals, Sequences

CONSTANTS
    Jobs,       \* records with a topic and a payload
    Topics,     \* those of which the broker keeps the last payload
    Nothing,    \* what it keeps of a topic never published
    Size        \* bound of what waits

VARIABLES
    phase,      \* "subscribing", "running", "closing" or "left"
    waiting,    \* accepted jobs, oldest first
    handing,    \* the one being handed over, if any
    kept        \* what the broker keeps

vars == <<phase, waiting, handing, kept>>

Init ==
    /\ phase = "subscribing"
    /\ waiting = <<>> /\ handing = <<>>
    /\ kept = [t \in Topics |-> Nothing]

Turn(from, to) ==
    /\ phase = from /\ phase' = to
    /\ UNCHANGED <<waiting, handing, kept>>

Leave ==
    /\ waiting = <<>> /\ handing = <<>>
    /\ Turn("closing", "left")

Accept(j) ==
    /\ phase = "running" /\ Len(waiting) < Size
    /\ waiting' = Append(waiting, j)
    /\ UNCHANGED <<phase, handing, kept>>

Pick ==
    /\ phase \in {"running", "closing"}
    /\ waiting # <<>> /\ handing = <<>>
    /\ handing' = <<Head(waiting)>> /\ waiting' = Tail(waiting)
    /\ UNCHANGED <<phase, kept>>

(* The broker may be out of reach, and keeps only some topics.             *)
Reaches(j) ==
    \/ kept' = kept
    \/ j.topic \in Topics /\ kept' = [kept EXCEPT ![j.topic] = j.payload]

HandOver ==
    /\ phase \in {"running", "closing"}
    /\ handing # <<>>
    /\ Reaches(handing[1]) /\ handing' = <<>>
    /\ UNCHANGED <<phase, waiting>>

AtOnce(j) ==
    /\ phase = "closing"
    /\ Reaches(j)
    /\ UNCHANGED <<phase, waiting, handing>>

Next ==
    \/ Turn("subscribing", "running") \/ Turn("running", "closing") \/ Leave
    \/ \E j \in Jobs : Accept(j) \/ AtOnce(j)
    \/ Pick \/ HandOver

Spec == Init /\ [][Next]_vars
=============================================================================
