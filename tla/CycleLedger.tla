----------------------------- MODULE CycleLedger -----------------------------
(***************************************************************************)
(* What the rest of the service may rely on about a device's usage cycles, *)
(* whatever class, thresholds or decay rules produce them: cycles do not   *)
(* overlap, a cycle keeps the start it was opened with, its energy is only *)
(* written while it is open, and a finished cycle is never edited - it is  *)
(* replaced whole when the next one opens.                                 *)
(***************************************************************************)
EXTENDS Integers

CONSTANT Unset      \* the finish time of a cycle that has not finished

VARIABLES phase, startedAt, finishedAt, kwh

ledger == <<phase, startedAt, finishedAt, kwh>>

Init ==
    /\ phase = "none"
    /\ startedAt = 0
    /\ finishedAt = Unset
    /\ kwh = 0

\* A new cycle opens with no energy billed to it yet.
Open ==
    /\ phase # "active"
    /\ phase' = "active"
    /\ startedAt' \in Int
    /\ finishedAt' = Unset
    /\ kwh' = 0

Accrue ==
    /\ phase = "active"
    /\ kwh' \in Nat
    /\ UNCHANGED <<phase, startedAt, finishedAt>>

\* The last accrual and the finish time are written together.
Close ==
    /\ phase = "active"
    /\ phase' = "finished"
    /\ finishedAt' \in Int
    /\ kwh' \in Nat
    /\ UNCHANGED startedAt

Next == Open \/ Accrue \/ Close

Spec == Init /\ [][Next]_ledger
=============================================================================
