------------------------------- MODULE RecentLog -------------------------------
(***************************************************************************)
(* What the recent-activity log promises: the Size most recent records in  *)
(* the order they were added, the oldest forgotten first, and an update    *)
(* that changes only the most recent record of its ID.                     *)
(***************************************************************************)
EXTENDS Naturals, Sequences

CONSTANTS Records, Size

VARIABLE log

Init == log = <<>>

Add(r) == log' = Append(IF Len(log) = Size THEN Tail(log) ELSE log, r)

Newest(i) == \A j \in i + 1..Len(log) : log[j].id # log[i].id

Amend(i, r) ==
    /\ Newest(i)
    /\ r.id = log[i].id
    /\ log' = [log EXCEPT ![i] = r]

Next ==
    \/ \E r \in Records : Add(r)
    \/ \E i \in DOMAIN log, r \in Records : Amend(i, r)

Spec == Init /\ [][Next]_log
=============================================================================
