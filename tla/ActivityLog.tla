------------------------------ MODULE ActivityLog ------------------------------
(***************************************************************************)
(* The ring of recent activity records: a fixed array, the next slot to    *)
(* write and the number of slots in use.  Each operation is one critical   *)
(* section of the log's lock.  A record is reduced to its ID and to how    *)
(* far the call it tells of has come.                                      *)
(***************************************************************************)
EXTENDS Integers, Sequences

CONSTANTS RecordIDs, LogSize

ASSUME ActivityLogConstants == LogSize \in Nat \ {0} /\ "" \notin RecordIDs

VARIABLES buf, head, count

ring == <<buf, head, count>>

Slots == 0..LogSize - 1
Records == [id : RecordIDs, answered : BOOLEAN, ended : BOOLEAN]
Started(id) == [id |-> id, answered |-> FALSE, ended |-> FALSE]

RingInit ==
    /\ buf = [i \in Slots |-> Started("")]
    /\ head = 0
    /\ count = 0

AppendRecord(r) ==
    /\ buf' = [buf EXCEPT ![head] = r]
    /\ head' = (head + 1) % LogSize
    /\ count' = IF count < LogSize THEN count + 1 ELSE count

(* The slot of the record added i records ago. *)
Back(i) == (head - 1 - i + LogSize) % LogSize

\* Mutant: the scan starts at the oldest record.
FoundOldest(id, i) ==
    buf[Back(i)].id = id /\ \A j \in i + 1..count - 1 : buf[Back(j)].id # id

(* The scan starts at the newest record and stops at the first of the ID.  *)
Found(id, i) ==
    /\ buf[Back(i)].id = id
    /\ \A j \in 0..i - 1 : buf[Back(j)].id # id

UpdateRecord(id, stage) ==
    /\ buf' = IF \E i \in 0..count - 1 : Found(id, i)
              THEN LET i == CHOOSE i \in 0..count - 1 : Found(id, i)
                   IN  [buf EXCEPT ![Back(i)][stage] = TRUE]
              ELSE buf
    /\ UNCHANGED <<head, count>>

(* Recent(limit), newest first; 0 asks for all of them.                    *)
RecentRecords(limit) ==
    LET n == IF limit <= 0 \/ limit > count THEN count ELSE limit
    IN  [i \in 1..n |-> buf[Back(i - 1)]]

-----------------------------------------------------------------------------
(* What readers see, oldest first, is the log of RecentLog.                *)
Recent == INSTANCE RecentLog
    WITH Size <- LogSize,
         log <- [i \in 1..count |-> RecentRecords(0)[count + 1 - i]]

(* The ring keeps exactly the newest records, in order, and an update      *)
(* never lands on an older call of the same ID or on an overwritten slot:  *)
(* it implements RecentLog.                                                *)
KeepsRecent == Recent!Spec
=============================================================================
