-------------------------------- MODULE History --------------------------------
(***************************************************************************)
(* history.Log: the recent events in memory and as lines of a file, with   *)
(* rotation by size and retention, under one lock.  Every write and every  *)
(* file operation of an append may fail, and the process may stop between  *)
(* any two of them; what was written stays written.                        *)
(*                                                                         *)
(* Entries are numbered as they are appended.  A line counts as one unit   *)
(* of size, and so does the unfinished rest of one: bytes that a failed    *)
(* append left stay in the file, also when the next line continues them.   *)
(* torn, acked, dropped and faults are history variables.                  *)
(***************************************************************************)
EXTENDS Naturals, Sequences, FiniteSets

CONSTANTS
    Limits,         \* the values maxBytes may be configured to, 0 for no limit
    Retains,        \* whether a retention is configured
    MemoryLimit,
    MaxEntries,     \* bound: entries appended
    MaxFaults       \* bound: failures and crashes

ASSUME HistoryConstants ==
    /\ Limits \subseteq Nat /\ Limits # {} /\ Retains \in BOOLEAN
    /\ MemoryLimit \in Nat \ {0} /\ MaxEntries \in Nat /\ MaxFaults \in Nat

VARIABLES
    lines,      \* the file's lines: an entry, or Garbage for one that is not JSON
    tail,       \* what follows the last newline: <<>> or one such line
    tmp,        \* the .tmp file of a rotation
    size,       \* of the file: the lines and rests of lines written to it
    limit,      \* l.maxBytes
    handle,     \* l.file: "open", "broken" (closed and not replaced) or "nil"
    written,    \* l.bytesWritten
    memory,     \* l.memory
    pc,         \* the step of the append in progress; "down" between processes
    entry,      \* the entry of the last append
    old,        \* entries that have passed the retention
    torn,       \* appends that failed within their line, since the file was measured
    acked,      \* entries whose Append returned without error, with a file
    dropped,    \* entries a rotation dropped
    faults

logVars == <<lines, tail, tmp, size, limit, handle, written, memory, pc, entry, old, torn, acked, dropped, faults>>
file == <<lines, tail, tmp, size>>

Garbage == 0
Entries == 1..MaxEntries

(* The elements of s that are wanted, in their order.                      *)
Only(s, wanted) ==
    LET kept[n \in 0..Len(s)] ==
          IF n = 0 THEN <<>>
          ELSE IF s[n] \in wanted THEN Append(kept[n - 1], s[n]) ELSE kept[n - 1]
    IN  kept[Len(s)]

(* The lines a scanner finds, and those of them that parse.                *)
Scanned == lines \o tail
Parsed == Only(Scanned, Entries)

LastOf(s, n) == IF Len(s) > n THEN SubSeq(s, Len(s) - n + 1, Len(s)) ELSE s

Set(s) == {s[i] : i \in DOMAIN s}

LogInit ==
    /\ lines = <<>> /\ tail = <<>> /\ tmp = <<>> /\ size = 0
    /\ limit \in Limits /\ handle = "open" /\ written = 0 /\ memory = <<>>
    /\ pc = "idle" /\ entry = 0
    /\ old = {} /\ torn = 0 /\ acked = {} /\ dropped = {} /\ faults = 0

-----------------------------------------------------------------------------
(* Append, step by step.  Fails ends it with an error and no memory entry. *)

Fault == faults < MaxFaults /\ faults' = faults + 1

Fails ==
    /\ Fault
    /\ pc' = "idle"
    /\ UNCHANGED <<limit, handle, written, memory, entry, old, acked, dropped>>

Goes(step) ==
    /\ pc' = step
    /\ UNCHANGED <<limit, handle, memory, entry, old, acked, dropped, faults>>

Begin ==
    /\ pc = "idle" /\ entry < MaxEntries
    /\ entry' = entry + 1
    /\ pc' = IF handle = "nil" THEN "memory" ELSE "line"
    /\ UNCHANGED <<file, limit, handle, written, memory, old, torn, acked, dropped, faults>>

(* A line is appended to the file as it is: after an unfinished line its   *)
(* bytes continue that one, and the two together do not parse.             *)
Glued(l) == IF tail = <<>> THEN <<l>> ELSE <<Garbage>>

\* Mutant: a failed write is not reported.
WriteLineUnheeded ==
    /\ pc = "line" /\ handle = "open"
    /\ \/ tail' = Glued(entry) /\ Goes("newline")
       \/ /\ tail' = Glued(Garbage) /\ Fault /\ pc' = "memory"
          /\ UNCHANGED <<limit, handle, memory, entry, old, acked, dropped>>
    /\ size' = size + 1
    /\ UNCHANGED <<lines, tmp, written, torn>>

WriteLine ==
    /\ pc = "line" /\ handle = "open"
    /\ \/ tail' = Glued(entry) /\ size' = size + 1 /\ UNCHANGED torn /\ Goes("newline")
       \/ tail' = Glued(Garbage) /\ size' = size + 1 /\ torn' = torn + 1 /\ Fails
       \/ UNCHANGED <<tail, size, torn>> /\ Fails
    /\ UNCHANGED <<lines, tmp, written>>

(* A file that was closed and not replaced refuses every write.            *)
WriteRefused ==
    /\ pc = "line" /\ handle = "broken"
    /\ Goes("idle")
    /\ UNCHANGED <<file, written, torn>>

Exceeds(n) == IF limit > 0 THEN n > limit ELSE Retains /\ n > 0

WriteNewline ==
    /\ pc = "newline"
    /\ \/ /\ lines' = Scanned /\ tail' = <<>> /\ written' = written + 1
          /\ Goes(IF Exceeds(written + 1) THEN "rotate" ELSE "memory")
          /\ UNCHANGED torn
       \/ UNCHANGED <<lines, tail, written>> /\ torn' = torn + 1 /\ Fails
    /\ UNCHANGED <<tmp, size>>

Unexpired == IF Retains THEN Entries \ old ELSE Entries

\* Mutant: a rotation keeps everything the retention allows.
KeptAll == Only(Parsed, Unexpired)

\* Mutant: a rotation drops the newest.
KeptOldest == SubSeq(Parsed, 1, IF limit > 0 /\ Len(Parsed) > limit THEN limit ELSE Len(Parsed))

(* rotateLocked: what is not expired, without the oldest that do not fit.  *)
Kept ==
    LET fresh == Only(Parsed, Unexpired)
    IN  IF limit > 0 THEN LastOf(fresh, limit) ELSE fresh

\* Mutant: a leftover temporary file is not truncated.
WriteTmpAppending ==
    /\ pc = "rotate"
    /\ tmp' = tmp \o Kept /\ Goes("rename")
    /\ UNCHANGED <<lines, tail, size, written, torn>>

WriteTmp ==
    /\ pc = "rotate"
    /\ \/ tmp' = Kept /\ Goes("rename")
       \/ tmp' \in {tmp, <<>>} /\ Fails
    /\ UNCHANGED <<lines, tail, size, written, torn>>

Rename ==
    /\ pc = "rename"
    /\ \/ /\ lines' = tmp /\ tail' = <<>> /\ tmp' = <<>> /\ size' = Len(tmp)
          /\ pc' = "reopen"
          /\ dropped' = dropped \union (Set(Parsed) \ Set(tmp))
          /\ UNCHANGED <<limit, handle, memory, entry, old, acked, faults>>
       \/ UNCHANGED file /\ Fails
    /\ UNCHANGED <<written, torn>>

(* The old file is closed before the new one is opened.                    *)
Reopen ==
    /\ pc = "reopen"
    /\ \/ written' = Len(lines) /\ torn' = 0 /\ Goes("memory")
       \/ /\ Fault /\ pc' = "idle" /\ handle' = "broken"
          /\ UNCHANGED <<limit, written, memory, entry, old, torn, acked, dropped>>
    /\ UNCHANGED file

Remember ==
    /\ pc = "memory"
    /\ memory' = LastOf(Append(memory, entry), MemoryLimit)
    /\ acked' = IF handle = "open" THEN acked \union {entry} ELSE acked
    /\ pc' = "idle"
    /\ UNCHANGED <<file, limit, handle, written, entry, old, torn, dropped, faults>>

-----------------------------------------------------------------------------
(* Shutdown, crash and restart.                                            *)

(* Appends that come after Close reach memory only.                        *)
CloseFile ==
    /\ pc = "idle" /\ handle # "nil"
    /\ handle' = "nil"
    /\ UNCHANGED <<file, limit, written, memory, pc, entry, old, torn, acked, dropped, faults>>

(* The process ends: after Close in good order, at any other time a fault. *)
Stop ==
    /\ pc # "down"
    /\ IF pc = "idle" /\ handle = "nil" THEN UNCHANGED faults ELSE Fault
    /\ pc' = "down" /\ memory' = <<>> /\ handle' = "nil"
    /\ UNCHANGED <<file, limit, written, entry, old, torn, acked, dropped>>

\* Mutant: the size of the file that is there is not asked for.
OpenUnmeasured ==
    /\ pc = "down"
    /\ pc' = "idle" /\ limit' \in Limits
    /\ handle' = "open" /\ written' = 0 /\ torn' = 0
    /\ memory' = LastOf(Parsed, MemoryLimit)
    /\ UNCHANGED <<file, entry, old, acked, dropped, faults>>

(* Open, perhaps with another configuration, and what main does when it    *)
(* fails: a log without a file.                                            *)
Open ==
    /\ pc = "down"
    /\ pc' = "idle" /\ limit' \in Limits /\ torn' = 0
    /\ \/ /\ handle' = "open"
          /\ written' = size
          /\ memory' = LastOf(Parsed, MemoryLimit)
          /\ UNCHANGED faults
       \/ handle' = "nil" /\ written' = 0 /\ memory' = <<>> /\ Fault
    /\ UNCHANGED <<file, entry, old, acked, dropped>>

Age ==
    /\ \E e \in 1..entry : e \notin old /\ old' = old \union {e}
    /\ UNCHANGED <<file, limit, handle, written, memory, pc, entry, torn, acked, dropped, faults>>

LogNext ==
    \/ Begin \/ WriteLine \/ WriteRefused \/ WriteNewline
    \/ WriteTmp \/ Rename \/ Reopen \/ Remember
    \/ CloseFile \/ Stop \/ Open \/ Age

LogSpec == LogInit /\ [][LogNext]_logVars

-----------------------------------------------------------------------------
Increasing(s) == \A i, j \in DOMAIN s : i < j => s[i] < s[j]

(* An acknowledged entry is on disk until a rotation drops it, except that *)
(* each failure or crash may cost one: the entry glued to the unfinished   *)
(* line it left.                                                           *)
LossBound == Cardinality(acked \ (Set(Parsed) \union dropped)) <= faults

(* A rotation drops the oldest or the expired, never a line it should have *)
(* kept, wherever it is interrupted.                                       *)
DropsOldestOnly ==
    \A d \in dropped : (Retains /\ d \in old)
                       \/ \E m \in Limits \ {0} : Cardinality({e \in Entries : e > d /\ e <= entry}) >= m

(* Disk and memory hold each entry at most once and in the order of the    *)
(* appends, also after interrupted rotations and restarts.                 *)
OnceInOrder == Increasing(Parsed) /\ Increasing(memory)

(* An append that succeeds leaves the file within its limit, but for what  *)
(* appends that failed within their line have left in it since it was      *)
(* opened or rotated: the count of bytes does not include that.            *)
Bounded == [][pc = "memory" /\ pc' = "idle" /\ handle = "open" /\ limit > 0
                 => size <= limit + torn]_logVars
=============================================================================
