------------------------------- MODULE LogFile -------------------------------
(***************************************************************************)
(* The event log /home/data/tmp.log (src/log/log.c).  LOG_WriteLog appends *)
(* a line; when the file holds Limit lines it writes all but the Cut       *)
(* oldest and the new one into "tmp.log~" and copies that file over the    *)
(* log, which truncates the log first.  Nobody fsyncs the log after an     *)
(* append (LOG_FsyncFile is never called), and the train may be switched   *)
(* off at any moment; LOG_Init counts the lines that are left.             *)
(*                                                                         *)
(* The threads that write logs are serialised by g_tLogMutex, which is     *)
(* held for the whole of LOG_WriteLog: one action of this module is a step *)
(* of whichever thread holds it.  A line is the number of its record, or   *)
(* GARBAGE when it is what a power cut left of a line (with the record     *)
(* that was then appended to it, for it has no newline).                   *)
(***************************************************************************)
EXTENDS Integers, Sequences

CONSTANTS
    Limit,          \* MAX_LOG_NUMBER + 1000 (11000)
    Cut,            \* lines dropped when the log is full (1000)
    MaxLogs,        \* bound: records written
    MaxRestarts     \* bound: times the train is switched off

ASSUME LimitAssumption == Limit \in Nat /\ Cut \in 1 .. Limit
ASSUME BoundAssumption == MaxLogs \in Nat /\ MaxRestarts \in Nat

VARIABLES
    file,       \* the lines of tmp.log
    torn,       \* its last line has no newline
    synced,     \* the lines at its head that are on the disk for certain
    tmp,        \* the lines of tmp.log~
    count,      \* g_iLogCount
    pc,         \* "idle", or "copy" inside CopyFile
    last,       \* the number of the last record written
    restarts,   \* how often LOG_Init has run again
    failed      \* history: CopyFile has returned -1

vars == <<file, torn, synced, tmp, count, pc, last, restarts, failed>>

GARBAGE == 0
Lines == 0 .. MaxLogs

TypeOK ==
    /\ file \in Seq(Lines) /\ tmp \in Seq(Lines)
    /\ torn \in BOOLEAN
    /\ synced \in 0 .. Len(file)
    /\ count \in Nat
    /\ pc \in {"idle", "copy"}
    /\ last \in 0 .. MaxLogs
    /\ restarts \in 0 .. MaxRestarts
    /\ failed \in BOOLEAN

(* LOG_Init on a new disk.                                                 *)
Init ==
    /\ file = <<>> /\ tmp = <<>>
    /\ torn = FALSE /\ synced = 0
    /\ count = 0
    /\ pc = "idle"
    /\ last = 0 /\ restarts = 0
    /\ failed = FALSE

-----------------------------------------------------------------------------
(* LOG_WriteLog.                                                           *)

NewRecord ==
    /\ pc = "idle"
    /\ last < MaxLogs
    /\ last' = last + 1

Room == count < Limit

(* fputs() behind what is there; a line without newline swallows it.       *)
Write ==
    /\ Room
    /\ NewRecord
    /\ file' = IF torn THEN file ELSE Append(file, last')
    /\ torn' = FALSE
    /\ count' = count + 1
    /\ UNCHANGED <<synced, tmp, pc, restarts, failed>>

\* Mutant: one line too many is skipped.
Kept_OffByOne == SubSeq(file, Cut + 2, Len(file))
(* What remains of the log when it is full.                                *)
Kept == SubSeq(file, Cut + 1, Len(file))

\* Mutant: the new record is written before the lines that remain.
WriteFull_NewFirst ==
    /\ ~Room
    /\ NewRecord
    /\ tmp' = IF torn THEN Kept ELSE <<last'>> \o Kept
    /\ \/ /\ pc' = "copy"
          /\ file' = <<>> /\ torn' = FALSE /\ synced' = 0
          /\ UNCHANGED <<count, failed>>
       \/ /\ count' = count - Cut + 1
          /\ failed' = TRUE
          /\ UNCHANGED <<pc, file, torn, synced>>
    /\ UNCHANGED restarts

(* The new file; then CopyFile opens the log for writing, which empties    *)
(* it, or fails to and leaves it as it is.                                 *)
WriteFull ==
    /\ ~Room
    /\ NewRecord
    /\ tmp' = IF torn THEN Kept ELSE Append(Kept, last')
    /\ \/ /\ pc' = "copy"
          /\ file' = <<>> /\ torn' = FALSE /\ synced' = 0
          /\ UNCHANGED <<count, failed>>
       \/ /\ count' = count - Cut + 1
          /\ failed' = TRUE
          /\ UNCHANGED <<pc, file, torn, synced>>
    /\ UNCHANGED restarts

(* The next lines of the new file reach the log.                           *)
Copy ==
    /\ pc = "copy"
    /\ \E n \in Len(file) + 1 .. Len(tmp) : file' = SubSeq(tmp, 1, n)
    /\ UNCHANGED <<torn, synced, tmp, count, pc, last, restarts, failed>>

(* All is copied and on the disk.                                          *)
Copied ==
    /\ pc = "copy"
    /\ file = tmp
    /\ pc' = "idle"
    /\ synced' = Len(file)
    /\ count' = count - Cut + 1
    /\ UNCHANGED <<file, torn, tmp, last, restarts, failed>>

(* The first lines, and perhaps a piece of the next.                       *)
Left(f, n, t) == IF t THEN Append(SubSeq(f, 1, n), GARBAGE) ELSE SubSeq(f, 1, n)

(* fwrite() is short, at the end of a line or within one: the disk is full. *)
CopyFails ==
    /\ pc = "copy"
    /\ file # tmp
    /\ pc' = "idle"
    /\ \E t \in BOOLEAN : torn' = t /\ file' = Left(file, Len(file), t)
    /\ count' = count - Cut + 1
    /\ failed' = TRUE
    /\ UNCHANGED <<synced, tmp, last, restarts>>

-----------------------------------------------------------------------------
\* Mutant: the count starts at 0 whatever the file holds.
Counted_Zero(f) == 0
(* LOG_Init: a line per fgets(), one without newline included.             *)
Counted(f) == Len(f)

(* The power goes off and comes back: what was not on the disk is lost     *)
(* from some byte on, and g_iLogCount is counted afresh.                   *)
Restart ==
    /\ restarts < MaxRestarts
    /\ restarts' = restarts + 1
    /\ pc' = "idle"
    /\ \E n \in synced .. Len(file), t \in BOOLEAN :
        /\ file' = Left(file, n, t)
        /\ t => n < Len(file) \/ (pc = "copy" /\ n < Len(tmp))
        /\ torn' = (t \/ (torn /\ n = Len(file)))
    /\ synced' = Len(file')
    /\ count' = Counted(file')
    /\ UNCHANGED <<tmp, last, failed>>

Next == Write \/ WriteFull \/ Copy \/ Copied \/ CopyFails \/ Restart

Spec == Init /\ [][Next]_vars

-----------------------------------------------------------------------------
(* Properties.                                                             *)

(* The log never grows past its limit, over any number of power cuts, for  *)
(* the count never falls behind the lines - as long as no copy failed.     *)
Bounded ==
    ~failed =>
        /\ Len(file) <= Limit /\ count <= Limit
        /\ pc = "idle" => Len(file) <= count

(* Whatever is lost, the records that remain are in the order in which     *)
(* they were written and none is there twice.                              *)
Ordered(f) ==
    \A i, j \in DOMAIN f : i < j /\ f[i] # GARBAGE /\ f[j] # GARBAGE => f[i] < f[j]

InOrder == Ordered(file)

(* The log is a BoundedLog: with the new file standing for the log while   *)
(* it is copied over it, no record is lost but the Cut oldest ones of a    *)
(* full log, unless the power or a copy fails; and then only from the end. *)
BL == INSTANCE BoundedLog WITH
        log <- IF pc = "copy" THEN tmp ELSE file,
        accident <- restarts > 0 \/ failed

ImplementsBoundedLog == BL!LogSpec
=============================================================================
