----------------------------- MODULE BoundedLog -----------------------------
(***************************************************************************)
(* What the event log promises: a sequence of lines to which records are   *)
(* added one at a time, from which only the Cut oldest lines are taken     *)
(* when there is no room, in the same step, and which only an accident - a *)
(* power cut, a full disk - may cut short, at its end and nowhere else.    *)
(* LogFile implements it with two files, a copy and a count.               *)
(***************************************************************************)
EXTENDS Integers, Sequences

CONSTANTS Cut, GARBAGE      \* as in LogFile

VARIABLES
    log,        \* the lines
    last,       \* the number of the last record
    accident    \* there has been one

logVars == <<log, last, accident>>

LogInit == log = <<>> /\ last = 0 /\ accident = FALSE

(* After an accident a record may be lost, or become part of a line that   *)
(* has no end.                                                             *)
AddedTo(lines) ==
    /\ last' = last + 1
    /\ \/ log' = Append(lines, last') /\ accident' = accident
       \/ log' = lines /\ accident' = TRUE

Add == AddedTo(log)

AddWhenFull == AddedTo(SubSeq(log, Cut + 1, Len(log)))

(* The lines from some line on are lost; a piece of one may be left.       *)
LoseEnd ==
    /\ accident' = TRUE
    /\ \E n \in 0 .. Len(log) :
        \/ log' = SubSeq(log, 1, n)
        \/ log' = Append(SubSeq(log, 1, n), GARBAGE)
    /\ UNCHANGED last

LogNext == Add \/ AddWhenFull \/ LoseEnd

LogSpec == LogInit /\ [][LogNext]_logVars
=============================================================================
