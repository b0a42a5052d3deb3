------------------------------ MODULE LogSearch ------------------------------
(***************************************************************************)
(* The maintenance page searches the event log for the records of a kind   *)
(* and a day (sysManage::searchSystermLog, src/cctv/sysmanage.cpp).  It    *)
(* reads /home/data/tmp.log from its start to its end, piece by piece and  *)
(* without g_tLogMutex, while other threads append to the log or write it  *)
(* anew (LogFile): when the log is truncated under the reader, its byte    *)
(* position stays, and falls wherever it falls in the new contents.        *)
(*                                                                         *)
(* A line that begins in one piece and ends in the next counts as read     *)
(* with the piece it begins in.  Pages of the table are left out.          *)
(***************************************************************************)
EXTENDS LogFile, Ranks

CONSTANT Asked      \* the records of the kind and the day

ASSUME AskedAssumption == Asked \subseteq Lines \ {GARBAGE}

VARIABLES
    reading,    \* a search is going on
    before,     \* lines of the log before its position
    inLine,     \* the position is inside a line
    found       \* the rows found, by their records

searchVars == <<reading, before, inLine, found>>

SearchInit ==
    /\ Init
    /\ reading = FALSE /\ before = 0 /\ inLine = FALSE /\ found = <<>>

-----------------------------------------------------------------------------
\* Mutant: the rows of the last search are kept.
Begin_KeepsRows ==
    /\ ~reading
    /\ reading' = TRUE /\ before' = 0 /\ inLine' = FALSE
    /\ UNCHANGED found
Begin ==
    /\ ~reading
    /\ reading' = TRUE /\ before' = 0 /\ inLine' = FALSE
    /\ found' = <<>>

(* The rows that some lines give; the rest of a line gives none, for it    *)
(* does not begin with a kind and a date.                                  *)
Hits(lines) == {i \in DOMAIN lines : lines[i] \in Asked /\ (inLine => i > 1)}
RowsOf(lines) == [k \in 1 .. Cardinality(Hits(lines)) |-> lines[Nth(k, Hits(lines))]]

(* The next lines, up to the n-th.  Of a line that is being copied into    *)
(* the log the beginning may be there: it gives a row if kind and date are. *)
ReadLines(n) ==
    /\ reading
    /\ n \in before + 1 .. Len(file)
    /\ \/ /\ before' = n
          /\ found' = found \o RowsOf(SubSeq(file, before + 1, n))
       \/ /\ pc = "copy" /\ n = Len(file) /\ n < Len(tmp)
          /\ before' = n + 1
          /\ \E whole \in {n, n + 1} :
               found' = found \o RowsOf(SubSeq(tmp, before + 1, whole))
    /\ inLine' = FALSE
    /\ UNCHANGED reading

(* The position is at the end of the log, or behind it.                    *)
End ==
    /\ reading
    /\ before >= Len(file)
    /\ reading' = FALSE
    /\ UNCHANGED <<before, inLine, found>>

(* The log begins Cut lines later than it did: the position falls behind   *)
(* the lines that have been read, how far behind depends on their lengths. *)
Moved ==
    IF before = 0 THEN UNCHANGED <<before, inLine>>
    ELSE /\ before' \in {n \in 0 .. Limit : n >= before - Cut}
         /\ inLine' \in BOOLEAN

(* Somebody writes a record.                                               *)
Log ==
    /\ Write \/ WriteFull \/ Copy \/ Copied \/ CopyFails
    /\ IF reading /\ pc = "idle" /\ pc' = "copy" THEN Moved ELSE UNCHANGED <<before, inLine>>
    /\ UNCHANGED <<reading, found>>

SwitchOn ==
    /\ Restart
    /\ reading' = FALSE /\ before' = 0 /\ inLine' = FALSE /\ found' = <<>>

SearchNext ==
    \/ Log
    \/ SwitchOn
    \/ /\ Begin \/ End \/ \E n \in 1 .. Len(file) : ReadLines(n)
       /\ UNCHANGED vars

SearchSpec == SearchInit /\ [][SearchNext]_<<vars, searchVars>>

-----------------------------------------------------------------------------
(* searchSystermLog: the rows found are in the order in which the records  *)
(* were written, and none is there twice, although the log may be cut, at  *)
(* its head or by a failed copy, between any two of them.                  *)
SearchInOrder == Ordered(found)
=============================================================================
