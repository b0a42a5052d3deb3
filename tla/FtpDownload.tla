----------------------------- MODULE FtpDownload -----------------------------
(***************************************************************************)
(* Copying recordings to a USB stick: the download thread of a connection  *)
(* (src/ftp/ftpApi.c) and the page that starts it, shows its progress and  *)
(* destroys the connection when it ends (src/cctv/recordmanage.cpp).       *)
(*                                                                         *)
(* A thread reports through PftpProc, which compares its own handle with   *)
(* m_tFtpHandle[m_iFtpServerIdex] and, when they are equal, emits signals. *)
(* The signals carry no handle and are queued: their slots act on whatever *)
(* m_iFtpServerIdex is when they run, and a click on the download button   *)
(* may have changed it.                                                    *)
(*                                                                         *)
(* All selected files together are one percentage: the sizes the server    *)
(* told for them are added up when the download is started.  A file is a   *)
(* number of blocks; what is in them does not matter.  A block is written  *)
(* to a buffer: it reaches the stick when the file is flushed, synced and  *)
(* closed, and nothing looks whether that succeeded.                       *)
(***************************************************************************)
EXTENDS Integers, Sequences, FiniteSets

CONSTANTS
    Nvrs,       \* recorders
    Files,      \* sizes of the files selected, in the order of the list
    MaxClicks   \* bound: clicks on the download button

FileIds == DOMAIN Files
Last == Len(Files)

ASSUME NvrsAssumption == Nvrs # {} /\ IsFiniteSet(Nvrs)
ASSUME FilesAssumption == Files \in Seq(Nat \ {0}) /\ Files # <<>>
ASSUME ClicksAssumption == MaxClicks \in Nat

VARIABLES
    usb,        \* the stick is there
    handle,     \* m_tFtpHandle[n] is not 0
    sel,        \* m_iFtpServerIdex
    buttons,    \* the download button is enabled
    gui,        \* [at, nvr]: "idle", "connect" (in the click), "join" (in the slot)
    events,     \* queued signals
    clicks,     \* clicks so far
    th,         \* where a connection's thread is
    run,        \* threadRunFlag
    file,       \* the file at the head of the work queue, or past the last
    total,      \* DownloadFileSize: the sizes that were told, added up
    got,        \* iFileSize: blocks written of all files
    written,    \* blocks written, by file
    stick,      \* blocks that are sure to have reached the stick, by file
    pos,        \* iPos
    kept,       \* history: every file closed has reached the stick
    alone       \* history: no other recorder was selected meanwhile

guiVars    == <<sel, buttons, gui, clicks>>
counts     == <<total, got, written>>
flushed    == <<stick, kept>>
threadVars == <<th, run, file, counts, flushed, pos>>
vars == <<usb, handle, guiVars, events, threadVars, alone>>

Nothing == [f \in FileIds |-> 0]   \* no block written
PARTIAL == 50                   \* any progress from 1 to 99
FAILED == -1                    \* -1, -2, -3: stick gone, write error, receive error
Ends == {100, FAILED}           \* the page treats the failures alike (but for QUIT)
Show == [signal |-> "show", value |-> 0]
Hidden == [signal |-> "hide", value |-> 0]
Value(v) == [signal |-> "value", value |-> v]
Places == {"off", "top", "recv", "data", "flush", "check", "emit", "hide", "ended"}

TypeOK ==
    /\ usb \in BOOLEAN /\ buttons \in BOOLEAN
    /\ handle \in [Nvrs -> BOOLEAN]
    /\ sel \in Nvrs
    /\ gui \in [at : {"idle", "connect", "join"}, nvr : Nvrs]
    /\ events \in Seq({Show, Hidden} \cup {Value(v) : v \in Ends \cup {PARTIAL}})
    /\ clicks \in 0 .. MaxClicks
    /\ th \in [Nvrs -> Places]
    /\ run \in [Nvrs -> BOOLEAN]
    /\ file \in [Nvrs -> 1 .. Last + 1]
    /\ total \in [Nvrs -> Nat] /\ got \in [Nvrs -> Nat]
    /\ \A n \in Nvrs : got[n] <= total[n]
    /\ written \in [Nvrs -> [FileIds -> Nat]]
    /\ stick \in [Nvrs -> [FileIds -> Nat]]
    /\ pos \in [Nvrs -> Ends \cup {0, PARTIAL}]
    /\ kept \in [Nvrs -> BOOLEAN] /\ alone \in [Nvrs -> BOOLEAN]

(* FTP_CreateWorkQueue: nothing to take.                                   *)
EmptyQueue == Last + 1

Init ==
    /\ usb = TRUE /\ buttons = TRUE
    /\ handle = [n \in Nvrs |-> FALSE]
    /\ sel \in Nvrs
    /\ gui = [at |-> "idle", nvr |-> sel]
    /\ events = <<>> /\ clicks = 0
    /\ th = [n \in Nvrs |-> "off"] /\ run = [n \in Nvrs |-> FALSE]
    /\ file = [n \in Nvrs |-> EmptyQueue]
    /\ total = [n \in Nvrs |-> 0] /\ got = [n \in Nvrs |-> 0]
    /\ written = [n \in Nvrs |-> Nothing] /\ stick = [n \in Nvrs |-> Nothing]
    /\ pos = [n \in Nvrs |-> 0]
    /\ kept = [n \in Nvrs |-> TRUE] /\ alone = [n \in Nvrs |-> TRUE]

-----------------------------------------------------------------------------
(* DownBtnClicked.                                                         *)

(* The recorder chosen in the list becomes m_iFtpServerIdex before         *)
(* anything is known about it.                                             *)
Click(n) ==
    /\ gui.at = "idle" /\ buttons /\ usb
    /\ clicks < MaxClicks
    /\ clicks' = clicks + 1
    /\ sel' = n
    /\ alone' = [m \in Nvrs |-> alone[m] /\ (handle[m] => m = n)]
    /\ gui' = [at |-> "connect", nvr |-> n]
    /\ UNCHANGED <<usb, handle, buttons, events, threadVars>>

ClickReturns ==
    /\ gui' = [gui EXCEPT !.at = "idle"]
    /\ UNCHANGED <<usb, handle, sel, buttons, events, clicks, threadVars, alone>>

(* A recorder that has a connection is left alone.                         *)
ClickIgnored ==
    /\ gui.at = "connect"
    /\ handle[gui.nvr]
    /\ ClickReturns

(* No address, no socket, or the login is refused: there is no connection, *)
(* but the selection stays.                                                *)
ConnectFails ==
    /\ gui.at = "connect"
    /\ ~handle[gui.nvr]
    /\ ClickReturns

(* What the server may tell of the sizes: 0 when it does not answer, and   *)
(* less than will be sent when a recording is still growing.               *)
SizesTold ==
    {size \in [FileIds -> UNION {0 .. Files[f] : f \in FileIds}] :
        \A f \in FileIds : size[f] <= Files[f]}

(* The files are put behind each other.                                    *)
FTP_PutNodeToWorkQueue(n) == file' = [file EXCEPT ![n] = 1]

(* The blocks of all files when size[f] of each are counted.               *)
Blocks(size) == UNION {{f} \X (1 .. size[f]) : f \in FileIds}

(* Each file is put into the work queue and its size added to the total.   *)
AddFiles(n, size) ==
    /\ FTP_PutNodeToWorkQueue(n)
    /\ total' = [total EXCEPT ![n] = Cardinality(Blocks(size))]

(* FTP_FileDownLoad.                                                       *)
StartThread(n) ==
    /\ th' = [th EXCEPT ![n] = "top"]
    /\ run' = [run EXCEPT ![n] = TRUE]

(* Connected: the files are added and the thread is started.               *)
ClickStarts ==
    /\ gui.at = "connect"
    /\ LET n == gui.nvr IN
        /\ ~handle[n]
        /\ handle' = [handle EXCEPT ![n] = TRUE]
        /\ \E size \in SizesTold : AddFiles(n, size)
        /\ StartThread(n)
    /\ gui' = [gui EXCEPT !.at = "idle"]
    /\ UNCHANGED <<usb, sel, buttons, events, clicks, got, written, flushed, pos, alone>>

-----------------------------------------------------------------------------
(* FTP_DownloadDataRecvThread of recorder n.                               *)

Goto(n, p) == th' = [th EXCEPT ![n] = p]

(* The thread leaves with a value that it has to report: at once, or after *)
(* the file that is open has been closed.                                  *)
Fail(n, v) == pos' = [pos EXCEPT ![n] = v] /\ Goto(n, "check")
Break(n, v) == pos' = [pos EXCEPT ![n] = v] /\ Goto(n, "flush")

(* The next file of the work queue is the one to be taken.                 *)
NextFile(n) == file' = [file EXCEPT ![n] = @ + 1]

(* Destroyed from outside: the thread returns without a report.            *)
Stopped(n) ==
    /\ th[n] \in {"top", "recv"}
    /\ ~run[n]
    /\ Goto(n, IF th[n] = "top" THEN "ended" ELSE "flush")
    /\ UNCHANGED <<run, file, counts, flushed, pos>>

NoStick(n) ==
    /\ run[n] /\ ~usb
    /\ \/ th[n] = "top" /\ Fail(n, FAILED)
       \/ th[n] = "recv" /\ Break(n, FAILED)
    /\ UNCHANGED <<run, file, counts, flushed>>

(* A file that cannot be created is skipped.                               *)
OpenFails(n) ==
    /\ th[n] = "top" /\ run[n]
    /\ file[n] <= Last
    /\ NextFile(n)
    /\ UNCHANGED <<th, run, counts, flushed, pos>>

(* TYPE, PASV, the data connection and RETR.                               *)
RequestFails(n) ==
    /\ th[n] = "top" /\ run[n] /\ usb
    /\ file[n] <= Last
    /\ Fail(n, FAILED)
    /\ UNCHANGED <<run, file, counts, flushed>>

Request(n) ==
    /\ th[n] = "top" /\ run[n] /\ usb
    /\ file[n] <= Last
    /\ Goto(n, "recv")
    /\ UNCHANGED <<run, file, counts, flushed, pos>>

(* The stick is looked for before each wait for data, and not again        *)
(* before what has come is written.                                        *)
LookForStick(n) ==
    /\ th[n] = "recv" /\ run[n] /\ usb
    /\ Goto(n, "data")
    /\ UNCHANGED <<run, file, counts, flushed, pos>>

(* Nothing comes for two seconds: back to the checks of the loop, which    *)
(* lead here again unless something has changed.                           *)
WaitAgain(n) ==
    /\ th[n] = "data"
    /\ ~run[n] \/ ~usb
    /\ Goto(n, "recv")
    /\ UNCHANGED <<run, file, counts, flushed, pos>>

\* Mutant: the percentage is taken of the current file.
Percent_OfFile(n) == written'[n][file[n]] = Files[file[n]]
(* All blocks that were told have been written.                            *)
Percent(n) == got'[n] = total[n]

(* A block is received, no more than is left of what was told, written to  *)
(* the buffer and counted; 100 ends the thread, less is reported (unless   *)
(* it rounds to 0).  A write that is cut short loses part of its block for *)
(* good: to the counts that is a server that sends one block less.         *)
Block(n) ==
    LET f == file[n] IN
    /\ th[n] = "data"
    /\ got[n] < total[n]
    /\ written[n][f] < Files[f]
    /\ got' = [got EXCEPT ![n] = @ + 1]
    /\ written' = [written EXCEPT ![n][f] = @ + 1]
    /\ IF Percent(n) THEN Break(n, 100)
       ELSE \/ Fail(n, PARTIAL)
            \/ pos[n] = 0 /\ Goto(n, "recv") /\ UNCHANGED pos
    /\ UNCHANGED <<run, file, total, flushed>>

(* fwrite() fails: the stick is full, or it is gone.                       *)
WriteFails(n) ==
    /\ th[n] = "data"
    /\ got[n] < total[n]
    /\ Break(n, FAILED)
    /\ UNCHANGED <<run, file, counts, flushed>>

(* recv() returns 0: the file is over, or the server has closed early, or  *)
(* no size was told and 0 bytes were asked for.  All three count as done.  *)
EndOfFile(n) ==
    /\ th[n] = "data"
    /\ Goto(n, "flush")
    /\ UNCHANGED <<run, file, counts, flushed, pos>>

(* recv() fails, or nothing comes for four times two seconds.              *)
RecvFails(n) ==
    /\ th[n] = "data"
    /\ Break(n, FAILED)
    /\ UNCHANGED <<run, file, counts, flushed>>

(* fflush(), fsync(), fclose() and sync: what was written is on the stick, *)
(* or some of it is lost and nobody notices.  Then the report or the next  *)
(* file.                                                                   *)
Flush(n) ==
    LET f == file[n] IN
    /\ th[n] = "flush"
    /\ \/ /\ usb \/ written[n][f] = 0
          /\ stick' = [stick EXCEPT ![n][f] = written[n][f]]
          /\ UNCHANGED kept
       \/ /\ written[n][f] > 0
          /\ kept' = [kept EXCEPT ![n] = FALSE]
          /\ UNCHANGED stick
    /\ IF pos[n] \in Ends
       THEN Goto(n, "check") /\ UNCHANGED file
       ELSE Goto(n, "top") /\ NextFile(n)
    /\ UNCHANGED <<run, counts, pos>>

Downloads(n) ==
    /\ \/ Stopped(n) \/ NoStick(n)
       \/ OpenFails(n) \/ RequestFails(n) \/ Request(n)
       \/ LookForStick(n) \/ WaitAgain(n)
       \/ Block(n) \/ WriteFails(n) \/ EndOfFile(n) \/ RecvFails(n)
       \/ Flush(n)
    /\ UNCHANGED <<usb, handle, guiVars, events, alone>>

(* PftpProc, on the thread: is this the connection the page shows?         *)
Continue(n) == IF pos[n] \in Ends THEN "ended" ELSE "recv"

Check(n) ==
    /\ th[n] = "check"
    /\ Goto(n, IF sel = n /\ handle[n] THEN "emit" ELSE Continue(n))
    /\ UNCHANGED <<usb, handle, guiVars, events, run, file, counts, flushed, pos, alone>>

(* Two signals, queued in this order.                                      *)
Emit(n) ==
    /\ th[n] = "emit"
    /\ events' = events \o <<Show, Value(pos[n])>>
    /\ Goto(n, IF pos[n] \in Ends THEN "hide" ELSE Continue(n))
    /\ UNCHANGED <<usb, handle, guiVars, run, file, counts, flushed, pos, alone>>

\* Mutant: the bar is only hidden when the download succeeded.
Hide_OnSuccess(n) ==
    /\ th[n] = "hide"
    /\ events' = IF pos[n] = 100 THEN Append(events, Hidden) ELSE events
    /\ Goto(n, "ended")
    /\ UNCHANGED <<usb, handle, guiVars, run, file, counts, flushed, pos, alone>>

\* Mutant: the last value is sent once more, after the order to hide the bar.
Hide_ReportsAgain(n) ==
    /\ th[n] = "hide"
    /\ events' = events \o <<Hidden, Value(pos[n])>>
    /\ Goto(n, "ended")
    /\ UNCHANGED <<usb, handle, guiVars, run, file, counts, flushed, pos, alone>>

(* After the last value (two seconds later when the download succeeded).   *)
Hide(n) ==
    /\ th[n] = "hide"
    /\ events' = Append(events, Hidden)
    /\ Goto(n, "ended")
    /\ UNCHANGED <<usb, handle, guiVars, run, file, counts, flushed, pos, alone>>

-----------------------------------------------------------------------------
(* The page's slots for the queued signals.                                *)

(* downloadProcessBarDisplaySlot.                                          *)
ShowSlot ==
    /\ gui.at = "idle" /\ events # <<>>
    /\ Head(events) \in {Show, Hidden}
    /\ buttons' = (Head(events) = Hidden)
    /\ events' = Tail(events)
    /\ UNCHANGED <<usb, handle, sel, gui, clicks, threadVars, alone>>

(* setDownloadProcessBarValueSlot: a last value destroys the connection of *)
(* the recorder selected NOW, if it has one, and waits for its thread.     *)
ValueSlot ==
    /\ gui.at = "idle" /\ events # <<>>
    /\ Head(events).signal = "value"
    /\ IF Head(events).value \in Ends /\ handle[sel]
       THEN /\ gui' = [at |-> "join", nvr |-> sel]
            /\ run' = [run EXCEPT ![sel] = FALSE]
       ELSE UNCHANGED <<gui, run>>
    /\ events' = Tail(events)
    /\ UNCHANGED <<usb, handle, sel, buttons, clicks, th, file, counts, flushed, pos, alone>>

(* The files that were not taken are freed with the queue.                 *)
FTP_DestroyWorkQueue(n) == file' = [file EXCEPT ![n] = EmptyQueue]

Freed(n) ==
    /\ th' = [th EXCEPT ![n] = "off"]
    /\ FTP_DestroyWorkQueue(n)
    /\ total' = [total EXCEPT ![n] = 0]
    /\ got' = [got EXCEPT ![n] = 0]
    /\ written' = [written EXCEPT ![n] = Nothing]
    /\ stick' = [stick EXCEPT ![n] = Nothing]
    /\ kept' = [kept EXCEPT ![n] = TRUE]
    /\ pos' = [pos EXCEPT ![n] = 0]

\* Mutant: the slot forgets to set the page's handle to 0.
Destroy_KeepsHandle ==
    /\ gui.at = "join"
    /\ th[gui.nvr] = "ended"
    /\ gui' = [gui EXCEPT !.at = "idle"]
    /\ UNCHANGED <<usb, handle, sel, buttons, events, clicks, threadVars, alone>>

(* FTP_DestoryConnect: joined and freed, the page's handle set to 0.       *)
Destroy ==
    /\ gui.at = "join"
    /\ th[gui.nvr] = "ended"
    /\ handle' = [handle EXCEPT ![gui.nvr] = FALSE]
    /\ gui' = [gui EXCEPT !.at = "idle"]
    /\ Freed(gui.nvr)
    /\ alone' = [alone EXCEPT ![gui.nvr] = TRUE]
    /\ UNCHANGED <<usb, sel, buttons, events, clicks, run>>

Slots ==
    \/ ShowSlot \/ ValueSlot \/ Destroy
    \/ ClickIgnored \/ ConnectFails \/ ClickStarts

(* The stick is pulled out.                                                *)
Unplug ==
    /\ usb
    /\ usb' = FALSE
    /\ UNCHANGED <<handle, guiVars, events, threadVars, alone>>

Thread(n) == Downloads(n) \/ Check(n) \/ Emit(n) \/ Hide(n)

Next ==
    \/ \E n \in Nvrs : Click(n) \/ Thread(n)
    \/ Slots
    \/ Unplug

Spec == Init /\ [][Next]_vars

(* The GUI's event loop and the threads run on; select() times out, so a   *)
(* thread never waits for the recorder for ever.                           *)
FairSpec == Spec /\ WF_vars(Slots) /\ \A n \in Nvrs : WF_vars(Thread(n))

-----------------------------------------------------------------------------
(* Properties.                                                             *)

(* The thread has a value to report or has reported it.                    *)
Reporting(n) == th[n] \in {"check", "emit", "hide", "ended"}

(* The server told the whole size of every file.                           *)
Sized(n) == total[n] = Cardinality(Blocks(Files))

(* No file was skipped, sent in part or cut short so far.                  *)
Intact(n) == Sized(n) /\ \A f \in FileIds : f < file[n] => written[n][f] = Files[f]

(* When the server told every size and no file was lost when it was        *)
(* closed, 100 (the download is complete, recordmanage.cpp:41) is reported *)
(* only if every file is on the stick to its last block, although a single *)
(* percentage stands for all files, a file that failed is skipped and the  *)
(* last block counts before it has left the buffer.                        *)
DoneIsComplete ==
    \A n \in Nvrs :
        Reporting(n) /\ pos[n] = 100 /\ Sized(n) /\ kept[n] => stick[n] = Files

(* Everything the threads have said has been handled.                      *)
Quiet == events = <<>> /\ gui.at = "idle"

(* A download that is left alone is cleaned up however it ends: once its   *)
(* thread has ended and its signals are handled its connection is gone.    *)
EndIsDestroyed ==
    \A n \in Nvrs : (Quiet /\ th[n] = "ended" /\ alone[n]) => ~handle[n]

(* A running download is stopped by its own last value only, although the  *)
(* signal does not say whose it is and may be handled after the user has   *)
(* started another one - as long as no other recorder has a connection.    *)
StopsWhatEnded ==
    [][ \A n \in Nvrs :
          (run[n] /\ ~run'[n] /\ \A m \in Nvrs \ {n} : ~handle[m]) => pos[n] \in Ends ]_vars

(* The download button comes back, and the connection goes away, unless    *)
(* another recorder was selected or part of a file was lost on the way.    *)
DownloadEnds ==
    \A n \in Nvrs :
        handle[n] ~> ((buttons /\ ~handle[n]) \/ ~alone[n] \/ (handle[n] /\ ~Intact(n)))
=============================================================================
