----------------------------- MODULE RecordPlay -----------------------------
(***************************************************************************)
(* Playing a recording (src/cctv/recordmanage.cpp): the page's player      *)
(* handle and slideValueSetThread, which asks the player for the length of *)
(* the recording and its position and reports the end to the page.         *)
(*                                                                         *)
(* The page means to join the thread before it frees the player, but the   *)
(* thread has detached itself: pthread_join() returns at once (unless the  *)
(* thread had not come that far when it was called).  A thread that sleeps *)
(* or is inside the player when m_iThreadRunFlag is cleared and set again  *)
(* runs on beside the next one.  Nothing but g_sliderValueSetMutex orders  *)
(* the threads' accesses, and closePlayWin does not take it.               *)
(*                                                                         *)
(* Every recording that is started is a new number: its handle, its thread *)
(* and its length all go by that number.  Labels and colours, the speed    *)
(* (its limits are left open), the slider's own value and the second for   *)
(* which next, previous and the table are disabled after use are left out, *)
(* whether the player is paused is left open; the table is the one the     *)
(* last search left.                                                       *)
(***************************************************************************)
EXTENDS Integers, Sequences

CONSTANTS
    Rows,           \* rows of the table of recordings
    MaxPlays,       \* bound: recordings started
    MaxTry,         \* how often a thread asks for a length in vain (5)
    MaxSignals      \* bound: signals waiting for the GUI

ASSUME RowsAssumption == Rows \in Nat \ {0}
ASSUME BoundsAssumption == MaxPlays \in Nat /\ MaxSignals \in Nat \ {0}
ASSUME TryAssumption == MaxTry \in Nat

Plays == 1 .. MaxPlays
NULL == 0           \* no handle, no thread, no length
DEFAULT == -1       \* the length of 600 s assumed when none was told

VARIABLES
    gui,            \* the page: where it is in a handler, and the row to play
    cmp,            \* m_cmpHandle
    threadId,       \* m_threadId
    recordIdx,      \* m_iRecordIdex
    runFlag,        \* m_iThreadRunFlag
    playFlag,       \* m_iPlayFlag
    playRange,      \* m_iPlayRange: whose length
    sliderValue,    \* m_iSliderValue: whose position, and whether at the end
    freed, over,    \* the player: handles freed, at their end
    th, arg,        \* by thread: where it is, the handle it has loaded
    tries, dur,     \* iTryGetPlayRangeNum, iDuration
    events,         \* queued closeRecordPlaySignal, with what has ended
    plays,          \* recordings started so far
    clean           \* history: nothing of earlier ones was left at the rewind

page    == <<gui, cmp, threadId, recordIdx, plays, clean>>
shared  == <<runFlag, playFlag, playRange, sliderValue>>
player  == <<freed, over>>
threads == <<th, arg, tries, dur>>
vars == <<page, shared, player, threads, events>>

Lengths == Plays \cup {NULL, DEFAULT}
Active(t) == th[t] \notin {"none", "end"}

TypeOK ==
    /\ gui \in [pc : {"idle", "close", "join", "wait", "free", "null", "play", "open", "create"},
                row : -1 .. Rows - 1]
    /\ cmp \in Plays \cup {NULL} /\ threadId \in Plays \cup {NULL}
    /\ recordIdx \in -1 .. Rows - 1
    /\ runFlag \in BOOLEAN /\ playFlag \in BOOLEAN
    /\ playRange \in Lengths
    /\ sliderValue \in [of : Plays \cup {NULL}, end : BOOLEAN]
    /\ freed \subseteq Plays /\ over \subseteq Plays
    /\ th \in [Plays -> {"none", "start", "loop", "range", "ask", "set", "refresh",
                         "lock", "time", "compare", "end"}]
    /\ arg \in [Plays -> Plays \cup {NULL}]
    /\ tries \in [Plays -> 0 .. MaxTry]
    /\ dur \in [Plays -> Plays \cup {NULL}]
    /\ events \in Seq(Plays \cup {NULL}) /\ Len(events) <= MaxSignals
    /\ plays \in 0 .. MaxPlays
    /\ clean \in BOOLEAN

Idle == [pc |-> "idle", row |-> -1]
Zero == [of |-> NULL, end |-> FALSE]

Init ==
    /\ gui = Idle
    /\ cmp = NULL /\ threadId = NULL /\ recordIdx = -1
    /\ runFlag = FALSE /\ playFlag = FALSE /\ playRange = NULL /\ sliderValue = Zero
    /\ freed = {} /\ over = {}
    /\ th = [t \in Plays |-> "none"]
    /\ arg = [t \in Plays |-> NULL]
    /\ tries = [t \in Plays |-> MaxTry]
    /\ dur = [t \in Plays |-> NULL]
    /\ events = <<>> /\ plays = 0 /\ clean = TRUE

-----------------------------------------------------------------------------
(* The page.  closePlayWin, with a row to play afterwards or with -1.      *)

At(pc) == gui' = [gui EXCEPT !.pc = pc]

ClosePlayWin(row) == gui' = [pc |-> "close", row |-> row]

ClearFlag ==
    /\ gui.pc = "close"
    /\ IF threadId = NULL
       THEN At("free") /\ UNCHANGED runFlag
       ELSE At("join") /\ runFlag' = FALSE
    /\ UNCHANGED <<cmp, threadId, recordIdx, plays, clean, playFlag, playRange,
                   sliderValue, player, threads, events>>

(* pthread_join() fails at once on a detached thread.  One that has not    *)
(* detached itself yet is waited for; its pthread_detach() is then void.   *)
Join ==
    /\ gui.pc = "join"
    /\ IF th[threadId] = "start"
       THEN At("wait") /\ UNCHANGED threadId
       ELSE At("free") /\ threadId' = NULL
    /\ UNCHANGED <<cmp, recordIdx, plays, clean, shared, player, threads, events>>

Joined ==
    /\ gui.pc = "wait"
    /\ th[threadId] = "end"
    /\ At("free")
    /\ threadId' = NULL
    /\ UNCHANGED <<cmp, recordIdx, plays, clean, shared, player, threads, events>>

(* CMP_CloseMedia and CMP_UnInit.                                          *)
FreePlayer ==
    /\ gui.pc = "free"
    /\ At("null")
    /\ freed' = freed \cup ({cmp} \ {NULL})
    /\ over' = over \ {cmp}
    /\ UNCHANGED <<cmp, threadId, recordIdx, plays, clean, shared, threads, events>>

Closed ==
    /\ gui.pc = "null"
    /\ cmp' = NULL
    /\ recordIdx' = -1
    /\ playFlag' = FALSE
    /\ At(IF gui.row >= 0 THEN "play" ELSE "idle")
    /\ UNCHANGED <<threadId, plays, clean, runFlag, playRange, sliderValue, player,
                   threads, events>>

\* Mutant: the length of the last recording is not reset.
ResetPosition_KeepsRange ==
    /\ playFlag' = TRUE /\ sliderValue' = Zero
    /\ UNCHANGED playRange

(* recordPlayCtrl: length and position start from 0.                       *)
ResetPosition == playRange' = NULL /\ sliderValue' = Zero /\ playFlag' = TRUE

Rewind ==
    /\ gui.pc = "play"
    /\ ResetPosition
    /\ clean' = (events = <<>> /\ \A t \in Plays : ~Active(t))
    /\ At("open")
    /\ UNCHANGED <<cmp, threadId, recordIdx, plays, runFlag, player, threads, events>>

(* The recorder has no address, or the player gives no handle.             *)
PlayFails ==
    /\ gui.pc = "open"
    /\ gui' = Idle
    /\ UNCHANGED <<cmp, threadId, recordIdx, plays, clean, shared, player,
                   threads, events>>

PlayStarts ==
    /\ gui.pc = "open"
    /\ plays' = plays + 1
    /\ cmp' = plays + 1
    /\ recordIdx' = gui.row
    /\ At("create")
    /\ UNCHANGED <<threadId, clean, shared, player, threads, events>>

(* After 200 ms: the refresh thread, when there is none.                   *)
CreateThread ==
    /\ gui.pc = "create"
    /\ gui' = Idle
    /\ IF threadId = NULL
       THEN /\ runFlag' = TRUE
            /\ threadId' = cmp
            /\ th' = [th EXCEPT ![cmp] = "start"]
       ELSE UNCHANGED <<runFlag, threadId, th>>
    /\ UNCHANGED <<cmp, recordIdx, plays, clean, playFlag, playRange, sliderValue,
                   player, arg, tries, dur, events>>

Handler ==
    \/ ClearFlag \/ Join \/ Joined \/ FreePlayer \/ Closed
    \/ Rewind \/ PlayFails \/ PlayStarts \/ CreateThread

-----------------------------------------------------------------------------
(* The page: buttons, table and slider.                                    *)

Starting == gui.pc = "idle" /\ plays < MaxPlays

(* There is a recording after, or before, the one that is played.          *)
Neighbour(step) == recordIdx + step \in 0 .. Rows - 1

(* NextBtnClicked, PrevBtnClicked.                                         *)
Switch(step) ==
    /\ Starting
    /\ cmp # NULL
    /\ Neighbour(step)
    /\ ClosePlayWin(recordIdx + step)
    /\ UNCHANGED <<cmp, threadId, recordIdx, plays, clean, shared, player, threads, events>>

(* recordPlaySlot: a double click into the table; or the play button with  *)
(* a row selected.                                                         *)
PlayRow(row) ==
    /\ Starting
    /\ ClosePlayWin(row)
    /\ UNCHANGED <<cmp, threadId, recordIdx, plays, clean, shared, player, threads, events>>

(* The page is hidden; or the stop button, which does the same unless      *)
(* there is no player.                                                     *)
Stop ==
    /\ gui.pc = "idle"
    /\ ClosePlayWin(-1)
    /\ UNCHANGED <<cmp, threadId, recordIdx, plays, clean, shared, player,
                   threads, events>>

PauesBtnClicked ==
    /\ gui.pc = "idle"
    /\ cmp # NULL /\ playFlag
    /\ playFlag' = FALSE
    /\ UNCHANGED <<page, runFlag, playRange, sliderValue, player, threads, events>>

PlayBtnClicked ==
    /\ gui.pc = "idle"
    /\ cmp # NULL /\ ~playFlag
    /\ playFlag' = TRUE
    /\ UNCHANGED <<page, runFlag, playRange, sliderValue, player, threads, events>>

(* Quick and slow set the flag of a paused recording too.                  *)
ChangeSpeed ==
    /\ gui.pc = "idle"
    /\ cmp # NULL
    /\ playFlag' = TRUE
    /\ UNCHANGED <<page, runFlag, playRange, sliderValue, player, threads, events>>

(* The slider is pressed or dragged: to the end or away from it, under the *)
(* mutex.  (The player may say that it is paused: then nothing happens.)   *)
Slide ==
    /\ gui.pc = "idle"
    /\ cmp # NULL
    /\ \A t \in Plays : th[t] # "time"
    /\ playFlag' = TRUE
    /\ over' \in {over \cup {cmp}, over \ {cmp}}
    /\ UNCHANGED <<page, runFlag, playRange, sliderValue, freed, threads, events>>

(* closeRecordPlaySlot: the signal does not say which recording has ended. *)
CloseRecordPlay ==
    /\ gui.pc = "idle"
    /\ events # <<>>
    /\ events' = Tail(events)
    /\ ClosePlayWin(-1)
    /\ UNCHANGED <<cmp, threadId, recordIdx, plays, clean, shared, player, threads>>

(* The recording plays to its end.                                         *)
PlayerAtEnd ==
    /\ cmp \notin freed \cup over \cup {NULL}
    /\ over' = over \cup {cmp}
    /\ UNCHANGED <<page, shared, freed, threads, events>>

-----------------------------------------------------------------------------
(* slideValueSetThread.                                                    *)

Goto(t, loc) == th' = [th EXCEPT ![t] = loc]

Start(t) ==
    /\ th[t] = "start"
    /\ Goto(t, "loop")
    /\ UNCHANGED <<shared, arg, tries, dur, events>>

(* The thread ends; its locals go.                                         *)
Return(t) ==
    /\ Goto(t, "end")
    /\ tries' = [tries EXCEPT ![t] = MaxTry]
    /\ dur' = [dur EXCEPT ![t] = NULL]

(* The test of the outer loop, after usleep(500 ms) but the first time.    *)
Loop(t) ==
    /\ th[t] = "loop"
    /\ IF runFlag
       THEN /\ Goto(t, IF playRange = NULL THEN "range" ELSE "refresh")
            /\ UNCHANGED <<tries, dur>>
       ELSE Return(t)
    /\ UNCHANGED <<shared, arg, events>>

(* The test of the inner loop; the handle is loaded.                       *)
RangeLoop(t) ==
    /\ th[t] = "range"
    /\ IF runFlag /\ tries[t] > 0
       THEN Goto(t, "ask") /\ arg' = [arg EXCEPT ![t] = cmp]
       ELSE Goto(t, "set") /\ UNCHANGED arg
    /\ UNCHANGED <<shared, tries, dur, events>>

(* CMP_GetPlayRange: a length, or none (then sleep(1 s) and try again).    *)
(* NULL has no length; of a freed handle nothing is known.                 *)
AskRange(t) ==
    /\ th[t] = "ask"
    /\ \/ /\ arg[t] # NULL
          /\ dur' = [dur EXCEPT ![t] = arg[t]]
          /\ Goto(t, "set")
          /\ UNCHANGED tries
       \/ /\ dur' = [dur EXCEPT ![t] = NULL]
          /\ tries' = [tries EXCEPT ![t] = @ - 1]
          /\ Goto(t, "range")
    /\ arg' = [arg EXCEPT ![t] = NULL]
    /\ UNCHANGED <<shared, events>>

SetRange(t) ==
    /\ th[t] = "set"
    /\ playRange' = IF dur[t] # NULL THEN dur[t] ELSE DEFAULT
    /\ Goto(t, "refresh")
    /\ UNCHANGED <<runFlag, playFlag, sliderValue, arg, tries, dur, events>>

(* Nothing is refreshed when paused or without a length.                   *)
Refresh(t) ==
    /\ th[t] = "refresh"
    /\ Goto(t, IF playRange # NULL /\ playFlag THEN "lock" ELSE "loop")
    /\ UNCHANGED <<shared, arg, tries, dur, events>>

(* The mutex is taken and the handle, by now perhaps NULL, is loaded.      *)
Lock(t) ==
    /\ th[t] = "lock"
    /\ \A u \in Plays : th[u] # "time"
    /\ Goto(t, "time")
    /\ arg' = [arg EXCEPT ![t] = cmp]
    /\ UNCHANGED <<shared, tries, dur, events>>

(* CMP_GetPlayTime, stored for all; the mutex is released.                 *)
GetPlayTime(t) ==
    /\ th[t] = "time"
    /\ \E atEnd \in BOOLEAN :
        /\ arg[t] \notin freed => atEnd = (arg[t] \in over)
        /\ sliderValue' = [of |-> arg[t], end |-> atEnd]
    /\ Goto(t, "compare")
    /\ arg' = [arg EXCEPT ![t] = NULL]
    /\ UNCHANGED <<runFlag, playFlag, playRange, tries, dur, events>>

\* Mutant: the position must be greater than the length.
Reached_Strictly ==
    IF sliderValue.of = playRange THEN {FALSE} ELSE BOOLEAN
(* m_iSliderValue >= m_iPlayRange, both as they are by now: of the same    *)
(* recording at its end; position and length of two recordings, or the     *)
(* length assumed, may compare either way, and no length is reached by all.*)
Reached ==
    IF playRange = NULL THEN {TRUE}
    ELSE IF sliderValue.of = NULL THEN {FALSE}
    ELSE IF sliderValue.of = playRange THEN {sliderValue.end}
    ELSE BOOLEAN

(* The recording whose end the comparison shows.                           *)
Ended == IF playRange \in {sliderValue.of, DEFAULT} THEN sliderValue.of ELSE NULL

Compare(t) ==
    /\ th[t] = "compare"
    /\ \E reached \in Reached :
        IF reached THEN Len(events) < MaxSignals /\ events' = Append(events, Ended)
                   ELSE UNCHANGED events
    /\ Goto(t, "loop")
    /\ UNCHANGED <<shared, arg, tries, dur>>

Thread(t) ==
    /\ \/ Start(t) \/ Loop(t) \/ RangeLoop(t) \/ AskRange(t) \/ SetRange(t)
       \/ Refresh(t) \/ Lock(t) \/ GetPlayTime(t) \/ Compare(t)
    /\ UNCHANGED <<page, player>>

Next ==
    \/ Handler
    \/ \E step \in {1, -1} : Switch(step)
    \/ \E row \in 0 .. Rows - 1 : PlayRow(row)
    \/ Stop \/ PauesBtnClicked \/ PlayBtnClicked \/ ChangeSpeed \/ Slide
    \/ CloseRecordPlay
    \/ PlayerAtEnd
    \/ \E t \in Plays : Thread(t)

Spec == Init /\ [][Next]_vars

(* A handler that has begun goes on, queued signals are handled, and the   *)
(* threads are scheduled; the calls of the player return.                  *)
FairSpec ==
    /\ Spec
    /\ WF_vars(Handler) /\ WF_vars(CloseRecordPlay)
    /\ \A t \in Plays : WF_vars(Thread(t))

-----------------------------------------------------------------------------
(* Properties.                                                             *)

(* The end of a recording closes that recording and no other one, though   *)
(* the signal does not say which has ended - provided that no thread and   *)
(* no signal of an earlier one was left when the position was reset for it.*)
ClosesWhatEnded ==
    [][(events # <<>> /\ events' = Tail(events) /\ cmp # NULL /\ clean)
          => Head(events) = cmp]_vars

AtEnd == cmp \in over /\ playFlag /\ playRange = cmp

(* A recording that is at its end is closed, unless the user pauses it or  *)
(* moves away from the end, or its length is lost to another thread.       *)
EndCloses == AtEnd ~> ~AtEnd

(* Everybody gets to an end: closePlayWin comes back from the join, and    *)
(* when nothing is played any more the refresh threads end, those that the *)
(* join did not wait for included.                                         *)
ThreadsEnd ==
    /\ gui.pc # "idle" ~> gui.pc = "idle"
    /\ (gui.pc = "idle" /\ threadId = NULL)
         ~> (gui.pc # "idle" \/ \A t \in Plays : ~Active(t))

(* Nothing goes on for ever: no recording at its end (slideValueSetThread, *)
(* closeRecordPlaySlot), no join of the page (closePlayWin), no thread.    *)
PlayingEnds == EndCloses /\ ThreadsEnd

-----------------------------------------------------------------------------
(* What a comment of recordmanage.cpp says and the code does not do.       *)

(* recordmanage.cpp:753: the thread that refreshes the progress bar is     *)
(* only created once; there is never a second one beside it.               *)
OneRefreshThread == \A t, u \in Plays : Active(t) /\ Active(u) => t = u
=============================================================================
