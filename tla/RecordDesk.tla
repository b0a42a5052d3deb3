----------------------------- MODULE RecordDesk -----------------------------
(***************************************************************************)
(* What the operator sees of the pages and of the recording that plays:    *)
(* the live page, and the menu with the maintenance and the recordings     *)
(* page (src/cctv/menuwidget.cpp, cctv.cpp); the table of recordings with  *)
(* the colours of its rows, the label of the speed and the buttons that    *)
(* are off for a second or two (src/cctv/recordmanage.cpp).                *)
(*                                                                         *)
(* RecordPlay has the threads behind the player, RecordSearch the packets  *)
(* behind the table; here a recording is reported to be at its end at any  *)
(* moment, late reports included, and a search empties the table, which is *)
(* filled once for it, never, or a second time: a late answer to an        *)
(* earlier search has it filled too, in front of the rows that are there.  *)
(* Whether the player is paused is left open.                              *)
(***************************************************************************)
EXTENDS Integers, SequencesExt

CONSTANTS
    Finds,          \* what a search may find: is each recording unfinished ("tmp")?
    MaxLists        \* bound: answers

ASSUME DeskAssumption == Finds \subseteq Seq(BOOLEAN) /\ MaxLists \in Nat

NOTHING == 0        \* no row
CLOSED == <<>>      \* no recording in the player
Slowest == -2       \* 0.25: a speed is a power of two
Fastest == 2        \* 4.00
PageOf == [sys |-> 0, rec |-> 1]    \* SYSMANAGEPAGE, RECORMANAGEDPAGE

VARIABLES
    front,          \* the window in front: "cctv" or "menu"
    shownPages,     \* the pages of the menu that are shown
    pageValue,      \* g_ipageValue
    list,           \* the answer the table was filled with last
    emptied,        \* `list' when the table was last emptied
    recRows,        \* recordFileTableWidget: unfinished or not, and the colour
    current,        \* its current row
    recordIdex,     \* m_iRecordIdex, counted from 1
    inPlayer,       \* the recording in the player: answer and row, or CLOSED
    playSpeed,      \* m_dPlaySpeed
    playerSpeed,    \* the speed of the player
    speedLabel,     \* playSpeedlabel
    switchOff,      \* next and previous are off, m_VideoSwitchTimer runs
    tableOff,       \* the table is off, m_tableVideoSwitchTimer runs
    manageOff       \* monitorManageButton is off, mpageChangeTimer runs

pages  == <<front, shownPages, pageValue, manageOff>>
rows   == <<list, emptied, recRows, current>>
playback == <<recordIdex, inPlayer, playSpeed, playerSpeed, speedLabel>>
offs   == <<switchOff, tableOff>>
deskVars == <<pages, rows, playback, offs>>

RowsShown == DOMAIN recRows

DeskInit ==
    /\ front = "cctv" /\ shownPages = {} /\ pageValue = PageOf.sys
    /\ list = 0 /\ emptied = 0 /\ recRows = <<>> /\ current = NOTHING
    /\ recordIdex = NOTHING /\ inPlayer = CLOSED
    /\ playSpeed = 0 /\ playerSpeed = 0 /\ speedLabel = 0
    /\ switchOff = FALSE /\ tableOff = FALSE /\ manageOff = FALSE

-----------------------------------------------------------------------------
(* The player.                                                             *)

Blue(i) == recRows[i].colour = "blue"
Finished(i) == ~recRows[i].tmp

(* What closePlayWin leaves of the rows: that of the number that was       *)
(* played gets the colour of a recording that has been seen.               *)
ClosedRows ==
    IF recordIdex \in RowsShown /\ Finished(recordIdex)
    THEN [recRows EXCEPT ![recordIdex].colour = "cyan"] ELSE recRows

closePlayWin ==
    /\ inPlayer' = CLOSED
    /\ recordIdex' = NOTHING
    /\ recRows' = ClosedRows

(* The row that plays is blue; the others, those of unfinished recordings  *)
(* included, are black from now on.                                        *)
PlayedRows(row) ==
    [i \in RowsShown |->
        [recRows[i] EXCEPT !.colour = IF i = row /\ Finished(i) THEN "blue" ELSE "black"]]

SpeedReset == playSpeed' = 0 /\ speedLabel' = 0

(* recordPlayCtrl, which every caller lets follow closePlayWin: the player *)
(* opens the recording at its normal speed, or cannot be created.          *)
recordPlayCtrl(row) ==
    /\ SpeedReset
    /\ \/ /\ inPlayer' = <<list, row>>
          /\ playerSpeed' = 0
          /\ recordIdex' = row
          /\ recRows' = PlayedRows(row)
       \/ /\ inPlayer' = CLOSED
          /\ recordIdex' = NOTHING
          /\ recRows' = ClosedRows
          /\ UNCHANGED playerSpeed

OnDesk == front = "menu" /\ "rec" \in shownPages

(* recordPlaySlot: a double click.                                         *)
recordPlaySlot(row) ==
    /\ OnDesk /\ ~tableOff /\ row \in RowsShown
    /\ recordPlayCtrl(row)
    /\ current' = row
    /\ tableOff' = TRUE
    /\ UNCHANGED <<pages, list, emptied, switchOff>>

(* PlayBtnClicked with nothing in the player: the current row is played.   *)
PlayCurrent ==
    /\ OnDesk /\ inPlayer = CLOSED /\ current # NOTHING
    /\ recordPlayCtrl(current)
    /\ tableOff' = TRUE
    /\ UNCHANGED <<pages, list, emptied, current, switchOff>>

(* NextBtnClicked and PrevBtnClicked: after a search the number of the row *)
(* that plays may be beyond the table.                                     *)
PlayOther(row) ==
    /\ OnDesk /\ ~switchOff
    /\ inPlayer # CLOSED /\ recRows # <<>>
    /\ recordPlayCtrl(row)
    /\ switchOff' = TRUE
    /\ UNCHANGED <<pages, list, emptied, current, tableOff>>

NextBtnClicked == recordIdex + 1 <= Len(recRows) /\ PlayOther(recordIdex + 1)
PrevBtnClicked == recordIdex - 1 >= 1 /\ PlayOther(recordIdex - 1)

NewSpeed(speed) ==
    /\ playSpeed' = speed /\ speedLabel' = speed /\ playerSpeed' = speed
    /\ UNCHANGED <<pages, rows, recordIdex, inPlayer, offs>>

QuickBtnClicked == OnDesk /\ inPlayer # CLOSED /\ playSpeed < Fastest /\ NewSpeed(playSpeed + 1)
SlowBtnClicked == OnDesk /\ inPlayer # CLOSED /\ playSpeed > Slowest /\ NewSpeed(playSpeed - 1)

(* playSliderMoveSlot and playSliderPressSlot: the position is sought and  *)
(* label and m_dPlaySpeed start again at 1.00; the player is not told the  *)
(* speed, and keeps its own or not.                                        *)
SliderMoved ==
    /\ OnDesk /\ inPlayer # CLOSED
    /\ SpeedReset
    /\ playerSpeed' \in {playerSpeed, 0}
    /\ UNCHANGED <<pages, rows, recordIdex, inPlayer, offs>>

(* StopBtnClicked, and closeRecordPlaySlot when the end is reported.       *)
StopPlaying ==
    /\ closePlayWin
    /\ UNCHANGED <<pages, list, emptied, current, playSpeed, playerSpeed, speedLabel, offs>>

StopBtnClicked == OnDesk /\ inPlayer # CLOSED /\ StopPlaying
closeRecordPlaySlot == StopPlaying

-----------------------------------------------------------------------------
(* The table.                                                              *)

(* A click makes its row green and takes the colour from all but the row   *)
(* of the number that plays.                                               *)
SelectedRows(row) ==
    [i \in RowsShown |->
        IF ~Finished(i) \/ i = recordIdex THEN recRows[i]
        ELSE [recRows[i] EXCEPT !.colour = IF i = row THEN "green" ELSE "black"]]

recordSelectionSlot(row) ==
    /\ OnDesk /\ ~tableOff /\ row \in RowsShown
    /\ current' = row
    /\ recRows' = SelectedRows(row)
    /\ UNCHANGED <<pages, list, emptied, playback, offs>>

(* SearchBtnClicked takes the rows away; what plays goes on playing.       *)
EmptyTable ==
    /\ OnDesk
    /\ recRows' = <<>> /\ current' = NOTHING
    /\ emptied' = list
    /\ UNCHANGED <<pages, list, playback, offs>>

FoundRows(found) ==
    [i \in DOMAIN found |-> [tmp |-> found[i], colour |-> IF found[i] THEN "red" ELSE "black"]]

(* recordTableWidgetFillFunc, whichever page is shown by then: the new     *)
(* rows come before those that are there, the current one among them.      *)
FillTable ==
    /\ list < MaxLists
    /\ list' = list + 1
    /\ \E found \in Finds :
         /\ recRows' = FoundRows(found) \o recRows
         /\ current' = IF current = NOTHING THEN NOTHING ELSE current + Len(found)
    /\ UNCHANGED <<pages, emptied, playback, offs>>

(* manualSwitchVideoEndSlot, manualtableSwitchVideoEndSlot.                *)
SwitchEnd ==
    /\ switchOff
    /\ switchOff' = FALSE
    /\ UNCHANGED <<pages, rows, playback, tableOff>>
TableSwitchEnd ==
    /\ tableOff
    /\ tableOff' = FALSE
    /\ UNCHANGED <<pages, rows, playback, switchOff>>

-----------------------------------------------------------------------------
(* The pages.                                                              *)

(* showMonitorManagePage and, by its signal, showMainfornPage: the page    *)
(* that was left last is shown again.                                      *)
showMonitorManagePage ==
    /\ front = "cctv" /\ ~manageOff
    /\ front' = "menu"
    /\ shownPages' = shownPages \cup {IF pageValue = PageOf.sys THEN "sys" ELSE "rec"}
    /\ manageOff' = TRUE
    /\ UNCHANGED <<pageValue, rows, playback, offs>>

mPageChangeSLot ==
    /\ manageOff
    /\ manageOff' = FALSE
    /\ UNCHANGED <<front, shownPages, pageValue, rows, playback, offs>>

(* menuButtonClick.                                                        *)
SysClick ==
    /\ front = "menu"
    /\ closePlayWin
    /\ shownPages' = (shownPages \ {"rec"}) \cup {"sys"}
    /\ UNCHANGED <<front, pageValue, manageOff, list, emptied, current, playSpeed,
                   playerSpeed, speedLabel, offs>>
RecClick ==
    /\ front = "menu"
    /\ shownPages' = (shownPages \ {"sys"}) \cup {"rec"}
    /\ UNCHANGED <<front, pageValue, manageOff, rows, playback, offs>>

(* hidePageSlots, by the signal of the page that hides itself: the menu is *)
(* hidden and the live page shown.                                         *)
hidePageSlots(page) ==
    /\ front = "menu" /\ page \in shownPages
    /\ shownPages' = shownPages \ {page}
    /\ pageValue' = PageOf[page]
    /\ front' = "cctv"
    /\ UNCHANGED <<manageOff, list, emptied, current, playSpeed, playerSpeed, speedLabel, offs>>

hideSysPageSlots == hidePageSlots("sys") /\ UNCHANGED <<inPlayer, recordIdex, recRows>>
\* Mutant: the recording plays on behind the live page.
hideRecPageSlots_PlaysOn == hidePageSlots("rec") /\ UNCHANGED <<inPlayer, recordIdex, recRows>>
hideRecPageSlots == hidePageSlots("rec") /\ closePlayWin

DeskNext ==
    \/ \E row \in RowsShown : recordPlaySlot(row) \/ recordSelectionSlot(row)
    \/ PlayCurrent \/ NextBtnClicked \/ PrevBtnClicked
    \/ QuickBtnClicked \/ SlowBtnClicked \/ SliderMoved
    \/ StopBtnClicked \/ closeRecordPlaySlot
    \/ EmptyTable \/ FillTable
    \/ SwitchEnd \/ TableSwitchEnd
    \/ showMonitorManagePage \/ mPageChangeSLot
    \/ SysClick \/ RecClick \/ hideSysPageSlots \/ hideRecPageSlots

-----------------------------------------------------------------------------
(* closePlayWin, recordPlayCtrl, recordSelectionSlot, hidePageSlots and    *)
(* the slider's slots: one page at most is shown, and only in the menu; a  *)
(* recording plays nowhere but on its page; the label tells the speed it   *)
(* plays at, except that 1.00 may be the slider's; and the blue row is the *)
(* recording that plays, through every click, end and search, those that   *)
(* replace the table under the recording included - until the table is     *)
(* filled a second time: the blue row moves on then, and m_iRecordIdex     *)
(* does not.                                                               *)
OnePage ==
    /\ front = "cctv" => shownPages = {}
    /\ front = "menu" => Cardinality(shownPages) = 1

FilledOnce == list <= emptied + 1

DeskTellsTruth ==
    /\ OnePage
    /\ inPlayer # CLOSED =>
         /\ OnDesk
         /\ playerSpeed \in Slowest .. Fastest /\ speedLabel = playSpeed
         /\ speedLabel = playerSpeed \/ speedLabel = 0
    /\ FilledOnce => \A i \in RowsShown : Blue(i) => inPlayer = <<list, i>>
    /\ inPlayer # CLOSED /\ inPlayer[1] = list /\ inPlayer[2] \in RowsShown
         => (Blue(inPlayer[2]) <=> Finished(inPlayer[2]))
=============================================================================
