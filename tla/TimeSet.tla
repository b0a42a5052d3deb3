------------------------------ MODULE TimeSet ------------------------------
(***************************************************************************)
(* The date and time dialog (src/cctv/timeset.cpp), which the recordings   *)
(* page opens for the start and for the end of a search.  Its fields are   *)
(* six labels; stButtonClick changes the one whose button was pressed and  *)
(* then, whatever the button was, brings the day of a February back.       *)
(*                                                                         *)
(* The days of a month come from the static array idayNum, in which only   *)
(* a year button adjusts February, for the year it leads to: opening the   *)
(* dialog does not, so February is as long as it was in the year that was  *)
(* chosen last, whichever of the two labels the dialog was opened for.     *)
(***************************************************************************)
EXTENDS Calendar

CONSTANTS
    Years,      \* years the buttons may reach (any year in the code)
    Given,      \* dates the page may start on (any date)
    ClockTop,   \* highest value of each time field: 23, 59, 59
    MaxPresses  \* bound: buttons pressed

Fields == {"hour", "min", "sec"}
START == 1
END == 2
TimeLabels == {START, END}

ASSUME YearsOfDialogAssumption == Years \subseteq Int
ASSUME GivenAssumption ==
    \A d \in Given : d = Date(d.year, d.month, d.day) /\ IsDate(d) /\ d.year \in Int
ASSUME ClockAssumption == ClockTop \in [Fields -> Nat] /\ MaxPresses \in Nat

VARIABLES
    label,      \* startTimeLabel and endTimeLabel: date and time of day
    opened,     \* the dialog is shown
    edited,     \* g_iDateEditNo
    date,       \* label_2, label_3, label_4
    clock,      \* label_5, label_6, label_7
    idayNum2,   \* idayNum[1]
    presses

dialogVars == <<label, opened, edited, date, clock, idayNum2, presses>>

(* The page starts with the whole of one day.                              *)
WholeDay(today) ==
    [l \in TimeLabels |->
        [day |-> today, clock |-> IF l = START THEN [f \in Fields |-> 0] ELSE ClockTop]]

DialogInit ==
    \E today \in Given :
        /\ label = WholeDay(today)
        /\ opened = FALSE /\ edited = START
        /\ date = today /\ clock = [f \in Fields |-> 0]
        /\ idayNum2 = 28
        /\ presses = 0

(* The six labels of the dialog show a time.                               *)
setTimeLabelText(time) == date' = time.day /\ clock' = time.clock

(* openStartTimeSetWidgetSlot, openStopTimeSetWidgetSlot: what the label   *)
(* holds is shown.  The dialog is modal.                                   *)
Open(l) ==
    /\ ~opened
    /\ opened' = TRUE /\ edited' = l
    /\ setTimeLabelText(label[l])
    /\ UNCHANGED <<label, idayNum2, presses>>

(* okButtonClick with timeSetRecvMsg, which puts the six texts into the    *)
(* label without a look at them.                                           *)
okButtonClick ==
    /\ opened
    /\ opened' = FALSE
    /\ label' = [label EXCEPT ![edited] = [day |-> date, clock |-> clock]]
    /\ UNCHANGED <<edited, date, clock, idayNum2, presses>>

cancleButtonClick ==
    /\ opened
    /\ opened' = FALSE
    /\ UNCHANGED <<label, edited, date, clock, idayNum2, presses>>

\* Mutant: only the buttons of February's own day are looked at.
DialogClamped_DayOnly(d) ==
    IF d.month = 2 /\ d.day > February(d.year) /\ d.day # date.day
    THEN [d EXCEPT !.day = February(d.year)] ELSE d
(* The end of stButtonClick.                                               *)
DialogClamped(d) ==
    IF d.month = 2 /\ d.day > February(d.year)
    THEN [d EXCEPT !.day = February(d.year)] ELSE d

MonthLength(month) == IF month = 2 THEN idayNum2 ELSE GetMaxDay(1, month)

YearPressed ==
    \E year \in Years \cap {date.year - 1, date.year + 1} :
        /\ idayNum2' = February(year)
        /\ date' = DialogClamped([date EXCEPT !.year = year])
        /\ UNCHANGED clock

MonthPressed ==
    /\ \E month \in {Up(date.month, 1, 12), Down(date.month, 1, 12)} :
        date' = DialogClamped([date EXCEPT !.month = month])
    /\ UNCHANGED <<clock, idayNum2>>

DayPressed ==
    LET top == MonthLength(date.month) IN
    /\ \E day \in {Up(date.day, 1, top), Down(date.day, 1, top)} :
        date' = DialogClamped([date EXCEPT !.day = day])
    /\ UNCHANGED <<clock, idayNum2>>

TimePressed ==
    /\ \E f \in Fields :
        \E v \in {Up(clock[f], 0, ClockTop[f]), Down(clock[f], 0, ClockTop[f])} :
            clock' = [clock EXCEPT ![f] = v]
    /\ date' = DialogClamped(date)
    /\ UNCHANGED idayNum2

stButtonClick ==
    /\ opened /\ presses < MaxPresses
    /\ presses' = presses + 1
    /\ YearPressed \/ MonthPressed \/ DayPressed \/ TimePressed
    /\ UNCHANGED <<label, opened, edited>>

DialogNext ==
    \/ \E l \in TimeLabels : Open(l)
    \/ okButtonClick \/ cancleButtonClick
    \/ stButtonClick

DialogSpec == DialogInit /\ [][DialogNext]_dialogVars

-----------------------------------------------------------------------------
(* Properties.                                                             *)

(* stButtonClick, the slots that open the dialog and timeSetRecvMsg: the   *)
(* dialog can show a day that does not exist, such as 31 April, but never  *)
(* one in February, although the length of February it counts with may be  *)
(* that of another year; only a month button leads there, and the clicked  *)
(* label that holds such a day; and a label gets such a day only from the  *)
(* dialog that was opened for it.                                          *)
OnlyMonthsMislead ==
    [][ /\ IsDate(date) /\ ~IsDate(date') =>
             /\ date'.month # 2
             /\ IF opened THEN date'.month # date.month ELSE date' = label[edited'].day
        /\ \A l \in TimeLabels : IsDate(label[l].day) /\ ~IsDate(label'[l].day) =>
             opened /\ l = edited /\ ~IsDate(date) /\ label'[l].day = date ]_dialogVars
=============================================================================
