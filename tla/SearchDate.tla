----------------------------- MODULE SearchDate -----------------------------
(***************************************************************************)
(* The date for which the maintenance page searches the event log          *)
(* (src/cctv/sysmanage.cpp): today when the page is built, then changed by *)
(* six buttons.  GroupButtonClickSlot is one action; a button changes one  *)
(* number and then brings the day back into the month.                     *)
(***************************************************************************)
EXTENDS Calendar

CONSTANTS
    FirstYear,      \* 1970
    LastYear        \* 2100

ASSUME YearsAssumption == FirstYear \in Int /\ LastYear \in Int

VARIABLE wanted     \* m_iYear, m_iMonth, m_iDay

Buttons == {"LastYear", "NextYear", "LastMon", "NextMon", "LastDay", "NextDay"}

WantedInit ==
    \E y \in FirstYear .. LastYear, m \in Months, d \in 1 .. 31 :
        /\ wanted = Date(y, m, d)
        /\ IsDate(wanted)

\* Mutant: the day is left as it is.
Clamped_Not(year, month) == Date(year, month, wanted.day)
(* setYear() or setMonth(), then setDay() when the day is too large.       *)
Clamped(year, month) ==
    LET top == GetMaxDay(year, month) IN
    Date(year, month, IF wanted.day > top THEN top ELSE wanted.day)

(* The slot returns before it changes anything when the year is too far.   *)
YearButton(year) ==
    /\ year \in FirstYear .. LastYear
    /\ wanted' = Clamped(year, wanted.month)

MonthButton(month) == wanted' = Clamped(wanted.year, month)

DayButton(day) == wanted' = [wanted EXCEPT !.day = day]

GroupButtonClickSlot(button) ==
    LET top == GetMaxDay(wanted.year, wanted.month) IN
    \/ button = "LastYear" /\ YearButton(wanted.year - 1)
    \/ button = "NextYear" /\ YearButton(wanted.year + 1)
    \/ button = "LastMon"  /\ MonthButton(Down(wanted.month, 1, 12))
    \/ button = "NextMon"  /\ MonthButton(Up(wanted.month, 1, 12))
    \/ button = "LastDay"  /\ DayButton(Down(wanted.day, 1, top))
    \/ button = "NextDay"  /\ DayButton(Up(wanted.day, 1, top))

WantedNext == \E button \in Buttons : GroupButtonClickSlot(button)

WantedSpec == WantedInit /\ [][WantedNext]_wanted

-----------------------------------------------------------------------------
(* Properties.                                                             *)

(* No sequence of buttons leads to a day that does not exist, for which    *)
(* the log could hold no line, nor out of the years the page allows.       *)
WantedDayExists == IsDate(wanted) /\ wanted.year \in FirstYear .. LastYear
=============================================================================
