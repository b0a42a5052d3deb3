----------------------------- MODULE PartsProofs -----------------------------
(***************************************************************************)
(* Proofs about the parts of the client that are each modelled by          *)
(* themselves: the two date dialogs, for every range of years and every    *)
(* date they are given; the recordings page, for every table; the playing  *)
(* of a recording with its threads (Init, Next and Spec are RecordPlay's), *)
(* for any number of recordings and signals; the configuration file of the *)
(* settings, for every text that a power cut leaves; the table of the      *)
(* cameras, for every train; the control connection of a download, for any *)
(* number of files; the name of a recording in GB 2312, for names of any   *)
(* length and in any characters; the poll of the live view, for every      *)
(* layout of the cameras; and the receiving of the multicasts, for every   *)
(* silence and period.                                                     *)
(***************************************************************************)
EXTENDS SearchDate, TimeSet, RecordDesk, RecordPlay, Settings, CameraTable, FtpDialogue,
        Gb2312, PollOrder, Multicast, SequenceTheorems, NumberSets

-----------------------------------------------------------------------------
(* The dates of both dialogs.                                              *)

(* The longest month of a year is no longer than 31 days, and only the     *)
(* length of February depends on the year.                                 *)
LEMMA MonthLengths ==
    ASSUME NEW year \in Int, NEW month \in Months
    PROVE  /\ GetMaxDay(year, month) \in 28 .. 31
           /\ February(year) \in {28, 29}
           /\ month # 2 => \A other : GetMaxDay(year, month) = GetMaxDay(other, month)
  BY DEF GetMaxDay, February, Months

(* A ring is not left, and from a number inside a ring of at least two a   *)
(* step leads to another one.                                              *)
LEMMA Ring ==
    ASSUME NEW lo \in Int, NEW hi \in Int, lo <= hi, NEW n \in Int
    PROVE  /\ n >= lo - 1 => Up(n, lo, hi) \in lo .. hi
           /\ n <= hi + 1 => Down(n, lo, hi) \in lo .. hi
           /\ lo < hi /\ n \in lo .. hi => Up(n, lo, hi) # n /\ Down(n, lo, hi) # n
  BY DEF Up, Down

-----------------------------------------------------------------------------
(* SearchDate.                                                             *)

Wanteds ==
    {w \in [year : FirstYear .. LastYear, month : Months, day : 1 .. 31] : IsDate(w)}

(* setDay() after a change of month or year leaves a day of the month.     *)
LEMMA ClampedIsWanted ==
    ASSUME wanted \in Wanteds, NEW year \in FirstYear .. LastYear, NEW month \in Months
    PROVE  Clamped(year, month) \in Wanteds
<1> DEFINE top == GetMaxDay(year, month)
<1>1. year \in Int
  BY YearsAssumption
<1>2. top \in 28 .. 31
  BY <1>1, MonthLengths
<1>3. wanted.day \in 1 .. 31
  BY DEF Wanteds
<1> HIDE DEF top
<1> DEFINE day == IF wanted.day > top THEN top ELSE wanted.day
<1>4. day \in 1 .. top /\ day \in 1 .. 31
  BY <1>2, <1>3
<1>5. Clamped(year, month) = Date(year, month, day)
  BY DEF Clamped, top
<1> HIDE DEF day
<1> QED
  BY <1>4, <1>5 DEF Wanteds, Date, IsDate, top

(* Every button leads from a day that exists to one that exists.           *)
LEMMA WantedStep ==
    ASSUME wanted \in Wanteds, [WantedNext]_wanted
    PROVE  wanted' \in Wanteds
<1> DEFINE top == GetMaxDay(wanted.year, wanted.month)
<1>1. /\ wanted \in [year : FirstYear .. LastYear, month : Months, day : 1 .. 31]
      /\ wanted.year \in FirstYear .. LastYear /\ wanted.year \in Int
      /\ wanted.month \in Months /\ wanted.month \in 1 .. 12
      /\ wanted.day \in 1 .. top /\ wanted.day \in Int
  BY YearsAssumption DEF Wanteds, IsDate, Months
<1>2. top \in 28 .. 31
  BY <1>1, MonthLengths
<1>3. ASSUME NEW year, YearButton(year) PROVE wanted' \in Wanteds
  BY <1>1, <1>3, ClampedIsWanted DEF YearButton
<1>4. ASSUME NEW month \in Months, MonthButton(month) PROVE wanted' \in Wanteds
  BY <1>1, <1>4, ClampedIsWanted DEF MonthButton
<1>5. ASSUME NEW day \in 1 .. top, DayButton(day) PROVE wanted' \in Wanteds
  <2>1. wanted' = [wanted EXCEPT !.day = day]
    BY <1>5 DEF DayButton
  <2>2. day \in 1 .. 31
    BY <1>2
  <2>3. /\ wanted' \in [year : FirstYear .. LastYear, month : Months, day : 1 .. 31]
        /\ wanted'.year = wanted.year /\ wanted'.month = wanted.month /\ wanted'.day = day
    BY <1>1, <2>1, <2>2
  <2> QED
    BY <1>1, <2>3 DEF Wanteds, IsDate
<1>6. /\ Up(wanted.month, 1, 12) \in Months /\ Down(wanted.month, 1, 12) \in Months
      /\ Up(wanted.day, 1, top) \in 1 .. top /\ Down(wanted.day, 1, top) \in 1 .. top
  <2>1. Up(wanted.month, 1, 12) \in Months /\ Down(wanted.month, 1, 12) \in Months
    BY <1>1 DEF Up, Down, Months
  <2> HIDE DEF top
  <2>2. Up(wanted.day, 1, top) \in 1 .. top /\ Down(wanted.day, 1, top) \in 1 .. top
    BY <1>1, <1>2 DEF Up, Down
  <2> QED
    BY <2>1, <2>2
<1>7. CASE UNCHANGED wanted
  BY <1>7
<1>8. CASE WantedNext
  <2>1. PICK button \in Buttons : GroupButtonClickSlot(button)
    BY <1>8 DEF WantedNext
  <2> QED
    BY <2>1, <1>3, <1>4, <1>5, <1>6 DEF GroupButtonClickSlot
<1> QED
  BY <1>7, <1>8

(* The date for which the maintenance page searches the log is a day of    *)
(* the calendar and of the years allowed, whatever buttons are pressed     *)
(* (sysManage::GroupButtonClickSlot).                                      *)
THEOREM WantedAlwaysExists == WantedSpec => []WantedDayExists
<1>1. WantedInit => wanted \in Wanteds
  <2> SUFFICES ASSUME NEW y \in FirstYear .. LastYear, NEW m \in Months, NEW d \in 1 .. 31,
                      wanted = Date(y, m, d), IsDate(wanted)
               PROVE  wanted \in Wanteds
    BY DEF WantedInit
  <2> QED
    BY DEF Wanteds, Date
<1>2. wanted \in Wanteds /\ [WantedNext]_wanted => (wanted \in Wanteds)'
  BY WantedStep
<1>3. wanted \in Wanteds => WantedDayExists
  BY DEF Wanteds, WantedDayExists
<1> QED
  BY <1>1, <1>2, <1>3, PTL DEF WantedSpec

-----------------------------------------------------------------------------
(* TimeSet.                                                                *)

(* What the dialog can show: any day up to 31, but in February only a day  *)
(* that exists; the length it counts with may be that of another year.     *)
ShownDates ==
    {d \in [year : Int, month : Months, day : 1 .. 31] :
        d.month = 2 => d.day <= February(d.year)}
DialogInv ==
    /\ date \in ShownDates /\ idayNum2 \in {28, 29}
    /\ edited \in TimeLabels
    /\ DOMAIN label = TimeLabels /\ \A l \in TimeLabels : label[l].day \in ShownDates

(* The end of stButtonClick.                                               *)
LEMMA ClampedIsShown ==
    ASSUME NEW d \in [year : Int, month : Months, day : 1 .. 31]
    PROVE  /\ DialogClamped(d) \in ShownDates
           /\ DialogClamped(d).year = d.year /\ DialogClamped(d).month = d.month
           /\ d.month = 2 => IsDate(DialogClamped(d))
           /\ d.month # 2 => DialogClamped(d) = d
<1>1. February(d.year) \in {28, 29}
  BY MonthLengths
<1>2. CASE d.month = 2 /\ d.day > February(d.year)
  <2>1. DialogClamped(d) = [d EXCEPT !.day = February(d.year)]
    BY <1>2 DEF DialogClamped
  <2>2. /\ DialogClamped(d) \in [year : Int, month : Months, day : 1 .. 31]
        /\ DialogClamped(d).year = d.year /\ DialogClamped(d).month = d.month
        /\ DialogClamped(d).day = February(d.year)
    BY <1>1, <2>1
  <2>3. February(d.year) <= February(d.year) /\ February(d.year) \in 1 .. February(d.year)
    BY <1>1
  <2> QED
    BY <1>2, <2>2, <2>3 DEF ShownDates, IsDate, GetMaxDay
<1>3. CASE ~(d.month = 2 /\ d.day > February(d.year))
  <2>1. DialogClamped(d) = d
    BY <1>3 DEF DialogClamped
  <2>2. d.month = 2 => d.day <= February(d.year) /\ d.day \in 1 .. February(d.year)
    BY <1>1, <1>3
  <2> QED
    BY <2>1, <2>2 DEF ShownDates, IsDate, GetMaxDay
<1> QED
  BY <1>2, <1>3

(* A date the page gives its label is one the dialog can show.             *)
LEMMA GivenIsShown == Given \subseteq ShownDates
<1> SUFFICES ASSUME NEW d \in Given PROVE d \in ShownDates
  OBVIOUS
<1>1. d = Date(d.year, d.month, d.day) /\ IsDate(d) /\ d.year \in Int
  BY GivenAssumption
<1>2. d.month \in Months /\ GetMaxDay(d.year, d.month) \in 28 .. 31
  BY <1>1, MonthLengths DEF IsDate
<1>3. d.day \in 1 .. 31 /\ d.day <= GetMaxDay(d.year, d.month)
  BY <1>1, <1>2 DEF IsDate
<1> QED
  BY <1>1, <1>2, <1>3 DEF ShownDates, Date, GetMaxDay

(* A button: what it does to the date shown.                               *)
ButtonStep ==
    /\ date' \in ShownDates /\ idayNum2' \in {28, 29}
    /\ IsDate(date) /\ ~IsDate(date') => date'.month # date.month /\ date'.month # 2

LEMMA YearStep == ASSUME DialogInv, YearPressed PROVE ButtonStep
<1>1. PICK year \in Years :
        /\ idayNum2' = February(year)
        /\ date' = DialogClamped([date EXCEPT !.year = year])
  BY DEF YearPressed
<1> DEFINE d == [date EXCEPT !.year = year]
<1>2. year \in Int /\ idayNum2' \in {28, 29}
  BY <1>1, YearsOfDialogAssumption, MonthLengths DEF Months
<1>3. /\ d \in [year : Int, month : Months, day : 1 .. 31]
      /\ d.month = date.month /\ d.day = date.day /\ d.year = year
      /\ date.year \in Int /\ date.month \in Months
  BY <1>2 DEF DialogInv, ShownDates
<1>4. d.month # 2 => (IsDate(date) => IsDate(d))
  <2>1. d.month # 2 => GetMaxDay(date.year, date.month) = GetMaxDay(year, date.month)
    BY <1>3, MonthLengths
  <2> QED
    BY <1>3, <2>1 DEF IsDate
<1> HIDE DEF d
<1>5. date' = DialogClamped(d)
  BY <1>1 DEF d
<1> QED
  BY <1>2, <1>3, <1>4, <1>5, ClampedIsShown DEF ButtonStep

LEMMA MonthStep == ASSUME DialogInv, MonthPressed PROVE ButtonStep
<1>1. PICK month \in {Up(date.month, 1, 12), Down(date.month, 1, 12)} :
        date' = DialogClamped([date EXCEPT !.month = month])
  BY DEF MonthPressed
<1> DEFINE d == [date EXCEPT !.month = month]
<1>2. date.month \in 1 .. 12 /\ date.month \in Int
  BY DEF DialogInv, ShownDates, Months
<1>3. month \in Months /\ month # date.month
  BY <1>1, <1>2 DEF Up, Down, Months
<1>4. d \in [year : Int, month : Months, day : 1 .. 31] /\ d.month = month
  BY <1>3 DEF DialogInv, ShownDates
<1>5. idayNum2' \in {28, 29}
  BY DEF MonthPressed, DialogInv
<1> HIDE DEF d
<1>6. date' = DialogClamped(d)
  BY <1>1 DEF d
<1> QED
  BY <1>3, <1>4, <1>5, <1>6, ClampedIsShown DEF ButtonStep

LEMMA DayStep == ASSUME DialogInv, DayPressed PROVE ButtonStep
<1> DEFINE top == MonthLength(date.month)
<1>1. PICK day \in {Up(date.day, 1, top), Down(date.day, 1, top)} :
        date' = DialogClamped([date EXCEPT !.day = day])
  BY DEF DayPressed
<1> DEFINE d == [date EXCEPT !.day = day]
<1>2. date.year \in Int /\ date.month \in Months /\ date.day \in 1 .. 31
  BY DEF DialogInv, ShownDates
<1>3. top \in 28 .. 31 /\ (date.month # 2 => top = GetMaxDay(date.year, date.month))
  <2>1. CASE date.month = 2
    BY <2>1 DEF MonthLength, DialogInv
  <2>2. CASE date.month # 2
    <3>1. top = GetMaxDay(1, date.month)
      BY <2>2 DEF MonthLength
    <3> HIDE DEF top
    <3> QED
      BY <1>2, <2>2, <3>1, MonthLengths
  <2> QED
    BY <2>1, <2>2
<1> HIDE DEF top
<1>4. IsDate(date) => day \in 1 .. top
  <2> SUFFICES ASSUME IsDate(date) PROVE day \in 1 .. top
    OBVIOUS
  <2>1. date.day \in Int /\ date.day >= 0 /\ date.day <= 31
    BY <1>2
  <2>2. date.day <= top + 1
    <3>1. CASE date.month # 2
      BY <1>2, <1>3, <3>1 DEF IsDate
    <3>2. CASE date.month = 2
      BY <1>2, <1>3, <3>2, MonthLengths DEF IsDate, GetMaxDay
    <3> QED
      BY <3>1, <3>2
  <2> QED
    BY <1>1, <1>3, <2>1, <2>2, Ring
<1>5. day \in 1 .. 31
  <2>1. date.day \in Int /\ Up(date.day, 1, top) \in 1 .. 31
    BY <1>2, <1>3 DEF Up
  <2>2. Down(date.day, 1, top) \in 1 .. 31
    BY <1>2, <1>3 DEF Down
  <2> QED
    BY <1>1, <2>1, <2>2
<1>6. /\ d \in [year : Int, month : Months, day : 1 .. 31]
      /\ d.month = date.month /\ d.day = day /\ d.year = date.year
  BY <1>2, <1>5 DEF DialogInv, ShownDates
<1>7. d.month # 2 => (IsDate(date) => IsDate(d))
  BY <1>2, <1>3, <1>4, <1>6 DEF IsDate
<1>8. idayNum2' \in {28, 29}
  BY DEF DayPressed, DialogInv
<1> HIDE DEF d
<1>9. date' = DialogClamped(d)
  BY <1>1 DEF d
<1> QED
  BY <1>6, <1>7, <1>8, <1>9, ClampedIsShown DEF ButtonStep

LEMMA TimeStep == ASSUME DialogInv, TimePressed PROVE ButtonStep
<1>1. date \in [year : Int, month : Months, day : 1 .. 31]
  BY DEF DialogInv, ShownDates
<1>2. date' = DialogClamped(date) /\ idayNum2' \in {28, 29}
  BY DEF TimePressed, DialogInv
<1> QED
  BY <1>1, <1>2, ClampedIsShown DEF ButtonStep

(* A day the dialog can show that does not exist is not in February.       *)
LEMMA NoneInFebruary == \A d \in ShownDates : ~IsDate(d) => d.month # 2
  BY MonthLengths DEF ShownDates, IsDate, GetMaxDay

(* What OnlyMonthsMislead says of a step.                                  *)
DialogTold ==
    /\ IsDate(date) /\ ~IsDate(date') =>
         /\ date'.month # 2
         /\ IF opened THEN date'.month # date.month ELSE date' = label[edited'].day
    /\ \A l \in TimeLabels : IsDate(label[l].day) /\ ~IsDate(label'[l].day) =>
         opened /\ l = edited /\ ~IsDate(date) /\ label'[l].day = date

(* Opening, closing, and every button keep what dialog and labels can show. *)
LEMMA DialogStep ==
    ASSUME DialogInv, [DialogNext]_dialogVars
    PROVE  DialogInv' /\ DialogTold
<1>1. CASE UNCHANGED dialogVars
  BY <1>1 DEF DialogInv, DialogTold, dialogVars
<1>2. ASSUME NEW l \in TimeLabels, Open(l)
      PROVE  DialogInv' /\ DialogTold
  <2>1. /\ ~opened /\ edited' = l /\ date' = label[l].day
        /\ label' = label /\ idayNum2' = idayNum2
    BY <1>2 DEF Open, setTimeLabelText
  <2> QED
    BY <2>1, NoneInFebruary DEF DialogInv, DialogTold
<1>3. CASE okButtonClick
  <2>1. /\ opened /\ label' = [label EXCEPT ![edited] = [day |-> date, clock |-> clock]]
        /\ UNCHANGED <<edited, date, idayNum2>>
    BY <1>3 DEF okButtonClick
  <2>2. /\ DOMAIN label' = TimeLabels /\ label'[edited].day = date
        /\ \A l \in TimeLabels : l # edited => label'[l] = label[l]
    BY <2>1 DEF DialogInv
  <2> QED
    BY <2>1, <2>2 DEF DialogInv, DialogTold
<1>4. CASE cancleButtonClick
  BY <1>4 DEF DialogInv, DialogTold, cancleButtonClick
<1>5. CASE stButtonClick
  <2>1. ButtonStep
    BY <1>5, YearStep, MonthStep, DayStep, TimeStep DEF stButtonClick
  <2>2. opened /\ UNCHANGED <<label, edited>>
    BY <1>5 DEF stButtonClick
  <2> QED
    BY <2>1, <2>2 DEF ButtonStep, DialogInv, DialogTold
<1> QED
  BY <1>1, <1>2, <1>3, <1>4, <1>5 DEF DialogNext

(* For every day the page starts on: no button but a month's leads from a  *)
(* day that exists to one that does not, and none to one in February; only *)
(* a label that was given such a day brings one back (stButtonClick of     *)
(* timeset.cpp, timeSetRecvMsg and the slots that open the dialog).        *)
THEOREM OnlyMonthsDo == DialogSpec => OnlyMonthsMislead
<1>1. DialogInit => DialogInv
  BY GivenIsShown DEF DialogInit, WholeDay, DialogInv, TimeLabels
<1>2. DialogInv /\ [DialogNext]_dialogVars => DialogInv'
  BY DialogStep
<1>3. DialogInv /\ [DialogNext]_dialogVars =>
        [ /\ IsDate(date) /\ ~IsDate(date') =>
               /\ date'.month # 2
               /\ IF opened THEN date'.month # date.month ELSE date' = label[edited'].day
          /\ \A l \in TimeLabels : IsDate(label[l].day) /\ ~IsDate(label'[l].day) =>
               opened /\ l = edited /\ ~IsDate(date) /\ label'[l].day = date ]_dialogVars
  BY DialogStep DEF DialogTold
<1> QED
  BY <1>1, <1>2, <1>3, PTL DEF DialogSpec, OnlyMonthsMislead

-----------------------------------------------------------------------------
(* RecordDesk.                                                             *)

(* What the player and the rows are besides what DeskTellsTruth says: only *)
(* a finished recording's row is blue, the table is empty until an answer  *)
(* comes, the recording in the player is of an answer that has come, and   *)
(* m_iRecordIdex is its row, of the table it was chosen from.              *)
Colours == {"red", "black", "green", "cyan", "blue"}
DeskRow == {r \in [tmp : BOOLEAN, colour : Colours] : r.colour = "blue" => ~r.tmp}

DeskTypes ==
    /\ list \in Nat /\ emptied \in Nat /\ emptied <= list
    /\ recRows \in Seq(DeskRow)
    /\ list = emptied => recRows = <<>>
    /\ current # NOTHING => current \in RowsShown
    /\ front \in {"cctv", "menu"}
    /\ shownPages \in IF front = "menu" THEN {{"sys"}, {"rec"}} ELSE {{}}

PlayerTypes ==
    /\ playSpeed \in Slowest .. Fastest
    /\ inPlayer = CLOSED => recordIdex = NOTHING
    /\ inPlayer # CLOSED =>
         /\ recordIdex \in Nat
         /\ \E l \in Nat : l <= list /\ inPlayer = <<l, recordIdex>>
         /\ OnDesk
         /\ playerSpeed \in Slowest .. Fastest /\ speedLabel = playSpeed
         /\ speedLabel = playerSpeed \/ speedLabel = 0

OnlyBlue ==
    /\ FilledOnce => \A i \in RowsShown : Blue(i) => inPlayer = <<list, i>>
    /\ \A i \in RowsShown : Finished(i) /\ inPlayer = <<list, i>> => Blue(i)

DeskInv == DeskTypes /\ PlayerTypes /\ OnlyBlue

(* A table whose rows got other colours is a table.                        *)
LEMMA RowsRecoloured ==
    ASSUME recRows \in Seq(DeskRow), NEW f \in [RowsShown -> DeskRow]
    PROVE  f \in Seq(DeskRow) /\ DOMAIN f = RowsShown /\ (recRows = <<>> => f = <<>>)
<1>1. Len(recRows) \in Nat /\ RowsShown = 1 .. Len(recRows)
  BY LenProperties DEF RowsShown
<1>2. f \in [1 .. Len(recRows) -> DeskRow] /\ DOMAIN f = RowsShown
  BY <1>1
<1>3. f \in Seq(DeskRow)
  BY <1>1, <1>2, SeqDef
<1>4. ASSUME recRows = <<>>
      PROVE  f = <<>>
  <2>1. DOMAIN f = {}
    BY <1>2, <1>4, EmptySeq DEF RowsShown
  <2>2. QED
    BY <1>3, <2>1, LenProperties, EmptySeq
<1>5. QED
  BY <1>2, <1>3, <1>4

LEMMA RowOf ==
    ASSUME DeskInv, NEW i \in RowsShown
    PROVE  recRows[i] \in DeskRow
  BY LenProperties, ElementOfSeq DEF DeskInv, DeskTypes, RowsShown

(* closePlayWin takes the blue away, unless the table was filled twice.    *)
LEMMA BlueIsGone ==
    ASSUME DeskInv
    PROVE  /\ ClosedRows \in [RowsShown -> DeskRow]
           /\ FilledOnce => \A i \in RowsShown : ClosedRows[i].colour # "blue"
<1>1. FilledOnce => \A i \in RowsShown : Blue(i) => i = recordIdex /\ Finished(recordIdex)
  <2>1. \A i \in RowsShown : Blue(i) => Finished(i)
    BY RowOf DEF Blue, Finished, DeskRow
  <2>2. QED
    BY <2>1 DEF DeskInv, OnlyBlue, PlayerTypes, CLOSED
<1>2. recRows \in [RowsShown -> DeskRow]
  BY LenProperties DEF DeskInv, DeskTypes, RowsShown
<1>3. CASE recordIdex \in RowsShown /\ Finished(recordIdex)
  <2>1. ClosedRows = [recRows EXCEPT ![recordIdex].colour = "cyan"]
    BY <1>3 DEF ClosedRows
  <2>2. [recRows[recordIdex] EXCEPT !.colour = "cyan"] \in DeskRow
    BY <1>3, RowOf DEF DeskRow, Colours
  <2>3. ClosedRows = [recRows EXCEPT ![recordIdex] = [recRows[recordIdex] EXCEPT !.colour = "cyan"]]
    BY <1>2, <1>3, <2>1
  <2>4. ClosedRows \in [RowsShown -> DeskRow]
    BY <1>2, <2>2, <2>3
  <2>5. ClosedRows[recordIdex].colour = "cyan"
    <3>1. recRows[recordIdex] \in [tmp : BOOLEAN, colour : Colours]
      BY <1>3, RowOf DEF DeskRow
    <3>2. QED
      BY <1>2, <1>3, <2>3, <3>1
  <2>6. \A i \in RowsShown : i # recordIdex => ClosedRows[i] = recRows[i]
    BY <1>2, <2>3
  <2>7. QED
    BY <1>1, <2>4, <2>5, <2>6 DEF Blue
<1>4. CASE ~(recordIdex \in RowsShown /\ Finished(recordIdex))
  <2>1. ClosedRows = recRows
    BY <1>4 DEF ClosedRows
  <2>2. QED
    BY <1>1, <1>2, <1>4, <2>1 DEF Blue
<1>5. QED
  BY <1>3, <1>4

LEMMA ClosingKeeps ==
    ASSUME DeskInv, closePlayWin,
           UNCHANGED <<list, emptied, current, playSpeed, playerSpeed, speedLabel>>,
           front' \in {"cctv", "menu"},
           shownPages' \in IF front' = "menu" THEN {{"sys"}, {"rec"}} ELSE {{}}
    PROVE  DeskInv'
<1>1. recRows' = ClosedRows /\ inPlayer' = CLOSED /\ recordIdex' = NOTHING
  BY DEF closePlayWin
<1>2. ClosedRows \in [RowsShown -> DeskRow] /\ recRows \in Seq(DeskRow)
  BY BlueIsGone DEF DeskInv, DeskTypes
<1>3. /\ recRows' \in Seq(DeskRow) /\ RowsShown' = RowsShown
      /\ recRows = <<>> => recRows' = <<>>
  BY <1>1, <1>2, RowsRecoloured DEF RowsShown
<1>4. DeskTypes'
  BY <1>3 DEF DeskInv, DeskTypes
<1>5. PlayerTypes'
  BY <1>1 DEF DeskInv, PlayerTypes
<1>6. OnlyBlue'
  <2>1. \A i : inPlayer' # <<list, i>>
    BY <1>1 DEF CLOSED
  <2>2. FilledOnce' => \A i \in RowsShown : recRows'[i].colour # "blue"
    BY <1>1, BlueIsGone DEF FilledOnce
  <2>3. QED
    BY <1>3, <2>1, <2>2 DEF OnlyBlue, Blue
<1>7. QED
  BY <1>4, <1>5, <1>6 DEF DeskInv

LEMMA PlayingKeeps ==
    ASSUME DeskInv, NEW row \in Nat, recordPlayCtrl(row), OnDesk,
           current' # NOTHING => current' \in RowsShown, UNCHANGED <<list, emptied, pages>>
    PROVE  DeskInv'
<1>1. CASE /\ inPlayer' = <<list, row>> /\ playerSpeed' = 0 /\ recordIdex' = row
           /\ recRows' = PlayedRows(row) /\ SpeedReset
  <2> DEFINE colour(i) == IF i = row /\ Finished(i) THEN "blue" ELSE "black"
  <2>1. \A i \in RowsShown :
          /\ recRows'[i] = [recRows[i] EXCEPT !.colour = colour(i)]
          /\ recRows[i] \in [tmp : BOOLEAN, colour : Colours]
    BY <1>1, RowOf DEF PlayedRows, DeskRow
  <2>2. \A i \in RowsShown :
          /\ recRows'[i] \in [tmp : BOOLEAN, colour : Colours]
          /\ recRows'[i].colour = colour(i) /\ recRows'[i].tmp = recRows[i].tmp
    BY <2>1 DEF Colours
  <2>3. \A i \in RowsShown : recRows'[i] \in DeskRow
    BY <2>2 DEF DeskRow, Finished
  <2>4. recRows' \in [RowsShown -> DeskRow] /\ recRows \in Seq(DeskRow)
    BY <1>1, <2>3 DEF PlayedRows, DeskInv, DeskTypes
  <2>5. /\ recRows' \in Seq(DeskRow) /\ RowsShown' = RowsShown
        /\ recRows = <<>> => recRows' = <<>>
    BY <2>4, RowsRecoloured DEF RowsShown
  <2>6. DeskTypes'
    BY <2>5 DEF DeskInv, DeskTypes, pages
  <2>7. OnDesk'
    BY DEF OnDesk, pages
  <2>8. PlayerTypes'
    BY <1>1, <2>7 DEF SpeedReset, DeskInv, DeskTypes, PlayerTypes, CLOSED, Slowest, Fastest
  <2>9. \A i : <<list, row>> = <<list, i>> <=> i = row
    OBVIOUS
  <2>10. \A i \in RowsShown :
           /\ Blue(i)' <=> i = row /\ Finished(i)
           /\ Finished(i)' <=> Finished(i)
    BY <2>2 DEF Blue, Finished
  <2>11. OnlyBlue'
    BY <1>1, <2>5, <2>9, <2>10 DEF OnlyBlue
  <2>12. QED
    BY <2>6, <2>8, <2>11 DEF DeskInv
<1>2. CASE /\ inPlayer' = CLOSED /\ recordIdex' = NOTHING /\ recRows' = ClosedRows
           /\ SpeedReset /\ UNCHANGED playerSpeed
  <2>1. ClosedRows \in [RowsShown -> DeskRow] /\ recRows \in Seq(DeskRow)
    BY BlueIsGone DEF DeskInv, DeskTypes
  <2>2. /\ recRows' \in Seq(DeskRow) /\ RowsShown' = RowsShown
        /\ recRows = <<>> => recRows' = <<>>
    BY <1>2, <2>1, RowsRecoloured DEF RowsShown
  <2>3. DeskTypes'
    BY <2>2 DEF DeskInv, DeskTypes, pages
  <2>4. PlayerTypes'
    BY <1>2 DEF SpeedReset, DeskInv, PlayerTypes, CLOSED, Slowest, Fastest
  <2>5. \A i : inPlayer' # <<list, i>>
    BY <1>2 DEF CLOSED
  <2>6. FilledOnce' => \A i \in RowsShown : recRows'[i].colour # "blue"
    BY <1>2, BlueIsGone DEF FilledOnce
  <2>7. OnlyBlue'
    BY <2>2, <2>5, <2>6 DEF OnlyBlue, Blue
  <2>8. QED
    BY <2>3, <2>4, <2>7 DEF DeskInv
<1>3. QED
  BY <1>1, <1>2 DEF recordPlayCtrl

(* recordTableWidgetFillFunc: the rows of an answer come before those that *)
(* are there.                                                              *)
LEMMA FillKeeps ==
    ASSUME DeskInv, FillTable
    PROVE  DeskInv'
<1>1. PICK found \in Finds :
        /\ recRows' = FoundRows(found) \o recRows
        /\ current' = IF current = NOTHING THEN NOTHING ELSE current + Len(found)
  BY DEF FillTable
<1>2. list' = list + 1 /\ UNCHANGED <<pages, emptied, playback>>
  BY DEF FillTable
<1> DEFINE new == FoundRows(found)
           n == Len(found)
           m == Len(recRows)
<1>3. found \in Seq(BOOLEAN) /\ n \in Nat /\ DOMAIN found = 1 .. n /\ found \in [1 .. n -> BOOLEAN]
  BY DeskAssumption, LenProperties
<1>4. recRows \in Seq(DeskRow) /\ m \in Nat /\ RowsShown = 1 .. m
  BY LenProperties DEF DeskInv, DeskTypes, RowsShown
<1>5. new \in Seq(DeskRow) /\ Len(new) = n /\ \A i \in 1 .. n : new[i].colour # "blue"
  <2>1. new = [i \in 1 .. n |-> [tmp |-> found[i],
                                 colour |-> IF found[i] THEN "red" ELSE "black"]]
    BY <1>3 DEF FoundRows
  <2> HIDE DEF new, n
  <2>2. \A i \in 1 .. n : new[i] \in DeskRow /\ new[i].colour # "blue"
    BY <1>3, <2>1 DEF DeskRow, Colours
  <2>3. new \in [1 .. n -> DeskRow]
    BY <2>1, <2>2
  <2>4. new \in Seq(DeskRow)
    BY <1>3, <2>3, SeqDef
  <2>5. Len(new) = n
    BY <1>3, <2>3, <2>4, LenProperties
  <2>6. QED
    BY <2>2, <2>4, <2>5
<1> HIDE DEF new, n, m
<1>6. /\ recRows' \in Seq(DeskRow) /\ Len(recRows') = n + m
      /\ \A i \in 1 .. n : recRows'[i] = new[i]
  <2>1. recRows' = new \o recRows
    BY <1>1 DEF new
  <2>2. /\ recRows' \in Seq(DeskRow) /\ Len(recRows') = Len(new) + Len(recRows)
        /\ \A i \in 1 .. Len(new) + Len(recRows) :
             recRows'[i] = IF i <= Len(new) THEN new[i] ELSE recRows[i - Len(new)]
    BY <1>4, <1>5, <2>1, ConcatProperties
  <2>3. \A i \in 1 .. n : i \in 1 .. n + m /\ i <= n
    BY <1>3, <1>4
  <2>4. QED
    BY <1>5, <2>2, <2>3 DEF m
<1>7. RowsShown' = 1 .. n + m
  BY <1>6, LenProperties DEF RowsShown
<1>8. current' # NOTHING => current' \in 1 .. n + m
  <2>1. CASE current = NOTHING
    BY <1>1, <2>1
  <2>2. CASE current # NOTHING
    <3>1. current \in 1 .. m
      BY <1>4, <2>2 DEF DeskInv, DeskTypes
    <3>2. QED
      BY <1>1, <1>3, <1>4, <2>2, <3>1 DEF n
  <2>3. QED
    BY <2>1, <2>2
<1>9. list \in Nat /\ emptied \in Nat /\ emptied <= list
  BY DEF DeskInv, DeskTypes
<1>10. DeskTypes'
  BY <1>2, <1>6, <1>7, <1>8, <1>9 DEF DeskInv, DeskTypes, pages
<1>11. PlayerTypes'
  BY <1>2, <1>9 DEF DeskInv, PlayerTypes, OnDesk, pages, playback
<1>12. \A i : inPlayer # <<list + 1, i>>
  <2>1. CASE inPlayer = CLOSED
    BY <2>1 DEF CLOSED
  <2>2. CASE inPlayer # CLOSED
    <3>1. PICK l \in Nat : l <= list /\ inPlayer = <<l, recordIdex>>
      BY <2>2 DEF DeskInv, PlayerTypes
    <3>2. l # list + 1
      BY <1>9, <3>1
    <3>3. QED
      BY <3>1, <3>2
  <2>3. QED
    BY <2>1, <2>2
<1>13. FilledOnce' => \A i \in RowsShown' : recRows'[i].colour # "blue"
  <2>1. ASSUME FilledOnce'
        PROVE  \A i \in RowsShown' : recRows'[i].colour # "blue"
    <3>1. list = emptied
      BY <1>2, <1>9, <2>1 DEF FilledOnce
    <3>2. m = 0
      BY <3>1, EmptySeq DEF DeskInv, DeskTypes, m
    <3>3. RowsShown' = 1 .. n
      BY <1>3, <1>7, <3>2
    <3>4. QED
      BY <1>5, <1>6, <3>3
  <2>2. QED
    BY <2>1
<1>14. OnlyBlue'
  BY <1>2, <1>12, <1>13 DEF OnlyBlue, Blue, playback
<1>15. QED
  BY <1>10, <1>11, <1>14 DEF DeskInv

LEMMA DeskStep ==
    ASSUME DeskInv, [DeskNext]_deskVars
    PROVE  DeskInv'
<1>1. RowsShown \subseteq Nat /\ RowsShown = 1 .. Len(recRows) /\ Len(recRows) \in Nat
  BY LenProperties DEF DeskInv, DeskTypes, RowsShown
<1>2. ASSUME NEW row \in RowsShown, recordPlaySlot(row)
      PROVE  DeskInv'
  BY <1>1, <1>2, PlayingKeeps DEF recordPlaySlot
<1>3. CASE PlayCurrent
  BY <1>1, <1>3, PlayingKeeps DEF PlayCurrent, DeskInv, DeskTypes
<1>4. CASE NextBtnClicked \/ PrevBtnClicked
  <2>1. inPlayer # CLOSED
    BY <1>4 DEF NextBtnClicked, PrevBtnClicked, PlayOther
  <2>2. recordIdex \in Nat
    BY <2>1 DEF DeskInv, PlayerTypes
  <2>3. PICK row \in Nat : PlayOther(row)
    <3>1. recordIdex + 1 \in Nat /\ (recordIdex - 1 >= 1 => recordIdex - 1 \in Nat)
      BY <2>2
    <3>2. QED
      BY <1>4, <3>1 DEF NextBtnClicked, PrevBtnClicked
  <2>4. QED
    BY <2>3, PlayingKeeps DEF PlayOther, DeskInv, DeskTypes
<1>5. CASE QuickBtnClicked \/ SlowBtnClicked
  <2>1. PICK speed \in Slowest .. Fastest : inPlayer # CLOSED /\ NewSpeed(speed)
    BY <1>5 DEF QuickBtnClicked, SlowBtnClicked, DeskInv, PlayerTypes, Slowest, Fastest
  <2>2. DeskTypes' /\ OnlyBlue'
    BY <2>1 DEF NewSpeed, DeskInv, DeskTypes, OnlyBlue, FilledOnce, Blue, Finished, pages, rows,
         RowsShown
  <2>3. PlayerTypes'
    BY <2>1 DEF NewSpeed, DeskInv, PlayerTypes, OnDesk, pages, rows
  <2>4. QED
    BY <2>2, <2>3 DEF DeskInv
<1>6. CASE SliderMoved
  <2>1. /\ inPlayer # CLOSED /\ SpeedReset /\ playerSpeed' \in {playerSpeed, 0}
        /\ UNCHANGED <<pages, rows, recordIdex, inPlayer>>
    BY <1>6 DEF SliderMoved
  <2>2. DeskTypes' /\ OnlyBlue'
    BY <2>1 DEF DeskInv, DeskTypes, OnlyBlue, FilledOnce, Blue, Finished, pages, rows, RowsShown
  <2>3. PlayerTypes'
    BY <2>1 DEF SpeedReset, DeskInv, PlayerTypes, OnDesk, pages, rows, Slowest, Fastest
  <2>4. QED
    BY <2>2, <2>3 DEF DeskInv
<1>7. CASE StopBtnClicked \/ closeRecordPlaySlot
  BY <1>7, ClosingKeeps DEF StopBtnClicked, closeRecordPlaySlot, StopPlaying, pages, DeskInv, DeskTypes
<1>8. ASSUME NEW row \in RowsShown, recordSelectionSlot(row)
      PROVE  DeskInv'
  <2>1. recRows' = SelectedRows(row) /\ current' = row
        /\ UNCHANGED <<pages, list, emptied, playback>>
    BY <1>8 DEF recordSelectionSlot
  <2>2. \A i \in RowsShown :
          /\ recRows[i] \in DeskRow
          /\ recRows'[i] = IF ~Finished(i) \/ i = recordIdex THEN recRows[i]
                           ELSE [recRows[i] EXCEPT !.colour = IF i = row THEN "green" ELSE "black"]
    BY <2>1, RowOf DEF SelectedRows
  <2>3. \A i \in RowsShown :
          /\ recRows'[i] \in DeskRow /\ recRows'[i].tmp = recRows[i].tmp
          /\ recRows'[i].colour = "blue" => recRows[i].colour = "blue"
          /\ i = recordIdex => recRows'[i] = recRows[i]
    BY <2>2 DEF DeskRow, Colours
  <2>4. recRows' \in [RowsShown -> DeskRow] /\ recRows \in Seq(DeskRow)
    BY <2>1, <2>3 DEF SelectedRows, DeskInv, DeskTypes
  <2>5. /\ recRows' \in Seq(DeskRow) /\ RowsShown' = RowsShown
        /\ recRows = <<>> => recRows' = <<>>
    BY <2>4, RowsRecoloured DEF RowsShown
  <2>6. DeskTypes' /\ PlayerTypes'
    BY <2>1, <2>5 DEF DeskInv, DeskTypes, PlayerTypes, OnDesk, pages, playback
  <2>7. \A i : inPlayer = <<list, i>> => i = recordIdex
    BY DEF DeskInv, PlayerTypes, CLOSED
  <2>8. OnlyBlue'
    BY <2>1, <2>3, <2>5, <2>7 DEF DeskInv, OnlyBlue, FilledOnce, Blue, Finished, playback
  <2>9. QED
    BY <2>6, <2>8 DEF DeskInv
<1>9. CASE EmptyTable
  <2>1. recRows' = <<>> /\ RowsShown' = {} /\ recRows' \in Seq(DeskRow)
    BY <1>9, EmptySeq DEF EmptyTable, RowsShown
  <2>2. DeskTypes' /\ PlayerTypes'
    BY <1>9, <2>1 DEF EmptyTable, DeskInv, DeskTypes, PlayerTypes, OnDesk, pages, playback
  <2>3. OnlyBlue'
    BY <2>1 DEF OnlyBlue
  <2>4. QED
    BY <2>2, <2>3 DEF DeskInv
<1>10. CASE SwitchEnd \/ TableSwitchEnd \/ mPageChangeSLot \/ UNCHANGED deskVars
  <2>1. UNCHANGED <<front, shownPages, rows, playback>>
    BY <1>10 DEF SwitchEnd, TableSwitchEnd, mPageChangeSLot, deskVars, pages
  <2>2. DeskTypes' /\ PlayerTypes'
    BY <2>1 DEF DeskInv, DeskTypes, PlayerTypes, OnDesk, RowsShown, rows, playback
  <2>3. OnlyBlue'
    BY <2>1 DEF DeskInv, OnlyBlue, FilledOnce, Blue, Finished, RowsShown, rows, playback
  <2>4. QED
    BY <2>2, <2>3 DEF DeskInv
<1>11. CASE showMonitorManagePage \/ RecClick \/ hideSysPageSlots
  <2>1. /\ UNCHANGED <<list, emptied, current, recRows, playback>>
        /\ front' \in {"cctv", "menu"}
        /\ shownPages' \in IF front' = "menu" THEN {{"sys"}, {"rec"}} ELSE {{}}
        /\ inPlayer # CLOSED => OnDesk'
    BY <1>11 DEF showMonitorManagePage, RecClick, hideSysPageSlots, hidePageSlots, rows, playback,
         DeskInv, DeskTypes, PlayerTypes, OnDesk
  <2>2. DeskTypes' /\ PlayerTypes'
    BY <2>1 DEF DeskInv, DeskTypes, PlayerTypes, RowsShown, playback
  <2>3. OnlyBlue'
    BY <2>1 DEF DeskInv, OnlyBlue, FilledOnce, Blue, Finished, RowsShown, playback
  <2>4. QED
    BY <2>2, <2>3 DEF DeskInv
<1>12. CASE SysClick \/ hideRecPageSlots
  <2>1. /\ closePlayWin
        /\ UNCHANGED <<list, emptied, current, playSpeed, playerSpeed, speedLabel>>
        /\ front' \in {"cctv", "menu"}
        /\ shownPages' \in IF front' = "menu" THEN {{"sys"}, {"rec"}} ELSE {{}}
    BY <1>12 DEF SysClick, hideRecPageSlots, hidePageSlots, DeskInv, DeskTypes
  <2>2. QED
    BY <2>1, ClosingKeeps
<1>13. QED
  BY <1>2, <1>3, <1>4, <1>5, <1>6, <1>7, <1>8, <1>9, <1>10, <1>11, <1>12, FillKeeps DEF DeskNext

(* One page is shown, a recording plays nowhere but on its page and at the *)
(* speed of the label, unless the slider put 1.00 there, and until the     *)
(* table is filled a second time the blue row is the recording that plays, *)
(* through every click, end and search (closePlayWin, recordPlayCtrl, the  *)
(* slider's slots, recordSelectionSlot, recordTableWidgetFillFunc,         *)
(* hidePageSlots), for any table and unfinished rows.                      *)
THEOREM DeskAlwaysTrue == DeskInit /\ [][DeskNext]_deskVars => []DeskTellsTruth
<1>1. DeskInit => DeskInv
  <2>1. SUFFICES ASSUME DeskInit PROVE DeskInv
    OBVIOUS
  <2>2. RowsShown = {} /\ recRows \in Seq(DeskRow)
    BY <2>1, EmptySeq DEF DeskInit, RowsShown
  <2>3. QED
    BY <2>1, <2>2 DEF DeskInit, DeskInv, DeskTypes, PlayerTypes, OnlyBlue, Slowest, Fastest
<1>2. DeskInv /\ [DeskNext]_deskVars => DeskInv'
  BY DeskStep
<1>3. DeskInv => DeskTellsTruth
  <2>1. SUFFICES ASSUME DeskInv PROVE DeskTellsTruth
    OBVIOUS
  <2>2. OnePage
    BY <2>1, FS_Singleton DEF DeskInv, DeskTypes, OnePage
  <2>3. inPlayer # CLOSED =>
           /\ OnDesk
           /\ playerSpeed \in Slowest .. Fastest /\ speedLabel = playSpeed
           /\ speedLabel = playerSpeed \/ speedLabel = 0
    BY <2>1 DEF DeskInv, PlayerTypes
  <2>4. FilledOnce => \A i \in RowsShown : Blue(i) => inPlayer = <<list, i>>
    BY <2>1 DEF DeskInv, OnlyBlue
  <2>5. ASSUME inPlayer # CLOSED, inPlayer[1] = list, inPlayer[2] \in RowsShown
        PROVE  Blue(inPlayer[2]) <=> Finished(inPlayer[2])
    <3>1. inPlayer = <<list, recordIdex>> /\ inPlayer[2] = recordIdex /\ recordIdex \in RowsShown
      BY <2>1, <2>5 DEF DeskInv, PlayerTypes
    <3>2. recRows[recordIdex] \in DeskRow
      BY <2>1, <3>1, RowOf
    <3>3. QED
      BY <2>1, <3>1, <3>2 DEF DeskInv, OnlyBlue, Blue, Finished, DeskRow
  <2>6. QED
    BY <2>2, <2>3, <2>4, <2>5 DEF DeskTellsTruth
<1>4. QED
  BY <1>1, <1>2, <1>3, PTL

-----------------------------------------------------------------------------
(* Settings.  What ReadParam finds in a file that ModifyParam has written. *)

FileLine == [key : Names \cup {GroupName, "scrap"}, value : Int]

(* The least of some hits is the line that ReadParam takes.                *)
LEMMA ReadTakesLeast ==
    ASSUME NEW f \in Seq(FileLine), NEW k, NEW i \in Hits(f, k), \A j \in Hits(f, k) : i <= j
    PROVE  ReadParam(f, k) = IF f[i].value < 0 THEN UNREAD ELSE f[i].value
<1>1. \A j \in Hits(f, k) : j \in Nat
  BY LenProperties DEF Hits
<1> DEFINE least == CHOOSE n \in Hits(f, k) : \A j \in Hits(f, k) : n <= j
<1>2. least \in Hits(f, k) /\ \A j \in Hits(f, k) : least <= j
  OBVIOUS
<1>3. ReadParam(f, k) = IF f[least].value < 0 THEN UNREAD ELSE f[least].value
  BY DEF ReadParam
<1> HIDE DEF least
<1>4. least <= i /\ i <= least /\ least \in Nat /\ i \in Nat
  BY <1>1, <1>2
<1>5. least = i
  BY <1>4
<1>6. QED
  BY <1>3, <1>5

(* A file with hits has a first one; that one ModifyParam replaces, and    *)
(* what it replaces ReadParam could find.                                  *)
LEMMA FirstHit ==
    ASSUME NEW f \in Seq(FileLine), NEW k
    PROVE  /\ Hits(f, k) # {} => \E i \in Hits(f, k) : \A j \in Hits(f, k) : i <= j
           /\ \A i \in Hits(f, k) : (\A j \in Hits(f, k) : i <= j) => i \in Replaced(f, k)
           /\ Replaced(f, k) \subseteq Hits(f, k)
           /\ \A j \in Hits(f, k) : j \in DOMAIN f /\ j \in Nat /\ f[j].key = k
<1>1. Len(f) \in Nat /\ DOMAIN f = 1 .. Len(f)
  BY LenProperties
<1>2. Hits(f, k) \subseteq Nat
  BY <1>1 DEF Hits
<1>3. Hits(f, k) # {} => \E i \in Hits(f, k) : \A j \in Hits(f, k) : i <= j
  BY <1>2, LeastNumber
<1>4. ASSUME NEW i \in Hits(f, k), \A j \in Hits(f, k) : i <= j
      PROVE  i \in Replaced(f, k)
  <2>1. i \in DOMAIN f /\ f[i].key = k
    BY DEF Hits
  <2>2. PICK j \in 1 .. i - 1 : f[j] = Group
    BY DEF Hits
  <2>3. ASSUME NEW l \in j + 1 .. i - 1, f[l].key = k
        PROVE  FALSE
    <3>1. l \in DOMAIN f /\ j \in 1 .. l - 1 /\ l < i
      BY <1>1, <2>1
    <3>2. l \in Hits(f, k)
      BY <2>2, <2>3, <3>1 DEF Hits
    <3>3. QED
      BY <1>1, <1>4, <2>1, <3>1, <3>2
  <2>4. QED
    BY <2>1, <2>2, <2>3 DEF Replaced
<1>5. Replaced(f, k) \subseteq Hits(f, k)
  BY DEF Replaced, Hits
<1>6. QED
  BY <1>1, <1>3, <1>4, <1>5 DEF Hits

(* ReadParam looks at nothing but the hits.                                *)
LEMMA SameHits ==
    ASSUME NEW f \in Seq(FileLine), NEW g, NEW k,
           Hits(g, k) = Hits(f, k), \A i \in Hits(f, k) : g[i] = f[i]
    PROVE  ReadParam(g, k) = ReadParam(f, k)
<1>1. CASE Hits(f, k) = {}
  BY <1>1 DEF ReadParam
<1>2. CASE \E i \in Hits(f, k) : \A j \in Hits(f, k) : i <= j
  <2> DEFINE least == CHOOSE i \in Hits(f, k) : \A j \in Hits(f, k) : i <= j
  <2>1. least \in Hits(f, k)
    BY <1>2
  <2>2. /\ ReadParam(f, k) = IF f[least].value < 0 THEN UNREAD ELSE f[least].value
        /\ ReadParam(g, k) = IF g[least].value < 0 THEN UNREAD ELSE g[least].value
    BY <2>1 DEF ReadParam
  <2>3. QED
    BY <2>1, <2>2
<1>3. QED
  BY <1>1, <1>2, FirstHit

(* A value replaces another in place: the keys, the group lines and with   *)
(* them the hits stay.                                                     *)
LEMMA ReplacedLines ==
    ASSUME NEW f \in Seq(FileLine), NEW open \in BOOLEAN, NEW k \in Names, NEW v \in Nat,
           Replaced(f, k) # {}
    PROVE  LET g == Modified(f, open, k, v) IN
           /\ g \in Seq(FileLine) /\ g # <<>>
           /\ \A j \in Names : Hits(g, j) = Hits(f, j)
           /\ \A i \in Replaced(f, k) : g[i] = Param(k, v)
           /\ \A i \in DOMAIN f : f[i].key # k => g[i] = f[i]
<1> DEFINE g == Modified(f, open, k, v)
<1>1. /\ Len(f) \in Nat /\ DOMAIN f = 1 .. Len(f)
      /\ \A i \in DOMAIN f : f[i] \in FileLine
  BY LenProperties, ElementOfSeq
<1>2. g = [i \in 1 .. Len(f) |-> IF i \in Replaced(f, k) THEN Param(k, v) ELSE f[i]]
  BY <1>1 DEF Modified
<1>3. Param(k, v) \in FileLine
  BY DEF Param, FileLine
<1>4. g \in [1 .. Len(f) -> FileLine]
  BY <1>1, <1>2, <1>3
<1>5. g \in Seq(FileLine)
  BY <1>1, <1>4
<1>6. PICK i \in DOMAIN f : i \in Replaced(f, k)
  BY DEF Replaced
<1>7. DOMAIN g = DOMAIN f
  BY <1>1, <1>2
<1> HIDE DEF g
<1>8. g # <<>>
  BY <1>6, <1>7
<1>9. \A i_1 \in Replaced(f, k) : i_1 \in DOMAIN f /\ f[i_1].key = k /\ f[i_1] # Group
  BY KeysAssumption DEF Replaced, Group
<1>10. \A i_1 \in Replaced(f, k) : g[i_1] = Param(k, v) /\ g[i_1].key = k /\ g[i_1] # Group
  BY <1>1, <1>2, <1>9, KeysAssumption DEF Param, Group
<1>11. \A i_1 \in DOMAIN f \ Replaced(f, k) : g[i_1] = f[i_1]
  BY <1>1, <1>2
<1>12. \A i_1 \in DOMAIN f : g[i_1].key = f[i_1].key /\ (g[i_1] = Group <=> f[i_1] = Group)
  BY <1>9, <1>10, <1>11
<1>13. ASSUME NEW j \in Names
       PROVE  Hits(g, j) = Hits(f, j)
  <2>1. \A i_1 \in DOMAIN f : \A m \in 1 .. i_1 - 1 : m \in DOMAIN f
    BY <1>1
  <2>2. QED
    BY <1>7, <1>12, <2>1 DEF Hits
<1>14. QED
  BY <1>5, <1>8, <1>9, <1>10, <1>11, <1>13 DEF g

(* A key that was not there is appended, and before it the group if that   *)
(* was not there; the lines before stay.                                   *)
LEMMA AppendedLines ==
    ASSUME NEW f \in Seq(FileLine), NEW open \in BOOLEAN, NEW k \in Names, NEW v \in Nat,
           Replaced(f, k) = {}, ~open
    PROVE  LET g == Modified(f, open, k, v) IN
           /\ g \in Seq(FileLine) /\ g # <<>>
           /\ \A i \in DOMAIN f : g[i] = f[i]
           /\ \/ /\ Len(g) = Len(f) + 1 /\ g[Len(f) + 1] = Param(k, v)
                 /\ \E i \in DOMAIN f : f[i] = Group
              \/ /\ Len(g) = Len(f) + 2 /\ g[Len(f) + 1] = Group
                 /\ g[Len(f) + 2] = Param(k, v)
<1>1. Len(f) \in Nat /\ DOMAIN f = 1 .. Len(f)
  BY LenProperties
<1>2. Param(k, v) \in FileLine /\ Group \in FileLine
  BY DEF Param, Group, FileLine, BARE
<1>3. CASE \E i \in DOMAIN f : f[i] = Group
  <2> DEFINE g == Append(f, Param(k, v))
  <2>1. Modified(f, open, k, v) = g
    BY <1>3 DEF Modified, AppendLine
  <2>2. /\ g \in Seq(FileLine) /\ g # <<>> /\ Len(g) = Len(f) + 1
        /\ \A i \in 1 .. Len(f) : g[i] = f[i]
        /\ g[Len(f) + 1] = Param(k, v)
    BY <1>2, AppendProperties
  <2> HIDE DEF g
  <2>3. QED
    BY <1>1, <1>3, <2>1, <2>2
<1>4. CASE ~\E i \in DOMAIN f : f[i] = Group
  <2> DEFINE h == Append(f, Group)
             g == Append(h, Param(k, v))
  <2>1. Modified(f, open, k, v) = g
    BY <1>4 DEF Modified, AppendLine
  <2>2. /\ h \in Seq(FileLine) /\ Len(h) = Len(f) + 1
        /\ \A i \in 1 .. Len(f) : h[i] = f[i]
        /\ h[Len(f) + 1] = Group
    BY <1>2, AppendProperties
  <2> HIDE DEF h
  <2>3. /\ g \in Seq(FileLine) /\ g # <<>> /\ Len(g) = Len(h) + 1
        /\ \A i \in 1 .. Len(h) : g[i] = h[i]
        /\ g[Len(h) + 1] = Param(k, v)
    BY <1>2, <2>2, AppendProperties
  <2> HIDE DEF g
  <2>4. \A i \in 1 .. Len(f) : g[i] = f[i]
    BY <1>1, <2>2, <2>3
  <2>5. g[Len(f) + 1] = Group
    BY <1>1, <2>2, <2>3
  <2>6. Len(h) + 1 = Len(f) + 2
    BY <1>1, <2>2
  <2>7. QED
    BY <1>1, <2>1, <2>3, <2>4, <2>5, <2>6
<1>5. QED
  BY <1>3, <1>4

(* ModifyParam stores the value where ReadParam finds it, and changes no   *)
(* other setting, unless the key was not there and the text is glued to a  *)
(* line without a newline.                                                 *)
LEMMA ModifiedReads ==
    ASSUME NEW f \in Seq(FileLine), NEW open \in BOOLEAN, NEW k \in Names, NEW v \in Nat,
           open => Hits(f, k) # {}
    PROVE  LET g == Modified(f, open, k, v) IN
           /\ ReadParam(g, k) = v
           /\ \A j \in Names \ {k} : ReadParam(g, j) = ReadParam(f, j)
<1> DEFINE g == Modified(f, open, k, v)
<1>1. CASE Replaced(f, k) # {}
  <2>1. /\ g \in Seq(FileLine)
        /\ \A j \in Names : Hits(g, j) = Hits(f, j)
        /\ \A i \in Replaced(f, k) : g[i] = Param(k, v)
        /\ \A i \in DOMAIN f : f[i].key # k => g[i] = f[i]
    BY <1>1, ReplacedLines
  <2> HIDE DEF g
  <2>2. PICK i \in Hits(f, k) : \A j \in Hits(f, k) : i <= j
    BY <1>1, FirstHit
  <2>3. i \in Replaced(f, k)
    BY <2>2, FirstHit
  <2>4. ReadParam(g, k) = v
    <3>1. ReadParam(g, k) = IF g[i].value < 0 THEN UNREAD ELSE g[i].value
      BY <2>1, <2>2, ReadTakesLeast
    <3>2. g[i].value = v
      BY <2>1, <2>3 DEF Param
    <3>3. QED
      BY <3>1, <3>2
  <2>5. ASSUME NEW j \in Names \ {k}
        PROVE  ReadParam(g, j) = ReadParam(f, j)
    <3>1. \A h \in Hits(f, j) : g[h] = f[h]
      BY <2>1, FirstHit
    <3>2. QED
      BY <2>1, <3>1, SameHits
  <2>6. QED
    BY <2>4, <2>5 DEF g
<1>2. CASE Replaced(f, k) = {}
  <2>1. Hits(f, k) = {} /\ ~open
    <3>1. Hits(f, k) = {}
      BY <1>2, FirstHit
    <3>2. QED
      BY <3>1
  <2>2. /\ g \in Seq(FileLine)
        /\ \A i \in DOMAIN f : g[i] = f[i]
        /\ \/ /\ Len(g) = Len(f) + 1 /\ g[Len(f) + 1] = Param(k, v)
              /\ \E i \in DOMAIN f : f[i] = Group
           \/ /\ Len(g) = Len(f) + 2 /\ g[Len(f) + 1] = Group
              /\ g[Len(f) + 2] = Param(k, v)
    BY <1>2, <2>1, AppendedLines
  <2> HIDE DEF g
  <2>3. /\ Len(f) \in Nat /\ DOMAIN f = 1 .. Len(f) /\ DOMAIN g = 1 .. Len(g)
        /\ Len(f) + 1 \in Nat /\ Len(f) + 1 + 1 = Len(f) + 2
    BY <2>2, LenProperties
  <2>4. PICK m \in Nat, n \in Nat :
          /\ DOMAIN f = 1 .. m /\ DOMAIN g = 1 .. n + 1 /\ (n = m \/ n = m + 1)
          /\ g[n + 1] = Param(k, v)
          /\ n = m + 1 => g[n] = Group
          /\ n = m => \E i \in DOMAIN f : f[i] = Group
    <3>1. CASE Len(g) = Len(f) + 1
      <4>1. Len(f) # Len(f) + 1 /\ Len(f) + 1 # Len(f) + 2
        <5>1. \A i \in Nat : i # i + 1 /\ i + 1 # i + 2
          OBVIOUS
        <5>2. QED
          BY <2>3, <5>1
      <4>2. QED
        BY <2>2, <2>3, <3>1, <4>1
    <3>2. CASE Len(g) = Len(f) + 2
      <4>1. Len(f) # Len(f) + 1 /\ Len(f) + 1 # Len(f) + 2
        <5>1. \A i \in Nat : i # i + 1 /\ i + 1 # i + 2
          OBVIOUS
        <5>2. QED
          BY <2>3, <5>1
      <4>2. /\ DOMAIN g = 1 .. Len(f) + 1 + 1 /\ g[Len(f) + 1 + 1] = Param(k, v)
            /\ g[Len(f) + 1] = Group
        BY <2>2, <2>3, <3>2, <4>1
      <4>3. QED
        BY <2>3, <4>1, <4>2
    <3>3. QED
      BY <2>2, <3>1, <3>2
  <2>5. \E i \in 1 .. n : g[i] = Group
    <3>1. CASE n = m
      BY <2>2, <2>4, <3>1
    <3>2. CASE n = m + 1
      BY <2>4, <3>2
    <3>3. QED
      BY <2>4, <3>1, <3>2
  <2>6. \A j \in Names : \A i \in DOMAIN f :
          i \in Hits(g, j) <=> i \in Hits(f, j)
    <3>1. \A i \in DOMAIN f : i \in DOMAIN g /\ g[i] = f[i] /\ \A j \in 1 .. i - 1 : g[j] = f[j]
      BY SMTT(30), <2>2, <2>4
    <3>2. QED
      BY <3>1 DEF Hits
  <2>7. Group.key \notin Names /\ Param(k, v).key = k /\ Param(k, v).value = v
    BY KeysAssumption DEF Group, Param
  <2>8. ASSUME NEW j \in Names \ {k}
        PROVE  Hits(g, j) = Hits(f, j) /\ \A i \in Hits(f, j) : g[i] = f[i]
    <3>1. \A i \in Hits(g, j) : i \in DOMAIN g /\ g[i].key = j
      BY DEF Hits
    <3>2. \A i \in DOMAIN g : i \in DOMAIN f \/ i = n + 1 \/ (i = n /\ n = m + 1)
      BY <2>4
    <3>3. \A i \in Hits(g, j) : i \in DOMAIN f
      BY <2>4, <2>7, <3>1, <3>2
    <3>4. \A i \in Hits(f, j) : i \in DOMAIN f
      BY DEF Hits
    <3>5. QED
      BY <2>2, <2>6, <3>3, <3>4
  <2>9. ReadParam(g, k) = v
    <3>1. n + 1 \in Hits(g, k)
      <4>1. \E i \in 1 .. n + 1 - 1 : g[i] = Group
        BY <2>4, <2>5
      <4>2. n + 1 \in DOMAIN g /\ g[n + 1].key = k
        BY <2>4, <2>7
      <4>3. QED
        BY <4>1, <4>2 DEF Hits
    <3>2. \A i \in Hits(g, k) : n + 1 <= i
      <4>1. \A i \in Hits(g, k) : i \in DOMAIN g /\ g[i].key = k
        BY DEF Hits
      <4>2. \A i \in Hits(g, k) : i \notin DOMAIN f
        BY <2>1, <2>6
      <4>3. \A i \in DOMAIN g : i \in DOMAIN f \/ i = n + 1 \/ (i = n /\ n = m + 1)
        BY <2>4
      <4>4. QED
        BY <2>4, <2>7, <4>1, <4>2, <4>3
    <3>3. ReadParam(g, k) = IF g[n + 1].value < 0 THEN UNREAD ELSE g[n + 1].value
      BY <2>2, <3>1, <3>2, ReadTakesLeast
    <3>4. QED
      BY <2>4, <2>7, <3>3
  <2>10. QED
    BY <2>2, <2>8, <2>9, SameHits DEF g
<1>3. QED
  BY <1>1, <1>2

LEMMA AppendLineIsFile ==
    ASSUME NEW f \in Seq(FileLine), NEW open \in BOOLEAN, open => f # <<>>,
           NEW text \in FileLine
    PROVE  AppendLine(f, open, text) \in Seq(FileLine) /\ AppendLine(f, open, text) # <<>>
<1>1. Len(f) \in Nat /\ DOMAIN f = 1 .. Len(f) /\ f \in [1 .. Len(f) -> FileLine]
  BY LenProperties
<1>2. CASE open
  <2>1. Len(f) \in 1 .. Len(f)
    BY <1>1, <1>2, EmptySeq
  <2>2. f[Len(f)] \in FileLine
    BY <1>1, <2>1
  <2>3. Glued(f[Len(f)], text) \in FileLine
    BY <2>2 DEF Glued, Param, FileLine
  <2>4. AppendLine(f, open, text) = [f EXCEPT ![Len(f)] = Glued(f[Len(f)], text)]
    BY <1>2 DEF AppendLine
  <2>5. AppendLine(f, open, text) \in Seq(FileLine) /\ Len(AppendLine(f, open, text)) = Len(f)
    BY <2>1, <2>3, <2>4, ExceptSeq
  <2>6. Len(AppendLine(f, open, text)) # 0
    BY <1>1, <2>1, <2>5
  <2>7. QED
    BY <2>5, <2>6, EmptySeq
<1>3. CASE ~open
  <2>1. AppendLine(f, open, text) = Append(f, text)
    BY <1>3 DEF AppendLine
  <2>2. QED
    BY <2>1, AppendProperties
<1>4. QED
  BY <1>2, <1>3

(* ModifyParam writes a file with at least one line, whatever it finds.    *)
LEMMA ModifiedIsFile ==
    ASSUME NEW f \in Seq(FileLine), NEW open \in BOOLEAN, open => f # <<>>,
           NEW k \in Names, NEW v \in Nat
    PROVE  Modified(f, open, k, v) \in Seq(FileLine) /\ Modified(f, open, k, v) # <<>>
<1>1. CASE Replaced(f, k) # {}
  BY <1>1, ReplacedLines
<1>2. CASE Replaced(f, k) = {}
  <2>1. Param(k, v) \in FileLine /\ Group \in FileLine
    BY DEF Param, Group, FileLine, BARE
  <2>2. CASE \E i \in DOMAIN f : f[i] = Group
    <3>1. Modified(f, open, k, v) = AppendLine(f, open, Param(k, v))
      BY <1>2, <2>2 DEF Modified
    <3>2. QED
      BY <2>1, <3>1, AppendLineIsFile
  <2>3. CASE ~\E i \in DOMAIN f : f[i] = Group
    <3>1. Modified(f, open, k, v) = Append(AppendLine(f, open, Group), Param(k, v))
      BY <1>2, <2>3 DEF Modified
    <3>2. AppendLine(f, open, Group) \in Seq(FileLine)
      BY <2>1, AppendLineIsFile
    <3>3. QED
      BY <2>1, <3>1, <3>2, AppendProperties
  <2>4. QED
    BY <2>2, <2>3
<1>3. QED
  BY <1>1, <1>2

(* A setting that is read is a number, and what a setter writes is one.    *)
LEMMA ReadIsNumber ==
    ASSUME NEW f \in Seq(FileLine), NEW k \in Names
    PROVE  /\ ReadParam(f, k) \in Nat \cup {UNREAD}
           /\ ValueOf(f, k) \in Nat
           /\ ReadParam(f, k) # UNREAD => Hits(f, k) # {} /\ ValueOf(f, k) = ReadParam(f, k)
<1>1. ReadParam(f, k) \in Nat \cup {UNREAD}
  <2>1. CASE Hits(f, k) = {}
    BY <2>1 DEF ReadParam
  <2>2. CASE Hits(f, k) # {}
    <3>1. PICK i \in Hits(f, k) : \A j \in Hits(f, k) : i <= j
      BY <2>2, FirstHit
    <3>2. ReadParam(f, k) = IF f[i].value < 0 THEN UNREAD ELSE f[i].value
      BY <3>1, ReadTakesLeast
    <3>3. f[i] \in FileLine
      BY FirstHit, LenProperties, ElementOfSeq
    <3>4. f[i].value \in Int
      BY <3>3 DEF FileLine
    <3>5. QED
      BY <3>2, <3>4
  <2>3. QED
    BY <2>1, <2>2
<1>2. Default[k] \in Nat
  BY ValuesAssumption
<1>3. QED
  BY <1>1, <1>2 DEF ReadParam, ValueOf

(* Which settings the boot has come past, and that the file tells them.    *)
Told(k) == ReadParam(ini, k) # UNREAD /\ ReadParam(ini, k) = settings[k]
PastTold == \A i \in 1 .. next - 1 : Told(Keys[i])

SettingsTypes ==
    /\ ini \in Seq(FileLine) /\ ragged \in BOOLEAN /\ (ragged => ini # <<>>)
    /\ settings \in [Names -> Int]
    /\ next \in 1 .. N + 1
    /\ sound \in Nat \cup {-1}

WritesWhatIsMissing ==
    fresh # NoFile => /\ next \in 1 .. N /\ ~Accepted(Key)
                      /\ fresh = Modified(ini, ragged, Key, Known)

(* Text can be glued to a line only once after a mishap, and only while    *)
(* the file is ragged: until then every setting the boot has come past is  *)
(* told by the file, unless a write failed in it; after the first whole    *)
(* boot none is missing from a file that still is ragged, so that nothing  *)
(* will be glued to it.                                                    *)
Mending ==
    /\ ragged /\ sound >= 0 => PastTold
    /\ sound >= 2 \/ (sound = 1 /\ next <= N) => PastTold
    /\ sound >= 1 /\ ragged => \A k \in Names : ReadParam(ini, k) # UNREAD

SettingsInv == SettingsTypes /\ WritesWhatIsMissing /\ Mending

LEMMA KeysAreNames ==
    /\ N \in Nat \ {0}
    /\ \A i \in 1 .. N : Keys[i] \in Names
    /\ \A k \in Names : \E i \in 1 .. N : k = Keys[i]
<1>1. N \in Nat /\ N # 0
  BY KeysAssumption, LenProperties, EmptySeq DEF N
<1>2. QED
  BY <1>1 DEF Names

LEMMA SettingsInitInv == SettingsInit => SettingsInv
<1> SUFFICES ASSUME SettingsInit PROVE SettingsInv
  OBVIOUS
<1>1. ini \in Seq(FileLine)
  <2> DEFINE rest == [i \in 1 .. N |-> Param(Keys[i], Shipped[Keys[i]])]
  <2>1. \A i \in 1 .. N : Param(Keys[i], Shipped[Keys[i]]) \in FileLine
    BY KeysAreNames, ValuesAssumption DEF Param, FileLine
  <2>2. N \in Nat
    BY KeysAreNames
  <2>3. rest \in Seq(FileLine)
    BY <2>1, <2>2
  <2>4. <<Group>> \in Seq(FileLine)
    BY DEF Group, FileLine, BARE
  <2> HIDE DEF rest
  <2>5. <<Group>> \o rest \in Seq(FileLine)
    BY <2>3, <2>4, ConcatProperties
  <2>6. QED
    BY <2>5 DEF SettingsInit, ShippedFile, rest
<1>2. SettingsTypes
  <2>1. settings \in [Names -> Int]
    BY DEF SettingsInit, UNREAD
  <2>2. next \in 1 .. N + 1 /\ sound \in Nat \cup {-1} /\ ragged = FALSE
    BY KeysAreNames DEF SettingsInit
  <2>3. QED
    BY <1>1, <2>1, <2>2 DEF SettingsTypes
<1>3. WritesWhatIsMissing /\ Mending
  BY DEF SettingsInit, WritesWhatIsMissing, Mending
<1>4. QED
  BY <1>2, <1>3 DEF SettingsInv

(* The boot comes past a setting.                                          *)
LEMMA BootAdvances ==
    ASSUME SettingsInv, next \in 1 .. N, fresh' = NoFile,
           ini' \in Seq(FileLine), ragged' \in BOOLEAN, ragged' => ini' # <<>>, ragged' => ragged,
           settings' = [settings EXCEPT ![Key] = Known],
           next' = next + 1,
           sound' = IF next = N /\ sound >= 0 THEN sound + 1 ELSE sound,
           ~ragged \/ ragged' \/ Hits(ini, Key) # {} =>
              /\ ReadParam(ini', Key) = Known
              /\ \A j \in Names \ {Key} : ReadParam(ini', j) = ReadParam(ini, j)
    PROVE  SettingsInv'
<1>1. /\ Key \in Names /\ Known \in Nat /\ N \in Nat /\ next \in Nat
      /\ sound \in Nat \cup {-1}
      /\ settings \in [Names -> Int] /\ ini \in Seq(FileLine)
  <2>1. Key \in Names /\ N \in Nat /\ next \in Nat
    BY KeysAreNames DEF Key
  <2>2. QED
    BY <2>1, ReadIsNumber DEF Known, SettingsInv, SettingsTypes
<1>2. SettingsTypes'
  <2>1. settings' \in [Names -> Int]
    BY <1>1
  <2>2. next' \in 1 .. N + 1 /\ sound' \in Nat \cup {-1}
    BY <1>1
  <2>3. QED
    BY <2>1, <2>2 DEF SettingsTypes
<1>3. ASSUME PastTold, ~ragged \/ ragged' \/ Hits(ini, Key) # {}
      PROVE  PastTold'
  <2>1. ASSUME NEW i \in 1 .. next' - 1
        PROVE  ReadParam(ini', Keys[i]) # UNREAD /\ ReadParam(ini', Keys[i]) = settings'[Keys[i]]
    <3>1. CASE i = next
      <4>1. Keys[i] = Key /\ settings'[Key] = Known /\ Known # UNREAD
        BY <1>1, <3>1 DEF Key, UNREAD
      <4>2. QED
        BY <1>3, <4>1
    <3>2. CASE i # next
      <4>1. i \in 1 .. next - 1 /\ i \in 1 .. N
        BY <1>1, <2>1, <3>2
      <4>2. Keys[i] # Key /\ Keys[i] \in Names
        BY <3>2, <4>1, KeysAssumption, KeysAreNames DEF Key
      <4>3. settings'[Keys[i]] = settings[Keys[i]]
        BY <1>1, <4>2
      <4>4. Told(Keys[i])
        BY <1>3, <4>1 DEF PastTold
      <4>5. QED
        BY <1>3, <4>2, <4>3, <4>4 DEF Told
    <3>3. QED
      BY <3>1, <3>2
  <2>2. QED
    BY <2>1 DEF PastTold, Told
<1>4. ragged' /\ sound' >= 0 => PastTold'
  <2>1. sound' >= 0 => sound >= 0
    BY <1>1
  <2>2. QED
    BY <1>3, <2>1 DEF SettingsInv, Mending
<1>5. ASSUME sound' >= 2 \/ (sound' = 1 /\ next' <= N)
      PROVE  PastTold'
  <2>1. sound >= 1 /\ next <= N /\ (sound >= 2 \/ sound = 1)
    BY <1>1, <1>5
  <2>2. PastTold
    BY <2>1 DEF SettingsInv, Mending
  <2>3. ragged => Hits(ini, Key) # {}
    <3>1. ragged => ReadParam(ini, Key) # UNREAD
      BY <1>1, <2>1 DEF SettingsInv, Mending
    <3>2. QED
      BY <1>1, <3>1, ReadIsNumber
  <2>4. QED
    BY <1>3, <2>2, <2>3
<1>6. ASSUME sound' >= 1, ragged', NEW k \in Names
      PROVE  ReadParam(ini', k) # UNREAD
  <2>1. ragged /\ Known # UNREAD
    BY <1>1, <1>6 DEF UNREAD
  <2>2. CASE sound >= 1
    <3>1. ReadParam(ini, k) # UNREAD
      BY <2>1, <2>2 DEF SettingsInv, Mending
    <3>2. QED
      BY <1>6, <2>1, <3>1
  <2>3. CASE ~(sound >= 1)
    <3>1. next' - 1 = N
      BY <1>1, <1>6, <2>3
    <3>2. PastTold'
      BY <1>1, <1>2, <1>4, <1>6 DEF SettingsTypes
    <3>3. PICK i \in 1 .. N : k = Keys[i]
      BY KeysAreNames
    <3>4. Told(Keys[i])'
      BY <3>1, <3>2 DEF PastTold
    <3>5. QED
      BY <3>3, <3>4 DEF Told
  <2>4. QED
    BY <2>2, <2>3
<1>7. QED
  BY <1>2, <1>4, <1>5, <1>6 DEF SettingsInv, Mending, WritesWhatIsMissing

(* What a power cut leaves of the new file are lines, the last one perhaps *)
(* torn.                                                                   *)
LEMMA CutIsFile ==
    ASSUME NEW f \in Seq(FileLine), NEW n \in 1 .. Len(f), NEW t \in Torn(f[n])
    PROVE  /\ Append(SubSeq(f, 1, n - 1), t) \in Seq(FileLine)
           /\ Append(SubSeq(f, 1, n - 1), t) # <<>>
<1>1. Len(f) \in Nat /\ f[n] \in FileLine /\ \A i \in 1 .. n - 1 : f[i] \in FileLine
  <2>1. Len(f) \in Nat
    BY LenProperties
  <2>2. \A i \in 1 .. n - 1 : i \in 1 .. Len(f)
    BY <2>1
  <2>3. QED
    BY <2>1, <2>2, ElementOfSeq
<1>2. t \in FileLine
  <2>1. f[n].key \in Names \cup {GroupName, "scrap"} /\ f[n].value \in Int
    BY <1>1 DEF FileLine
  <2>2. f[n].value \div 10 \in Int /\ f[n].value \div 100 \in Int
    BY <2>1
  <2>3. QED
    BY <1>1, <2>1, <2>2 DEF Torn, Scrap, Param, FileLine, BARE, EMPTY
<1>3. SubSeq(f, 1, n - 1) \in Seq(FileLine)
  <2>1. n - 1 \in Int
    BY <1>1
  <2>2. QED
    BY <1>1, <2>1, SubSeqProperties
<1>4. QED
  BY <1>2, <1>3, AppendProperties

LEMMA PartIsFile ==
    ASSUME SettingsInv, PartCopied
    PROVE  ini' \in Seq(FileLine) /\ ragged' \in BOOLEAN /\ (ragged' => ini' # <<>>)
<1>1. fresh # NoFile /\ fresh' = NoFile
  BY DEF PartCopied
<1>2. fresh \in Seq(FileLine) /\ fresh # <<>> /\ Len(fresh) \in Nat
  <2>1. Key \in Names
    BY <1>1, KeysAreNames DEF Key, SettingsInv, WritesWhatIsMissing
  <2>2. fresh \in Seq(FileLine) /\ fresh # <<>>
    BY <1>1, <2>1, ReadIsNumber, ModifiedIsFile
    DEF Known, SettingsInv, SettingsTypes, WritesWhatIsMissing
  <2>3. QED
    BY <2>2, LenProperties
<1>3. ASSUME NEW n \in 0 .. Len(fresh), ini' = SubSeq(fresh, 1, n),
             ragged' = (n = Len(fresh) /\ StaysRagged(ini, ragged, Key))
      PROVE  ini' \in Seq(FileLine) /\ ragged' \in BOOLEAN /\ (ragged' => ini' # <<>>)
  <2>1. n \in Int /\ \A i \in 1 .. n : fresh[i] \in FileLine
    <3>1. \A i \in 1 .. n : i \in 1 .. Len(fresh)
      BY <1>2
    <3>2. QED
      BY <1>2, <3>1, ElementOfSeq
  <2>2. ini' \in Seq(FileLine) /\ Len(ini') = n
    BY <1>3, <2>1, SubSeqProperties
  <2>3. Len(fresh) # 0
    BY <1>2, EmptySeq
  <2>4. ragged' => n # 0
    BY <1>3, <2>3
  <2>5. QED
    BY <1>3, <2>2, <2>4, EmptySeq
<1>4. ASSUME NEW n \in 1 .. Len(fresh), NEW t \in Torn(fresh[n]),
             ini' = Append(SubSeq(fresh, 1, n - 1), t)
      PROVE  ini' \in Seq(FileLine) /\ ini' # <<>>
  BY <1>2, <1>4, CutIsFile
<1>5. QED
  BY <1>3, <1>4 DEF PartCopied

LEMMA SettingsStep ==
    ASSUME SettingsInv, [SettingsNext]_settingsVars
    PROVE  SettingsInv'
<1>1. CASE Take
  <2>1. next \in 1 .. N /\ fresh = NoFile /\ fresh' = fresh /\ ini' = ini /\ ragged' = ragged
    BY <1>1 DEF Take, Booting
  <2>2. Key \in Names /\ ReadParam(ini, Key) = Known
    <3>1. Key \in Names
      BY <2>1, KeysAreNames DEF Key
    <3>2. QED
      BY <1>1, <3>1, ReadIsNumber DEF Take, Accepted, Known, SettingsInv, SettingsTypes
  <2>3. QED
    BY <1>1, <2>1, <2>2, BootAdvances DEF Take, Stored, SettingsInv, SettingsTypes
<1>2. CASE CopyDone
  <2>1. /\ fresh # NoFile /\ next \in 1 .. N /\ ini' = Modified(ini, ragged, Key, Known)
        /\ fresh' = NoFile
    BY <1>2 DEF CopyDone, SettingsInv, WritesWhatIsMissing
  <2>2. Key \in Names /\ Known \in Nat /\ ini \in Seq(FileLine)
        /\ ragged \in BOOLEAN /\ (ragged => ini # <<>>)
    <3>1. Key \in Names
      BY <2>1, KeysAreNames DEF Key
    <3>2. QED
      BY <3>1, ReadIsNumber DEF Known, SettingsInv, SettingsTypes
  <2>3. ini' \in Seq(FileLine) /\ ini' # <<>>
    BY <2>1, <2>2, ModifiedIsFile
  <2>4. ragged' \in BOOLEAN /\ (ragged' => ragged /\ Hits(ini, Key) # {})
    <3>1. ragged' = (ragged /\ Replaced(ini, Key) # {} /\ Len(ini) \notin Replaced(ini, Key))
      BY <1>2 DEF CopyDone, StaysRagged
    <3>2. Replaced(ini, Key) \subseteq Hits(ini, Key)
      BY <2>2, FirstHit
    <3>3. QED
      BY <3>1, <3>2
  <2>5. ASSUME ~ragged \/ ragged' \/ Hits(ini, Key) # {}
        PROVE  /\ ReadParam(ini', Key) = Known
               /\ \A j \in Names \ {Key} : ReadParam(ini', j) = ReadParam(ini, j)
    BY <2>1, <2>2, <2>4, <2>5, ModifiedReads
  <2>6. /\ settings' = [settings EXCEPT ![Key] = Known]
        /\ next' = next + 1
        /\ sound' = IF next = N /\ sound >= 0 THEN sound + 1 ELSE sound
    BY <1>2 DEF CopyDone, Stored
  <2>7. QED
    BY <2>1, <2>3, <2>4, <2>5, <2>6, BootAdvances
<1>3. CASE Modify
  <2>1. /\ next \in 1 .. N /\ ~Accepted(Key) /\ fresh' = Modified(ini, ragged, Key, Known)
        /\ UNCHANGED <<ini, ragged, settings, next, sound>>
    BY <1>3 DEF Modify, Booting
  <2>2. WritesWhatIsMissing'
    BY <2>1 DEF WritesWhatIsMissing, Accepted, Key, Known
  <2>3. SettingsTypes' /\ Mending'
    BY <2>1 DEF SettingsInv, SettingsTypes, Mending, PastTold, Told
  <2>4. QED
    BY <2>2, <2>3 DEF SettingsInv
<1>4. CASE Reboot
  <2>1. /\ fresh = NoFile /\ next' = 1 /\ settings' = [k \in Names |-> UNREAD]
        /\ sound' = IF sound < 0 THEN 0 ELSE sound
        /\ UNCHANGED <<ini, ragged, fresh>>
    BY <1>4 DEF Reboot, Boot
  <2>2. sound' \in Nat /\ (sound' >= 1 => sound >= 1)
    BY <2>1 DEF SettingsInv, SettingsTypes
  <2>3. SettingsTypes'
    <3>1. settings' \in [Names -> Int] /\ next' \in 1 .. N + 1
      BY <2>1, KeysAreNames DEF UNREAD
    <3>2. QED
      BY <2>1, <2>2, <3>1 DEF SettingsInv, SettingsTypes
  <2>4. PastTold'
    BY <2>1 DEF PastTold
  <2>5. QED
    BY <2>1, <2>2, <2>3, <2>4 DEF SettingsInv, Mending, WritesWhatIsMissing
<1>5. CASE PowerCut
  <2>1. fresh # NoFile /\ fresh' = NoFile /\ (PartCopied \/ UNCHANGED <<ini, ragged>>)
    BY <1>5 DEF PowerCut, PartCopied
  <2>2. ini' \in Seq(FileLine) /\ ragged' \in BOOLEAN /\ (ragged' => ini' # <<>>)
    BY <2>1, PartIsFile DEF SettingsInv, SettingsTypes
  <2>3. sound' = 0 /\ next' = 1 /\ settings' = [k \in Names |-> UNREAD]
    BY <1>5 DEF PowerCut, Boot
  <2>4. SettingsTypes'
    <3>1. settings' \in [Names -> Int] /\ next' \in 1 .. N + 1 /\ sound' \in Nat
      BY <2>3, KeysAreNames DEF UNREAD
    <3>2. QED
      BY <2>2, <3>1 DEF SettingsTypes
  <2>5. PastTold' /\ ~(sound' >= 1)
    BY <2>3 DEF PastTold
  <2>6. QED
    BY <2>1, <2>4, <2>5 DEF SettingsInv, Mending, WritesWhatIsMissing
<1>7. CASE NotOpened \/ CopyShort
  <2>1. Stored(-1) /\ next \in 1 .. N /\ fresh' = NoFile
    BY <1>7 DEF NotOpened, Booting, CopyShort, PartCopied, SettingsInv, WritesWhatIsMissing
  <2>2. ini' \in Seq(FileLine) /\ ragged' \in BOOLEAN /\ (ragged' => ini' # <<>>)
    BY <1>7, PartIsFile DEF NotOpened, CopyShort, SettingsInv, SettingsTypes
  <2>3. Key \in Names /\ Known \in Nat
    <3>1. Key \in Names
      BY <2>1, KeysAreNames DEF Key
    <3>2. QED
      BY <3>1, ReadIsNumber DEF Known, SettingsInv, SettingsTypes
  <2>4. settings' = [settings EXCEPT ![Key] = Known] /\ next' = next + 1 /\ sound' = -1
    BY <2>1 DEF Stored
  <2>5. settings' \in [Names -> Int] /\ next' \in 1 .. N + 1
    BY <2>1, <2>3, <2>4, KeysAreNames DEF SettingsInv, SettingsTypes
  <2>6. QED
    BY <2>1, <2>2, <2>4, <2>5 DEF SettingsInv, SettingsTypes, Mending, WritesWhatIsMissing
<1>6. CASE UNCHANGED settingsVars
  BY <1>6 DEF settingsVars, SettingsInv, SettingsTypes, WritesWhatIsMissing, Mending,
       PastTold, Told, Accepted, Key, Known
<1>8. QED
  BY <1>1, <1>2, <1>3, <1>4, <1>5, <1>6, <1>7 DEF SettingsNext

(* Whatever a power cut or a failed write has left of the file, two boots  *)
(* without either mend it: then the file tells every setting the client    *)
(* runs with, under its group and key (ReadBrodCastInfo, ModifyParam).     *)
THEOREM TwoBootsAreEnough == SettingsSpec => []TwoBootsMend
<1>1. SettingsInv => TwoBootsMend
  <2> SUFFICES ASSUME SettingsInv, next = N + 1, sound >= 2, NEW k \in Names
               PROVE  ReadParam(ini, k) = settings[k]
    BY DEF TwoBootsMend, ClientUp
  <2>1. PICK i \in 1 .. N : k = Keys[i]
    BY KeysAreNames
  <2>2. i \in 1 .. next - 1
    BY KeysAreNames
  <2>3. QED
    BY <2>1, <2>2 DEF SettingsInv, Mending, PastTold, Told
<1>2. QED
  BY <1>1, SettingsInitInv, SettingsStep, PTL DEF SettingsSpec

(* A file in which every setting is found and in range is never written,   *)
(* so that a power cut cannot hurt it.                                     *)
THEOREM SoundFileStays == SettingsSpec => SoundFileIsLeftAlone
<1>1. SettingsInv /\ [SettingsNext]_settingsVars =>
        [(\A k \in Names : ReadParam(ini, k) \in 0 .. Top[k]) => ini' = ini /\ fresh' = fresh
        ]_settingsVars
  <2> SUFFICES ASSUME SettingsInv, SettingsNext,
                      \A k \in Names : ReadParam(ini, k) \in 0 .. Top[k]
               PROVE  ini' = ini /\ fresh' = fresh
    OBVIOUS
  <2>1. next \in 1 .. N => Accepted(Key)
    <3>1. next \in 1 .. N => Key \in Names
      BY KeysAreNames DEF Key
    <3>2. \A k \in Names : ReadParam(ini, k) # UNREAD
      BY ValuesAssumption DEF UNREAD
    <3>3. QED
      BY <3>1, <3>2 DEF Accepted, InRange
  <2>2. fresh = NoFile
    BY <2>1 DEF SettingsInv, WritesWhatIsMissing
  <2>3. ~Modify /\ ~NotOpened
    BY <2>1 DEF Modify, NotOpened, Booting
  <2>4. ~CopyDone /\ ~CopyShort /\ ~PowerCut
    BY <2>2 DEF CopyDone, CopyShort, PowerCut, PartCopied
  <2>5. QED
    BY <2>3, <2>4 DEF SettingsNext, Take, Reboot
<1>2. QED
  BY <1>1, SettingsInitInv, SettingsStep, PTL DEF SettingsSpec, SoundFileIsLeftAlone

-----------------------------------------------------------------------------
(* CameraTable.                                                            *)

CameraInfo == {Parsed(l) : l \in Lines}

(* What STATE_Init has read so far: the cameras of the table are those of  *)
(* the file's lines, and the recorders' lists have each camera of a line   *)
(* in order once, in both recorders of its pair.                           *)
TableTypes ==
    /\ file \in CameraFiles
    /\ toRead \in {"cameras", "alarms", "nothing", "overrun"}
    /\ ipcInfo \in Seq(CameraInfo) /\ Len(ipcInfo) <= VideoNum
    /\ lists \in [Recorders -> Seq(Nat)]
    /\ m_iNvrNo \in Recorders
    /\ carBox \in Recorders \cup {-1}

ReadSoFar ==
    /\ \A i \in DOMAIN ipcInfo : ipcInfo[i] = Parsed(LineOf(i - 1))
    /\ toRead \in {"cameras", "alarms"} => \A i \in DOMAIN ipcInfo : InOrderLine(LineOf(i - 1))
    /\ toRead = "cameras" => Len(ipcInfo) < VideoNum
    /\ toRead = "alarms" => Len(ipcInfo) = VideoNum

Listed(r, i) ==
    /\ i < Len(ipcInfo) /\ InOrderLine(LineOf(i)) /\ r \in ListedBy(LineOf(i).nvr - 1)

ListsAreRead ==
    /\ \A r \in Recorders : \A i \in Nat : i \in Range(lists[r]) <=> Listed(r, i)
    /\ \A r \in Recorders : IsInjective(lists[r])
    /\ \A r, q \in Recorders : ListedBy(r) = ListedBy(q) => lists[r] = lists[q]

AlarmsAreRead ==
    \A a \in DOMAIN alarmCamera : alarmCamera[a] # NoCamera =>
        /\ toRead = "nothing" /\ Len(ipcInfo) = VideoNum
        /\ alarmCamera[a] \in 0 .. VideoNum - 1
        /\ \A i \in DOMAIN ipcInfo : InOrderLine(LineOf(i - 1))

PagesAreMade ==
    carBox # -1 => /\ toRead = "nothing" /\ buttons = [p \in Spots |-> ButtonFor(p)]
                   /\ cameraBox = lists[carBox]

TableInv ==
    /\ TableTypes /\ ReadSoFar /\ AlarmsAreRead /\ PagesAreMade /\ AsksForTheChosen
    /\ toRead # "overrun" => ListsAreRead

LEMMA VideoNumIsNumber ==
    /\ VideoNum \in Nat
    /\ IF file.count = NoCount THEN VideoNum = 0 ELSE VideoNum >= 1
<1> DEFINE top == CHOOSE n \in VideoNums : \A m \in VideoNums : m <= n
<1>1. top \in VideoNums
  BY TableAssumption
<1>2. CASE file.count # NoCount
  <2>1. VideoNum \in VideoNums
    BY <1>1, <1>2 DEF VideoNum
  <2>2. QED
    BY <1>2, <2>1, TableAssumption
<1>3. CASE file.count = NoCount
  BY <1>3 DEF VideoNum
<1>4. QED
  BY <1>2, <1>3

LEMMA LineOfFile ==
    ASSUME file \in CameraFiles, NEW i \in Nat
    PROVE  LineOf(i) \in Lines
<1>1. file.lines \in Seq(Lines)
  BY TableAssumption
<1>2. Len(file.lines) \in Nat
  BY <1>1, LenProperties
<1>3. CASE i < Len(file.lines)
  <2>1. i + 1 \in 1 .. Len(file.lines)
    BY <1>2, <1>3
  <2>2. QED
    BY <1>1, <1>3, <2>1, ElementOfSeq DEF LineOf
<1>4. CASE ~(i < Len(file.lines))
  BY <1>4 DEF LineOf, Lines
<1>5. QED
  BY <1>3, <1>4

(* A line that is in order names a pair of recorders, a place and an image. *)
LEMMA InOrderParsed ==
    ASSUME NEW l \in Lines, InOrderLine(l)
    PROVE  /\ Parsed(l).nvr = l.nvr - 1 /\ l.nvr - 1 \in Recorders
           /\ <<Parsed(l).group, Parsed(l).pos>> \in Spots
           /\ Parsed(l).img \in 1 .. MaxImage
<1>1. l.fields \in 0 .. 6 /\ l.fields >= 4
  BY DEF Lines, InOrderLine
<1>2. /\ Parsed(l).nvr = l.nvr - 1 /\ Parsed(l).group = l.group - 1
      /\ Parsed(l).pos = l.pos - 1 /\ Parsed(l).img = l.img
  BY <1>1 DEF Parsed
<1>3. l.nvr \in 1 .. 6 /\ l.group \in 1 .. PlaceGroups /\ l.pos \in 1 .. 4 /\ l.img \in 1 .. MaxImage
  BY DEF InOrderLine
<1>4. l.nvr - 1 \in 0 .. 5 /\ l.group - 1 \in 0 .. PlaceGroups - 1 /\ l.pos - 1 \in 0 .. 3
  BY <1>3, TableAssumption
<1>5. QED
  BY <1>2, <1>3, <1>4 DEF Recorders, Spots

(* Both recorders of a pair have the same list, and are in it.             *)
LEMMA Pairs ==
    /\ \A r \in Recorders : r \in ListedBy(r)
    /\ \A r, q, n \in Recorders : ListedBy(r) = ListedBy(q) =>
         (r \in ListedBy(n) <=> q \in ListedBy(n))
    /\ ListedBy(0) = ListedBy(1)
<1>1. Recorders = {0, 1, 2, 3, 4, 5}
  BY DEF Recorders
<1>2. /\ ListedBy(0) = {0, 1} /\ ListedBy(1) = {0, 1} /\ ListedBy(2) = {2, 3}
      /\ ListedBy(3) = {2, 3} /\ ListedBy(4) = {4, 5} /\ ListedBy(5) = {4, 5}
  BY DEF ListedBy
<1>3. QED
  BY <1>1, <1>2

LEMMA TableInitInv == TableInit => TableInv
<1> SUFFICES ASSUME TableInit PROVE TableInv
  OBVIOUS
<1>1. ipcInfo = <<>> /\ Len(ipcInfo) = 0 /\ DOMAIN ipcInfo = {} /\ ipcInfo \in Seq(CameraInfo)
  BY EmptySeq DEF TableInit
<1>2. TableTypes
  <2>1. lists \in [Recorders -> Seq(Nat)]
    BY EmptySeq DEF TableInit
  <2>2. QED
    BY <1>1, <2>1, VideoNumIsNumber DEF TableInit, TableTypes
<1>3. ReadSoFar
  BY <1>1, VideoNumIsNumber DEF TableInit, ReadSoFar
<1>4. ListsAreRead
  <2>1. \A r \in Recorders : lists[r] = <<>> /\ DOMAIN lists[r] = {}
    BY DEF TableInit
  <2>2. QED
    BY <1>1, <2>1 DEF ListsAreRead, Listed, Range, IsInjective
<1>5. AlarmsAreRead /\ PagesAreMade /\ AsksForTheChosen
  BY DEF TableInit, AlarmsAreRead, PagesAreMade, AsksForTheChosen
<1>6. QED
  BY <1>2, <1>3, <1>4, <1>5 DEF TableInv

(* ReadNvrAndIpc reads a camera: the table has one more, and if its line   *)
(* is in order, the lists of its pair have it.                             *)
LEMMA ReadCameraStep ==
    ASSUME TableInv, ReadCamera
    PROVE  TableInv'
<1> DEFINE n == Len(ipcInfo)
           l == LineOf(n)
<1>1. /\ toRead = "cameras" /\ file' = file /\ UNCHANGED <<alarmCamera, pageVars>>
      /\ ipcInfo' = Append(ipcInfo, Parsed(l))
      /\ \/ /\ InOrderLine(l)
            /\ lists' = [r \in Recorders |-> IF r \in ListedBy(Parsed(l).nvr)
                                             THEN Append(lists[r], n) ELSE lists[r]]
            /\ toRead' = IF n + 1 = VideoNum THEN "alarms" ELSE "cameras"
         \/ ~InOrderLine(l) /\ toRead' = "nothing" /\ lists' = lists
         \/ toRead' = "overrun" /\ lists' = lists
  BY DEF ReadCamera, AfterBadLine
<1>2. /\ ipcInfo \in Seq(CameraInfo) /\ n \in Nat /\ DOMAIN ipcInfo = 1 .. n /\ n < VideoNum
      /\ VideoNum \in Nat /\ l \in Lines /\ file \in CameraFiles /\ lists \in [Recorders -> Seq(Nat)]
  <2>1. ipcInfo \in Seq(CameraInfo) /\ file \in CameraFiles /\ lists \in [Recorders -> Seq(Nat)]
    BY DEF TableInv, TableTypes
  <2>2. n \in Nat /\ DOMAIN ipcInfo = 1 .. n
    BY <2>1, LenProperties
  <2>3. n < VideoNum
    BY <1>1 DEF TableInv, ReadSoFar
  <2>4. QED
    BY <2>1, <2>2, <2>3, VideoNumIsNumber, LineOfFile
<1>3. \A i \in Nat : LineOf(i)' = LineOf(i)
  BY <1>1 DEF LineOf
<1>4. VideoNum' = VideoNum
  BY <1>1 DEF VideoNum
<1>5. /\ ipcInfo' \in Seq(CameraInfo) /\ Len(ipcInfo') = n + 1 /\ DOMAIN ipcInfo' = 1 .. n + 1
      /\ \A i \in 1 .. n : ipcInfo'[i] = ipcInfo[i]
      /\ ipcInfo'[n + 1] = Parsed(l)
  <2>1. Parsed(l) \in CameraInfo
    BY <1>2 DEF CameraInfo
  <2>2. /\ ipcInfo' \in Seq(CameraInfo) /\ Len(ipcInfo') = n + 1
        /\ \A i \in 1 .. n : ipcInfo'[i] = ipcInfo[i]
        /\ ipcInfo'[n + 1] = Parsed(l)
    BY <1>1, <1>2, <2>1, AppendProperties
  <2>3. QED
    BY <2>2, LenProperties
<1>6. \A i \in 1 .. n : InOrderLine(LineOf(i - 1)) /\ ipcInfo[i] = Parsed(LineOf(i - 1))
  BY <1>1, <1>2 DEF TableInv, ReadSoFar
<1>7. \A i \in 1 .. n + 1 : i - 1 \in Nat /\ (i \in 1 .. n \/ (i = n + 1 /\ i - 1 = n))
  BY <1>2
<1> HIDE DEF n, l
<1>8. ReadSoFar'
  <2>1. \A i \in DOMAIN ipcInfo' : ipcInfo'[i] = Parsed(LineOf(i - 1))
    BY <1>5, <1>6, <1>7 DEF l
  <2>2. toRead' \in {"cameras", "alarms"} => InOrderLine(l)
    BY <1>1
  <2>3. toRead' \in {"cameras", "alarms"} => \A i \in DOMAIN ipcInfo' : InOrderLine(LineOf(i - 1))
    BY <1>5, <1>6, <1>7, <2>2 DEF l
  <2>4. /\ toRead' = "cameras" => n + 1 < VideoNum
        /\ toRead' = "alarms" => n + 1 = VideoNum
    BY <1>1, <1>2
  <2>5. QED
    BY <1>3, <1>4, <1>5, <1>7, <2>1, <2>3, <2>4 DEF ReadSoFar
<1>9. AlarmsAreRead' /\ PagesAreMade' /\ AsksForTheChosen'
  <2>1. \A a \in DOMAIN alarmCamera : alarmCamera[a] = NoCamera
    BY <1>1 DEF TableInv, AlarmsAreRead
  <2>2. carBox = -1
    BY <1>1 DEF TableInv, PagesAreMade
  <2>3. QED
    BY <1>1, <2>1, <2>2
    DEF TableInv, AlarmsAreRead, PagesAreMade, AsksForTheChosen, pageVars
<1>10. \A i \in Nat : i < n + 1 <=> i < n \/ i = n
  BY <1>2
<1>11. /\ toRead' # "overrun" => ListsAreRead'
       /\ lists' \in [Recorders -> Seq(Nat)]
  <2> ListsAreRead
    BY <1>1 DEF TableInv
  <2>1. CASE InOrderLine(l) /\ toRead' # "overrun"
    <3>1. l.nvr - 1 \in Recorders /\ Parsed(l).nvr = l.nvr - 1
      BY <1>2, <2>1, InOrderParsed
    <3>2. lists' = [r \in Recorders |-> IF r \in ListedBy(l.nvr - 1)
                                        THEN Append(lists[r], n) ELSE lists[r]]
      BY <1>1, <2>1, <3>1
    <3>3. \A r \in Recorders : \A i \in Nat :
            Listed(r, i)' <=> Listed(r, i) \/ (i = n /\ r \in ListedBy(l.nvr - 1))
      BY <1>2, <1>3, <1>5, <1>10, <2>1 DEF Listed, n, l
    <3>4. ASSUME NEW r \in Recorders, r \notin ListedBy(l.nvr - 1)
          PROVE  /\ lists'[r] \in Seq(Nat) /\ IsInjective(lists'[r])
                 /\ \A i \in Nat : i \in Range(lists'[r]) <=> Listed(r, i)'
      BY <1>2, <3>2, <3>3, <3>4 DEF TableInv, ListsAreRead
    <3>5. ASSUME NEW r \in Recorders, r \in ListedBy(l.nvr - 1)
          PROVE  /\ lists'[r] \in Seq(Nat) /\ IsInjective(lists'[r])
                 /\ \A i \in Nat : i \in Range(lists'[r]) <=> Listed(r, i)'
      <4> DEFINE s == lists[r]
                 m == Len(s)
                 t == lists'[r]
      <4>1. t = Append(s, n) /\ s \in Seq(Nat) /\ m \in Nat /\ DOMAIN s = 1 .. m
        BY <1>2, <3>2, <3>5, LenProperties
      <4>2. t \in Seq(Nat) /\ Len(t) = m + 1 /\ (\A i \in 1 .. m : t[i] = s[i]) /\ t[m + 1] = n
        BY <1>2, <4>1, AppendProperties
      <4>3. DOMAIN t = 1 .. m + 1
        BY <4>2, LenProperties
      <4>4. \A i \in 1 .. m : s[i] \in Nat /\ s[i] # n
        <5>1. \A i \in 1 .. m : s[i] \in Nat /\ s[i] \in Range(s)
          BY <4>1, ElementOfSeq DEF Range
        <5>2. \A i \in 1 .. m : s[i] < n
          BY <5>1 DEF TableInv, ListsAreRead, Listed, n
        <5>3. QED
          BY <1>2, <5>1, <5>2
      <4>5. IsInjective(s) /\ \A i \in Nat : i \in Range(s) <=> Listed(r, i)
        BY DEF TableInv, ListsAreRead
      <4> HIDE DEF s, m, t
      <4>6. \A i \in 1 .. m + 1 : i \in 1 .. m \/ i = m + 1
        BY <4>1
      <4>7. IsInjective(t)
        BY <4>1, <4>2, <4>3, <4>4, <4>5, <4>6 DEF IsInjective
      <4>8. m + 1 \in DOMAIN t /\ \A i \in 1 .. m : i \in DOMAIN t
        BY <4>1, <4>3
      <4>9. \A i \in Nat : i \in Range(t) <=> i \in Range(s) \/ i = n
        BY <4>1, <4>2, <4>3, <4>6, <4>8 DEF Range
      <4>10. QED
        BY <3>3, <3>5, <4>2, <4>5, <4>7, <4>9 DEF t
    <3>6. ASSUME NEW r \in Recorders, NEW q \in Recorders, ListedBy(r) = ListedBy(q)
          PROVE  lists'[r] = lists'[q]
      <4>1. lists[r] = lists[q]
        BY <3>6 DEF TableInv, ListsAreRead
      <4>2. r \in ListedBy(l.nvr - 1) <=> q \in ListedBy(l.nvr - 1)
        BY <3>1, <3>6, Pairs
      <4>3. QED
        BY <3>2, <4>1, <4>2
    <3>7. lists' \in [Recorders -> Seq(Nat)]
      BY <3>2, <3>4, <3>5
    <3>8. QED
      BY <3>4, <3>5, <3>6, <3>7 DEF ListsAreRead
  <2>2. CASE ~InOrderLine(l) /\ toRead' # "overrun"
    <3>1. lists' = lists
      BY <1>1, <2>2
    <3>2. \A r \in Recorders : \A i \in Nat : Listed(r, i)' <=> Listed(r, i)
      BY <1>3, <1>5, <1>10, <2>2 DEF Listed, n, l
    <3>3. QED
      BY <1>2, <3>1, <3>2 DEF TableInv, ListsAreRead
  <2>3. CASE toRead' = "overrun"
    BY <1>1, <1>2, <2>3
  <2>4. QED
    BY <2>1, <2>2, <2>3
<1>12. TableTypes'
  <2>1. toRead' \in {"cameras", "alarms", "nothing", "overrun"}
    BY <1>1
  <2>2. Len(ipcInfo') <= VideoNum
    BY <1>2, <1>5
  <2>3. QED
    BY <1>1, <1>4, <1>5, <1>11, <2>1, <2>2 DEF TableInv, TableTypes, pageVars
<1>13. QED
  BY <1>8, <1>9, <1>11, <1>12 DEF TableInv

(* While the table stays, what was read stays, and what the pages show of  *)
(* it.                                                                     *)
LEMMA TableStays ==
    ASSUME UNCHANGED tableVars
    PROVE  /\ \A i : LineOf(i)' = LineOf(i) /\ Info(i)' = Info(i)
           /\ VideoNum' = VideoNum /\ toRead' = toRead
           /\ \A p : ButtonFor(p)' = ButtonFor(p)
           /\ ReadSoFar => ReadSoFar'
           /\ ListsAreRead => ListsAreRead'
           /\ AlarmsAreRead => AlarmsAreRead'
<1>1. file' = file /\ toRead' = toRead /\ ipcInfo' = ipcInfo /\ lists' = lists
      /\ alarmCamera' = alarmCamera
  BY DEF tableVars
<1>2. /\ \A i : LineOf(i)' = LineOf(i) /\ Info(i)' = Info(i)
      /\ VideoNum' = VideoNum
  BY <1>1 DEF LineOf, Info, VideoNum
<1>3. \A p : CameraAt(p)' = CameraAt(p)
  <2>1. ASSUME NEW p
        PROVE  CameraAt(p)' = CameraAt(p)
    <3> DEFINE here == {i \in 0 .. VideoNum - 1 : <<Info(i).group, Info(i).pos>> = p}
    <3>1. here' = here
      BY <1>2
    <3>2. CameraAt(p) = IF here = {} THEN NoCamera ELSE CHOOSE i \in here : \A j \in here : i <= j
      BY DEF CameraAt
    <3>3. CameraAt(p)' = (IF here = {} THEN NoCamera ELSE CHOOSE i \in here : \A j \in here : i <= j)'
      BY DEF CameraAt
    <3> HIDE DEF here
    <3>4. QED
      BY <3>1, <3>2, <3>3
  <2>2. QED
    BY <2>1
<1>4. \A p : ButtonFor(p)' = ButtonFor(p)
  BY <1>2, <1>3 DEF ButtonFor, GetVideoImgIdx
<1>5. ReadSoFar => ReadSoFar'
  BY <1>1, <1>2 DEF ReadSoFar
<1>6. ListsAreRead => ListsAreRead'
  BY <1>1, <1>2 DEF ListsAreRead, Listed
<1>7. AlarmsAreRead => AlarmsAreRead'
  BY <1>1, <1>2 DEF AlarmsAreRead
<1>8. QED
  BY <1>1, <1>2, <1>4, <1>5, <1>6, <1>7

(* The cameras that a page offers are the list of the recorder it asks.    *)
LEMMA OffersTheList ==
    ASSUME TableInv, NEW r \in Recorders
    PROVE  /\ Offered(r) = lists[r]
           /\ \A n \in 0 .. Len(lists[r]) - 1 : GetNvrVideoIdx(r, n) = lists[r][n + 1]
<1> DEFINE s == lists[r]
           m == Len(s)
<1>1. s \in [1 .. m -> Nat] /\ m \in Nat
  BY LenProperties DEF TableInv, TableTypes
<1>2. \A n \in 0 .. m - 1 : GetNvrVideoIdx(r, n) = s[n + 1]
  BY DEF GetNvrVideoIdx, GetNvrVideoNum
<1>3. Offered(r) = [n \in 1 .. m |-> GetNvrVideoIdx(r, n - 1)]
  BY DEF Offered, GetNvrVideoNum
<1> HIDE DEF s, m
<1>4. \A n \in 1 .. m : n - 1 \in 0 .. m - 1 /\ n - 1 + 1 = n
  BY <1>1
<1>5. \A n \in 1 .. m : GetNvrVideoIdx(r, n - 1) = s[n]
  BY <1>2, <1>4
<1>6. Offered(r) = s
  BY <1>1, <1>3, <1>5
<1>7. QED
  BY <1>2, <1>6 DEF s, m

LEMMA TableStep ==
    ASSUME TableInv, [TableNext]_cameraVars
    PROVE  TableInv'
<1>1. CASE ReadCamera
  BY <1>1, ReadCameraStep
<1>2. CASE ReadWarnRelate
  <2>1. /\ toRead = "alarms" /\ toRead' = "nothing"
        /\ UNCHANGED <<file, ipcInfo, lists, pageVars>>
        /\ alarmCamera' = [a \in DOMAIN file.alarms |->
                             IF file.alarms[a] \in 1 .. VideoNum
                             THEN file.alarms[a] - 1 ELSE NoCamera]
    BY <1>2 DEF ReadWarnRelate
  <2>2. /\ \A i : LineOf(i)' = LineOf(i)
        /\ VideoNum' = VideoNum
    BY <2>1 DEF LineOf, VideoNum
  <2>3. /\ Len(ipcInfo) = VideoNum
        /\ \A i \in DOMAIN ipcInfo : InOrderLine(LineOf(i - 1))
    BY <2>1 DEF TableInv, ReadSoFar
  <2>4. \A a \in DOMAIN alarmCamera' :
          alarmCamera'[a] # NoCamera => alarmCamera'[a] \in 0 .. VideoNum - 1
    BY <2>1, VideoNumIsNumber
  <2>5. AlarmsAreRead'
    BY <2>1, <2>2, <2>3, <2>4 DEF AlarmsAreRead
  <2>6. TableTypes' /\ ReadSoFar' /\ ListsAreRead'
    BY <2>1, <2>2 DEF TableInv, TableTypes, ReadSoFar, ListsAreRead, Listed, pageVars
  <2>7. PagesAreMade' /\ AsksForTheChosen'
    BY <2>1 DEF TableInv, PagesAreMade, AsksForTheChosen, pageVars
  <2>8. QED
    BY <2>5, <2>6, <2>7 DEF TableInv
<1>3. CASE getTrainConfig
  <2>1. /\ toRead = "nothing" /\ buttons' = [p \in Spots |-> ButtonFor(p)]
        /\ carBox = -1 /\ carBox' = 0 /\ cameraBox' = Offered(1)
        /\ UNCHANGED tableVars /\ m_iNvrNo' = m_iNvrNo /\ request' = request
    BY <1>3 DEF getTrainConfig, setUi
  <2>2. 0 \in Recorders /\ 1 \in Recorders /\ lists[0] = lists[1]
    BY <2>1, Pairs DEF Recorders, TableInv, ListsAreRead
  <2>3. cameraBox' = lists'[carBox']
    BY <2>1, <2>2, OffersTheList DEF tableVars
  <2>4. PagesAreMade'
    BY <2>1, <2>3, TableStays DEF PagesAreMade, tableVars
  <2>5. TableTypes'
    BY <2>1, <2>2, TableStays DEF TableInv, TableTypes, tableVars
  <2>6. AsksForTheChosen'
    BY <2>1 DEF TableInv, AsksForTheChosen
  <2>7. QED
    BY <2>1, <2>4, <2>5, <2>6, TableStays DEF TableInv
<1>4. CASE ChooseCar
  <2>1. /\ carBox # -1 /\ carBox' \in Recorders /\ cameraBox' = Offered(carBox')
        /\ UNCHANGED tableVars /\ buttons' = buttons /\ m_iNvrNo' = m_iNvrNo
        /\ request' = request
    BY <1>4 DEF ChooseCar
  <2>2. cameraBox' = lists'[carBox']
    BY <2>1, OffersTheList DEF tableVars
  <2>3. PagesAreMade'
    BY <2>1, <2>2, TableStays DEF TableInv, PagesAreMade, tableVars
  <2>4. TableTypes'
    BY <2>1, TableStays DEF TableInv, TableTypes, tableVars
  <2>5. AsksForTheChosen'
    BY <2>1 DEF TableInv, AsksForTheChosen
  <2>6. QED
    BY <2>1, <2>3, <2>4, <2>5, TableStays DEF TableInv
<1>5. CASE AskForRecordings
  <2>1. /\ carBox # -1 /\ UNCHANGED <<tableVars, buttons, carBox, cameraBox, m_iNvrNo>>
        /\ toRead = "nothing" /\ carBox \in Recorders /\ m_iNvrNo \in Recorders /\ cameraBox = lists[carBox]
    BY <1>5 DEF AskForRecordings, TableInv, TableTypes, PagesAreMade
  <2>2. PICK n \in 0 .. Len(cameraBox) - 1 :
          request' = [car |-> carBox, chosen |-> cameraBox[n + 1], camera |-> CameraAskedFor(n)]
    BY <1>5 DEF AskForRecordings
  <2>3. ASSUME ListedBy(carBox) = ListedBy(m_iNvrNo)
        PROVE  CameraAskedFor(n) = cameraBox[n + 1] + 1
    <3>1. lists[carBox] = lists[m_iNvrNo]
      BY <2>1, <2>3 DEF TableInv, ListsAreRead
    <3>2. GetNvrVideoIdx(m_iNvrNo, n) = lists[m_iNvrNo][n + 1]
      BY <2>1, <2>2, <3>1, OffersTheList
    <3>3. QED
      BY <2>1, <3>1, <3>2 DEF CameraAskedFor
  <2>4. AsksForTheChosen'
    BY <2>1, <2>2, <2>3 DEF AsksForTheChosen
  <2>5. TableTypes' /\ PagesAreMade'
    BY <2>1, TableStays DEF TableInv, TableTypes, PagesAreMade, tableVars
  <2>6. QED
    BY <2>1, <2>4, <2>5, TableStays DEF TableInv
<1>6. CASE UNCHANGED cameraVars
  <2>1. UNCHANGED <<tableVars, buttons, carBox, cameraBox, m_iNvrNo, request>>
    BY <1>6 DEF cameraVars, pageVars
  <2>2. TableTypes' /\ PagesAreMade' /\ AsksForTheChosen'
    BY <2>1, TableStays DEF TableInv, TableTypes, PagesAreMade, AsksForTheChosen, tableVars
  <2>3. QED
    BY <2>1, <2>2, TableStays DEF TableInv
<1>7. QED
  BY <1>1, <1>2, <1>3, <1>4, <1>5, <1>6 DEF TableNext

LEMMA TableIsTrue ==
    ASSUME TableInv
    PROVE  TableAgrees
<1>1. /\ ipcInfo \in Seq(CameraInfo) /\ Len(ipcInfo) \in Nat /\ DOMAIN ipcInfo = 1 .. Len(ipcInfo)
      /\ \A i \in DOMAIN ipcInfo : ipcInfo[i] = Parsed(LineOf(i - 1))
  BY LenProperties DEF TableInv, TableTypes, ReadSoFar
<1>2. \A i \in Nat : i < Len(ipcInfo) =>
        /\ i + 1 \in DOMAIN ipcInfo /\ i + 1 - 1 = i
        /\ ipcInfo[i + 1] = Parsed(LineOf(i)) /\ Info(i) = Parsed(LineOf(i))
  <2>1. \A i \in Nat : i < Len(ipcInfo) => i + 1 \in DOMAIN ipcInfo /\ i + 1 - 1 = i
    BY <1>1
  <2>2. QED
    BY <1>1, <2>1 DEF Info
<1>3. \A i \in Nat : LineOf(i) \in Lines
  BY LineOfFile DEF TableInv, TableTypes
<1>4. ASSUME NEW r \in Recorders, toRead # "overrun"
      PROVE  /\ IsInjective(lists[r])
             /\ \A i \in Range(lists[r]) : i \in Nat
             /\ \A i \in Nat : i \in Range(lists[r]) <=>
                  i < Len(ipcInfo) /\ InOrderLine(LineOf(i)) /\ r \in ListedBy(LineOf(i).nvr - 1)
  <2>1. lists[r] \in Seq(Nat)
    BY DEF TableInv, TableTypes
  <2>2. \A i \in Range(lists[r]) : i \in Nat
    BY <2>1, LenProperties, ElementOfSeq DEF Range
  <2>3. QED
    BY <1>4, <2>2 DEF TableInv, ListsAreRead, Listed
<1>5. \A i \in Nat : i < Len(ipcInfo) /\ InOrderLine(LineOf(i)) =>
        /\ ipcInfo[i + 1].nvr = LineOf(i).nvr - 1 /\ LineOf(i).nvr - 1 \in Recorders
        /\ <<Info(i).group, Info(i).pos>> \in Spots /\ Info(i).img \in 1 .. MaxImage
  BY <1>2, <1>3, InOrderParsed
<1>6. ASSUME carBox # -1
      PROVE  OffersTheCar /\ \A i \in Range(cameraBox) : HasButton(i)
  <2>1. /\ carBox \in Recorders /\ cameraBox = lists[carBox]
        /\ buttons = [p \in Spots |-> ButtonFor(p)] /\ toRead = "nothing"
    BY <1>6 DEF TableInv, TableTypes, PagesAreMade
  <2>2. \A i \in 0 .. Len(ipcInfo) - 1 : i \in Nat /\ i < Len(ipcInfo)
    BY <1>1
  <2>3. \A i \in Nat : i < Len(ipcInfo) => i \in 0 .. Len(ipcInfo) - 1
    BY <1>1
  <2>4. OffersTheCar
    BY <1>4, <1>5, <2>1, <2>2, <2>3 DEF OffersTheCar
  <2>5. ASSUME NEW i \in Range(cameraBox)
        PROVE  HasButton(i)
    <3> DEFINE p == <<Info(i).group, Info(i).pos>>
    <3>1. i \in Nat /\ p \in Spots /\ Info(i).img \in 1 .. MaxImage
      BY <1>4, <1>5, <2>1, <2>5
    <3>2. buttons[p] = ButtonFor(p)
      BY <2>1, <3>1
    <3>3. i # NoCamera
      BY <3>1 DEF NoCamera
    <3> HIDE DEF p
    <3>4. CameraAt(p) = i => buttons[p] = Info(i).img
      BY <3>1, <3>2, <3>3 DEF ButtonFor, GetVideoImgIdx
    <3>5. QED
      BY <3>4 DEF HasButton, p
  <2>6. QED
    BY <2>4, <2>5
<1>7. ASSUME NEW i \in 0 .. VideoNum - 1
      PROVE  Enlarges(i)
  <2>1. Info(i).main /\ ~Info(i).sub => LineOf(i).mainOk /\ ~LineOf(i).subOk
    <3>1. CASE i < Len(ipcInfo)
      <4>1. i \in Nat
        BY VideoNumIsNumber
      <4>2. LineOf(i).fields \in 0 .. 6 /\ Info(i) = Parsed(LineOf(i))
        BY <1>2, <1>3, <3>1, <4>1 DEF Lines
      <4>3. /\ Info(i).main = (LineOf(i).fields > 5 /\ LineOf(i).mainOk)
            /\ Info(i).sub = (LineOf(i).fields > 4 /\ LineOf(i).subOk)
        <5>1. ASSUME NEW l
              PROVE  /\ Parsed(l).main = (l.fields > 5 /\ l.mainOk)
                     /\ Parsed(l).sub = (l.fields > 4 /\ l.subOk)
          BY Zenon DEF Parsed
        <5>2. QED
          BY <4>2, <5>1, Zenon
      <4>4. LineOf(i).fields > 5 => LineOf(i).fields > 4
        BY <4>2
      <4>5. QED
        BY <4>3, <4>4, Zenon
    <3>2. CASE ~(i < Len(ipcInfo))
      BY <3>2 DEF Info
    <3>3. QED
      BY <3>1, <3>2
  <2>2. <<"sub", i>> # NoUrl /\ <<"main", i>> # NoUrl
    BY DEF NoUrl
  <2>3. QED
    BY <2>1, <2>2 DEF Enlarges, GetVideoRtspUrl, GetVideoMainRtspUrl
<1>8. ASSUME NEW a \in DOMAIN alarmCamera, alarmCamera[a] # NoCamera
      PROVE  \E r \in Recorders : alarmCamera[a] \in Range(lists[r])
  <2> DEFINE i == alarmCamera[a]
  <2>1. i \in 0 .. VideoNum - 1 /\ Len(ipcInfo) = VideoNum /\ toRead = "nothing"
        /\ \A j \in DOMAIN ipcInfo : InOrderLine(LineOf(j - 1))
    BY <1>8 DEF TableInv, AlarmsAreRead
  <2> HIDE DEF i
  <2>2. i \in Nat /\ i < Len(ipcInfo)
    BY <2>1, VideoNumIsNumber
  <2>3. InOrderLine(LineOf(i))
    BY <1>2, <2>1, <2>2
  <2>4. LineOf(i).nvr - 1 \in Recorders
    BY <1>5, <2>2, <2>3
  <2>5. i \in Range(lists[LineOf(i).nvr - 1])
    BY <1>4, <2>1, <2>2, <2>3, <2>4, Pairs
  <2>6. QED
    BY <2>4, <2>5 DEF i
<1>9. QED
  BY <1>6, <1>7, <1>8 DEF TableInv, TableAgrees

(* Buttons, page, recorders and alarms agree on who has which camera, for  *)
(* every configuration and however much of it could be read, up to the one *)
(* camera too many of a pair (STATE_Init, cctv::setUi,                     *)
(* recordManage::carNoChangeSlot, SearchBtnClicked).                       *)
THEOREM TableAlwaysAgrees == TableInit /\ [][TableNext]_cameraVars => []TableAgrees
<1>1. QED
  BY TableInitInv, TableStep, TableIsTrue, PTL

-----------------------------------------------------------------------------
(* FtpDialogue.                                                            *)

(* What the server may have said to the client's step: an answer to it, or *)
(* the 226 of a file before, which the client gave up waiting for, or the  *)
(* 226 that follows the 150.                                               *)
Answers(s) ==
    {Yes(s)} \cup (IF s[1] = "END" THEN {} ELSE {No(s)})
             \cup (IF s[1] = "USER" THEN {NoPassword(s)} ELSE {})
LateEnd(s) ==
    IF s[1] = "TYPE" THEN {Yes(<<"END", i>>) : i \in {j \in Int : j < s[2]}} ELSE {}
NextEnd(s) == IF s[1] = "RETR" THEN {Yes(<<"END", s[2]>>)} ELSE {}

(* As long as every size was waited for, nothing else is under way, the    *)
(* answers come in the order of the steps, and none to the step of which   *)
(* the command is still to be sent.                                        *)
OnTheWay ==
    LET s == Now IN
    /\ \A a \in Range(arrived) \cup Range(owed) :
          a \in Answers(s) \cup LateEnd(s) \cup NextEnd(s)
    /\ \A a \in Range(arrived), b \in Range(owed) : a \in Answers(s) => b \in NextEnd(s)
    /\ \A i, j \in DOMAIN owed : i < j =>
          owed[i] \notin NextEnd(s) /\ (owed[i] \in Answers(s) => owed[j] \in NextEnd(s))
    /\ s[1] = "END" => sent
    /\ ~sent => \A a \in Range(arrived) \cup Range(owed) : a \in LateEnd(s)

(* When it quits, nothing but the answer to that is taken for it.          *)
QuietQuit ==
    \A a \in Range(arrived) \cup Range(owed) : "221" \in Spells(a) => a = Yes(Now)

NoSizePassed == \A f \in 1 .. FtpFiles : <<"SIZE", f>> \notin passedOver

Codes == {"220", "331", "230", "213", "200", "227", "150", "226", "221", "550"}
OneAnswer == [to : Commands \X Int, code : Codes]

DialogueInv ==
    /\ step \in 1 .. QuitAt /\ sent \in BOOLEAN /\ served \in BOOLEAN
    /\ arrived \in Seq(OneAnswer) /\ owed \in Seq(OneAnswer)
    /\ (NoSizePassed /\ step # QuitAt /\ ~Over) => OnTheWay
    /\ (NoSizePassed /\ step = QuitAt /\ ~Over) => QuietQuit
    /\ OwnAnswers

(* The steps around a transfer.                                            *)
LEMMA Quarters ==
    \A n \in Nat : /\ n % 4 \in 0 .. 3 /\ n \div 4 \in Nat /\ n = 4 * (n \div 4) + (n % 4)
                   /\ n % 4 = 2 => (n + 1) % 4 = 3 /\ (n + 1) \div 4 = n \div 4
                   /\ n % 4 = 3 => (n + 1) % 4 = 0 /\ (n + 1) \div 4 = (n \div 4) + 1
                   /\ n % 4 = 0 => (n + 4) % 4 = 0 /\ (n + 4) \div 4 = (n \div 4) + 1
  OBVIOUS

LEMMA Files == FtpFiles \in Nat /\ FtpFiles >= 1 /\ QuitAt \in Nat /\ QuitAt >= 9
  BY DialogueAssumption DEF QuitAt

LEMMA StepForms ==
    ASSUME NEW p \in 1 .. QuitAt
    PROVE  LET n == p - 4 - FtpFiles IN
           /\ p = 1 => Script[p] = <<"HELLO", 0>>
           /\ p = 2 => Script[p] = <<"USER", 0>>
           /\ p = 3 => Script[p] = <<"PASS", 0>>
           /\ p > 3 /\ n < 0 => Script[p] = <<"SIZE", p - 3>>
           /\ n >= 0 /\ p < QuitAt => Script[p] = <<Fetch[(n % 4) + 1], (n \div 4) + 1>>
           /\ p = QuitAt => Script[p] = <<"QUIT", 0>>
<1> DEFINE n == p - 4 - FtpFiles
<1>1. Script[p] = CASE p = 1 -> <<"HELLO", 0>> [] p = 2 -> <<"USER", 0>> [] p = 3 -> <<"PASS", 0>>
                    [] p > 3 /\ n < 0 -> <<"SIZE", p - 3>>
                    [] n >= 0 /\ p < QuitAt -> <<Fetch[(n % 4) + 1], (n \div 4) + 1>>
                    [] p = QuitAt -> <<"QUIT", 0>>
  BY DEF Script
<1>2. /\ p = 1 \/ p = 2 \/ p = 3 => n < 0 /\ ~(p > 3) /\ p # QuitAt
      /\ p = QuitAt => n >= 0 /\ ~(p < QuitAt)
      /\ n < 0 => ~(n >= 0) /\ p # QuitAt
      /\ n >= 0 => ~(n < 0) /\ p # 1 /\ p # 2 /\ p # 3
      /\ p > 3 => p # 1 /\ p # 2 /\ p # 3
      /\ p < QuitAt => p # QuitAt
  BY Files DEF QuitAt
<1> HIDE DEF n
<1>3. QED
  BY <1>1, <1>2 DEF n

LEMMA FetchForm ==
    ASSUME NEW q \in 1 .. QuitAt, q < QuitAt, NEW m \in Nat, m = q - 4 - FtpFiles
    PROVE  Script[q] = <<Fetch[(m % 4) + 1], (m \div 4) + 1>>
<1>1. q - 4 - FtpFiles >= 0
  BY Files
<1>2. QED
  BY <1>1, StepForms

LEMMA CommandForms ==
    ASSUME NEW p \in 1 .. QuitAt
    PROVE  LET s == Script[p]
               n == p - 4 - FtpFiles
           IN  /\ s = <<s[1], s[2]>> /\ s[1] \in Commands /\ s[2] \in Int
               /\ s[1] = "QUIT" => p = QuitAt
               /\ s[1] = "USER" => p = 2
               /\ s[1] = "SIZE" => s[2] \in 1 .. FtpFiles
               /\ s[1] = "TYPE" => n \in Nat /\ p < QuitAt /\ n % 4 = 0 /\ s[2] = (n \div 4) + 1
               /\ s[1] = "RETR" => n \in Nat /\ p < QuitAt /\ n % 4 = 2 /\ s[2] = (n \div 4) + 1
               /\ s[1] = "END" => n \in Nat /\ p < QuitAt /\ n % 4 = 3 /\ s[2] = (n \div 4) + 1
<1> DEFINE n == p - 4 - FtpFiles
<1>1. p \in Nat /\ n \in Int
  BY Files
<1>2. CASE p \in {1, 2, 3, QuitAt}
  BY <1>2, StepForms, Files DEF Commands
<1>3. CASE p > 3 /\ n < 0
  <2>1. Script[p] = <<"SIZE", p - 3>> /\ p - 3 \in 1 .. FtpFiles /\ p - 3 \in Int
    BY <1>1, <1>3, StepForms, Files
  <2>2. QED
    BY <2>1 DEF Commands
<1>4. CASE n >= 0 /\ p < QuitAt
  <2>1. Script[p] = <<Fetch[(n % 4) + 1], (n \div 4) + 1>> /\ n \in Nat
    BY <1>1, <1>4, StepForms
  <2>2. n % 4 \in 0 .. 3 /\ n \div 4 \in Nat
    BY <2>1, Quarters
  <2>3. /\ n % 4 = 0 => Fetch[(n % 4) + 1] = "TYPE"
        /\ n % 4 = 1 => Fetch[(n % 4) + 1] = "PASV"
        /\ n % 4 = 2 => Fetch[(n % 4) + 1] = "RETR"
        /\ n % 4 = 3 => Fetch[(n % 4) + 1] = "END"
    BY DEF Fetch
  <2>4. n % 4 = 0 \/ n % 4 = 1 \/ n % 4 = 2 \/ n % 4 = 3
    BY <2>2
  <2> HIDE DEF n
  <2>5. QED
    BY <1>4, <2>1, <2>2, <2>3, <2>4 DEF Commands, n
<1>5. QED
  BY <1>1, <1>2, <1>3, <1>4, Files

(* What comes next: after the 150 the 226 of the same file, after the 226  *)
(* the next file or the end, and after a login without a password a size.  *)
LEMMA NextStep ==
    ASSUME NEW p \in 1 .. QuitAt, p # QuitAt
    PROVE  /\ p + 1 \in 1 .. QuitAt
           /\ Script[p][1] = "RETR" => Script[p + 1] = <<"END", Script[p][2]>>
           /\ Script[p][1] = "END" =>
                p + 1 = QuitAt \/ Script[p + 1] = <<"TYPE", Script[p][2] + 1>>
           /\ Script[p][1] = "USER" => p + 2 \in 1 .. QuitAt /\ p + 2 # QuitAt
           /\ p + 1 = QuitAt => Script[p][1] = "END"
           /\ Script[p][1] = "TYPE" =>
                /\ p + 4 \in 1 .. QuitAt
                /\ p + 4 = QuitAt \/ Script[p + 4] = <<"TYPE", Script[p][2] + 1>>
<1> DEFINE n == p - 4 - FtpFiles
<1>1. p \in Nat /\ n \in Int /\ p + 1 \in 1 .. QuitAt /\ p + 1 - 4 - FtpFiles = n + 1
  BY Files
<1>2. ASSUME Script[p][1] = "RETR"
      PROVE  Script[p + 1] = <<"END", Script[p][2]>>
  <2>1. n \in Nat /\ p < QuitAt /\ n % 4 = 2 /\ Script[p][2] = (n \div 4) + 1
    BY <1>2, CommandForms
  <2>2. (n + 1) % 4 = 3 /\ (n + 1) \div 4 = n \div 4
    BY <2>1, Quarters
  <2>3. p + 1 < QuitAt
    <3>1. p = n + 4 + FtpFiles /\ n = 4 * (n \div 4) + 2
      BY <1>1, <2>1, Quarters, Files
    <3>2. QED
      BY <2>1, <3>1, Files DEF QuitAt
  <2>4. n + 1 \in Nat
    BY <2>1
  <2>5. Script[p + 1] = <<Fetch[((n + 1) % 4) + 1], ((n + 1) \div 4) + 1>>
    BY <1>1, <2>3, <2>4, FetchForm, Files
  <2>6. Fetch[3 + 1] = "END"
    BY DEF Fetch
  <2>7. QED
    BY <2>1, <2>2, <2>5, <2>6
<1>3. ASSUME Script[p][1] = "END", p + 1 # QuitAt
      PROVE  Script[p + 1] = <<"TYPE", Script[p][2] + 1>>
  <2>1. n \in Nat /\ p < QuitAt /\ n % 4 = 3 /\ Script[p][2] = (n \div 4) + 1
    BY <1>3, CommandForms
  <2>2. (n + 1) % 4 = 0 /\ (n + 1) \div 4 = (n \div 4) + 1
    BY <2>1, Quarters
  <2>3. Script[p + 1] = <<Fetch[((n + 1) % 4) + 1], ((n + 1) \div 4) + 1>>
    <3>1. p + 1 < QuitAt /\ n + 1 \in Nat
      BY <1>1, <1>3, <2>1, Files
    <3>2. QED
      BY <1>1, <3>1, FetchForm, Files
  <2>4. Fetch[0 + 1] = "TYPE"
    BY DEF Fetch
  <2>5. QED
    BY <2>1, <2>2, <2>3, <2>4
<1>4. Script[p][1] = "USER" => p + 2 \in 1 .. QuitAt /\ p + 2 # QuitAt
  BY CommandForms, Files
<1>5. ASSUME p + 1 = QuitAt
      PROVE  Script[p][1] = "END"
  <2>1. n = 4 * (FtpFiles - 1) + 3 /\ FtpFiles - 1 \in Nat /\ n \in Nat /\ p < QuitAt
    BY <1>1, <1>5, Files DEF QuitAt
  <2>2. n % 4 = 3
    BY <2>1
  <2>3. Script[p] = <<Fetch[(n % 4) + 1], (n \div 4) + 1>>
    BY <2>1, FetchForm, Files
  <2>4. Fetch[3 + 1] = "END"
    BY DEF Fetch
  <2>5. QED
    BY <2>2, <2>3, <2>4
<1>6. ASSUME Script[p][1] = "TYPE"
      PROVE  /\ p + 4 \in 1 .. QuitAt
             /\ p + 4 = QuitAt \/ Script[p + 4] = <<"TYPE", Script[p][2] + 1>>
  <2>1. n \in Nat /\ p < QuitAt /\ n % 4 = 0 /\ Script[p][2] = (n \div 4) + 1
    BY <1>6, CommandForms
  <2>2. n = 4 * (n \div 4) /\ n \div 4 \in Nat /\ (n + 4) % 4 = 0 /\ (n + 4) \div 4 = (n \div 4) + 1
    BY <2>1, Quarters
  <2>3. p = 4 * (n \div 4) + 4 + FtpFiles
    BY <1>1, <2>2, Files
  <2>4. p + 4 <= QuitAt
    <3>1. \A k, F \in Nat : 4 * k + 4 + F < 5 * F + 4 => 4 * k + 8 + F <= 5 * F + 4
      OBVIOUS
    <3>2. QED
      BY <2>1, <2>2, <2>3, <3>1, Files DEF QuitAt
  <2>5. p + 4 \in 1 .. QuitAt /\ n + 4 = p + 4 - 4 - FtpFiles /\ n + 4 \in Nat
    BY <1>1, <2>1, <2>4, Files
  <2>6. CASE p + 4 # QuitAt
    <3>1. Script[p + 4] = <<Fetch[((n + 4) % 4) + 1], ((n + 4) \div 4) + 1>>
      <4>1. p + 4 < QuitAt
        BY <1>1, <2>4, <2>6, Files
      <4> HIDE DEF n
      <4>2. \A q \in 1 .. QuitAt : \A m \in Nat : q < QuitAt /\ m = q - 4 - FtpFiles =>
              Script[q] = <<Fetch[(m % 4) + 1], (m \div 4) + 1>>
        BY FetchForm
      <4>3. PICK q \in 1 .. QuitAt : q = p + 4
        BY <2>5
      <4>4. PICK m \in Nat : m = n + 4
        BY <2>5
      <4>5. q < QuitAt /\ m = q - 4 - FtpFiles
        BY <2>5, <4>1, <4>3, <4>4, Files
      <4>6. Script[q] = <<Fetch[(m % 4) + 1], (m \div 4) + 1>>
        BY <4>2, <4>5
      <4>7. QED
        BY <4>3, <4>4, <4>6
    <3>2. Fetch[0 + 1] = "TYPE"
      BY DEF Fetch
    <3>3. QED
      BY <2>1, <2>2, <2>5, <3>1, <3>2
  <2>7. QED
    BY <2>5, <2>6
<1>7. QED
  BY <1>1, <1>2, <1>3, <1>4, <1>5, <1>6

LEMMA CodeOf ==
    /\ Code["HELLO"] = "220" /\ Code["USER"] = "331" /\ Code["PASS"] = "230"
    /\ Code["SIZE"] = "213" /\ Code["TYPE"] = "200" /\ Code["PASV"] = "227"
    /\ Code["RETR"] = "150" /\ Code["END"] = "226" /\ Code["QUIT"] = "221"
    /\ \A c \in Commands : Code[c] \in Codes /\ Code[c] # "550"
<1>1. /\ Code["HELLO"] = "220" /\ Code["USER"] = "331" /\ Code["PASS"] = "230"
      /\ Code["SIZE"] = "213" /\ Code["TYPE"] = "200" /\ Code["PASV"] = "227"
      /\ Code["RETR"] = "150" /\ Code["END"] = "226" /\ Code["QUIT"] = "221"
  BY DEF Code, Commands
<1>2. QED
  BY <1>1 DEF Commands, Codes

(* Of the answers that may be on the way only the own one is taken for it, *)
(* whatever codes the numbers in it spell.                                 *)
LEMMA OwnIsTaken ==
    ASSUME NEW s \in Commands \X Int,
           NEW a \in Answers(s) \cup LateEnd(s) \cup NextEnd(s), Code[s[1]] \in Spells(a)
    PROVE  a = Yes(s)
<1>1. s[1] \in Commands
  OBVIOUS
<1>2. CASE a = No(s)
  <2>1. a # Yes(a.to) /\ a.code = "550"
    BY <1>1, <1>2, CodeOf DEF No, Yes
  <2>2. Spells(a) = {"550"}
    BY <2>1 DEF Spells
  <2>3. QED
    BY <1>1, <2>2, CodeOf
<1>3. CASE s[1] = "USER" /\ a = NoPassword(s)
  <2>1. a # Yes(a.to) /\ a.code = "230"
    BY <1>3, CodeOf DEF NoPassword, Yes
  <2>2. Spells(a) = {"230"}
    BY <2>1 DEF Spells
  <2>3. QED
    BY <1>3, <2>2, CodeOf
<1>4. ASSUME NEW i \in Int, a = Yes(<<"END", i>>), s[1] \in {"TYPE", "RETR"}
      PROVE  FALSE
  <2>1. a.to = <<"END", i>> /\ a.code = "226"
    BY <1>4, CodeOf DEF Yes
  <2>2. a.to \notin DOMAIN Digits
    BY <2>1, DialogueAssumption
  <2>3. Spells(a) = {"226"}
    BY <2>1, <2>2 DEF Spells
  <2>4. QED
    BY <1>4, <2>3, CodeOf
<1>5. s[2] \in Int
  OBVIOUS
<1>6. QED
  BY <1>2, <1>3, <1>4, <1>5 DEF Answers, LateEnd, NextEnd

(* None of the answers on the way to a step that may be followed by the    *)
(* QUIT is taken for the answer to that.                                   *)
LEMMA NoneQuits ==
    ASSUME NEW s \in Commands \X Int, s[1] \notin {"SIZE", "PASV", "QUIT"},
           NEW a \in Answers(s) \cup LateEnd(s) \cup NextEnd(s)
    PROVE  "221" \notin Spells(a)
<1>1. s[1] \in Commands /\ s[2] \in Int
  OBVIOUS
<1>2. a.to \notin DOMAIN Digits /\ a.code # "221"
  <2>1. a.to = s \/ \E i \in Int : a = Yes(<<"END", i>>)
    BY <1>1 DEF Answers, LateEnd, NextEnd, Yes, No, NoPassword
  <2>2. ASSUME NEW i \in Int, a = Yes(<<"END", i>>)
        PROVE  a.to \notin DOMAIN Digits /\ a.code # "221"
    <3>1. a.to = <<"END", i>> /\ a.code = "226"
      BY <2>2, CodeOf DEF Yes
    <3>2. QED
      BY <3>1, DialogueAssumption
  <2>3. a = Yes(s) \/ a = No(s) \/ (a = NoPassword(s) /\ s[1] = "USER")
        \/ \E i \in Int : a = Yes(<<"END", i>>)
    BY <1>1 DEF Answers, LateEnd, NextEnd
  <2>4. ASSUME a = Yes(s) \/ a = No(s) \/ a = NoPassword(s)
        PROVE  a.to \notin DOMAIN Digits
    <3>1. a.to = s
      BY <2>4 DEF Yes, No, NoPassword
    <3>2. QED
      BY <3>1, DialogueAssumption
  <2>5. (a = Yes(s) => a.code = Code[s[1]]) /\ (a = No(s) => a.code = "550")
        /\ (a = NoPassword(s) => a.code = "230")
    BY DEF Yes, No, NoPassword
  <2>6. Code[s[1]] # "221"
    BY <1>1, CodeOf DEF Commands
  <2>7. QED
    BY <2>2, <2>3, <2>4, <2>5, <2>6
<1>3. QED
  BY <1>2 DEF Spells

(* The three kinds of answers are different, and the 226 on the way is the *)
(* own answer of END, and the late one of the next file's TYPE.            *)
LEMMA Kinds ==
    ASSUME NEW s \in Commands \X Int
    PROVE  /\ Answers(s) \cap LateEnd(s) = {} /\ Answers(s) \cap NextEnd(s) = {}
           /\ LateEnd(s) = {} \/ NextEnd(s) = {}
           /\ s[1] = "RETR" => NextEnd(s) = Answers(<<"END", s[2]>>)
           /\ s[1] = "END" => /\ Answers(s) \subseteq LateEnd(<<"TYPE", s[2] + 1>>)
                              /\ LateEnd(s) = {} /\ NextEnd(s) = {}
           /\ s[1] # "RETR" => NextEnd(s) = {}
<1>1. s = <<s[1], s[2]>> /\ s[1] \in Commands /\ s[2] \in Int
  OBVIOUS
<1>2. \A a \in Answers(s) : a.to = s
  BY DEF Answers, Yes, No, NoPassword
<1>3. \A a \in LateEnd(s) : a.to[1] = "END" /\ s[1] = "TYPE"
  BY DEF LateEnd, Yes
<1>4. \A a \in NextEnd(s) : a.to = <<"END", s[2]>> /\ s[1] = "RETR"
  BY DEF NextEnd, Yes
<1>5. /\ s[1] = "RETR" => s # <<"END", s[2]>>
  BY <1>1
<1>6. s[1] = "RETR" => NextEnd(s) = Answers(<<"END", s[2]>>)
  BY DEF NextEnd, Answers
<1>7. ASSUME s[1] = "END"
      PROVE  Answers(s) \subseteq LateEnd(<<"TYPE", s[2] + 1>>)
  <2>1. s[2] \in Int /\ s[2] < s[2] + 1 /\ s = <<"END", s[2]>>
    BY <1>1, <1>7
  <2>2. LateEnd(<<"TYPE", s[2] + 1>>) = {Yes(<<"END", i>>) : i \in {j \in Int : j < s[2] + 1}}
    BY DEF LateEnd
  <2>3. Answers(s) = {Yes(s)}
    BY <1>7 DEF Answers
  <2>4. QED
    BY <2>1, <2>2, <2>3
<1>8. QED
  BY <1>2, <1>3, <1>4, <1>5, <1>6, <1>7

(* What the server answers to a command.                                   *)
LEMMA RepliesAre ==
    ASSUME NEW s \in Commands \X Int, NEW r \in Replies(s)
    PROVE  /\ r \in Seq(OneAnswer) /\ Len(r) \in {1, 2}
           /\ s[1] # "END" => r[1] \in Answers(s)
           /\ Len(r) = 2 => r[2] \in NextEnd(s)
<1>1. s[1] \in Commands /\ s[2] \in Int
  OBVIOUS
<1>2. Yes(s) \in OneAnswer /\ No(s) \in OneAnswer /\ NoPassword(s) \in OneAnswer
      /\ Yes(<<"END", s[2]>>) \in OneAnswer
  BY <1>1, CodeOf DEF Yes, No, NoPassword, OneAnswer, Codes, Commands
<1>3. /\ s[1] # "END" => Yes(s) \in Answers(s) /\ No(s) \in Answers(s)
      /\ s[1] = "USER" => NoPassword(s) \in Answers(s)
      /\ s[1] = "RETR" => Yes(<<"END", s[2]>>) \in NextEnd(s)
  BY DEF Answers, NextEnd
<1>4. \/ r = <<No(s)>> \/ r = <<Yes(s)>>
      \/ s[1] = "USER" /\ r = <<NoPassword(s)>>
      \/ s[1] = "RETR" /\ r = <<Yes(s), Yes(<<"END", s[2]>>)>>
  BY DEF Replies
<1>5. ASSUME NEW x \in OneAnswer, r = <<x>>
      PROVE  r \in Seq(OneAnswer) /\ Len(r) = 1 /\ r[1] = x
  BY <1>5
<1>6. ASSUME NEW x \in OneAnswer, NEW y \in OneAnswer, r = <<x, y>>
      PROVE  r \in Seq(OneAnswer) /\ Len(r) = 2 /\ r[1] = x /\ r[2] = y
  BY <1>6
<1>7. \/ \E x \in OneAnswer : r = <<x>> /\ (s[1] # "END" => x \in Answers(s))
      \/ \E x \in OneAnswer, y \in OneAnswer :
           /\ r = <<x, y>> /\ y \in NextEnd(s)
           /\ s[1] # "END" => x \in Answers(s)
  BY <1>2, <1>3, <1>4
<1>8. ASSUME NEW x \in OneAnswer, r = <<x>>, s[1] # "END" => x \in Answers(s)
      PROVE  /\ r \in Seq(OneAnswer) /\ Len(r) \in {1, 2}
             /\ s[1] # "END" => r[1] \in Answers(s)
             /\ Len(r) = 2 => r[2] \in NextEnd(s)
  BY <1>5, <1>8
<1>9. ASSUME NEW x \in OneAnswer, NEW y \in OneAnswer, r = <<x, y>>, y \in NextEnd(s),
             s[1] # "END" => x \in Answers(s)
      PROVE  /\ r \in Seq(OneAnswer) /\ Len(r) \in {1, 2}
             /\ s[1] # "END" => r[1] \in Answers(s)
             /\ Len(r) = 2 => r[2] \in NextEnd(s)
  BY <1>6, <1>9
<1>10. QED
  BY <1>7, <1>8, <1>9

LEMMA NowIs ==
    ASSUME step \in 1 .. QuitAt
    PROVE  Now \in Commands \X Int /\ (Now[1] = "QUIT" <=> step = QuitAt)
<1>1. Now = <<Now[1], Now[2]>> /\ Now[1] \in Commands /\ Now[2] \in Int
      /\ (Now[1] = "QUIT" => step = QuitAt)
  BY CommandForms DEF Now
<1>2. step = QuitAt => Now = <<"QUIT", 0>>
  BY StepForms DEF Now
<1>3. QED
  BY <1>1, <1>2

(* What the client does when it has heard, or has given up: it comes to    *)
(* the next step, or skips one, or quits, or ends.                         *)
LEMMA GoesOn ==
    ASSUME step \in 1 .. QuitAt, sent \in BOOLEAN, NEW ok \in BOOLEAN, NEW said, Goes(ok, said)
    PROVE  /\ step' \in 1 .. QuitAt /\ sent' \in BOOLEAN
           /\ passedOver \subseteq passedOver'
           /\ step = QuitAt => Over'
           /\ NoSizePassed' /\ step # QuitAt /\ step' = QuitAt /\ ~Over' =>
                Now[1] \in {"USER", "PASS", "RETR", "END"}
           /\ NoSizePassed' /\ step # QuitAt /\ step' # QuitAt /\ ~Over' =>
                \/ /\ ok \/ Now[1] = "END"
                   /\ step' = step + 1 /\ sent' = (Now'[1] = "END")
                \/ /\ Now[1] = "USER" /\ "230" \in said
                   /\ step' = step + 2 /\ sent' = (Now'[1] = "END")
<1>1. CASE step = QuitAt
  <2>1. Now[1] = "QUIT"
    BY <1>1, NowIs
  <2>2. Quit
    BY <2>1 DEF Goes
  <2>3. QED
    BY <1>1, <2>2 DEF Quit, Over
<1>2. CASE step # QuitAt
  <2>1. Now[1] \in Commands \ {"QUIT"} /\ step + 1 \in 1 .. QuitAt
        /\ (Now[1] = "USER" => step + 2 \in 1 .. QuitAt /\ step + 2 # QuitAt)
        /\ (step + 1 = QuitAt => Now[1] = "END") /\ QuitAt \in 1 .. QuitAt
    <3>1. Now \in Commands \X Int /\ Now[1] # "QUIT"
      BY <1>2, NowIs
    <3>2. Now[1] \in Commands
      BY <3>1
    <3>3. QED
      BY <1>2, <3>1, <3>2, NextStep, Files DEF Now
  <2>2. ASSUME NEW to \in 1 .. QuitAt, Advance(to)
        PROVE  step' = to /\ sent' = (Now'[1] = "END") /\ sent' \in BOOLEAN
    <3>1. step' = to /\ sent' = (Script[to][1] = "END")
      BY <2>2 DEF Advance
    <3>2. Now' = Script[to]
      BY <3>1 DEF Now
    <3>3. QED
      BY <3>1, <3>2
  <2>3. CASE Now[1] \in {"HELLO", "USER", "PASS"}
    <3>1. ServerLogin(ok, said)
      BY <2>3 DEF Goes
    <3>2. passedOver' = passedOver
      BY <3>1 DEF ServerLogin
    <3>3. \/ ok /\ Advance(step + 1)
          \/ Now[1] = "USER" /\ "230" \in said /\ Advance(step + 2)
          \/ login' = "freed" /\ step' = step /\ sent' = sent
          \/ Now[1] # "HELLO" /\ Advance(QuitAt)
      BY <3>1 DEF ServerLogin
    <3>4. login' = "freed" => Over'
      BY DEF Over
    <3>5. CASE ok /\ Advance(step + 1)
      BY <1>2, <2>1, <2>2, <3>2, <3>5
    <3>6. CASE Now[1] = "USER" /\ "230" \in said /\ Advance(step + 2)
      BY <1>2, <2>1, <2>2, <3>2, <3>6
    <3>7. CASE Now[1] # "HELLO" /\ Advance(QuitAt)
      BY <1>2, <2>1, <2>2, <2>3, <3>2, <3>7
    <3>8. CASE login' = "freed" /\ step' = step /\ sent' = sent
      BY <1>2, <3>2, <3>4, <3>8
    <3>9. QED
      BY <3>3, <3>5, <3>6, <3>7, <3>8
  <2>4. CASE Now[1] = "SIZE"
    <3>1. GetFileSize(ok)
      BY <2>4 DEF Goes
    <3>2. Advance(step + 1) /\ passedOver' = IF ok THEN passedOver ELSE passedOver \cup {Now}
      BY <3>1 DEF GetFileSize, PassOver
    <3>3. ASSUME ~ok
          PROVE  ~NoSizePassed'
      <4>1. Now = <<"SIZE", Now[2]>> /\ Now[2] \in 1 .. FtpFiles
        BY <2>4, CommandForms DEF Now
      <4>2. Now \in passedOver'
        BY <3>2, <3>3
      <4>3. QED
        BY <4>1, <4>2 DEF NoSizePassed
    <3>4. QED
      BY <1>2, <2>1, <2>2, <3>2, <3>3
  <2>5. CASE Now[1] \in {"TYPE", "PASV", "RETR", "END"}
    <3>1. DownloadFile(ok)
      BY <2>5 DEF Goes
    <3>2. passedOver \subseteq passedOver'
      BY <3>1 DEF DownloadFile, PassOver
    <3>3. \/ (ok \/ Now[1] = "END") /\ Advance(step + 1)
          \/ Now[1] = "RETR" /\ Advance(QuitAt)
          \/ login' = "closed" /\ step' = step /\ sent' = sent
      BY <3>1 DEF DownloadFile, DataConnection, Transfer, DestoryConnect, DestoryConnect2
    <3>4. CASE (ok \/ Now[1] = "END") /\ Advance(step + 1)
      BY <1>2, <2>1, <2>2, <3>2, <3>4
    <3>5. CASE Now[1] = "RETR" /\ Advance(QuitAt)
      BY <1>2, <2>1, <2>2, <3>2, <3>5
    <3>6. CASE login' = "closed" /\ step' = step /\ sent' = sent
      BY <1>2, <3>2, <3>6 DEF Over
    <3>7. QED
      BY <3>3, <3>4, <3>5, <3>6
  <2>6. QED
    BY <2>1, <2>3, <2>4, <2>5 DEF Commands
<1>3. QED
  BY <1>1, <1>2

(* Nothing that was on the way is taken for the answer to the QUIT.        *)
LEMMA QuitsQuietly ==
    ASSUME DialogueInv, ~Over, NEW ok \in BOOLEAN, NEW said, Goes(ok, said),
           Range(arrived') \cup Range(owed') \subseteq Range(arrived) \cup Range(owed),
           NoSizePassed', step' = QuitAt, ~Over'
    PROVE  QuietQuit'
<1>1. step \in 1 .. QuitAt /\ sent \in BOOLEAN /\ Now \in Commands \X Int
  BY NowIs DEF DialogueInv
<1>2. /\ step # QuitAt /\ Now[1] \in {"USER", "PASS", "RETR", "END"}
      /\ passedOver \subseteq passedOver'
  BY <1>1, GoesOn
<1>3. OnTheWay
  BY <1>2 DEF DialogueInv, NoSizePassed
<1>4. \A a \in Range(arrived) \cup Range(owed) : "221" \notin Spells(a)
  BY <1>1, <1>2, <1>3, NoneQuits DEF OnTheWay
<1>5. \A a \in Range(arrived') \cup Range(owed') : "221" \notin Spells(a)
  BY <1>4
<1>6. QED
  BY <1>5 DEF QuietQuit, Spells

LEMMA DialogueInitInv == FtpInit => DialogueInv
<1> SUFFICES ASSUME FtpInit PROVE DialogueInv
  OBVIOUS
<1>1. step = 1 /\ step \in 1 .. QuitAt /\ Now = <<"HELLO", 0>> /\ sent = TRUE
  BY Files, StepForms DEF FtpInit, Now
<1>2. Yes(Now) \in OneAnswer /\ Yes(Now) \in Answers(Now)
  BY <1>1, CodeOf DEF Yes, OneAnswer, Answers, Codes, Commands
<1>3. arrived = <<>> /\ Range(arrived) = {} /\ arrived \in Seq(OneAnswer)
  BY DEF FtpInit, Range
<1>4. /\ owed \in Seq(OneAnswer) /\ \A b \in Range(owed) : b = Yes(Now)
      /\ \A i, j \in DOMAIN owed : ~(i < j)
  <2>1. CASE served
    <3>1. owed = <<Yes(Now)>>
      BY <2>1 DEF FtpInit, Now
    <3>2. Len(owed) = 1 /\ DOMAIN owed = {1} /\ owed[1] = Yes(Now) /\ owed \in Seq(OneAnswer)
      BY <1>2, <3>1
    <3>3. QED
      BY <3>2 DEF Range
  <2>2. CASE ~served
    <3>1. owed = <<>>
      BY <2>2 DEF FtpInit
    <3>2. QED
      BY <3>1 DEF Range
  <2>3. QED
    BY <2>1, <2>2
<1>5. OnTheWay
  BY <1>1, <1>2, <1>3, <1>4 DEF OnTheWay
<1>6. OwnAnswers
  BY DEF FtpInit, OwnAnswers
<1>7. step # QuitAt
  BY <1>1, Files
<1>8. QED
  BY <1>1, <1>3, <1>4, <1>5, <1>6, <1>7 DEF DialogueInv, FtpInit

LEMMA DeliverKeeps ==
    ASSUME DialogueInv, Deliver
    PROVE  DialogueInv'
<1>1. /\ owed # <<>> /\ arrived' = Append(arrived, Head(owed)) /\ owed' = Tail(owed)
      /\ UNCHANGED <<step, sent, served, login, passedOver, foreign>>
  BY DEF Deliver
<1>2. /\ owed \in Seq(OneAnswer) /\ arrived \in Seq(OneAnswer)
      /\ Len(owed) \in Nat /\ DOMAIN owed = 1 .. Len(owed)
      /\ Len(arrived) \in Nat /\ DOMAIN arrived = 1 .. Len(arrived)
  BY LenProperties DEF DialogueInv
<1>3. /\ 1 \in DOMAIN owed /\ Head(owed) = owed[1] /\ Head(owed) \in OneAnswer
      /\ owed' \in Seq(OneAnswer) /\ Len(owed') = Len(owed) - 1
      /\ \A j \in 1 .. Len(owed') : owed'[j] = owed[j + 1]
  <2>1. /\ Head(owed) \in OneAnswer /\ Tail(owed) \in Seq(OneAnswer) /\ Len(Tail(owed)) = Len(owed) - 1
        /\ \A j \in 1 .. Len(Tail(owed)) : Tail(owed)[j] = owed[j + 1]
    BY <1>1, <1>2, HeadTailProperties
  <2>2. Len(owed) # 0
    BY <1>1, <1>2, EmptySeq
  <2>3. 1 \in DOMAIN owed
    BY <1>2, <2>2
  <2>4. QED
    BY <1>1, <2>1, <2>3
<1>4. DOMAIN owed' = 1 .. Len(owed')
  BY <1>3, LenProperties
<1>5. \A j \in DOMAIN owed' : j + 1 \in DOMAIN owed /\ owed'[j] = owed[j + 1] /\ 1 < j + 1
  BY <1>2, <1>3, <1>4
<1>6. \A i, j \in DOMAIN owed' : i < j => i + 1 < j + 1
  BY <1>4
<1>7. arrived' \in Seq(OneAnswer) /\ \A a \in Range(arrived') : a \in Range(arrived) \/ a = owed[1]
  <2>1. /\ arrived' \in Seq(OneAnswer) /\ Len(arrived') = Len(arrived) + 1
        /\ \A i \in 1 .. Len(arrived) : arrived'[i] = arrived[i]
        /\ arrived'[Len(arrived) + 1] = owed[1]
    BY <1>1, <1>2, <1>3, AppendProperties
  <2>2. DOMAIN arrived' = 1 .. Len(arrived) + 1
    BY <2>1, LenProperties
  <2>3. QED
    BY <1>2, <2>1, <2>2 DEF Range
<1>8. \A b \in Range(owed') : b \in Range(owed)
  BY <1>5 DEF Range
<1>9. owed[1] \in Range(owed)
  BY <1>3 DEF Range
<1>10. Now' = Now /\ NoSizePassed' = NoSizePassed /\ Over' = Over
  BY <1>1 DEF Now, NoSizePassed, Over
<1>11. ASSUME OnTheWay
       PROVE  OnTheWay'
  <2> DEFINE s == Now
  <2>1. \A a \in Range(arrived') \cup Range(owed') : a \in Range(arrived) \cup Range(owed)
    BY <1>7, <1>8, <1>9
  <2>2. \A b \in Range(owed') : owed[1] \in Answers(s) => b \in NextEnd(s)
    <3>1. ASSUME NEW j \in DOMAIN owed', owed[1] \in Answers(s)
          PROVE  owed'[j] \in NextEnd(s)
      BY <1>3, <1>5, <1>11, <3>1 DEF OnTheWay
    <3>2. QED
      BY <3>1 DEF Range
  <2>3. \A a \in Range(arrived'), b \in Range(owed') : a \in Answers(s) => b \in NextEnd(s)
    BY <1>7, <1>8, <1>11, <2>2 DEF OnTheWay
  <2>4. \A i, j \in DOMAIN owed' : i < j =>
          owed'[i] \notin NextEnd(s) /\ (owed'[i] \in Answers(s) => owed'[j] \in NextEnd(s))
    BY <1>5, <1>6, <1>11 DEF OnTheWay
  <2> HIDE DEF s
  <2>5. \A a \in Range(arrived') \cup Range(owed') : a \in Answers(s) \cup LateEnd(s) \cup NextEnd(s)
    BY <1>11, <2>1 DEF OnTheWay, s
  <2>6. sent' = sent /\ Now' = s
    BY <1>1, <1>10 DEF s
  <2>7. (s[1] = "END" => sent)
        /\ (~sent => \A a \in Range(arrived') \cup Range(owed') : a \in LateEnd(s))
    BY <1>11, <2>1 DEF OnTheWay, s
  <2>8. QED
    BY <2>3, <2>4, <2>5, <2>6, <2>7 DEF OnTheWay
<1>12. OwnAnswers'
  BY <1>1 DEF DialogueInv, OwnAnswers
<1>13. QuietQuit => QuietQuit'
  BY <1>7, <1>8, <1>9, <1>10 DEF QuietQuit, Spells
<1>14. QED
  BY <1>1, <1>3, <1>7, <1>10, <1>11, <1>12, <1>13 DEF DialogueInv

LEMMA SendKeeps ==
    ASSUME DialogueInv, Send
    PROVE  DialogueInv'
<1>1. ~Over /\ ~sent /\ UNCHANGED <<served, arrived, foreign>>
  BY DEF Send
<1>2. /\ step \in 1 .. QuitAt /\ sent \in BOOLEAN /\ Now \in Commands \X Int
      /\ arrived \in Seq(OneAnswer) /\ owed \in Seq(OneAnswer)
      /\ Len(owed) \in Nat /\ DOMAIN owed = 1 .. Len(owed)
  BY NowIs, LenProperties DEF DialogueInv
<1>3. ASSUME sent' = TRUE, UNCHANGED <<step, login, passedOver>>, NEW r \in Replies(Now),
             owed' = owed \o r
      PROVE  DialogueInv'
  <2>1. Now' = Now /\ NoSizePassed' = NoSizePassed /\ Over' = Over /\ OwnAnswers'
    BY <1>1, <1>3 DEF Now, NoSizePassed, Over, OwnAnswers, DialogueInv
  <2>2. CASE NoSizePassed /\ step # QuitAt
    <3> DEFINE s == Now
               m == Len(owed)
    <3>1. OnTheWay
      BY <1>1, <2>2 DEF DialogueInv
    <3>2. s[1] # "END"
      BY <1>1, <3>1 DEF OnTheWay
    <3>3. /\ r \in Seq(OneAnswer) /\ Len(r) \in {1, 2} /\ r[1] \in Answers(s)
          /\ (Len(r) = 2 => r[2] \in NextEnd(s))
      BY <1>2, <3>2, RepliesAre
    <3>4. /\ owed' \in Seq(OneAnswer) /\ Len(owed') = m + Len(r)
          /\ \A i \in 1 .. m + Len(r) : owed'[i] = IF i <= m THEN owed[i] ELSE r[i - m]
      BY <1>2, <1>3, <3>3, ConcatProperties
    <3>5. DOMAIN owed' = 1 .. m + Len(r)
      BY <3>4, LenProperties
    <3>6. /\ \A a \in Range(arrived) \cup Range(owed) : a \in LateEnd(s)
          /\ Answers(s) \cap LateEnd(s) = {} /\ Answers(s) \cap NextEnd(s) = {}
          /\ LateEnd(s) = {} \/ NextEnd(s) = {}
      BY <1>1, <1>2, <3>1, Kinds DEF OnTheWay
    <3>7. \A i \in 1 .. m : owed[i] \in LateEnd(s)
      BY <1>2, <3>6 DEF Range
    <3> HIDE DEF s
    <3>8. ASSUME NEW i \in DOMAIN owed'
          PROVE  \/ i <= m /\ owed'[i] \in LateEnd(s)
                 \/ i = m + 1 /\ owed'[i] \in Answers(s)
                 \/ i = m + 2 /\ owed'[i] \in NextEnd(s)
      <4>1. CASE i <= m
        <5>1. i \in 1 .. m
          BY <1>2, <3>5, <3>8, <4>1
        <5>2. QED
          BY <3>4, <3>5, <3>7, <4>1, <5>1
      <4>2. CASE ~(i <= m)
        <5>1. i - m \in 1 .. Len(r) /\ owed'[i] = r[i - m]
          BY <1>2, <3>3, <3>4, <3>5, <3>8, <4>2
        <5>2. (i - m = 1 /\ i = m + 1) \/ (i - m = 2 /\ i = m + 2 /\ Len(r) = 2)
          BY <1>2, <3>3, <3>5, <3>8, <5>1
        <5>3. QED
          BY <3>3, <5>1, <5>2
      <4>3. QED
        BY <4>1, <4>2
    <3>9. \A i \in DOMAIN owed' : i \in Nat
      BY <3>5
    <3> HIDE DEF m
    <3>10. \A i, j \in DOMAIN owed' : i < j =>
             owed'[i] \notin NextEnd(s) /\ (owed'[i] \in Answers(s) => owed'[j] \in NextEnd(s))
      <4>1. SUFFICES ASSUME NEW i \in DOMAIN owed', NEW j \in DOMAIN owed', i < j
                     PROVE  /\ owed'[i] \notin NextEnd(s)
                            /\ owed'[i] \in Answers(s) => owed'[j] \in NextEnd(s)
        OBVIOUS
      <4>2. m \in Nat /\ i \in Nat /\ j \in Nat
        BY <1>2, <3>9 DEF m
      <4>3. CASE i <= m /\ owed'[i] \in LateEnd(s)
        BY <3>6, <4>3
      <4>4. CASE i = m + 1 /\ owed'[i] \in Answers(s)
        <5>1. ~(j <= m) /\ j # m + 1
          BY <4>1, <4>2, <4>4
        <5>2. QED
          BY <3>6, <3>8, <4>4, <5>1
      <4>5. CASE i = m + 2
        <5>1. ~(j <= m) /\ j # m + 1 /\ j # m + 2
          BY <4>1, <4>2, <4>5
        <5>2. QED
          BY <3>8, <5>1
      <4>6. QED
        BY <3>8, <4>3, <4>4, <4>5
    <3>11. \A a \in Range(owed') : a \in Answers(s) \cup LateEnd(s) \cup NextEnd(s)
      BY <3>8 DEF Range
    <3>12. OnTheWay'
      BY <1>1, <1>3, <2>1, <3>6, <3>10, <3>11 DEF OnTheWay, s
    <3>13. QED
      BY <1>1, <1>2, <1>3, <2>1, <2>2, <3>4, <3>12 DEF DialogueInv
  <2>3. CASE ~(NoSizePassed /\ step # QuitAt)
    <3>1. owed' \in Seq(OneAnswer) /\ \A b \in Range(owed') : b \in Range(owed) \cup Range(r)
      <4>1. r \in Seq(OneAnswer)
        BY <1>2, RepliesAre
      <4>2. /\ owed' \in Seq(OneAnswer) /\ Len(r) \in Nat /\ Len(owed') = Len(owed) + Len(r)
            /\ \A i \in 1 .. Len(owed) + Len(r) :
                  owed'[i] = IF i <= Len(owed) THEN owed[i] ELSE r[i - Len(owed)]
            /\ DOMAIN owed' = 1 .. Len(owed) + Len(r) /\ DOMAIN r = 1 .. Len(r)
        BY <1>2, <1>3, <4>1, ConcatProperties, LenProperties
      <4>3. ASSUME NEW i \in DOMAIN owed'
            PROVE  owed'[i] \in Range(owed) \cup Range(r)
        <5>1. CASE i <= Len(owed)
          <6>1. i \in DOMAIN owed /\ owed'[i] = owed[i]
            BY <1>2, <4>2, <5>1
          <6>2. QED
            BY <6>1 DEF Range
        <5>2. CASE ~(i <= Len(owed))
          <6>1. i - Len(owed) \in DOMAIN r /\ owed'[i] = r[i - Len(owed)]
            BY <1>2, <4>2, <5>2
          <6>2. QED
            BY <6>1 DEF Range
        <5>3. QED
          BY <5>1, <5>2
      <4>4. QED
        BY <4>2, <4>3 DEF Range
    <3>2. ASSUME NoSizePassed, step = QuitAt
          PROVE  QuietQuit'
      <4>1. QuietQuit /\ Now = <<"QUIT", 0>>
        BY <1>1, <3>2, StepForms, Files DEF DialogueInv, Now
      <4>2. r = <<Yes(Now)>> \/ r = <<No(Now)>>
        BY <1>3, <4>1 DEF Replies
      <4>3. \A b \in Range(r) : b = Yes(Now) \/ b = No(Now)
        BY <4>2 DEF Range
      <4>4. Spells(No(Now)) = {"550"}
        <5>1. No(Now) # Yes(No(Now).to) /\ No(Now).code = "550" /\ No(Now).to = Now
          BY <4>1, CodeOf DEF No, Yes, Commands
        <5>2. QED
          BY <5>1 DEF Spells
      <4>5. \A b \in Range(owed') : "221" \in Spells(b) => b = Yes(Now)
        BY <3>1, <4>1, <4>3, <4>4 DEF QuietQuit
      <4>6. QED
        BY <1>1, <2>1, <4>1, <4>5 DEF QuietQuit, Spells
    <3>3. QED
      BY <1>1, <1>2, <1>3, <2>1, <2>3, <3>1, <3>2 DEF DialogueInv
  <2>4. QED
    BY <2>2, <2>3
<1>4. ASSUME sent' = TRUE, UNCHANGED <<step, login, owed, passedOver>>
      PROVE  DialogueInv'
  <2>1. Now' = Now /\ NoSizePassed' = NoSizePassed /\ Over' = Over /\ OwnAnswers'
    BY <1>1, <1>4 DEF Now, NoSizePassed, Over, OwnAnswers, DialogueInv
  <2>2. (OnTheWay => OnTheWay') /\ (QuietQuit => QuietQuit')
    BY <1>1, <1>4, <2>1 DEF OnTheWay, QuietQuit, Spells
  <2>3. QED
    BY <1>1, <1>2, <1>4, <2>1, <2>2 DEF DialogueInv
<1>5. ASSUME Goes(FALSE, {}), UNCHANGED owed
      PROVE  DialogueInv'
  <2>1. /\ step' \in 1 .. QuitAt /\ sent' \in BOOLEAN /\ passedOver \subseteq passedOver'
        /\ NoSizePassed' /\ step # QuitAt /\ step' # QuitAt /\ ~Over' => Now[1] = "END"
    <3>1. ASSUME NEW ok \in BOOLEAN, ~ok, NEW said, said = {}, Goes(ok, said)
          PROVE  /\ step' \in 1 .. QuitAt /\ sent' \in BOOLEAN /\ passedOver \subseteq passedOver'
                 /\ NoSizePassed' /\ step # QuitAt /\ step' # QuitAt /\ ~Over' => Now[1] = "END"
      BY <1>2, <3>1, GoesOn
    <3>2. FALSE \in BOOLEAN
      OBVIOUS
    <3>3. QED
      BY <1>5, <3>1, <3>2, Zenon
  <2>2. OwnAnswers'
    BY <1>1, <2>1 DEF DialogueInv, OwnAnswers
  <2>3. NoSizePassed' => NoSizePassed
    BY <2>1 DEF NoSizePassed
  <2>4. step = QuitAt => Over' \/ step' = QuitAt
    <3>1. step = QuitAt => Quit
      BY <1>2, <1>5, NowIs DEF Goes
    <3>2. QED
      BY <3>1 DEF Quit
  <2>7. NoSizePassed' /\ step' = QuitAt /\ ~Over' => QuietQuit'
    <3>1. ASSUME NEW ok \in BOOLEAN, ok = FALSE, NEW said, said = {}, Goes(ok, said),
                 NoSizePassed', step' = QuitAt, ~Over'
          PROVE  QuietQuit'
      BY <1>1, <1>5, <3>1, QuitsQuietly
    <3>2. QED
      BY <1>5, <3>1, Zenon
  <2>5. ~(NoSizePassed' /\ step' # QuitAt /\ ~Over')
    <3>1. SUFFICES ASSUME NoSizePassed', step' # QuitAt, ~Over' PROVE FALSE
      OBVIOUS
    <3>2. step # QuitAt /\ Now[1] = "END"
      BY <2>1, <2>4, <3>1
    <3>3. OnTheWay
      BY <1>1, <2>3, <3>1, <3>2 DEF DialogueInv
    <3>4. QED
      BY <1>1, <3>2, <3>3 DEF OnTheWay
  <2>6. QED
    BY <1>1, <1>2, <1>5, <2>1, <2>2, <2>5, <2>7 DEF DialogueInv
<1>6. QED
  BY <1>3, <1>4, <1>5 DEF Send

(* What is taken for done has its own answer, and then no other answer is  *)
(* under way but a 226 that follows it.                                    *)
LEMMA RecvKeeps ==
    ASSUME DialogueInv, RecvResponse
    PROVE  DialogueInv'
<1>1. /\ ~Over /\ sent /\ Goes(Confirmed(Now), Heard) /\ arrived' = <<>> /\ UNCHANGED <<served, owed>>
      /\ foreign' = IF Confirmed(Now) /\ Yes(Now) \notin Range(arrived)
                    THEN foreign \cup {Now} ELSE foreign
  BY DEF RecvResponse
<1>2. /\ step \in 1 .. QuitAt /\ sent \in BOOLEAN /\ Now \in Commands \X Int
      /\ (Now[1] = "QUIT" <=> step = QuitAt) /\ Confirmed(Now) \in BOOLEAN
      /\ owed \in Seq(OneAnswer) /\ arrived' \in Seq(OneAnswer)
  BY <1>1, NowIs, EmptySeq DEF DialogueInv, Confirmed
<1>3. /\ step' \in 1 .. QuitAt /\ sent' \in BOOLEAN /\ passedOver \subseteq passedOver'
      /\ NoSizePassed' /\ step # QuitAt /\ step' # QuitAt /\ ~Over' =>
           \/ /\ Confirmed(Now) \/ Now[1] = "END"
              /\ step' = step + 1 /\ sent' = (Now'[1] = "END")
           \/ /\ Now[1] = "USER" /\ "230" \in Heard
              /\ step' = step + 2 /\ sent' = (Now'[1] = "END")
  BY <1>1, <1>2, GoesOn
<1>4. NoSizePassed' => NoSizePassed
  BY <1>3 DEF NoSizePassed
<1>5. \A c \in Heard : \E a \in Range(arrived) : c \in Spells(a)
  BY DEF Heard
<1>6. ASSUME NoSizePassed, step # QuitAt, Confirmed(Now)
      PROVE  Yes(Now) \in Range(arrived)
  <2>1. OnTheWay
    BY <1>1, <1>6 DEF DialogueInv
  <2>2. PICK a \in Range(arrived) : Code[Now[1]] \in Spells(a)
    BY <1>5, <1>6 DEF Confirmed
  <2>3. a \in Answers(Now) \cup LateEnd(Now) \cup NextEnd(Now)
    BY <2>1 DEF OnTheWay
  <2>4. QED
    BY <1>2, <2>2, <2>3, OwnIsTaken
<1>10. ASSUME NoSizePassed, step = QuitAt, Confirmed(Now)
       PROVE  Yes(Now) \in Range(arrived)
  <2>1. QuietQuit /\ Now = <<"QUIT", 0>>
    BY <1>1, <1>10, StepForms, Files DEF DialogueInv, Now
  <2>2. PICK a \in Range(arrived) : Code["QUIT"] \in Spells(a)
    BY <1>5, <1>10, <2>1 DEF Confirmed
  <2>3. QED
    BY <2>1, <2>2, CodeOf DEF QuietQuit
<1>7. OwnAnswers'
  <2>1. SUFFICES ASSUME foreign' # {}
                 PROVE  \E f \in 1 .. FtpFiles : <<"SIZE", f>> \in passedOver'
    BY DEF OwnAnswers
  <2>2. CASE foreign # {}
    BY <1>3, <2>2 DEF DialogueInv, OwnAnswers
  <2>3. CASE foreign = {}
    <3>1. Confirmed(Now) /\ Yes(Now) \notin Range(arrived)
      BY <1>1, <2>1, <2>3
    <3>2. ~NoSizePassed
      BY <1>6, <1>10, <3>1
    <3>3. QED
      BY <1>3, <3>2 DEF NoSizePassed
  <2>4. QED
    BY <2>2, <2>3
<1>11. ASSUME NoSizePassed', step' = QuitAt, ~Over'
       PROVE  QuietQuit'
  <2>1. Range(arrived') \cup Range(owed') \subseteq Range(arrived) \cup Range(owed)
    BY <1>1 DEF Range
  <2>2. QED
    BY <1>1, <1>2, <1>11, <2>1, QuitsQuietly
<1>8. ASSUME NoSizePassed', step' # QuitAt, ~Over'
      PROVE  OnTheWay'
  <2>1. step # QuitAt
    <3>1. step = QuitAt => Quit
      BY <1>1, <1>2 DEF Goes
    <3>2. QED
      BY <1>8, <3>1 DEF Quit
  <2>2. OnTheWay /\ NoSizePassed
    BY <1>1, <1>4, <1>8, <2>1 DEF DialogueInv
  <2>3. sent' = (Now'[1] = "END")
    BY <1>3, <1>8, <2>1
  <2>4. Range(arrived') = {}
    BY <1>1 DEF Range
  <2>5. ASSUME NEW a \in Range(arrived), a \in Answers(Now)
        PROVE  /\ \A b \in Range(owed) : b \in NextEnd(Now)
               /\ \A i, j \in DOMAIN owed : ~(i < j)
    <3>1. \A b \in Range(owed) : b \in NextEnd(Now)
      BY <2>2, <2>5 DEF OnTheWay
    <3>2. \A i \in DOMAIN owed : owed[i] \in NextEnd(Now)
      BY <3>1 DEF Range
    <3>3. QED
      BY <2>2, <3>1, <3>2 DEF OnTheWay
  <2>6. CASE Now[1] = "END"
    <3>1. step' = step + 1 /\ Now' = <<"TYPE", Now[2] + 1>>
      <4>1. step' = step + 1
        BY <1>3, <1>8, <2>1, <2>6
      <4>2. QED
        BY <1>2, <1>8, <2>1, <2>6, <4>1, NextStep DEF Now
    <3>2. \A b \in Range(owed) : b \in LateEnd(Now') /\ b \notin Answers(Now') /\ b \notin NextEnd(Now')
      <4>1. /\ Answers(Now) \subseteq LateEnd(Now') /\ LateEnd(Now) = {} /\ NextEnd(Now) = {}
        BY <1>2, <2>6, <3>1, Kinds
      <4>2. /\ Now' \in Commands \X Int
            /\ Answers(Now') \cap LateEnd(Now') = {} /\ NextEnd(Now') = {}
        <5>1. Now[2] + 1 \in Int
          BY <1>2
        <5>2. Now' \in Commands \X Int /\ Now'[1] # "RETR"
          BY <3>1, <5>1 DEF Commands
        <5>3. QED
          BY <5>2, Kinds
      <4>3. \A b \in Range(owed) : b \in Answers(Now)
        BY <2>2, <4>1 DEF OnTheWay
      <4>4. QED
        BY <4>1, <4>2, <4>3
    <3>3. \A i \in DOMAIN owed : owed[i] \notin Answers(Now') /\ owed[i] \notin NextEnd(Now')
      BY <3>2 DEF Range
    <3>4. QED
      BY <1>1, <2>3, <2>4, <3>1, <3>2, <3>3 DEF OnTheWay
  <2>7. CASE Now[1] = "RETR"
    <3>1. Confirmed(Now) /\ step' = step + 1 /\ Now' = <<"END", Now[2]>>
      <4>1. Confirmed(Now) /\ step' = step + 1
        BY <1>3, <1>8, <2>1, <2>7
      <4>2. QED
        BY <1>2, <2>1, <2>7, <4>1, NextStep DEF Now
    <3>2. Yes(Now) \in Range(arrived) /\ Yes(Now) \in Answers(Now)
      BY <1>6, <2>1, <2>2, <3>1 DEF Answers
    <3>3. NextEnd(Now) = Answers(Now')
      BY <1>2, <2>7, <3>1, Kinds
    <3>4. QED
      BY <1>1, <2>3, <2>4, <2>5, <3>1, <3>2, <3>3 DEF OnTheWay
  <2>8. CASE Now[1] \notin {"END", "RETR"}
    <3>1. \E a \in Range(arrived) : a \in Answers(Now)
      <4>1. CASE Confirmed(Now)
        BY <1>6, <2>1, <2>2, <4>1 DEF Answers
      <4>2. CASE ~Confirmed(Now)
        <5>1. Now[1] = "USER" /\ "230" \in Heard
          BY <1>3, <1>8, <2>1, <2>8, <4>2
        <5>2. PICK a \in Range(arrived) : "230" \in Spells(a)
          BY <1>5, <5>1
        <5>3. LateEnd(Now) = {} /\ NextEnd(Now) = {}
          BY <5>1 DEF LateEnd, NextEnd
        <5>4. QED
          BY <2>2, <5>2, <5>3 DEF OnTheWay
      <4>3. QED
        BY <4>1, <4>2
    <3>2. NextEnd(Now) = {}
      BY <2>8 DEF NextEnd
    <3>3. Range(owed) = {}
      BY <2>5, <3>1, <3>2
    <3>4. DOMAIN owed = {}
      <4>1. \A i \in DOMAIN owed : owed[i] \in Range(owed)
        BY DEF Range
      <4>2. QED
        BY <3>3, <4>1
    <3>5. Range(owed') = {} /\ DOMAIN owed' = {}
      BY <1>1, <3>3, <3>4
    <3>6. QED
      BY <2>3, <2>4, <3>5 DEF OnTheWay
  <2>9. QED
    BY <2>6, <2>7, <2>8
<1>9. QED
  BY <1>1, <1>2, <1>3, <1>7, <1>8, <1>11 DEF DialogueInv

(* The top of the thread's loop: what is on the way are late 226.          *)
LEMMA BetweenKeeps ==
    ASSUME DialogueInv, SkipFile \/ EndHere
    PROVE  DialogueInv'
<1>1. /\ BetweenFiles /\ UNCHANGED <<served, owed, arrived, passedOver, foreign>>
      /\ \/ Now[1] = "TYPE" /\ Advance(step + 4) /\ UNCHANGED login
         \/ Advance(QuitAt) /\ UNCHANGED login
         \/ login' = "closed" /\ UNCHANGED <<step, sent>>
  BY DEF SkipFile, EndHere, DestoryConnect, DestoryConnect2
<1>2. ~Over /\ ~sent /\ Now[1] \in {"TYPE", "QUIT"}
  BY <1>1 DEF BetweenFiles, Over
<1>3. /\ step \in 1 .. QuitAt /\ QuitAt \in 1 .. QuitAt /\ Now \in Commands \X Int
      /\ (Now[1] = "QUIT" <=> step = QuitAt)
  BY NowIs, Files DEF DialogueInv
<1>4. OwnAnswers' /\ NoSizePassed' = NoSizePassed
  BY <1>1 DEF DialogueInv, OwnAnswers, NoSizePassed
<1>5. CASE login' = "closed" /\ UNCHANGED <<step, sent>>
  BY <1>1, <1>4, <1>5 DEF DialogueInv, Over
<1>6. ASSUME Now[1] = "TYPE", NoSizePassed
      PROVE  \A a \in Range(arrived) \cup Range(owed) : a \in LateEnd(Now) /\ "221" \notin Spells(a)
  <2>1. OnTheWay
    BY <1>2, <1>3, <1>6 DEF DialogueInv
  <2>2. \A a \in Range(arrived) \cup Range(owed) : a \in LateEnd(Now)
    BY <1>2, <2>1 DEF OnTheWay
  <2>3. QED
    BY <1>3, <1>6, <2>2, NoneQuits
<1>7. ASSUME step' = QuitAt, sent' \in BOOLEAN, login' = login
      PROVE  DialogueInv'
  <2>1. Over' = Over /\ Now' = <<"QUIT", 0>>
    BY <1>7, <1>3, StepForms DEF Over, Now
  <2>2. ASSUME NoSizePassed, ~Over
        PROVE  QuietQuit'
    <3>1. CASE Now[1] = "TYPE"
      BY <1>1, <1>6, <2>2, <3>1 DEF QuietQuit, Spells
    <3>2. CASE Now[1] = "QUIT"
      <4>1. Now' = Now /\ QuietQuit
        BY <1>3, <1>7, <2>2, <3>2 DEF DialogueInv, Now
      <4>2. QED
        BY <1>1, <4>1 DEF QuietQuit, Spells
    <3>3. QED
      BY <1>2, <3>1, <3>2
  <2>3. QED
    BY <1>1, <1>3, <1>4, <1>7, <2>1, <2>2 DEF DialogueInv
<1>8. CASE Advance(QuitAt) /\ UNCHANGED login
  BY <1>7, <1>8 DEF Advance
<1>9. CASE Now[1] = "TYPE" /\ Advance(step + 4) /\ UNCHANGED login
  <2>1. /\ step' = step + 4 /\ step' \in 1 .. QuitAt /\ sent' = (Now'[1] = "END")
        /\ step' = QuitAt \/ Now' = <<"TYPE", Now[2] + 1>>
    BY <1>3, <1>9, NextStep DEF Advance, Now
  <2>2. CASE step' = QuitAt
    BY <1>7, <1>9, <2>1, <2>2
  <2>3. CASE step' # QuitAt
    <3>1. Now' = <<"TYPE", Now[2] + 1>> /\ Now[2] \in Int /\ sent' = FALSE /\ Over' = Over
      <4>1. Now' = <<"TYPE", Now[2] + 1>> /\ Now[2] \in Int
        BY <1>3, <2>1, <2>3
      <4>2. Now'[1] = "TYPE"
        BY <4>1
      <4>3. sent' = FALSE
        BY <2>1, <4>2
      <4>4. Over' = Over
        BY <1>9 DEF Over
      <4>5. QED
        BY <4>1, <4>3, <4>4
    <3>2. LateEnd(Now) \subseteq LateEnd(Now')
      <4>1. \A j \in Int : j < Now[2] => j < Now[2] + 1
        BY <3>1
      <4>2. QED
        BY <3>1, <1>9, <4>1 DEF LateEnd
    <3>3. Answers(Now') \cap LateEnd(Now') = {} /\ NextEnd(Now') = {}
      <4>1. Now[2] + 1 \in Int
        BY <3>1
      <4>2. Now' \in Commands \X Int /\ Now'[1] # "RETR"
        BY <3>1, <4>1 DEF Commands
      <4>3. QED
        BY <4>2, Kinds
    <3>4. ASSUME NoSizePassed, ~Over
          PROVE  OnTheWay'
      <4>1. \A a \in Range(arrived) \cup Range(owed) :
               a \in LateEnd(Now') /\ a \notin Answers(Now') /\ a \notin NextEnd(Now')
        BY <1>6, <1>9, <3>2, <3>3, <3>4
      <4>2. \A i \in DOMAIN owed : owed[i] \in Range(owed)
        BY DEF Range
      <4>3. Now'[1] # "END" /\ arrived' = arrived /\ owed' = owed
        BY <1>1, <3>1
      <4>4. QED
        BY <3>1, <4>1, <4>2, <4>3 DEF OnTheWay
    <3>5. QED
      BY <1>1, <1>4, <1>9, <2>1, <2>3, <3>1, <3>4 DEF DialogueInv
  <2>4. QED
    BY <2>2, <2>3
<1>10. QED
  BY <1>1, <1>5, <1>8, <1>9

LEMMA DialogueStep ==
    ASSUME DialogueInv, [FtpNext]_ftpVars
    PROVE  DialogueInv'
<1>1. CASE Vanish
  <2>1. owed' = <<>> /\ served' = FALSE
        /\ UNCHANGED <<step, sent, arrived, login, passedOver, foreign>>
    BY <1>1 DEF Vanish
  <2>2. Range(owed') = {} /\ DOMAIN owed' = {} /\ owed' \in Seq(OneAnswer)
    BY <2>1, EmptySeq DEF Range
  <2>3. Now' = Now /\ NoSizePassed' = NoSizePassed /\ Over' = Over /\ OwnAnswers'
    BY <2>1 DEF Now, NoSizePassed, Over, OwnAnswers, DialogueInv
  <2>4. (OnTheWay => OnTheWay') /\ (QuietQuit => QuietQuit')
    BY <2>1, <2>2, <2>3 DEF OnTheWay, QuietQuit, Spells
  <2>5. QED
    BY <2>1, <2>2, <2>3, <2>4 DEF DialogueInv
<1>2. CASE UNCHANGED ftpVars
  BY <1>2 DEF ftpVars, DialogueInv, OwnAnswers, OnTheWay, QuietQuit, Spells, Now, NoSizePassed, Over
<1>3. QED
  BY <1>1, <1>2, DeliverKeeps, SendKeeps, RecvKeeps, BetweenKeeps DEF FtpNext

(* However late the answers to earlier steps come, and the 226 of one file *)
(* above all, no step is taken for done by the answer to another, unless a *)
(* size was not waited for (FTP_RecvResponse).                             *)
THEOREM StepsHaveTheirAnswers == FtpInit /\ [][FtpNext]_ftpVars => []OwnAnswers
<1>1. DialogueInv => OwnAnswers
  BY DEF DialogueInv
<1>2. QED
  BY <1>1, DialogueInitInv, DialogueStep, PTL

-----------------------------------------------------------------------------
(* Playing a recording.  closePlayWin leaves no thread behind in m_threadId *)
(* and no handle in m_cmpHandle before the next recording gets its own.    *)
PageSound ==
    /\ gui.pc \in {"free", "null", "play", "open", "create"} => threadId = NULL
    /\ gui.pc \in {"play", "open"} => cmp = NULL /\ gui.row >= 0
    /\ gui.pc = "create" => cmp # NULL
    /\ (gui.pc \notin {"idle", "create"} /\ gui.row >= 0) => plays < MaxPlays

(* A thread that asks has a try left, and one that has ended no length.    *)
ThreadsSound == \A t \in Plays :
    /\ th[t] = "ask" => tries[t] > 0
    /\ ~Active(t) => dur[t] = NULL

(* Nothing has been reported of any recording since the rewind, ...        *)
Untouched ==
    /\ events = <<>> /\ playRange = NULL /\ sliderValue = Zero
    /\ \A t \in Plays : ~Active(t)

(* ... and afterwards only of the one that is played: it has the only      *)
(* thread, which asks for its handle, and length, position and signals are *)
(* of nothing else.                                                        *)
OnlyItsOwn ==
    /\ \A t \in Plays : Active(t) => t = cmp
    /\ th[cmp] \in {"ask", "time"} => arg[cmp] = cmp
    /\ dur[cmp] \in {NULL, cmp}
    /\ playRange \in {NULL, DEFAULT, cmp}
    /\ th[cmp] \in {"lock", "time", "compare"} => playRange # NULL
    /\ th[cmp] = "compare" => sliderValue.of = cmp
    /\ \A k \in 1 .. Len(events) : events[k] = cmp

CleanSound ==
    /\ (clean /\ gui.pc \in {"open", "create"}) => Untouched
    /\ (clean /\ cmp # NULL) => OnlyItsOwn

PlayInv == TypeOK /\ PageSound /\ ThreadsSound /\ CleanSound

LEMMA PlayStartsSound == Init => PlayInv
<1> SUFFICES ASSUME Init
    PROVE  PlayInv
  OBVIOUS
<1>1. TypeOK
  <2>1. /\ -1 \in -1 .. Rows - 1 /\ 0 \in 0 .. MaxPlays /\ MaxTry \in 0 .. MaxTry
        /\ Len(<<>>) <= MaxSignals
    BY RowsAssumption, BoundsAssumption, TryAssumption
  <2>2. /\ th \in [Plays -> {"none", "start", "loop", "range", "ask", "set", "refresh",
                            "lock", "time", "compare", "end"}]
        /\ arg \in [Plays -> Plays \cup {NULL}] /\ tries \in [Plays -> 0 .. MaxTry]
        /\ dur \in [Plays -> Plays \cup {NULL}]
    BY <2>1 DEF Init
  <2>3. events \in Seq(Plays \cup {NULL}) /\ Len(events) <= MaxSignals
    BY <2>1 DEF Init
  <2>4. /\ gui \in [pc : {"idle", "close", "join", "wait", "free", "null", "play", "open", "create"},
                    row : -1 .. Rows - 1]
        /\ sliderValue \in [of : Plays \cup {NULL}, end : BOOLEAN]
    BY <2>1 DEF Init, Idle, Zero
  <2>5. QED
    BY <2>1, <2>2, <2>3, <2>4 DEF Init, TypeOK, Lengths
<1>2. PageSound /\ ThreadsSound /\ CleanSound
  BY DEF Init, PageSound, ThreadsSound, CleanSound, Idle, NULL, Active
<1>3. QED
  BY <1>1, <1>2 DEF PlayInv

(* The page's steps.                                                       *)
LEMMA HandlerKeeps == PlayInv /\ Handler => PlayInv'
<1> SUFFICES ASSUME PlayInv, Handler
    PROVE  PlayInv'
  OBVIOUS
<1> USE RowsAssumption, BoundsAssumption DEF PlayInv, TypeOK, Plays, Lengths, NULL, DEFAULT, shared, player, threads, page
<1>1. CASE ClearFlag
  <2>0. /\ UNCHANGED <<cmp, threadId, recordIdx, plays, clean, playFlag, playRange,
                        sliderValue, player, threads, events>>
        /\ gui.pc = "close" /\ runFlag' \in BOOLEAN
        /\ gui'.pc = "free" => threadId = NULL
        /\ gui' \in [pc : {"free", "join"}, row : {gui.row}]
    <3>1. /\ UNCHANGED <<cmp, threadId, recordIdx, plays, clean, playFlag, playRange,
                          sliderValue, player, threads, events>>
          /\ gui.pc = "close"
      BY <1>1 DEF ClearFlag
    <3>2. CASE threadId = NULL
      <4>1. gui' = [gui EXCEPT !.pc = "free"] /\ runFlag' = runFlag
        BY <1>1, <3>2 DEF ClearFlag, At
      <4>2. gui' \in [pc : {"free", "join"}, row : {gui.row}]
        BY <4>1
      <4>3. QED
        BY <3>1, <3>2, <4>1, <4>2
    <3>3. CASE threadId # NULL
      <4>1. gui' = [gui EXCEPT !.pc = "join"] /\ runFlag' = FALSE
        BY <1>1, <3>3 DEF ClearFlag, At
      <4>2. gui' \in [pc : {"free", "join"}, row : {gui.row}] /\ gui'.pc = "join"
        BY <4>1
      <4>3. QED
        BY <3>1, <4>1, <4>2
    <3>4. QED
      BY <3>2, <3>3
  <2>1. TypeOK'
    BY <2>0
  <2>2. PageSound' /\ ThreadsSound'
    BY <2>0 DEF PageSound, ThreadsSound, Active
  <2>3. CleanSound'
    BY <2>0 DEF CleanSound, Untouched, OnlyItsOwn, Active
  <2>4. QED
    BY <2>1, <2>2, <2>3
<1>2. CASE Join
  <2>0. /\ UNCHANGED <<cmp, recordIdx, plays, clean, shared, player, threads, events>>
        /\ gui.pc = "join" /\ threadId' \in {NULL, threadId}
        /\ gui'.pc = "free" => threadId' = NULL
        /\ gui' \in [pc : {"free", "wait"}, row : {gui.row}]
    BY <1>2 DEF Join, At
  <2>1. TypeOK'
    BY SMTT(30), <2>0
  <2>2. PageSound' /\ ThreadsSound'
    BY <2>0 DEF PageSound, ThreadsSound, Active
  <2>3. CleanSound'
    BY <2>0 DEF CleanSound, Untouched, OnlyItsOwn, Active
  <2>4. QED
    BY <2>1, <2>2, <2>3
<1>3. CASE Joined
  <2>1. TypeOK'
    BY <1>3 DEF Joined, At
  <2>2. PageSound' /\ ThreadsSound'
    BY <1>3 DEF Joined, At, PageSound, ThreadsSound, Active
  <2>3. CleanSound'
    BY <1>3 DEF Joined, At, CleanSound, Untouched, OnlyItsOwn, Active, PageSound
  <2>4. QED
    BY <2>1, <2>2, <2>3
<1>4. CASE FreePlayer
  <2>1. TypeOK'
    BY ZenonT(40), <1>4 DEF FreePlayer, At
  <2>2. PageSound' /\ ThreadsSound'
    BY <1>4 DEF FreePlayer, At, PageSound, ThreadsSound, Active
  <2>3. CleanSound'
    BY <1>4 DEF FreePlayer, At, CleanSound, Untouched, OnlyItsOwn, Active, PageSound
  <2>4. QED
    BY <2>1, <2>2, <2>3
<1>5. CASE Closed
  <2>1. TypeOK'
    <3>1. -1 \in -1 .. Rows - 1
      BY RowsAssumption
    <3>2. PICK pc \in {"play", "idle"} : gui' = [gui EXCEPT !.pc = pc]
      BY <1>5 DEF Closed, At
    <3>3. gui' \in [pc : {"idle", "close", "join", "wait", "free", "null", "play", "open", "create"},
                    row : -1 .. Rows - 1]
      BY <3>2
    <3>4. QED
      BY <1>5, <3>1, <3>3 DEF Closed
  <2>2. PageSound' /\ ThreadsSound'
    BY <1>5 DEF Closed, At, PageSound, ThreadsSound, Active
  <2>3. CleanSound'
    BY <1>5 DEF Closed, At, PageSound, ThreadsSound, CleanSound, Untouched, OnlyItsOwn, Active
  <2>4. QED
    BY <2>1, <2>2, <2>3
<1>6. CASE Rewind
  <2>1. TypeOK'
    BY <1>6 DEF Rewind, ResetPosition, At, Zero
  <2>2. PageSound' /\ ThreadsSound'
    BY <1>6 DEF Rewind, ResetPosition, At, PageSound, ThreadsSound, Active
  <2>3. CleanSound'
    BY <1>6 DEF Rewind, ResetPosition, At, CleanSound, Untouched, OnlyItsOwn, Active, PageSound, Zero
  <2>4. QED
    BY <2>1, <2>2, <2>3
<1>7. CASE PlayFails
  <2>1. TypeOK'
    BY <1>7 DEF PlayFails, Idle, At
  <2>2. PageSound' /\ ThreadsSound'
    BY <1>7 DEF PlayFails, Idle, At, PageSound, ThreadsSound, Active
  <2>3. CleanSound'
    BY <1>7 DEF PlayFails, Idle, At, CleanSound, Untouched, OnlyItsOwn, Active, PageSound
  <2>4. QED
    BY <2>1, <2>2, <2>3
<1>8. CASE PlayStarts
  <2>1. TypeOK'
    <3>1. plays + 1 \in 1 .. MaxPlays
      BY <1>8 DEF PlayStarts, PageSound
    <3>2. plays + 1 \in 0 .. MaxPlays
      BY <3>1
    <3>3. gui' \in [pc : {"idle", "close", "join", "wait", "free", "null", "play", "open", "create"},
                    row : -1 .. Rows - 1]
      BY <1>8 DEF PlayStarts, At
    <3>4. recordIdx' \in -1 .. Rows - 1
      BY <1>8 DEF PlayStarts
    <3>5. QED
      BY <1>8, <3>1, <3>2, <3>3, <3>4 DEF PlayStarts
  <2>2. PageSound' /\ ThreadsSound'
    BY <1>8 DEF PlayStarts, At, PageSound, ThreadsSound, Active
  <2>3. CleanSound'
    <3> SUFFICES ASSUME clean'
        PROVE  Untouched' /\ OnlyItsOwn'
      BY DEF CleanSound
    <3>1. clean /\ gui.pc = "open" /\ cmp' \in 1 .. MaxPlays
      BY <1>8 DEF PlayStarts, PageSound
    <3>2. Untouched /\ Untouched'
      BY <1>8, <3>1 DEF PlayStarts, CleanSound, Untouched, Active
    <3>3. ~Active(cmp') /\ dur[cmp'] = NULL
      BY <3>1, <3>2 DEF Untouched, ThreadsSound
    <3>4. th'[cmp'] \in {"none", "end"} /\ dur'[cmp'] = NULL
      BY <1>8, <3>3 DEF PlayStarts, Active
    <3>5. OnlyItsOwn'
      BY <3>2, <3>4 DEF Untouched, OnlyItsOwn
    <3>6. QED
      BY <3>2, <3>5
  <2>4. QED
    BY <2>1, <2>2, <2>3
<1>9. CASE CreateThread
  <2>1. TypeOK'
    <3>1. Idle \in [pc : {"idle", "close", "join", "wait", "free", "null", "play", "open", "create"},
                   row : -1 .. Rows - 1]
      BY RowsAssumption DEF Idle
    <3>2. threadId' \in Plays \cup {NULL} /\ runFlag' \in BOOLEAN
      BY <1>9 DEF CreateThread
    <3>3. th' \in [Plays -> {"none", "start", "loop", "range", "ask", "set", "refresh",
                            "lock", "time", "compare", "end"}]
      BY <1>9 DEF CreateThread
    <3>4. QED
      BY SMTT(30), <1>9, <3>1, <3>2, <3>3 DEF CreateThread
  <2>2. PageSound' /\ ThreadsSound'
    BY <1>9 DEF CreateThread, Idle, PageSound, ThreadsSound, Active
  <2>3. CleanSound'
    <3>1. gui'.pc = "idle" /\ clean' = clean /\ cmp' = cmp /\ cmp \in Plays /\ gui.pc = "create"
      BY <1>9 DEF CreateThread, Idle, PageSound
    <3>2. ASSUME clean
          PROVE  OnlyItsOwn'
      <4>1. Untouched
        BY <3>1, <3>2 DEF CleanSound
      <4>2. /\ \A u \in Plays : ~Active(u)
            /\ dur[cmp] = NULL /\ th[cmp] \in {"none", "end"}
        BY <3>1, <4>1 DEF Untouched, ThreadsSound, Active
      <4>3. /\ th'[cmp] \in {"none", "end", "start"}
            /\ \A u \in Plays : u # cmp => th'[u] = th[u]
        BY <1>9, <3>1, <4>2 DEF CreateThread
      <4>4. \A u \in Plays : Active(u)' => u = cmp
        BY <4>2, <4>3 DEF Active
      <4>5. QED
        BY <1>9, <3>1, <4>1, <4>2, <4>3, <4>4 DEF CreateThread, Untouched, OnlyItsOwn
    <3>3. QED
      BY <3>1, <3>2 DEF CleanSound
  <2>4. QED
    BY <2>1, <2>2, <2>3
<1>10. QED
  BY <1>1, <1>2, <1>3, <1>4, <1>5, <1>6, <1>7, <1>8, <1>9 DEF Handler

(* The buttons, the slider and the player leave the threads alone.         *)
LEMMA ButtonsKeep ==
    ASSUME PlayInv,
           \/ \E way \in {1, -1} : Switch(way)
           \/ \E row \in 0 .. Rows - 1 : PlayRow(row)
           \/ Stop \/ PauesBtnClicked \/ PlayBtnClicked \/ ChangeSpeed \/ Slide
           \/ PlayerAtEnd
    PROVE  PlayInv'
<1> USE RowsAssumption, BoundsAssumption DEF PlayInv, TypeOK, Plays, Lengths, NULL, DEFAULT, shared, player, threads, page
<1>1. ASSUME NEW way \in {1, -1}, Switch(way)
      PROVE  PlayInv'
  <2>1. TypeOK'
    BY SMTT(30), <1>1 DEF Switch, Starting, Neighbour, ClosePlayWin
  <2>2. PageSound' /\ ThreadsSound'
    BY <1>1 DEF Switch, Starting, Neighbour, ClosePlayWin, PageSound, ThreadsSound, Active
  <2>3. CleanSound'
    BY <1>1 DEF Switch, Starting, Neighbour, ClosePlayWin, CleanSound, Untouched, OnlyItsOwn, Active, PageSound
  <2>4. QED
    BY <2>1, <2>2, <2>3
<1>2. ASSUME NEW row \in 0 .. Rows - 1, PlayRow(row)
      PROVE  PlayInv'
  <2>1. TypeOK'
    BY SMTT(30), <1>2 DEF PlayRow, Starting, ClosePlayWin
  <2>2. PageSound' /\ ThreadsSound'
    BY <1>2 DEF PlayRow, Starting, ClosePlayWin, PageSound, ThreadsSound, Active
  <2>3. CleanSound'
    BY <1>2 DEF PlayRow, Starting, ClosePlayWin, CleanSound, Untouched, OnlyItsOwn, Active, PageSound
  <2>4. QED
    BY <2>1, <2>2, <2>3
<1>3. CASE Stop
  <2>1. TypeOK'
    BY <1>3 DEF Stop, ClosePlayWin
  <2>2. PageSound' /\ ThreadsSound'
    BY <1>3 DEF Stop, ClosePlayWin, PageSound, ThreadsSound, Active
  <2>3. CleanSound'
    BY <1>3 DEF Stop, ClosePlayWin, CleanSound, Untouched, OnlyItsOwn, Active, PageSound
  <2>4. QED
    BY <2>1, <2>2, <2>3
<1>4. CASE PauesBtnClicked
  <2>1. TypeOK'
    BY <1>4 DEF PauesBtnClicked
  <2>2. PageSound' /\ ThreadsSound'
    BY <1>4 DEF PauesBtnClicked, PageSound, ThreadsSound, Active
  <2>3. CleanSound'
    BY <1>4 DEF PauesBtnClicked, CleanSound, Untouched, OnlyItsOwn, Active, PageSound
  <2>4. QED
    BY <2>1, <2>2, <2>3
<1>5. CASE PlayBtnClicked
  <2>1. TypeOK'
    BY <1>5 DEF PlayBtnClicked
  <2>2. PageSound' /\ ThreadsSound'
    BY <1>5 DEF PlayBtnClicked, PageSound, ThreadsSound, Active
  <2>3. CleanSound'
    BY <1>5 DEF PlayBtnClicked, CleanSound, Untouched, OnlyItsOwn, Active, PageSound
  <2>4. QED
    BY <2>1, <2>2, <2>3
<1>6. CASE ChangeSpeed
  <2>1. TypeOK'
    BY <1>6 DEF ChangeSpeed
  <2>2. PageSound' /\ ThreadsSound'
    BY <1>6 DEF ChangeSpeed, PageSound, ThreadsSound, Active
  <2>3. CleanSound'
    BY <1>6 DEF ChangeSpeed, CleanSound, Untouched, OnlyItsOwn, Active, PageSound
  <2>4. QED
    BY <2>1, <2>2, <2>3
<1>7. CASE Slide
  <2>1. TypeOK'
    BY <1>7 DEF Slide
  <2>2. PageSound' /\ ThreadsSound'
    BY <1>7 DEF Slide, PageSound, ThreadsSound, Active
  <2>3. CleanSound'
    BY <1>7 DEF Slide, CleanSound, Untouched, OnlyItsOwn, Active, PageSound
  <2>4. QED
    BY <2>1, <2>2, <2>3
<1>8. CASE PlayerAtEnd
  <2>1. TypeOK'
    BY SMTT(30), <1>8 DEF PlayerAtEnd
  <2>2. PageSound' /\ ThreadsSound'
    BY <1>8 DEF PlayerAtEnd, PageSound, ThreadsSound, Active
  <2>3. CleanSound'
    BY <1>8 DEF PlayerAtEnd, PageSound, ThreadsSound, CleanSound, Untouched, OnlyItsOwn, Active
  <2>4. QED
    BY <2>1, <2>2, <2>3
<1>9. QED
  BY <1>1, <1>2, <1>3, <1>4, <1>5, <1>6, <1>7, <1>8

(* A signal is taken from the queue.                                       *)
LEMMA SignalKeeps == PlayInv /\ CloseRecordPlay => PlayInv'
<1> SUFFICES ASSUME PlayInv, CloseRecordPlay
    PROVE  PlayInv'
  OBVIOUS
<1>1. /\ events \in Seq(Plays \cup {NULL}) /\ events # <<>>
      /\ events' = Tail(events) /\ Len(events) <= MaxSignals
  BY DEF CloseRecordPlay, PlayInv, TypeOK
<1>2. /\ events' \in Seq(Plays \cup {NULL}) /\ Len(events') <= MaxSignals
      /\ \A k \in 1 .. Len(events') : k + 1 \in 1 .. Len(events) /\ events'[k] = events[k + 1]
  BY <1>1, BoundsAssumption
<1>3. gui.pc = "idle" /\ gui' = [pc |-> "close", row |-> -1]
  BY DEF CloseRecordPlay, ClosePlayWin
<1>4. TypeOK'
  BY <1>2, <1>3, RowsAssumption
  DEF CloseRecordPlay, PlayInv, TypeOK, Lengths, shared, player, threads
<1>5. PageSound' /\ ThreadsSound'
  BY <1>3 DEF CloseRecordPlay, PlayInv, PageSound, ThreadsSound, Active, shared, player, threads
<1>6. CleanSound'
  BY <1>2, <1>3
  DEF CloseRecordPlay, PlayInv, CleanSound, OnlyItsOwn, Untouched, Active, shared, player, threads
<1>7. QED
  BY <1>4, <1>5, <1>6 DEF PlayInv

(* The refresh threads, that of the recording that is played and those left *)
(* of earlier ones.                                                        *)
LEMMA ThreadKeeps == ASSUME PlayInv, NEW t \in Plays, Thread(t) PROVE PlayInv'
<1> USE TryAssumption DEF PlayInv, TypeOK, Plays, Lengths, NULL, DEFAULT, shared, player, page, Thread
<1>1. CASE Start(t)
  <2>1. TypeOK'
    BY <1>1 DEF Start, Goto
  <2>2. PageSound' /\ ThreadsSound'
    BY <1>1 DEF Start, Goto, PageSound, ThreadsSound, Active
  <2>3. CleanSound'
    BY <1>1 DEF Start, Goto, CleanSound, Untouched, OnlyItsOwn, Active, PageSound
  <2>4. QED
    BY <2>1, <2>2, <2>3
<1>2. CASE Loop(t)
  <2>1. TypeOK'
    <3>1. CASE runFlag
      BY <1>2, <3>1 DEF Loop, Goto
    <3>2. CASE ~runFlag
      <4>1. /\ th' \in [Plays -> {"none", "start", "loop", "range", "ask", "set", "refresh",
                                 "lock", "time", "compare", "end"}]
            /\ tries' \in [Plays -> 0 .. MaxTry] /\ dur' \in [Plays -> Plays \cup {NULL}]
        <5>1. /\ th' = [th EXCEPT ![t] = "end"] /\ tries' = [tries EXCEPT ![t] = MaxTry]
              /\ dur' = [dur EXCEPT ![t] = NULL] /\ MaxTry \in 0 .. MaxTry
          BY <1>2, <3>2 DEF Loop, Return, Goto
        <5>2. tries' \in [Plays -> 0 .. MaxTry]
          BY <5>1
        <5>3. dur' \in [Plays -> Plays \cup {NULL}]
          BY <5>1
        <5>4. QED
          BY <5>1, <5>2, <5>3
      <4>2. QED
        BY <1>2, <4>1 DEF Loop
    <3>3. QED
      BY <3>1, <3>2
  <2>2. PageSound' /\ ThreadsSound'
    BY ZenonT(40), <1>2 DEF Loop, Return, Goto, PageSound, ThreadsSound, Active
  <2>3. CleanSound'
    <3>1. /\ th[t] = "loop" /\ th'[t] \in {"range", "refresh", "end"}
          /\ \A u \in Plays : u # t => th'[u] = th[u] /\ dur'[u] = dur[u]
          /\ dur'[t] \in {NULL, dur[t]}
          /\ UNCHANGED <<page, player, shared, arg, events>>
      BY <1>2 DEF Loop, Return, Goto
    <3>2. Active(t) /\ (Untouched => FALSE)
      BY <3>1 DEF Active, Untouched
    <3>3. ASSUME clean, cmp # NULL
          PROVE  OnlyItsOwn'
      <4>1. OnlyItsOwn /\ t = cmp
        BY <3>2, <3>3 DEF CleanSound, OnlyItsOwn
      <4>2. \A u \in Plays : Active(u)' => u = cmp
        BY <3>1, <4>1 DEF OnlyItsOwn, Active
      <4>3. QED
        BY <3>1, <4>1, <4>2 DEF OnlyItsOwn
    <3>4. QED
      BY <3>1, <3>2, <3>3 DEF CleanSound
  <2>4. QED
    BY <2>1, <2>2, <2>3
<1>3. CASE RangeLoop(t)
  <2>1. TypeOK'
    BY SMTT(30), <1>3 DEF RangeLoop, Goto
  <2>2. PageSound' /\ ThreadsSound'
    BY <1>3 DEF RangeLoop, Goto, PageSound, ThreadsSound, Active
  <2>3. CleanSound'
    BY ZenonT(40), <1>3 DEF RangeLoop, Goto, PageSound, ThreadsSound, CleanSound, Untouched, OnlyItsOwn, Active
  <2>4. QED
    BY <2>1, <2>2, <2>3
<1>4. CASE AskRange(t)
  <2>0. /\ th[t] = "ask" /\ arg' = [arg EXCEPT ![t] = NULL]
        /\ \/ /\ arg[t] # NULL /\ dur' = [dur EXCEPT ![t] = arg[t]]
              /\ th' = [th EXCEPT ![t] = "set"] /\ tries' = tries
           \/ /\ dur' = [dur EXCEPT ![t] = NULL]
              /\ th' = [th EXCEPT ![t] = "range"]
              /\ tries' = [tries EXCEPT ![t] = tries[t] - 1]
        /\ UNCHANGED <<page, player, shared, events>>
    BY <1>4 DEF AskRange, Goto
  <2>1. TypeOK'
    <3>1. tries[t] - 1 \in 0 .. MaxTry
      BY <2>0 DEF ThreadsSound
    <3>2. arg[t] \in Plays \cup {NULL}
      OBVIOUS
    <3>3. dur' \in [Plays -> Plays \cup {NULL}] /\ arg' \in [Plays -> Plays \cup {NULL}]
      BY <2>0, <3>2
    <3>4. tries' \in [Plays -> 0 .. MaxTry]
      BY <2>0, <3>1
    <3>5. th' \in [Plays -> {"none", "start", "loop", "range", "ask", "set", "refresh",
                            "lock", "time", "compare", "end"}]
      BY <2>0
    <3>6. QED
      BY <2>0, <3>3, <3>4, <3>5
  <2>2. PageSound' /\ ThreadsSound'
    BY ZenonT(40), <1>4 DEF AskRange, Goto, PageSound, ThreadsSound, Active
  <2>3. CleanSound'
    <3>1. Active(t) /\ (Untouched => FALSE)
      BY <2>0 DEF Active, Untouched
    <3>2. (clean /\ cmp # NULL) => t = cmp /\ arg[t] = cmp
      BY <2>0, <3>1 DEF CleanSound, OnlyItsOwn
    <3>3. ASSUME clean, cmp # NULL
          PROVE  OnlyItsOwn'
      <4>1. OnlyItsOwn /\ t = cmp /\ arg[t] = cmp
        BY <3>2, <3>3 DEF CleanSound
      <4>2. th'[cmp] \in {"set", "range"} /\ dur'[cmp] \in {NULL, cmp}
        BY <2>0, <4>1
      <4>3. \A u \in Plays : Active(u)' => u = cmp
        BY <2>0, <4>1 DEF OnlyItsOwn, Active
      <4>4. QED
        BY <2>0, <4>1, <4>2, <4>3 DEF OnlyItsOwn
    <3>4. QED
      BY <2>0, <3>1, <3>3 DEF CleanSound
  <2>4. QED
    BY <2>1, <2>2, <2>3
<1>5. CASE SetRange(t)
  <2>1. TypeOK'
    <3>1. th' = [th EXCEPT ![t] = "refresh"]
      BY <1>5 DEF SetRange, Goto
    <3>2. th' \in [Plays -> {"none", "start", "loop", "range", "ask", "set", "refresh",
                            "lock", "time", "compare", "end"}]
      BY <3>1
    <3>3. playRange' \in Plays \cup {NULL, DEFAULT}
      BY <1>5 DEF SetRange
    <3>4. UNCHANGED <<page, player, cmp, threadId, runFlag, playFlag, sliderValue, arg, tries, dur, events>>
      BY <1>5 DEF SetRange
    <3>5. QED
      BY SMTT(30), <3>2, <3>3, <3>4
  <2>2. PageSound' /\ ThreadsSound'
    BY <1>5 DEF SetRange, Goto, PageSound, ThreadsSound, Active
  <2>3. CleanSound'
    BY <1>5 DEF SetRange, Goto, PageSound, ThreadsSound, CleanSound, Untouched, OnlyItsOwn, Active
  <2>4. QED
    BY <2>1, <2>2, <2>3
<1>6. CASE Refresh(t)
  <2>1. TypeOK'
    BY <1>6 DEF Refresh, Goto
  <2>2. PageSound' /\ ThreadsSound'
    BY <1>6 DEF Refresh, Goto, PageSound, ThreadsSound, Active
  <2>3. CleanSound'
    BY <1>6 DEF Refresh, Goto, CleanSound, Untouched, OnlyItsOwn, Active, PageSound
  <2>4. QED
    BY <2>1, <2>2, <2>3
<1>7. CASE Lock(t)
  <2>1. TypeOK'
    BY <1>7 DEF Lock, Goto
  <2>2. PageSound' /\ ThreadsSound'
    BY <1>7 DEF Lock, Goto, PageSound, ThreadsSound, Active
  <2>3. CleanSound'
    BY <1>7 DEF Lock, Goto, CleanSound, Untouched, OnlyItsOwn, Active, PageSound
  <2>4. QED
    BY <2>1, <2>2, <2>3
<1>8. CASE GetPlayTime(t)
  <2>1. TypeOK'
    BY SMTT(30), <1>8 DEF GetPlayTime, Goto, Zero
  <2>2. PageSound' /\ ThreadsSound'
    BY <1>8 DEF GetPlayTime, Goto, PageSound, ThreadsSound, Active
  <2>3. CleanSound'
    BY <1>8 DEF GetPlayTime, Goto, PageSound, ThreadsSound, CleanSound, Untouched, OnlyItsOwn, Active, Zero
  <2>4. QED
    BY <2>1, <2>2, <2>3
<1>9. CASE Compare(t)
  <2>1. /\ th[t] = "compare" /\ th' = [th EXCEPT ![t] = "loop"]
        /\ \/ events' = events
           \/ Len(events) < MaxSignals /\ events' = Append(events, Ended)
        /\ UNCHANGED <<page, player, shared, arg, tries, dur>>
    BY <1>9 DEF Compare, Goto
  <2>2. Ended \in Plays \cup {NULL}
    BY DEF Ended
  <2>3. /\ events' \in Seq(Plays \cup {NULL}) /\ Len(events') <= MaxSignals
        /\ \A k \in 1 .. Len(events') :
             (k \in 1 .. Len(events) /\ events'[k] = events[k]) \/ events'[k] = Ended
    <3>1. CASE events' = events
      BY <3>1
    <3>2. CASE Len(events) < MaxSignals /\ events' = Append(events, Ended)
      <4>1. /\ events' \in Seq(Plays \cup {NULL}) /\ Len(events') = Len(events) + 1
            /\ \A k \in 1 .. Len(events) : events'[k] = events[k]
            /\ events'[Len(events) + 1] = Ended
        BY <2>2, <3>2, AppendProperties
      <4>2. Len(events) \in Nat
        BY LenProperties
      <4>3. QED
        BY <3>2, <4>1, <4>2, BoundsAssumption
    <3>3. QED
      BY <2>1, <3>1, <3>2
  <2>4. (clean /\ cmp # NULL) => Ended = cmp
    BY <2>1 DEF CleanSound, OnlyItsOwn, Active, Ended
  <2>5. TypeOK' /\ PageSound' /\ ThreadsSound'
    BY <2>1, <2>3 DEF PageSound, ThreadsSound, Active
  <2>6. CleanSound'
    BY SMTT(30), <2>1, <2>3, <2>4 DEF CleanSound, PageSound, OnlyItsOwn, Untouched, Active
  <2>7. QED
    BY <2>5, <2>6
<1>10. QED
  BY <1>1, <1>2, <1>3, <1>4, <1>5, <1>6, <1>7, <1>8, <1>9

LEMMA PlayStep == PlayInv /\ [Next]_vars => PlayInv'
<1> SUFFICES ASSUME PlayInv, [Next]_vars
    PROVE  PlayInv'
  OBVIOUS
<1>1. CASE UNCHANGED vars
  BY <1>1 DEF vars, page, shared, player, threads, PlayInv, TypeOK, PageSound, ThreadsSound,
              CleanSound, Untouched, OnlyItsOwn, Active
<1>2. CASE Next
  BY <1>2, HandlerKeeps, ButtonsKeep, SignalKeeps, ThreadKeeps DEF Next
<1>3. QED
  BY <1>1, <1>2

(* For every table, every number of recordings, tries and waiting signals: *)
(* the end that slideValueSetThread reports closes the recording that has  *)
(* ended and no other one, unless a thread or a signal of an earlier one   *)
(* was left when it was started (closeRecordPlaySlot, closePlayWin,        *)
(* recordPlayCtrl).                                                        *)
THEOREM EndsCloseTheirOwn == Spec => ClosesWhatEnded
<1>1. PlayInv /\ [Next]_vars =>
        [(events # <<>> /\ events' = Tail(events) /\ cmp # NULL /\ clean) => Head(events) = cmp]_vars
  BY DEF PlayInv, TypeOK, CleanSound, OnlyItsOwn
<1>2. QED
  BY <1>1, PlayStartsSound, PlayStep, PTL DEF Spec, ClosesWhatEnded

-----------------------------------------------------------------------------
(* FlattenSeq, which is recursive: the glued pieces up to any place.       *)

(* Glueing piece by piece, and the partial results of it.                  *)
Gluing(S, ss) ==
    {g \in [0 .. Len(ss) -> Seq(S)] :
        g[0] = <<>> /\ \A k \in 1 .. Len(ss) : g[k] = g[k - 1] \o ss[k]}

LEMMA GluingExists ==
    ASSUME NEW S, NEW ss \in Seq(Seq(S))
    PROVE  Gluing(S, ss) # {}
<1> DEFINE Upto(n) == {g \in [0 .. n -> Seq(S)] :
                          g[0] = <<>> /\ \A k \in 1 .. n : g[k] = g[k - 1] \o ss[k]}
           Ns == {n \in Nat : n <= Len(ss) => Upto(n) # {}}
<1>1. Len(ss) \in Nat /\ \A k \in 1 .. Len(ss) : ss[k] \in Seq(S)
  BY ElementOfSeq
<1>2. 0 \in Ns
  <2>1. <<>> \in Seq(S)
    BY EmptySeq
  <2> DEFINE g == [k \in 0 .. 0 |-> <<>>]
  <2>2. g \in Upto(0)
    BY <2>1
  <2>3. QED
    BY <2>2
<1>3. ASSUME NEW n \in Nat, n \in Ns, n + 1 <= Len(ss)
      PROVE  Upto(n + 1) # {}
  <2>1. n <= Len(ss)
    BY <1>1, <1>3
  <2>2. PICK g \in Upto(n) : TRUE
    BY <2>1, <1>3
  <2>3. g[n] \o ss[n + 1] \in Seq(S)
    BY <1>1, <1>3, <2>2, ConcatProperties
  <2> DEFINE h == [k \in 0 .. n + 1 |-> IF k <= n THEN g[k] ELSE g[n] \o ss[n + 1]]
  <2>4. h \in [0 .. n + 1 -> Seq(S)]
    BY <2>2, <2>3
  <2>5. h[0] = <<>>
    BY <2>2
  <2>6. ASSUME NEW k \in 1 .. n + 1
        PROVE  h[k] = h[k - 1] \o ss[k]
    <3>1. CASE k = n + 1
      <4>1. k - 1 = n /\ n \in 0 .. n + 1 /\ n + 1 \in 0 .. n + 1 /\ ~(n + 1 <= n)
        BY <3>1
      <4>2. h[n + 1] = g[n] \o ss[n + 1]
        BY <4>1
      <4>3. h[n] = g[n]
        BY <4>1
      <4>4. QED
        BY <3>1, <4>1, <4>2, <4>3
    <3>2. CASE k # n + 1
      <4>1. k \in 1 .. n /\ k - 1 \in 0 .. n /\ k \in 0 .. n
        BY <3>2
      <4>2. h[k] = g[k] /\ h[k - 1] = g[k - 1]
        BY <4>1
      <4>3. QED
        BY <4>1, <4>2, <2>2
    <3>3. QED
      BY <3>1, <3>2
  <2> HIDE DEF h
  <2>7. QED
    BY <2>4, <2>5, <2>6
<1> HIDE DEF Upto
<1>4. ASSUME NEW n \in Nat, n \in Ns
      PROVE  n + 1 \in Ns
  <2>1. n + 1 \in Nat
    OBVIOUS
  <2>2. n + 1 <= Len(ss) => Upto(n + 1) # {}
    BY <1>3, <1>4
  <2>3. QED
    BY <2>1, <2>2
<1> HIDE DEF Ns
<1>5. \A n \in Nat : n \in Ns
  BY <1>2, <1>4, SetInduction
<1>6. Upto(Len(ss)) # {}
  BY <1>1, <1>5 DEF Ns
<1>7. QED
  BY <1>6 DEF Upto, Gluing

(* FlattenSeq is the last of them.                                         *)
LEMMA FlattenIsGluing ==
    ASSUME NEW S, NEW ss \in Seq(Seq(S)), NEW g \in Gluing(S, ss)
    PROVE  FlattenSeq(ss) = g[Len(ss)]
<1> DEFINE top == Len(ss)
<1>1. top \in Nat /\ \A k \in 1 .. top : ss[k] \in Seq(S)
  BY ElementOfSeq
<1>2. CASE top = 0
  <2>1. ss = <<>>
    BY <1>2, EmptySeq
  <2>2. QED
    BY <1>2, <2>1 DEF FlattenSeq, Gluing
<1>3. CASE top # 0
  <2> DEFINE Step(f) == [i \in 1 .. top |-> IF i = 1 THEN ss[i] ELSE f[i - 1] \o ss[i]]
             f0 == [i \in 1 .. top |-> g[i]]
             ff == CHOOSE f : f = Step(f)
  <2>1. f0 = Step(f0)
    <3>1. ASSUME NEW i \in 1 .. top
          PROVE  g[i] = IF i = 1 THEN ss[i] ELSE f0[i - 1] \o ss[i]
      <4>1. g[i] = g[i - 1] \o ss[i]
        BY DEF Gluing
      <4>2. CASE i = 1
        <5>1. g[1] = g[0] \o ss[1] /\ g[0] = <<>>
          <6>1. i - 1 = 0
            BY <4>2
          <6>2. QED
            BY <4>1, <4>2, <6>1 DEF Gluing
        <5>2. ss[1] \in Seq(S)
          BY <1>1, <4>2
        <5>3. QED
          BY <4>2, <5>1, <5>2, ConcatEmptySeq
      <4>3. CASE i # 1
        <5>1. i - 1 \in 1 .. top
          BY <4>3, <1>1
        <5>2. QED
          BY <4>1, <4>3, <5>1
      <4>4. QED
        BY <4>2, <4>3
    <3>2. QED
      BY <3>1
  <2>2. ff = Step(ff)
    <3> HIDE DEF f0, Step
    <3>1. \E f : f = Step(f)
      BY <2>1
    <3>2. QED
      BY <3>1
  <2> HIDE DEF ff, f0
  <2>3. \A i \in 1 .. top : ff[i] = IF i = 1 THEN ss[i] ELSE ff[i - 1] \o ss[i]
    <3> DEFINE F == ff
    <3>1. F = [i \in 1 .. top |-> IF i = 1 THEN ss[i] ELSE F[i - 1] \o ss[i]]
      BY <2>2
    <3> HIDE DEF F
    <3>2. \A i \in 1 .. top : F[i] = IF i = 1 THEN ss[i] ELSE F[i - 1] \o ss[i]
      BY <3>1
    <3>3. QED
      BY <3>2 DEF F
  <2>4. \A i \in 1 .. top : f0[i] = IF i = 1 THEN ss[i] ELSE f0[i - 1] \o ss[i]
    BY <2>1 DEF f0
  <2> DEFINE Ns == {n \in Nat : n + 1 <= top => ff[n + 1] = f0[n + 1]}
  <2>5. 0 \in Ns
    BY <2>3, <2>4, <1>1
  <2>6. \A n \in Nat : n \in Ns => n + 1 \in Ns
    <3> SUFFICES ASSUME NEW n \in Nat, n \in Ns, (n + 1) + 1 <= top
                 PROVE  ff[(n + 1) + 1] = f0[(n + 1) + 1]
      OBVIOUS
    <3>1. n + 1 <= top /\ (n + 1) + 1 \in 1 .. top /\ (n + 1) + 1 # 1 /\ ((n + 1) + 1) - 1 = n + 1
      BY <1>1
    <3>2. ff[n + 1] = f0[n + 1]
      BY <3>1
    <3>3. ff[(n + 1) + 1] = ff[n + 1] \o ss[(n + 1) + 1]
      BY <3>1, <2>3
    <3>4. f0[(n + 1) + 1] = f0[n + 1] \o ss[(n + 1) + 1]
      BY <3>1, <2>4
    <3>5. QED
      BY <3>2, <3>3, <3>4
  <2> HIDE DEF Ns
  <2>7. top - 1 \in Ns
    <3>1. top - 1 \in Nat
      BY <1>1, <1>3
    <3>2. QED
      BY <2>5, <2>6, <3>1, SetInduction
  <2>8. ff[top] = f0[top]
    BY <2>7, <1>1, <1>3 DEF Ns
  <2>9. FlattenSeq(ss) = ff[top]
    BY <1>3 DEF FlattenSeq, ff
  <2>10. QED
    BY <2>8, <2>9, <1>1, <1>3 DEF f0
<1>4. QED
  BY <1>2, <1>3
(* Nothing glued is nothing; one piece more is glued to the rest.          *)
LEMMA FlattenGrows ==
    ASSUME NEW S, NEW ss \in Seq(Seq(S)), NEW n \in 0 .. Len(ss) - 1
    PROVE  /\ FlattenSeq(SubSeq(ss, 1, n)) \in Seq(S)
           /\ FlattenSeq(SubSeq(ss, 1, n + 1)) = FlattenSeq(SubSeq(ss, 1, n)) \o ss[n + 1]
<1>1. PICK g \in Gluing(S, ss) : TRUE
  BY GluingExists
<1>2. ASSUME NEW m \in 0 .. Len(ss)
      PROVE  /\ SubSeq(ss, 1, m) \in Seq(Seq(S)) /\ Len(SubSeq(ss, 1, m)) = m
             /\ FlattenSeq(SubSeq(ss, 1, m)) = g[m] /\ g[m] \in Seq(S)
  <2>1. Len(ss) \in Nat /\ \A k \in 1 .. Len(ss) : ss[k] \in Seq(S)
    BY ElementOfSeq
  <2> DEFINE t == SubSeq(ss, 1, m)
             h == [k \in 0 .. m |-> g[k]]
  <2>2. /\ t \in Seq(Seq(S)) /\ Len(t) = m
        /\ \A i \in 1 .. m : t[i] = ss[i]
    <3>1. \A i \in 1 .. m : ss[i] \in Seq(S)
      BY <2>1
    <3>2. m - 1 + 1 = m /\ (IF 1 <= m THEN m - 1 + 1 ELSE 0) = m /\ m \in Int
      OBVIOUS
    <3>3. /\ t \in Seq(Seq(S)) /\ Len(t) = IF 1 <= m THEN m - 1 + 1 ELSE 0
          /\ \A i \in 1 .. m - 1 + 1 : t[i] = ss[1 + i - 1]
      BY <3>1, <3>2, SubSeqProperties
    <3>4. \A i \in 1 .. m : 1 + i - 1 = i
      OBVIOUS
    <3>5. QED
      BY <3>2, <3>3, <3>4
  <2>3. h \in Gluing(S, t)
    <3>1. h \in [0 .. m -> Seq(S)] /\ h[0] = <<>>
      <4>1. g \in [0 .. Len(ss) -> Seq(S)] /\ g[0] = <<>>
        BY <1>1 DEF Gluing
      <4>2. 0 \in 0 .. m /\ \A k \in 0 .. m : k \in 0 .. Len(ss)
        BY <2>1
      <4>3. \A k \in 0 .. m : g[k] \in Seq(S)
        BY <4>1, <4>2
      <4>4. QED
        BY <4>1, <4>2, <4>3
    <3>2. ASSUME NEW k \in 1 .. m
          PROVE  h[k] = h[k - 1] \o t[k]
      <4>1. k \in 1 .. Len(ss) /\ k - 1 \in 0 .. m /\ k \in 0 .. m
        BY <2>1
      <4>2. g[k] = g[k - 1] \o ss[k]
        BY <1>1, <4>1 DEF Gluing
      <4>3. QED
        BY <2>2, <4>1, <4>2
    <3> HIDE DEF h, t
    <3>3. QED
      BY <3>1, <3>2, <2>2 DEF Gluing
  <2>4. FlattenSeq(t) = h[m]
    <3> HIDE DEF h, t
    <3>1. QED
      BY <2>2, <2>3, FlattenIsGluing
  <2>5. h[m] = g[m] /\ g[m] \in Seq(S)
    <3>1. g \in [0 .. Len(ss) -> Seq(S)] /\ m \in 0 .. m
      BY <1>1 DEF Gluing
    <3>2. QED
      BY <3>1
  <2>6. QED
    BY <2>2, <2>4, <2>5
<1>3. n \in 0 .. Len(ss) /\ n + 1 \in 0 .. Len(ss) /\ n + 1 \in 1 .. Len(ss) /\ (n + 1) - 1 = n
  OBVIOUS
<1>4. g[n + 1] = g[n] \o ss[n + 1]
  BY <1>1, <1>3 DEF Gluing
<1>5. QED
  BY <1>2, <1>3, <1>4

-----------------------------------------------------------------------------
(* Gb2312.                                                                 *)

CodePoints == {u \in Nat : 1 <= u /\ u <= 65535}

(* The first k characters, as they come and as they should go.             *)
Bytes(k) == FlattenSeq([i \in 1 .. k |-> Utf8(fileName[i])])
Doubles(k) == FlattenSeq([i \in 1 .. k |-> Gb(fileName[i])])

(* Whole characters have been taken, and what they mean has been written.  *)
InCharacters ==
    Plain => \E k \in 0 .. Len(fileName) : textAt = Len(Bytes(k)) /\ newBuf = Doubles(k)

NameInv ==
    /\ fileName \in Seq(CodePoints)
    /\ pText = Bytes(Len(fileName))
    /\ textAt \in Nat /\ newBuf \in Seq(Int) /\ Len(newBuf) <= textAt
    /\ Ctemp \in Int \X Int
    /\ InCharacters

LEMMA CodeRange == \A u : u \in CodePoints <=> u \in Nat /\ 1 <= u /\ u <= 65535
  BY DEF CodePoints

(* The search in the table finds a row or gives MISSING.                   *)
LEMMA GetgbIsNumber ==
    ASSUME NEW u
    PROVE  getgb(u) \in Nat
<1> DEFINE found == {i \in DOMAIN giGB2312 : giGB2312[i][2] = u}
           row == CHOOSE i \in found : \A k \in found : i <= k
<1>1. \A i \in 1 .. 3 : giGB2312[i][1] \in Nat
  BY DEF giGB2312
<1>2. DOMAIN giGB2312 = 1 .. 3
  BY DEF giGB2312
<1>3. CASE found = {}
  <2>1. getgb(u) = MISSING
    BY <1>3 DEF getgb
  <2>2. QED
    BY <2>1 DEF MISSING
<1>4. CASE found # {}
  <2>1. found \in SUBSET (1 .. 3) /\ found \in SUBSET Nat
    BY <1>2
  <2> HIDE DEF found
  <2>2. \E i \in found : \A k \in found : i <= k
    BY <2>1, <1>4, LeastNumber
  <2>3. row \in 1 .. 3
    BY <2>1, <2>2
  <2>4. getgb(u) = giGB2312[row][1]
    BY <1>4 DEF getgb, found
  <2>5. QED
    BY <1>1, <2>3, <2>4
<1>5. QED
  BY <1>3, <1>4

(* The bytes of a character and its code.                                  *)
LEMMA CodeTypes ==
    ASSUME NEW u \in CodePoints
    PROVE  Utf8(u) \in Seq(Nat) /\ Gb(u) \in Seq(Int)
<1>2. Utf8(u) \in Seq(Nat)
  <2>1. /\ u \in Nat /\ 192 + u \div 64 \in Nat /\ 128 + (u % 64) \in Nat
        /\ 224 + u \div 4096 \in Nat /\ 128 + ((u \div 64) % 64) \in Nat
    BY CodeRange
  <2>2. QED
    BY <2>1 DEF Utf8
<1>3. Gb(u) \in Seq(Int)
  <2>1. u \in Int /\ getgb(u) % 256 \in Int /\ getgb(u) \div 256 \in Int
    BY GetgbIsNumber, CodeRange
  <2>2. QED
    BY <2>1 DEF Gb
<1>4. QED
  BY <1>2, <1>3

(* One character more.                                                     *)
LEMMA OneMore ==
    ASSUME fileName \in Seq(CodePoints), NEW k \in 0 .. Len(fileName) - 1
    PROVE  /\ Bytes(k) \in Seq(Nat) /\ Doubles(k) \in Seq(Int)
           /\ Bytes(k + 1) = Bytes(k) \o Utf8(fileName[k + 1])
           /\ Doubles(k + 1) = Doubles(k) \o Gb(fileName[k + 1])
<1> DEFINE top == Len(fileName)
           us == [i \in 1 .. top |-> Utf8(fileName[i])]
           gs == [i \in 1 .. top |-> Gb(fileName[i])]
<1>1. top \in Nat /\ \A i \in 1 .. top : fileName[i] \in CodePoints
  BY ElementOfSeq
<1>2. us \in Seq(Seq(Nat)) /\ gs \in Seq(Seq(Int)) /\ Len(us) = top /\ Len(gs) = top
  BY <1>1, CodeTypes
<1>3. ASSUME NEW m \in 0 .. top
      PROVE  /\ SubSeq(us, 1, m) = [i \in 1 .. m |-> Utf8(fileName[i])]
             /\ SubSeq(gs, 1, m) = [i \in 1 .. m |-> Gb(fileName[i])]
  BY <1>1, <1>2
<1>4. us[k + 1] = Utf8(fileName[k + 1]) /\ gs[k + 1] = Gb(fileName[k + 1])
  BY <1>1
<1> HIDE DEF us, gs
<1>5. /\ FlattenSeq(SubSeq(us, 1, k)) \in Seq(Nat)
      /\ FlattenSeq(SubSeq(us, 1, k + 1)) = FlattenSeq(SubSeq(us, 1, k)) \o us[k + 1]
  BY <1>2, FlattenGrows
<1>6. /\ FlattenSeq(SubSeq(gs, 1, k)) \in Seq(Int)
      /\ FlattenSeq(SubSeq(gs, 1, k + 1)) = FlattenSeq(SubSeq(gs, 1, k)) \o gs[k + 1]
  BY <1>2, FlattenGrows
<1>7. k \in 0 .. top /\ k + 1 \in 0 .. top
  BY <1>1
<1>8. QED
  BY <1>3, <1>4, <1>5, <1>6, <1>7 DEF Bytes, Doubles

(* The bytes of the first k characters come first in those of m.           *)
Begins(k, m) ==
    /\ Bytes(m) \in Seq(Nat)
    /\ Len(Bytes(k)) <= Len(Bytes(m))
    /\ \A i \in 1 .. Len(Bytes(k)) : Bytes(m)[i] = Bytes(k)[i]

(* What the first characters are is the beginning of what more are.        *)
LEMMA FirstBytes ==
    ASSUME fileName \in Seq(CodePoints), NEW k \in 0 .. Len(fileName),
           NEW l \in 0 .. Len(fileName), k <= l
    PROVE  Bytes(k) \in Seq(Nat) /\ Begins(k, l)
<1> DEFINE top == Len(fileName)
           Ns == {n \in Nat : k + n <= top => Begins(k, k + n)}
<1>1. top \in Nat /\ \A i \in 1 .. top : fileName[i] \in CodePoints
  BY ElementOfSeq
<1>2. Bytes(k) \in Seq(Nat)
  <2>1. CASE k = 0
    <3>1. [i \in 1 .. 0 |-> Utf8(fileName[i])] = <<>>
      OBVIOUS
    <3>2. FlattenSeq(<<>>) = <<>>
      BY DEF FlattenSeq
    <3>3. QED
      BY <2>1, <3>1, <3>2, EmptySeq DEF Bytes
  <2>2. CASE k # 0
    <3>1. k - 1 \in 0 .. top - 1 /\ (k - 1) + 1 = k /\ k \in 1 .. top
      BY <2>2, <1>1
    <3>2. Bytes(k - 1) \in Seq(Nat) /\ Bytes(k) = Bytes(k - 1) \o Utf8(fileName[k])
      BY <3>1, OneMore
    <3>3. QED
      BY <3>1, <3>2, <1>1, CodeTypes, ConcatProperties
  <2>3. QED
    BY <2>1, <2>2
<1>3. 0 \in Ns
  <2>1. k + 0 = k /\ Len(Bytes(k)) \in Nat
    BY <1>2
  <2>2. Begins(k, k)
    BY <1>2, <2>1 DEF Begins
  <2>3. QED
    BY <2>1, <2>2
<1>4. ASSUME NEW n \in Nat, n \in Ns, k + (n + 1) <= top
      PROVE  Begins(k, k + (n + 1))
  <2>1. k + n \in 0 .. top - 1 /\ (k + n) + 1 = k + (n + 1) /\ (k + n) + 1 \in 1 .. top
    BY <1>1, <1>4
  <2>2. Begins(k, k + n)
    BY <2>1, <1>1, <1>4
  <2> DEFINE old == Bytes(k + n)
             new == Bytes(k + (n + 1))
             more == Utf8(fileName[(k + n) + 1])
  <2>3. old \in Seq(Nat) /\ more \in Seq(Nat) /\ new = old \o more
    BY <2>1, <1>1, OneMore, CodeTypes
  <2> HIDE DEF old, new, more
  <2>4. /\ new \in Seq(Nat) /\ Len(new) = Len(old) + Len(more)
        /\ Len(old) \in Nat /\ Len(more) \in Nat /\ Len(Bytes(k)) \in Nat
        /\ \A i \in 1 .. Len(old) : new[i] = old[i]
    <3>1. Len(old) \in Nat /\ Len(more) \in Nat /\ Len(Bytes(k)) \in Nat
      BY <1>2, <2>3, LenProperties
    <3>2. QED
      BY <2>3, <3>1, ConcatProperties
  <2>5. /\ Len(Bytes(k)) <= Len(old)
        /\ \A i \in 1 .. Len(Bytes(k)) : old[i] = Bytes(k)[i]
    BY <2>2 DEF old, Begins
  <2>6. /\ Len(Bytes(k)) <= Len(new)
        /\ \A i \in 1 .. Len(Bytes(k)) : new[i] = Bytes(k)[i]
    <3>1. \A i \in 1 .. Len(Bytes(k)) : i \in 1 .. Len(old)
      BY <2>4, <2>5
    <3>2. Len(Bytes(k)) <= Len(new)
      BY <2>4, <2>5
    <3>3. QED
      BY <2>4, <2>5, <3>1, <3>2
  <2>7. QED
    BY <2>4, <2>6 DEF new, Begins
<1>5. \A n \in Nat : n \in Ns => n + 1 \in Ns
  BY <1>4
<1> HIDE DEF Ns
<1>6. \A n \in Nat : n \in Ns
  BY <1>3, <1>5, SetInduction
<1>7. l - k \in Nat /\ k + (l - k) = l /\ l <= top
  BY <1>1
<1>8. Begins(k, l)
  BY <1>6, <1>7 DEF Ns
<1>9. QED
  BY <1>2, <1>8

(* Three bytes with a code point taken apart and put together again.       *)
LEMMA TakenApart ==
    ASSUME NEW u \in Nat, u <= 65535
    PROVE  /\ (224 + u \div 4096) % 16 = u \div 4096
           /\ ((128 + ((u \div 64) % 64)) \div 4) % 16 = (u \div 256) % 16
           /\ (128 + ((u \div 64) % 64)) % 4 = (u \div 64) % 4
           /\ (128 + (u % 64)) % 64 = u % 64
           /\ ((u \div 4096) * 16 + ((u \div 256) % 16)) * 256 + ((u \div 64) % 4) * 64 + (u % 64) = u
<1>1. (224 + u \div 4096) % 16 = u \div 4096
  OBVIOUS
<1>2. ((128 + ((u \div 64) % 64)) \div 4) % 16 = (u \div 256) % 16
  OBVIOUS
<1>3. (128 + ((u \div 64) % 64)) % 4 = (u \div 64) % 4
  OBVIOUS
<1>4. (128 + (u % 64)) % 64 = u % 64
  OBVIOUS
<1>5. ((u \div 4096) * 16 + ((u \div 256) % 16)) * 256 + ((u \div 64) % 4) * 64 + (u % 64) = u
  <2>1. u = 64 * (u \div 64) + (u % 64)
    OBVIOUS
  <2>2. u \div 64 = 4 * (u \div 256) + ((u \div 64) % 4)
    OBVIOUS
  <2>3. u \div 256 = 16 * (u \div 4096) + ((u \div 256) % 16)
    OBVIOUS
  <2>4. QED
    BY <2>1, <2>2, <2>3
<1>6. QED
  BY <1>1, <1>2, <1>3, <1>4, <1>5

(* Between two characters the next bytes are those of the next one.        *)
LEMMA NextCharacter ==
    ASSUME NameInv, NEW k \in 0 .. Len(fileName), textAt = Len(Bytes(k)), textAt < Len(pText)
    PROVE  /\ k \in 0 .. Len(fileName) - 1 /\ fileName[k + 1] \in CodePoints
           /\ Utf8(fileName[k + 1]) \in Seq(Nat)
           /\ Len(Bytes(k + 1)) = textAt + Len(Utf8(fileName[k + 1]))
           /\ Len(pText) \in Nat
           /\ \A j \in 1 .. Len(Utf8(fileName[k + 1])) :
                ByteAt(textAt + (j - 1)) = Utf8(fileName[k + 1])[j]
<1> DEFINE top == Len(fileName)
           us == Utf8(fileName[k + 1])
<1>1. fileName \in Seq(CodePoints) /\ pText = Bytes(top) /\ textAt \in Nat
  BY DEF NameInv
<1>2. top \in Nat /\ \A i \in 1 .. top : fileName[i] \in CodePoints
  BY <1>1, ElementOfSeq
<1>3. k \in 0 .. top - 1 /\ k + 1 \in 1 .. top
  BY <1>1, <1>2
<1>4. us \in Seq(Nat) /\ fileName[k + 1] \in CodePoints
  BY <1>2, <1>3, CodeTypes
<1>5. Bytes(k) \in Seq(Nat) /\ Bytes(k + 1) = Bytes(k) \o us
  BY <1>1, <1>3, OneMore
<1>6. /\ pText \in Seq(Nat) /\ Len(Bytes(k + 1)) <= Len(pText)
      /\ \A i \in 1 .. Len(Bytes(k + 1)) : pText[i] = Bytes(k + 1)[i]
  <2>1. k + 1 \in 0 .. top /\ top \in 0 .. top /\ k + 1 <= top
    BY <1>2, <1>3
  <2>2. Begins(k + 1, top)
    BY <1>1, <2>1, FirstBytes
  <2>3. QED
    BY <1>1, <2>2 DEF Begins
<1>7. Len(us) \in Nat /\ Len(pText) \in Nat
  BY <1>4, <1>6
<1>8. Len(Bytes(k + 1)) = textAt + Len(us)
  BY <1>4, <1>5, ConcatProperties
<1> HIDE DEF us
<1>9. ASSUME NEW j \in 1 .. Len(us)
      PROVE  ByteAt(textAt + (j - 1)) = us[j]
  <2> DEFINE i == textAt + j
  <2>1. /\ i \in 1 .. Len(Bytes(k + 1)) /\ i \in 1 .. Len(Bytes(k)) + Len(us)
        /\ ~(i <= Len(Bytes(k))) /\ i - Len(Bytes(k)) = j
        /\ textAt + (j - 1) < Len(pText) /\ (textAt + (j - 1)) + 1 = i
    BY <1>1, <1>6, <1>7, <1>8
  <2>2. Bytes(k + 1)[i] = us[j]
    BY <1>4, <1>5, <2>1, ConcatProperties
  <2>3. ByteAt(textAt + (j - 1)) = pText[i]
    BY <2>1 DEF ByteAt
  <2>4. QED
    BY <1>6, <2>1, <2>2, <2>3
<1>10. QED
  BY <1>3, <1>4, <1>7, <1>8, <1>9 DEF us

(* One step of UTF_8ToGB2312 keeps whole characters.                       *)
LEMMA CharacterByCharacter == NameInv /\ NameNext => InCharacters'
<1> SUFFICES ASSUME NameInv, NameNext, Plain'
             PROVE  \E k \in 0 .. Len(fileName)' : textAt' = Len(Bytes(k)') /\ newBuf' = Doubles(k)'
  BY DEF InCharacters
<1>1. UNCHANGED <<fileName, pText>> /\ Plain /\ textAt < Len(pText)
  BY DEF NameNext, CopyByte, ConvertThree, Plain
<1>2. \A k : Bytes(k)' = Bytes(k) /\ Doubles(k)' = Doubles(k)
  BY <1>1 DEF Bytes, Doubles
<1>3. PICK k \in 0 .. Len(fileName) : textAt = Len(Bytes(k)) /\ newBuf = Doubles(k)
  BY <1>1 DEF NameInv, InCharacters
<1> DEFINE u == fileName[k + 1]
<1>4. /\ k \in 0 .. Len(fileName) - 1 /\ u \in CodePoints
      /\ Utf8(u) \in Seq(Nat) /\ Len(Bytes(k + 1)) = textAt + Len(Utf8(u))
      /\ \A j \in 1 .. Len(Utf8(u)) : ByteAt(textAt + (j - 1)) = Utf8(u)[j]
  BY <1>1, <1>3, NextCharacter
<1>5. fileName \in Seq(CodePoints) /\ textAt \in Nat /\ Len(fileName) \in Nat
  BY DEF NameInv
<1>6. Doubles(k + 1) = Doubles(k) \o Gb(u)
  BY <1>4, <1>5, OneMore
<1>7. k + 1 \in 0 .. Len(fileName) /\ k + 1 \in DOMAIN fileName
  BY <1>4, <1>5
<1>8. u \in Nat /\ 1 <= u /\ u <= 65535 /\ (u < 128 \/ u >= 2048)
  BY <1>1, <1>4, <1>7, CodeRange DEF Plain
<1> HIDE DEF u
<1>9. textAt' = Len(Bytes(k + 1)) /\ newBuf' = Doubles(k + 1)
  <2>1. CASE u < 128
    <3>1. Utf8(u) = <<u>> /\ Gb(u) = <<u>>
      BY <2>1 DEF Utf8, Gb
    <3>2. Len(Utf8(u)) = 1 /\ Utf8(u)[1] = u /\ 1 \in 1 .. 1 /\ textAt + (1 - 1) = textAt
      BY <3>1, <1>5
    <3>3. ByteAt(textAt) = u
      BY <1>4, <3>2
    <3>4. ~ConvertThree
      BY <3>3, <2>1, <1>8 DEF ConvertThree
    <3>5. newBuf' = Append(newBuf, u) /\ textAt' = textAt + 1
      BY <3>3, <3>4 DEF NameNext, CopyByte
    <3>6. Append(newBuf, u) = newBuf \o <<u>>
      BY <1>8 DEF NameInv
    <3>7. QED
      BY <1>3, <1>4, <1>6, <3>1, <3>2, <3>5, <3>6
  <2>2. CASE u >= 2048
    <3>1. /\ Utf8(u) = <<224 + u \div 4096, 128 + ((u \div 64) % 64), 128 + (u % 64)>>
          /\ Gb(u) = <<getgb(u) % 256, getgb(u) \div 256>>
      BY <2>2, <1>8 DEF Utf8, Gb
    <3>2. /\ Len(Utf8(u)) = 3 /\ 1 \in 1 .. 3 /\ 2 \in 1 .. 3 /\ 3 \in 1 .. 3
          /\ textAt + (1 - 1) = textAt /\ textAt + (2 - 1) = textAt + 1
          /\ textAt + (3 - 1) = textAt + 2
      BY <3>1, <1>5
    <3>3. /\ ByteAt(textAt) = 224 + u \div 4096
          /\ ByteAt(textAt + 1) = 128 + ((u \div 64) % 64)
          /\ ByteAt(textAt + 2) = 128 + (u % 64)
      <4>1. /\ Utf8(u)[1] = 224 + u \div 4096 /\ Utf8(u)[2] = 128 + ((u \div 64) % 64)
            /\ Utf8(u)[3] = 128 + (u % 64)
        BY <3>1
      <4>2. \A j \in 1 .. 3 : ByteAt(textAt + (j - 1)) = Utf8(u)[j]
        BY <1>4, <3>2
      <4>3. QED
        BY <3>2, <4>1, <4>2
    <3>4. Unicode = u
      <4>1. HighByte = (u \div 4096) * 16 + ((u \div 256) % 16)
        BY <3>3, <1>8, TakenApart DEF HighByte
      <4>2. Unicode = ((u \div 4096) * 16 + ((u \div 256) % 16)) * 256
                        + ((u \div 64) % 4) * 64 + (u % 64)
        BY <3>3, <4>1, <1>8, TakenApart DEF Unicode
      <4>3. QED
        BY <4>2, <1>8, TakenApart
    <3>5. Converted = Gb(u)
      BY <3>1, <3>4, <1>8, <2>2 DEF Converted
    <3>6. ~CopyByte
      <4>1. 224 + u \div 4096 >= 128
        BY <1>8
      <4>2. QED
        BY <3>3, <4>1, <1>8 DEF CopyByte
    <3>7. newBuf' = newBuf \o Gb(u) /\ textAt' = textAt + 3
      BY <3>5, <3>6 DEF NameNext, ConvertThree
    <3>8. QED
      BY <1>3, <1>4, <1>6, <3>2, <3>7
  <2>3. QED
    BY <1>8, <2>1, <2>2
<1>10. QED
  BY <1>1, <1>2, <1>7, <1>9

LEMMA NoCharacters == Bytes(0) = <<>> /\ Doubles(0) = <<>>
<1>1. [i \in 1 .. 0 |-> Utf8(fileName[i])] = <<>> /\ [i \in 1 .. 0 |-> Gb(fileName[i])] = <<>>
  OBVIOUS
<1>2. FlattenSeq(<<>>) = <<>>
  BY DEF FlattenSeq
<1>3. QED
  BY <1>1, <1>2 DEF Bytes, Doubles

LEMMA NameStarts == NameInit => NameInv
<1> SUFFICES ASSUME NameInit
             PROVE  NameInv
  OBVIOUS
<1>1. fileName \in Seq(CodePoints)
  <2>1. PICK m \in 0 .. MaxName : fileName \in [1 .. m -> NameChars]
    BY DEF NameInit, SeqOf
  <2>2. NameChars \subseteq CodePoints
    BY NameCharsAssumption, CodeRange
  <2>3. m \in Nat /\ fileName \in [1 .. m -> CodePoints]
    BY <2>1, <2>2, NameCharsAssumption
  <2>4. QED
    BY <2>3
<1>2. pText = Bytes(Len(fileName))
  BY <1>1 DEF NameInit, Bytes
<1>3. textAt \in Nat /\ newBuf \in Seq(Int) /\ Len(newBuf) <= textAt /\ Ctemp \in Int \X Int
  BY DEF NameInit
<1>4. InCharacters
  <2>1. 0 \in 0 .. Len(fileName) /\ Len(Bytes(0)) = 0
    BY <1>1, NoCharacters
  <2>2. QED
    BY <2>1, NoCharacters DEF NameInit, InCharacters
<1>5. QED
  BY <1>1, <1>2, <1>3, <1>4 DEF NameInv

(* The text of a path, and what is taken of it.                            *)
LEMMA ByteTypes ==
    ASSUME NameInv
    PROVE  pText \in Seq(Nat) /\ \A k \in Nat : ByteAt(k) \in Nat
<1>1. Len(fileName) \in Nat /\ fileName \in Seq(CodePoints)
  BY DEF NameInv
<1>2. pText \in Seq(Nat)
  <2>1. Len(fileName) \in 0 .. Len(fileName) /\ Len(fileName) <= Len(fileName)
    BY <1>1
  <2>2. Bytes(Len(fileName)) \in Seq(Nat)
    BY <1>1, <2>1, FirstBytes
  <2>3. QED
    BY <2>2 DEF NameInv
<1>3. QED
  BY <1>2 DEF ByteAt

LEMMA ConvertedTypes ==
    ASSUME NameInv
    PROVE  Converted \in Int \X Int
<1>1. ByteAt(textAt) \in Nat /\ ByteAt(textAt + 1) \in Nat /\ ByteAt(textAt + 2) \in Nat
  <2>1. textAt \in Nat /\ textAt + 1 \in Nat /\ textAt + 2 \in Nat
    BY DEF NameInv
  <2>2. QED
    BY <2>1, ByteTypes
<1>2. HighByte \in Int
  BY <1>1 DEF HighByte
<1>3. Unicode \in Int
  BY <1>1, <1>2 DEF Unicode
<1>4. getgb(Unicode) % 256 \in Int /\ getgb(Unicode) \div 256 \in Int
  BY GetgbIsNumber
<1>5. QED
  BY <1>3, <1>4 DEF Converted, NameInv

LEMMA NameKept == NameInv /\ [NameNext]_nameVars => NameInv'
<1> SUFFICES ASSUME NameInv, [NameNext]_nameVars
             PROVE  NameInv'
  OBVIOUS
<1>1. fileName \in Seq(CodePoints) /\ textAt \in Nat /\ newBuf \in Seq(Int) /\ Len(newBuf) <= textAt
  BY DEF NameInv
<1>2. CASE CopyByte
  <2>1. ByteAt(textAt) \in Int
    BY <1>1, ByteTypes
  <2>2. newBuf' \in Seq(Int) /\ textAt' \in Nat /\ Len(newBuf') <= textAt'
    BY <1>1, <1>2, <2>1 DEF CopyByte
  <2>3. InCharacters'
    BY <1>2, CharacterByCharacter DEF NameNext
  <2>4. QED
    BY <1>2, <2>2, <2>3 DEF CopyByte, NameInv, Bytes
<1>3. CASE ConvertThree
  <2> DEFINE two == Converted
  <2>1. two \in Int \X Int
    BY ConvertedTypes
  <2>2. newBuf' = newBuf \o two /\ textAt' = textAt + 3 /\ Ctemp' = two
    BY <1>3 DEF ConvertThree
  <2> HIDE DEF two
  <2>3. PICK a \in Int, b \in Int : two = <<a, b>>
    BY <2>1
  <2>4. <<a, b>> \in Seq(Int) /\ Len(<<a, b>>) = 2
    OBVIOUS
  <2>5. newBuf' \in Seq(Int) /\ Len(newBuf') = Len(newBuf) + 2
    <3>1. two \in Seq(Int) /\ Len(two) = 2
      BY <2>3, <2>4
    <3> HIDE <2>3
    <3>2. newBuf \o two \in Seq(Int) /\ Len(newBuf \o two) = Len(newBuf) + Len(two)
      BY <1>1, <3>1, ConcatProperties
    <3>3. QED
      BY <2>2, <3>1, <3>2
  <2>6. textAt' \in Nat /\ Len(newBuf') <= textAt'
    BY <1>1, <2>2, <2>5
  <2>7. InCharacters'
    BY <1>3, CharacterByCharacter DEF NameNext
  <2>8. fileName' = fileName /\ pText' = pText
    BY <1>3 DEF ConvertThree
  <2>9. pText' = Bytes(Len(fileName))' /\ Ctemp' \in Int \X Int
    BY <2>1, <2>2, <2>8 DEF NameInv, Bytes
  <2>10. fileName' \in Seq(CodePoints)
    BY <1>1, <2>8
  <2>11. QED
    BY <2>5, <2>6, <2>7, <2>9, <2>10 DEF NameInv, Bytes
<1>4. CASE UNCHANGED nameVars
  <2>1. UNCHANGED <<fileName, pText, textAt, newBuf, Ctemp>>
    BY <1>4 DEF nameVars
  <2>2. /\ \A k : Bytes(k)' = Bytes(k) /\ Doubles(k)' = Doubles(k)
        /\ Bytes(Len(fileName))' = Bytes(Len(fileName)) /\ (Plain' <=> Plain)
    BY <2>1 DEF Bytes, Doubles, Plain
  <2>3. InCharacters'
    BY <2>1, <2>2 DEF NameInv, InCharacters
  <2>4. QED
    BY <2>1, <2>2, <2>3 DEF NameInv
<1>5. QED
  BY <1>2, <1>3, <1>4 DEF NameNext

(* UTF_8ToGB2312: what is written when all has been taken.                 *)
LEMMA TextComesOut ==
    NameInv => /\ Len(newBuf) <= textAt
               /\ (textAt >= Len(pText) /\ Plain)
                    => newBuf = FlattenSeq([k \in DOMAIN fileName |-> Gb(fileName[k])])
<1> SUFFICES ASSUME NameInv, textAt >= Len(pText), Plain
             PROVE  newBuf = FlattenSeq([k \in DOMAIN fileName |-> Gb(fileName[k])])
  BY DEF NameInv
<1> DEFINE top == Len(fileName)
<1>1. /\ fileName \in Seq(CodePoints) /\ top \in Nat /\ DOMAIN fileName = 1 .. top
      /\ pText = Bytes(top) /\ textAt \in Nat
  BY DEF NameInv
<1>3. PICK k \in 0 .. top : textAt = Len(Bytes(k)) /\ newBuf = Doubles(k)
  BY DEF NameInv, InCharacters
<1>4. k = top
  <2> SUFFICES ASSUME k # top
               PROVE  FALSE
    OBVIOUS
  <2>0. top \in Nat
    BY <1>1
  <2> DEFINE us == Utf8(fileName[k + 1])
  <2>1. k \in 0 .. top - 1
    <3> HIDE DEF top
    <3>1. QED
      BY <2>0
  <2>2. k + 1 \in 1 .. top /\ k + 1 \in 0 .. top /\ top \in 0 .. top /\ k + 1 <= top
    <3> HIDE DEF top
    <3>1. QED
      BY <2>0, <2>1
  <2>3. us \in Seq(Nat) /\ Len(us) >= 1
    <3>1. fileName[k + 1] \in CodePoints
      BY <1>1, <2>2, ElementOfSeq
    <3>2. us \in Seq(Nat)
      BY <3>1, CodeTypes
    <3>3. Len(us) >= 1
      BY DEF Utf8
    <3>4. QED
      BY <3>2, <3>3
  <2>4. Bytes(k) \in Seq(Nat) /\ Bytes(k + 1) = Bytes(k) \o us
    <3>1. k \in 0 .. Len(fileName) - 1
      BY <2>1
    <3>2. QED
      BY <1>1, <3>1, OneMore
  <2>5. Begins(k + 1, top)
    BY <1>1, <2>2, FirstBytes
  <2> HIDE DEF us
  <2>6. Len(Bytes(k + 1)) = textAt + Len(us) /\ Len(us) \in Nat
    BY <1>3, <2>3, <2>4, ConcatProperties
  <2>7. Len(Bytes(k + 1)) <= Len(pText) /\ Len(pText) \in Nat
    <3>1. Len(Bytes(top)) \in Nat /\ Len(Bytes(k + 1)) <= Len(Bytes(top))
      BY <2>5 DEF Begins
    <3>2. QED
      BY <1>1, <3>1, Zenon
  <2>8. textAt \in Nat
    BY <1>1
  <2>9. QED
    BY <2>3, <2>6, <2>7, <2>8
<1>5. QED
  BY <1>1, <1>3, <1>4 DEF Doubles

-----------------------------------------------------------------------------
(* The two commands.                                                       *)

(* get_file_name with make_cwd_comm, for every path.                       *)
LEMMA EveryPathSplits ==
    ASSUME NEW S, NEW path \in Seq(S)
    PROVE  SplitsWell(path)
<1> DEFINE top == Len(path)
           slashes == {i \in 1 .. top : path[i] = SLASH}
           last == IF slashes # {} THEN Max(slashes) ELSE 0
           name == get_file_name(path)
<1>1. top \in Nat
  OBVIOUS
<1>2. last \in 0 .. top
  <2>1. CASE slashes = {}
    BY <1>1, <2>1
  <2>2. CASE slashes # {}
    <3> DEFINE turned == {n \in Nat : \E i \in slashes : n = top - i}
    <3>1. turned \subseteq Nat /\ turned # {}
      <4>1. \A i \in slashes : top - i \in Nat
        BY <1>1
      <4> HIDE DEF slashes
      <4>2. PICK i \in slashes : TRUE
        BY <2>2
      <4>3. top - i \in turned
        BY <4>1, <4>2
      <4>4. QED
        BY <4>1, <4>3
    <3> HIDE DEF turned
    <3>2. PICK n \in turned : \A m \in turned : n <= m
      BY <3>1, LeastNumber
    <3>3. PICK i \in slashes : n = top - i
      BY <3>2 DEF turned
    <3>4. \A y \in slashes : i >= y
      <4>1. SUFFICES ASSUME NEW y \in slashes
                     PROVE  i >= y
        OBVIOUS
      <4>2. top - y \in turned
        BY <1>1 DEF turned
      <4>3. QED
        BY <1>1, <3>2, <3>3, <4>2
    <3>5. Max(slashes) \in slashes
      <4> HIDE DEF slashes
      <4>1. QED
        BY <3>3, <3>4 DEF Max
    <3>6. QED
      BY <1>1, <2>2, <3>5
  <2>3. QED
    BY <2>1, <2>2
<1>3. name = SubSeq(path, last + 1, top)
  BY DEF get_file_name, SelectLastInSeq
<1> HIDE DEF last, name
<1>4. /\ name \in Seq(S) /\ Len(name) = top - last
      /\ \A i \in 1 .. top - last : name[i] = path[last + i]
  BY <1>1, <1>2, <1>3
<1>5. CASE name = <<>>
  <2>1. make_cwd_comm(path) = path
    BY <1>5 DEF make_cwd_comm, name
  <2>2. QED
    BY <1>5, <2>1, ConcatEmptySeq DEF SplitsWell, name
<1>6. CASE name # <<>>
  <2> DEFINE places == NamePlaces(path)
  <2>1. last < top
    BY <1>1, <1>2, <1>4, <1>6, EmptySeq
  <2>2. places = {k \in 1 .. last + 1 : SubSeq(path, k, k + Len(name) - 1) = name}
    <3>1. top - Len(name) + 1 = last + 1
      BY <1>1, <1>2, <1>4
    <3>2. QED
      BY <3>1 DEF NamePlaces, name
  <2>3. last + 1 \in places
    <3>1. (last + 1) + Len(name) - 1 = top /\ last + 1 \in 1 .. last + 1
      BY <1>1, <1>2, <1>4
    <3>2. QED
      BY <1>3, <2>2, <3>1
  <2>4. places \subseteq Nat
    BY <2>2, <1>2
  <2> HIDE DEF places
  <2>5. Min(places) \in places /\ \A k \in places : Min(places) <= k
    <3>1. \E x \in places : \A y \in places : x <= y
      BY <2>3, <2>4, LeastNumber
    <3>2. QED
      BY <3>1 DEF Min
  <2>6. CASE Min(places) = last + 1
    <3>1. make_cwd_comm(path) = SubSeq(path, 1, last)
      <4>1. (last + 1) - 1 = last
        BY <1>2
      <4>2. QED
        BY <1>6, <2>6, <4>1 DEF make_cwd_comm, NameAt, places, name
    <3>2. SubSeq(path, 1, last) \o SubSeq(path, last + 1, top) = SubSeq(path, 1, top)
      <4>1. 1 \in 1 .. top + 1 /\ last \in 1 - 1 .. top /\ top \in last .. top
        BY <1>1, <1>2
      <4>2. QED
        BY <4>1, ConcatAdjacentSubSeq
    <3>3. SubSeq(path, 1, top) = path
      BY SubSeqFull
    <3>4. QED
      BY <1>3, <3>1, <3>2, <3>3 DEF SplitsWell, name
  <2>7. CASE Min(places) # last + 1
    <3>1. Min(places) < last + 1
      BY <1>2, <2>2, <2>3, <2>4, <2>5, <2>7
    <3>2. QED
      BY <2>3, <2>5, <3>1 DEF SplitsWell, places
  <2>8. QED
    BY <2>6, <2>7
<1>7. QED
  BY <1>5, <1>6

(* The name of a recording reaches the server as it is.                    *)
THEOREM NamesComeOut == NameSpec => []NameComesOut
<1>1. NameInit => NameInv
  BY NameStarts
<1>2. NameInv /\ [NameNext]_nameVars => NameInv'
  BY NameKept
<1>3. NameInv => NameComesOut
  BY TextComesOut, EveryPathSplits DEF NameComesOut, NameInv
<1>4. QED
  BY <1>1, <1>2, <1>3, PTL DEF NameSpec

-----------------------------------------------------------------------------
(* The poll of the live view.                                              *)

PollTypes ==
    /\ layout \in Layouts
    /\ polling \in {"four", "single"}
    /\ four \in [Positions -> Videos \cup {NONE}]
    /\ single \in Videos \cup {NONE}

(* Every camera has a place, and places can be counted.                    *)
LEMMA Places ==
    ASSUME layout \in Layouts
    PROVE  /\ LastGroup \in Nat /\ LastGroup > 1
           /\ Videos \subseteq Nat /\ Videos # {} /\ NONE \notin Videos
           /\ PlaceOf(NONE)[1] = -1 /\ PlaceOf(NONE)[2] = -1
           /\ \A v \in Videos :
                /\ PlaceOf(v) = layout[v + 1]
                /\ PlaceOf(v) = <<PlaceOf(v)[1], PlaceOf(v)[2]>>
                /\ PlaceOf(v)[1] \in 0 .. LastGroup
                /\ PlaceOf(v)[2] \in Positions
<1>1. LastGroup \in Nat /\ LastGroup > 1
  BY PollBounds
<1>2. layout \in Seq((0 .. LastGroup) \X Positions) /\ layout # <<>>
  BY LayoutsAssumption
<1>3. Len(layout) \in Nat /\ Len(layout) > 0
  BY <1>2, EmptySeq
<1>4. Videos \subseteq Nat /\ Videos # {} /\ NONE \notin Videos
  BY <1>3 DEF Videos, NONE
<1>5. PlaceOf(NONE)[1] = -1 /\ PlaceOf(NONE)[2] = -1
  BY <1>4 DEF PlaceOf
<1>6. ASSUME NEW v \in Videos
      PROVE  /\ PlaceOf(v) = layout[v + 1]
             /\ PlaceOf(v) = <<PlaceOf(v)[1], PlaceOf(v)[2]>>
             /\ PlaceOf(v)[1] \in 0 .. LastGroup
             /\ PlaceOf(v)[2] \in Positions
  <2>1. v + 1 \in 1 .. Len(layout)
    BY <1>3 DEF Videos
  <2>2. layout[v + 1] \in (0 .. LastGroup) \X Positions
    BY <1>2, <2>1, ElementOfSeq
  <2>3. PlaceOf(v) = layout[v + 1]
    BY DEF PlaceOf
  <2>4. QED
    BY <2>2, <2>3
<1>7. QED
  BY <1>1, <1>4, <1>5, <1>6

(* VideoAt finds a camera at the place, when there is one.                 *)
LEMMA VideoThere ==
    ASSUME layout \in Layouts, NEW g, NEW i
    PROVE  /\ VideoAt(g, i) = NONE \/ VideoAt(g, i) \in Videos
           /\ VideoAt(g, i) \in Videos => PlaceOf(VideoAt(g, i)) = <<g, i>>
           /\ \A v \in Videos : PlaceOf(v) = <<g, i>> => VideoAt(g, i) \in Videos
<1> DEFINE here == {v \in Videos : layout[v + 1] = <<g, i>>}
<1>1. CASE here = {}
  <2>1. VideoAt(g, i) = NONE
    BY <1>1 DEF VideoAt
  <2>2. QED
    BY <1>1, <2>1, Places
<1>2. CASE here # {}
  <2>1. \E v \in here : \A w \in here : v <= w
    <3>1. here \subseteq Nat
      BY Places
    <3> HIDE DEF here
    <3>2. QED
      BY <3>1, <1>2, LeastNumber
  <2>2. VideoAt(g, i) \in here
    BY <1>2, <2>1 DEF VideoAt
  <2>3. QED
    BY <2>2, Places
<1>3. QED
  BY <1>1, <1>2

(* A group's pictures are cameras that are at home in it.                  *)
LEMMA PicturesOf ==
    ASSUME layout \in Layouts, NEW g
    PROVE  /\ Pictures(g) \in [Positions -> Videos \cup {NONE}]
           /\ g \in 0 .. Groups - 1 => \A i \in Positions :
                Pictures(g)[i] \in Videos => Home(Pictures(g)[i]) = g
<1>1. \A i \in Positions :
        /\ VideoAt(g, i) \in Videos \cup {NONE}
        /\ VideoAt(LastGroup, i) \in Videos \cup {NONE}
  BY VideoThere
<1>2. Pictures(g) \in [Positions -> Videos \cup {NONE}]
  BY <1>1 DEF Pictures
<1>3. ASSUME g \in 0 .. Groups - 1, NEW i \in Positions, Pictures(g)[i] \in Videos
      PROVE  Home(Pictures(g)[i]) = g
  <2>1. LastGroup \in Nat /\ NONE \notin Videos
    BY Places
  <2>2. CASE VideoAt(g, i) = NONE /\ g = 0 /\ Few
    <3>1. Pictures(g)[i] = VideoAt(LastGroup, i)
      BY <2>2 DEF Pictures
    <3>2. PlaceOf(Pictures(g)[i]) = <<LastGroup, i>>
      BY <3>1, <1>3, VideoThere
    <3>3. QED
      BY <3>2, <2>2 DEF Home
  <2>3. CASE ~(VideoAt(g, i) = NONE /\ g = 0 /\ Few)
    <3>1. Pictures(g)[i] = VideoAt(g, i)
      BY <2>3 DEF Pictures
    <3>2. PlaceOf(Pictures(g)[i]) = <<g, i>>
      BY <3>1, <1>3, VideoThere
    <3>3. Few => g # LastGroup
      BY <1>3, <2>1 DEF Groups
    <3>4. QED
      BY <3>2, <3>3 DEF Home
  <2>4. QED
    BY <2>2, <2>3
<1>4. QED
  BY <1>2, <1>3

(* Each camera is among the pictures of its home.                          *)
LEMMA HomeShows ==
    ASSUME layout \in Layouts, Regular, NEW v \in Videos
    PROVE  Home(v) \in 0 .. Groups - 1 /\ \E i \in Positions : Pictures(Home(v))[i] = v
<1> DEFINE g == PlaceOf(v)[1]
           i == PlaceOf(v)[2]
<1>1. /\ g \in 0 .. LastGroup /\ i \in Positions /\ PlaceOf(v) = <<g, i>>
      /\ LastGroup \in Nat /\ LastGroup > 1 /\ NONE \notin Videos
  BY Places
<1>2. VideoAt(g, i) = v
  <2>1. VideoAt(g, i) \in Videos /\ PlaceOf(VideoAt(g, i)) = <<g, i>>
    BY <1>1, VideoThere
  <2>2. QED
    BY <1>1, <2>1 DEF Regular
<1> HIDE DEF g, i
<1>3. Home(v) = IF Few /\ g = LastGroup THEN 0 ELSE g
  BY DEF Home, g
<1>4. CASE Few /\ g = LastGroup
  <2>1. VideoAt(0, i) = NONE
    BY <1>1, <1>2, <1>4 DEF Regular
  <2>2. Pictures(0)[i] = v
    BY <1>1, <1>2, <1>4, <2>1 DEF Pictures
  <2>3. 0 \in 0 .. Groups - 1
    BY <1>1 DEF Groups
  <2>4. QED
    BY <1>1, <1>3, <1>4, <2>2, <2>3
<1>5. CASE ~(Few /\ g = LastGroup)
  <2>1. VideoAt(g, i) # NONE
    BY <1>1, <1>2
  <2>2. Pictures(g)[i] = v
    BY <1>1, <1>2, <2>1 DEF Pictures
  <2>3. g \in 0 .. Groups - 1
    BY <1>1, <1>5 DEF Groups
  <2>4. QED
    BY <1>1, <1>3, <1>5, <2>2, <2>3
<1>6. QED
  BY <1>4, <1>5

(* The last picture that shows a camera.                                   *)
LEMMA LastOfFour ==
    ASSUME PollTypes
    PROVE  /\ LastShown \in Videos \cup {NONE}
           /\ (\E i \in Positions : four[i] # NONE) =>
                LastShown # NONE /\ \E i \in Positions : LastShown = four[i]
<1> DEFINE lit == {i \in Positions : four[i] # NONE}
<1>1. CASE lit = {}
  BY <1>1 DEF LastShown
<1>2. CASE lit # {}
  <2>1. lit \subseteq 0 .. 3
    BY DEF Positions
  <2>2. \E i \in lit : \A j \in lit : j <= i
    <3> HIDE DEF lit
    <3>1. \A j \in lit : j = 0 \/ j = 1 \/ j = 2 \/ j = 3
      BY <2>1
    <3>2. CASE 3 \in lit
      BY <3>1, <3>2
    <3>3. CASE 3 \notin lit /\ 2 \in lit
      BY <3>1, <3>3
    <3>4. CASE 3 \notin lit /\ 2 \notin lit /\ 1 \in lit
      BY <3>1, <3>4
    <3>5. CASE 3 \notin lit /\ 2 \notin lit /\ 1 \notin lit
      BY <3>1, <3>5, <1>2
    <3>6. QED
      BY <3>2, <3>3, <3>4, <3>5
  <2>3. PICK i \in lit : LastShown = four[i]
    BY <1>2, <2>2 DEF LastShown
  <2>4. four[i] # NONE /\ four[i] \in Videos \cup {NONE} /\ i \in Positions
    BY <2>3 DEF PollTypes
  <2>5. QED
    BY <2>3, <2>4
<1>3. QED
  BY <1>1, <1>2

LEMMA NextInRound ==
    ASSUME PollTypes
    PROVE  Groups \in Nat /\ Groups > 1 /\ GetNextFourVideo \in 0 .. Groups - 1
<1>1. LastGroup \in Nat /\ LastGroup > 1
  BY Places DEF PollTypes
<1>2. PlaceOf(LastShown)[1] \in -1 .. LastGroup
  <2>1. CASE LastShown \in Videos
    BY <2>1, <1>1, Places DEF PollTypes
  <2>2. CASE LastShown = NONE
    BY <2>2, <1>1, Places DEF PollTypes
  <2>3. QED
    BY <2>1, <2>2, LastOfFour
<1>3. \A n \in 0 .. LastGroup + 1 : NextGroup(n) \in 0 .. Groups - 1
  BY <1>1 DEF NextGroup, Groups
<1>4. PlaceOf(LastShown)[1] + 1 \in 0 .. LastGroup + 1
  BY <1>1, <1>2
<1>5. QED
  BY <1>1, <1>3, <1>4 DEF GetNextFourVideo, Groups

(* From the pictures of a group the poll goes to the next of the round.    *)
RoundGoesOn ==
    \A g \in 0 .. Groups - 1 :
        four = Pictures(g) => GetNextFourVideo = IF g + 1 = Groups THEN 0 ELSE g + 1

LEMMA GroupAfterGroup == PollTypes /\ Regular => RoundGoesOn
<1> SUFFICES ASSUME PollTypes, Regular, NEW g \in 0 .. Groups - 1, four = Pictures(g)
             PROVE  GetNextFourVideo = IF g + 1 = Groups THEN 0 ELSE g + 1
  BY DEF RoundGoesOn
<1>1. layout \in Layouts
  BY DEF PollTypes
<1>2. LastGroup \in Nat /\ LastGroup > 1 /\ NONE \notin Videos
  BY <1>1, Places
<1>3. PICK v \in Videos : Home(v) = g
  BY DEF Regular
<1>4. \E i \in Positions : four[i] = v
  BY <1>1, <1>3, HomeShows
<1>5. LastShown \in Videos /\ \E i \in Positions : LastShown = four[i]
  BY <1>2, <1>4, LastOfFour
<1>6. Home(LastShown) = g
  BY <1>1, <1>5, PicturesOf
<1>7. PlaceOf(LastShown)[1] \in 0 .. LastGroup
  BY <1>1, <1>5, Places
<1> DEFINE p == PlaceOf(LastShown)[1]
<1>8. p \in 0 .. LastGroup /\ g = IF Few /\ p = LastGroup THEN 0 ELSE p
  BY <1>6, <1>7 DEF Home
<1>9. GetNextFourVideo = NextGroup(p + 1)
  BY DEF GetNextFourVideo
<1> HIDE DEF p
<1>10. QED
  BY <1>2, <1>8, <1>9 DEF NextGroup, Groups

LEMMA GroupAfterGroupNext == PollTypes' /\ Regular' => RoundGoesOn'
  BY GroupAfterGroup, PTL

-----------------------------------------------------------------------------
(* One camera after the other.                                             *)

PlaceCount == 4 * (LastGroup + 1)

LEMMA PlaceNumbers ==
    ASSUME layout \in Layouts
    PROVE  /\ PlaceCount \in Nat /\ PlaceCount > 4
           /\ \A v \in Videos : PlaceNumber(PlaceOf(v)) \in 0 .. PlaceCount - 1
           /\ \A v, w \in Videos :
                PlaceNumber(PlaceOf(v)) = PlaceNumber(PlaceOf(w)) => PlaceOf(v) = PlaceOf(w)
<1>1. /\ LastGroup \in Nat /\ LastGroup > 1
      /\ \A v \in Videos :
            /\ PlaceOf(v) = <<PlaceOf(v)[1], PlaceOf(v)[2]>>
            /\ PlaceOf(v)[1] \in 0 .. LastGroup
            /\ PlaceOf(v)[2] \in 0 .. 3
  BY Places DEF Positions
<1>2. PlaceCount \in Nat /\ PlaceCount > 4
  BY <1>1 DEF PlaceCount
<1>3. ASSUME NEW v \in Videos
      PROVE  PlaceNumber(PlaceOf(v)) \in 0 .. PlaceCount - 1
  BY <1>1 DEF PlaceNumber, PlaceCount
<1>4. ASSUME NEW v \in Videos, NEW w \in Videos,
             PlaceNumber(PlaceOf(v)) = PlaceNumber(PlaceOf(w))
      PROVE  PlaceOf(v) = PlaceOf(w)
  <2> DEFINE a == PlaceOf(v)[1]
             b == PlaceOf(v)[2]
             c == PlaceOf(w)[1]
             d == PlaceOf(w)[2]
  <2>1. a \in Nat /\ c \in Nat /\ b \in 0 .. 3 /\ d \in 0 .. 3
    BY <1>1
  <2>2. 4 * a + b = 4 * c + d
    BY <1>4 DEF PlaceNumber
  <2>3. PlaceOf(v) = <<a, b>> /\ PlaceOf(w) = <<c, d>>
    BY <1>1
  <2> HIDE DEF a, b, c, d
  <2>4. a = c /\ b = d
    BY <2>1, <2>2
  <2>5. QED
    BY <2>3, <2>4
<1>5. QED
  BY <1>2, <1>3, <1>4

(* The first pass begins behind the camera shown, or before all places.    *)
LEMMA Starts ==
    ASSUME layout \in Layouts
    PROVE  /\ PlaceNumber(StartPlace(NONE)) = -4
           /\ \A v \in Videos :
                PlaceNumber(StartPlace(v)) =
                    IF PlaceNumber(PlaceOf(v)) = PlaceCount - 1 THEN 0
                    ELSE PlaceNumber(PlaceOf(v)) + 1
<1>1. PlaceOf(NONE)[1] = -1 /\ PlaceOf(NONE)[2] = -1
  BY Places
<1>2. StartPlace(NONE) = <<-1, 0>>
  BY <1>1 DEF StartPlace
<1>3. PlaceNumber(StartPlace(NONE)) = -4
  BY <1>2 DEF PlaceNumber
<1>4. ASSUME NEW v \in Videos
      PROVE  PlaceNumber(StartPlace(v)) =
                IF PlaceNumber(PlaceOf(v)) = PlaceCount - 1 THEN 0
                ELSE PlaceNumber(PlaceOf(v)) + 1
  <2> DEFINE a == PlaceOf(v)[1]
             b == PlaceOf(v)[2]
  <2>1. LastGroup \in Nat /\ a \in 0 .. LastGroup /\ b \in 0 .. 3
    BY Places DEF Positions
  <2>2. StartPlace(v) = IF b + 1 < 4 THEN <<a, b + 1>>
                        ELSE IF a = LastGroup THEN <<0, 0>> ELSE <<a + 1, 0>>
    BY DEF StartPlace
  <2>3. PlaceNumber(PlaceOf(v)) = 4 * a + b
    BY DEF PlaceNumber
  <2> HIDE DEF a, b
  <2>4. CASE b + 1 < 4
    <3>1. PlaceNumber(StartPlace(v)) = 4 * a + (b + 1)
      BY <2>2, <2>4 DEF PlaceNumber
    <3>2. 4 * a + b # PlaceCount - 1
      BY <2>1, <2>4 DEF PlaceCount
    <3>3. QED
      BY <2>1, <2>3, <3>1, <3>2
  <2>5. CASE ~(b + 1 < 4) /\ a = LastGroup
    <3>1. PlaceNumber(StartPlace(v)) = 0
      BY <2>2, <2>5 DEF PlaceNumber
    <3>2. 4 * a + b = PlaceCount - 1
      BY <2>1, <2>5 DEF PlaceCount
    <3>3. QED
      BY <2>3, <3>1, <3>2
  <2>6. CASE ~(b + 1 < 4) /\ a # LastGroup
    <3>1. PlaceNumber(StartPlace(v)) = 4 * (a + 1)
      BY <2>1, <2>2, <2>6 DEF PlaceNumber
    <3>2. 4 * a + b # PlaceCount - 1 /\ 4 * (a + 1) = 4 * a + b + 1
      BY <2>1, <2>6 DEF PlaceCount
    <3>3. QED
      BY <2>3, <3>1, <3>2
  <2>7. QED
    BY <2>4, <2>5, <2>6
<1>5. QED
  BY <1>3, <1>4

(* Among some cameras there is a first one, and FirstOf is it.             *)
LEMMA FirstIsFirst ==
    ASSUME layout \in Layouts, NEW videos, videos \subseteq Videos, videos # {}
    PROVE  /\ FirstOf(videos) \in videos
           /\ \A w \in videos :
                PlaceNumber(PlaceOf(FirstOf(videos))) <= PlaceNumber(PlaceOf(w))
<1> DEFINE PlaceNo(v) == PlaceNumber(PlaceOf(v))
           First(v) == \A w \in videos \ {v} : PlaceNo(v) < PlaceNo(w) \/ (PlaceNo(v) = PlaceNo(w) /\ v < w)
<1>1. \A v \in videos : PlaceNo(v) \in Nat /\ v \in Nat
  BY PlaceNumbers, Places
<1>2. \E v \in videos : First(v)
  <2> HIDE DEF PlaceNo
  <2>1. PICK r \in {PlaceNo(v) : v \in videos} : \A s \in {PlaceNo(v) : v \in videos} : r <= s
    <3>1. {PlaceNo(v) : v \in videos} \subseteq Nat /\ {PlaceNo(v) : v \in videos} # {}
      BY <1>1
    <3>2. QED
      BY <3>1, LeastNumber
  <2>2. PICK v \in {u \in videos : PlaceNo(u) = r} : \A w \in {u \in videos : PlaceNo(u) = r} : v <= w
    <3>1. {u \in videos : PlaceNo(u) = r} \subseteq Nat /\ {u \in videos : PlaceNo(u) = r} # {}
      BY <1>1, <2>1
    <3>2. QED
      BY <3>1, LeastNumber
  <2>3. ASSUME NEW w \in videos \ {v}
        PROVE  PlaceNo(v) < PlaceNo(w) \/ (PlaceNo(v) = PlaceNo(w) /\ v < w)
    <3>1. v \in videos /\ PlaceNo(v) = r /\ r <= PlaceNo(w)
      BY <2>1, <2>2
    <3>2. PlaceNo(w) = r => v <= w
      BY <2>2
    <3>3. v \in Nat /\ w \in Nat /\ PlaceNo(v) \in Nat /\ PlaceNo(w) \in Nat /\ v # w
      BY <1>1, <3>1
    <3>4. QED
      BY <3>1, <3>2, <3>3
  <2>4. QED
    BY <2>2, <2>3
<1>3. FirstOf(videos) \in videos /\ First(FirstOf(videos))
  BY <1>2 DEF FirstOf
<1>4. ASSUME NEW w \in videos
      PROVE  PlaceNo(FirstOf(videos)) <= PlaceNo(w)
  <2>1. CASE w = FirstOf(videos)
    BY <2>1, <1>1
  <2>2. CASE w # FirstOf(videos)
    <3>1. PlaceNo(FirstOf(videos)) < PlaceNo(w) \/ PlaceNo(FirstOf(videos)) = PlaceNo(w)
      BY <2>2, <1>3
    <3>2. PlaceNo(FirstOf(videos)) \in Nat /\ PlaceNo(w) \in Nat
      BY <1>1, <1>3
    <3> HIDE DEF PlaceNo
    <3>3. QED
      BY <3>1, <3>2
  <2>3. QED
    BY <2>1, <2>2
<1>5. QED
  BY <1>3, <1>4

(* The next camera is the first from the start on, or the first of all.    *)
LEMMA NextCamera ==
    ASSUME layout \in Layouts
    PROVE  LET u == GetNextSingleVideo
               s == PlaceNumber(StartPlace(single)) IN
           /\ u \in Videos
           /\ \/ /\ PlaceNumber(PlaceOf(u)) >= s
                 /\ \A v \in Videos : PlaceNumber(PlaceOf(v)) >= s =>
                        PlaceNumber(PlaceOf(u)) <= PlaceNumber(PlaceOf(v))
              \/ /\ \A v \in Videos : ~(PlaceNumber(PlaceOf(v)) >= s)
                 /\ \A v \in Videos : PlaceNumber(PlaceOf(u)) <= PlaceNumber(PlaceOf(v))
<1> DEFINE s == PlaceNumber(StartPlace(single))
           ahead == {v \in Videos : PlaceNumber(PlaceOf(v)) >= s}
<1>1. GetNextSingleVideo = FirstOf(IF ahead # {} THEN ahead ELSE Videos)
  BY DEF GetNextSingleVideo, Follows
<1>2. CASE ahead # {}
  <2>1. /\ FirstOf(ahead) \in ahead
        /\ \A w \in ahead : PlaceNumber(PlaceOf(FirstOf(ahead))) <= PlaceNumber(PlaceOf(w))
    BY <1>2, FirstIsFirst
  <2>2. QED
    BY <1>1, <1>2, <2>1
<1>3. CASE ahead = {}
  <2>1. /\ FirstOf(Videos) \in Videos
        /\ \A w \in Videos : PlaceNumber(PlaceOf(FirstOf(Videos))) <= PlaceNumber(PlaceOf(w))
    BY FirstIsFirst, Places
  <2>2. QED
    BY <1>1, <1>3, <2>1
<1>4. QED
  BY <1>2, <1>3

(* The way round gets shorter with every camera that is passed.            *)
LEMMA WayShortens ==
    ASSUME NEW m \in Nat, m > 4, NEW s \in -4 .. m - 1, s = -4 \/ s >= 0,
           NEW u \in 0 .. m - 1, NEW v \in 0 .. m - 1, u # v,
           \/ u >= s /\ (v >= s => u <= v)
           \/ ~(v >= s) /\ u <= v,
           NEW t, t = IF u = m - 1 THEN 0 ELSE u + 1
    PROVE  Way(t, v, m) < Way(s, v, m)
  BY DEF Way

LEMMA WayIsBounded ==
    ASSUME NEW m \in Nat, NEW s \in -4 .. m - 1, NEW v \in 0 .. m - 1
    PROVE  Way(s, v, m) \in 0 .. m + 3
  BY DEF Way

(* In a round of groups as well.                                           *)
LEMMA RoundShortens ==
    ASSUME NEW m \in Nat, m > 1, NEW n \in 0 .. m - 1, NEW h \in 0 .. m - 1, h # n
    PROVE  Way(IF n + 1 = m THEN 0 ELSE n + 1, h, m) < Way(n, h, m)
  BY DEF Way

-----------------------------------------------------------------------------
(* The steps.                                                              *)

LEMMA PollTypesStart == PollInit => PollTypes
<1> SUFFICES ASSUME PollInit
             PROVE  PollTypes
  OBVIOUS
<1>1. Dark \in [Positions -> Videos \cup {NONE}]
  BY DEF Dark
<1>2. QED
  BY <1>1 DEF PollInit, PollTypes

LEMMA PollTypesKept == PollTypes /\ [PollNext]_pollVars => PollTypes'
<1> SUFFICES ASSUME PollTypes, [PollNext]_pollVars
             PROVE  PollTypes'
  OBVIOUS
<1>1. layout' = layout
  BY DEF PollNext, videoPollingfunction, Touch, pollVars
<1>2. Videos' = Videos /\ layout \in Layouts
  BY <1>1 DEF Videos, PollTypes
<1>3. four' \in [Positions -> Videos \cup {NONE}]
  <2>1. CASE four' = four
    BY <2>1 DEF PollTypes
  <2>2. CASE \E g : four' = Pictures(g)
    BY <2>2, <1>2, PicturesOf
  <2>3. CASE \E v \in Videos, i \in Positions : four' = [four EXCEPT ![i] = v]
    BY <2>3 DEF PollTypes
  <2>4. QED
    BY <2>1, <2>2, <2>3 DEF PollNext, videoPollingfunction, Touch, pollVars
<1>4. single' \in Videos \cup {NONE}
  <2>1. GetNextSingleVideo \in Videos
    BY <1>2, NextCamera
  <2>2. QED
    BY <2>1 DEF PollNext, videoPollingfunction, Touch, pollVars, PollTypes
<1>5. polling' \in {"four", "single"}
  BY DEF PollNext, videoPollingfunction, Touch, pollVars, PollTypes
<1>6. QED
  BY <1>1, <1>2, <1>3, <1>4, <1>5 DEF PollTypes

(* What depends on the layout only stays with it.                          *)
LEMMA LayoutStays ==
    ASSUME layout' = layout
    PROVE  /\ Videos' = Videos /\ Groups' = Groups /\ Regular' = Regular
           /\ \A v : Home(v)' = Home(v) /\ PlaceOf(v)' = PlaceOf(v)
           /\ \A g : Pictures(g)' = Pictures(g)
<1>1. Videos' = Videos /\ Few' = Few /\ Groups' = Groups
  BY DEF Videos, Few, Groups
<1>2. \A v : PlaceOf(v)' = PlaceOf(v)
  BY <1>1 DEF PlaceOf
<1>3. \A v : Home(v)' = Home(v)
  BY <1>1, <1>2 DEF Home
<1>4. \A g, i : VideoAt(g, i)' = VideoAt(g, i)
  BY <1>1 DEF VideoAt
<1>5. \A g : Pictures(g)' = Pictures(g)
  BY <1>1, <1>4 DEF Pictures
<1>6. Regular' = Regular
  BY <1>1, <1>2, <1>3, <1>4 DEF Regular
<1>7. QED
  BY <1>1, <1>2, <1>3, <1>5, <1>6

(* The poll of groups.                                                     *)
LEMMA GroupsComeNearer ==
    ASSUME PollTypes, PollTypes', Regular, polling = "four", videoPollingfunction,
           NEW v \in Videos
    PROVE  Turns(v) \in 0 .. MaxTurn - 1 /\ (Visible(v)' \/ Turns(v)' < Turns(v))
<1> DEFINE n == GetNextFourVideo
           h == Home(v)
<1>1. /\ polling' = "four" /\ layout' = layout /\ four' = Pictures(n)
  BY DEF videoPollingfunction
<1>2. Groups \in Nat /\ Groups > 1 /\ n \in 0 .. Groups - 1
  BY NextInRound
<1>3. h \in 0 .. Groups - 1 /\ \E i \in Positions : Pictures(h)[i] = v
  BY HomeShows DEF PollTypes
<1>4. Turns(v) = Way(n, h, Groups) /\ MaxTurn = Groups
  BY DEF Turns, MaxTurn
<1>5. Regular' /\ Groups' = Groups /\ Home(v)' = h
  BY <1>1, LayoutStays
<1>6. GetNextFourVideo' = IF n + 1 = Groups THEN 0 ELSE n + 1
  <2>1. RoundGoesOn'
    BY <1>5, GroupAfterGroupNext
  <2>2. \A g \in 0 .. Groups - 1 :
            four' = Pictures(g) => GetNextFourVideo' = IF g + 1 = Groups THEN 0 ELSE g + 1
    BY <2>1, <1>1, LayoutStays DEF RoundGoesOn
  <2>3. QED
    BY <1>1, <1>2, <2>2
<1>7. Turns(v)' = Way(IF n + 1 = Groups THEN 0 ELSE n + 1, h, Groups)
  BY <1>1, <1>5, <1>6 DEF Turns
<1>8. CASE h = n
  <2>1. Visible(v)'
    BY <1>1, <1>3, <1>8 DEF Visible
  <2>2. QED
    BY <1>2, <1>3, <1>4, <2>1 DEF Way
<1>9. CASE h # n
  <2> HIDE DEF n, h
  <2>1. Turns(v)' < Turns(v)
    BY <1>2, <1>3, <1>4, <1>7, <1>9, RoundShortens
  <2>2. Way(n, h, Groups) \in 0 .. Groups - 1
    BY <1>2, <1>3 DEF Way
  <2>3. QED
    BY <1>4, <2>1, <2>2
<1>10. QED
  BY <1>8, <1>9

(* The poll of single cameras.                                             *)
LEMMA SinglesComeNearer ==
    ASSUME PollTypes, Regular, polling = "single", videoPollingfunction, NEW v \in Videos
    PROVE  Turns(v) \in 0 .. MaxTurn - 1 /\ (Visible(v)' \/ Turns(v)' < Turns(v))
<1> DEFINE u == GetNextSingleVideo
           s == PlaceNumber(StartPlace(single))
           ru == PlaceNumber(PlaceOf(u))
           rv == PlaceNumber(PlaceOf(v))
<1>1. polling' = "single" /\ layout' = layout /\ single' = u /\ layout \in Layouts
  BY DEF videoPollingfunction, PollTypes
<1>2. u \in Videos /\ (\/ ru >= s /\ (rv >= s => ru <= rv)
                       \/ ~(rv >= s) /\ ru <= rv)
  BY <1>1, NextCamera
<1>3. /\ PlaceCount \in Nat /\ PlaceCount > 4 /\ ru \in 0 .. PlaceCount - 1 /\ rv \in 0 .. PlaceCount - 1
      /\ \A w \in Videos : PlaceNumber(PlaceOf(w)) \in 0 .. PlaceCount - 1
  BY <1>1, <1>2, PlaceNumbers
<1>4. s \in -4 .. PlaceCount - 1 /\ (s = -4 \/ s >= 0)
  <2>1. CASE single = NONE
    <3>1. s = -4
      BY <2>1, <1>1, Starts
    <3> HIDE DEF s
    <3>2. QED
      BY <3>1, <1>3
  <2>2. CASE single \in Videos
    <3> DEFINE r == PlaceNumber(PlaceOf(single))
    <3>1. s = IF r = PlaceCount - 1 THEN 0 ELSE r + 1
      BY <2>2, <1>1, Starts
    <3>2. r \in 0 .. PlaceCount - 1
      BY <2>2, <1>3
    <3> HIDE DEF s, r
    <3>3. QED
      BY <3>1, <3>2, <1>3
  <2>3. QED
    BY <2>1, <2>2 DEF PollTypes
<1>5. Turns(v) = Way(s, rv, PlaceCount) /\ MaxTurn = PlaceCount + 4
  <2>1. LastGroup \in Nat
    BY <1>1, Places
  <2>2. 4 * (LastGroup + 2) = 4 * (LastGroup + 1) + 4
    BY <2>1
  <2>3. QED
    BY <2>2 DEF Turns, MaxTurn, PlaceCount
<1>6. StartPlace(single)' = StartPlace(u) /\ PlaceOf(v)' = PlaceOf(v)
  BY <1>1, LayoutStays DEF StartPlace
<1>7. PlaceNumber(StartPlace(u)) = IF ru = PlaceCount - 1 THEN 0 ELSE ru + 1
  BY <1>1, <1>2, Starts
<1>8. Turns(v)' = Way(IF ru = PlaceCount - 1 THEN 0 ELSE ru + 1, rv, PlaceCount)
  BY <1>1, <1>6, <1>7 DEF Turns, PlaceCount, PlaceNumber
<1>9. Turns(v) \in 0 .. MaxTurn - 1
  <2>1. Way(s, rv, PlaceCount) \in 0 .. PlaceCount + 3
    BY <1>3, <1>4, WayIsBounded
  <2>2. Turns(v) = Way(s, rv, PlaceCount)
    BY <1>5
  <2>3. MaxTurn - 1 = PlaceCount + 3
    BY <1>3, <1>5
  <2>4. QED
    BY <2>1, <2>2, <2>3
<1>10. CASE u = v
  <2>1. Visible(v)'
    BY <1>1, <1>10 DEF Visible
  <2>2. QED
    BY <1>9, <2>1
<1>11. CASE u # v
  <2>1. ru # rv
    BY <1>1, <1>2, <1>11, PlaceNumbers DEF Regular
  <2> DEFINE t == IF ru = PlaceCount - 1 THEN 0 ELSE ru + 1
  <2>2. t = IF ru = PlaceCount - 1 THEN 0 ELSE ru + 1
    OBVIOUS
  <2> HIDE DEF s, ru, rv, t
  <2>3. Way(t, rv, PlaceCount) < Way(s, rv, PlaceCount)
    BY <1>2, <1>3, <1>4, <2>1, <2>2, WayShortens
  <2>4. QED
    BY <1>5, <1>8, <1>9, <2>2, <2>3
<1>12. QED
  BY <1>10, <1>11

(* No camera of a train is passed over for ever: each poll shows it or     *)
(* brings it nearer, on trains of either size, from any pictures that      *)
(* buttons and alarms have left, and there is a bound on how far it can be *)
(* (GetNextFourVideo, GetNextSingleVideo, videoPollingfunction).           *)
THEOREM PollPassesNobody == PollSpec => PollComesNearer
<1>1. PollTypes /\ PollTypes' /\ [PollNext]_pollVars =>
        [Regular /\ videoPollingfunction =>
            \A v \in Videos :
                /\ Turns(v) \in 0 .. MaxTurn - 1
                /\ Visible(v)' \/ Turns(v)' < Turns(v)]_pollVars
  BY GroupsComeNearer, SinglesComeNearer DEF PollTypes
<1>2. QED
  BY <1>1, PollTypesStart, PollTypesKept, PTL DEF PollSpec, PollComesNearer

-----------------------------------------------------------------------------
(* Multicast.                                                              *)

CastTypes ==
    /\ sock \in [Channels -> Sockets] /\ count \in [Channels -> Nat]
    /\ waiting \in [Channels -> BOOLEAN]
    /\ ask \in 1 .. AskPeriod /\ quiet \in 0 .. Pace /\ asked \in -1 .. AnswerTime

Asked == asked # UNASKED

(* A question is as old as the count of it.  An answer comes in time, and  *)
(* what has been served before it has only just been sent.  Of the player  *)
(* nothing is missing for longer than since it was asked, or since it was  *)
(* asked before.                                                           *)
CastInv ==
    /\ CastTypes
    /\ waiting["sys"] => quiet = 0
    /\ Asked => ask = asked + 1 /\ ~waiting["video"]
    /\ waiting["video"] =>
          /\ sock["video"] = "joined"
          /\ \/ ask - 1 <= AnswerTime
             \/ ask - 1 <= AnswerTime + 1 /\ quiet = 1 /\ ~waiting["sys"]
    /\ sock["video"] = "joined" =>
          count["video"] <=
              (IF Asked \/ waiting["video"] THEN AskPeriod + ask - 1 ELSE ask - 1)

LEMMA CastConstants ==
    /\ Silence["video"] \in Nat /\ Silence["sys"] \in Nat
    /\ AskPeriod \in Nat /\ Pace \in Nat /\ AnswerTime \in Nat
    /\ Pace > 1 /\ AnswerTime + 1 < AskPeriod /\ AskPeriod + AnswerTime < Silence["video"]
    /\ "sys" \in Channels /\ "video" \in Channels
  BY MulticastAssumption, PlayerAnswers DEF Channels

(* No iteration finds the count of a video socket in its group too high.   *)
LEMMA NotOverdue == CastInv => HearingSocketStays
<1> SUFFICES ASSUME CastInv, sock["video"] = "joined"
             PROVE  ~(Counted("video") > Silence["video"])
  BY DEF HearingSocketStays, Overdue
<1>1. /\ count["video"] \in Nat /\ ask \in Nat /\ asked \in Int
      /\ ask <= AskPeriod /\ asked <= AnswerTime
  BY CastConstants DEF CastInv, CastTypes
<1>2. CASE Served = "video"
  BY <1>2, CastConstants DEF Counted
<1>3. CASE Served # "video"
  <2>1. Counted("video") = count["video"] + 1
    BY <1>3 DEF Counted
  <2>2. ~waiting["video"] \/ waiting["sys"]
    BY <1>3 DEF Served
  <2>3. CASE Asked
    BY <1>1, <2>1, <2>3, CastConstants DEF CastInv
  <2>4. CASE ~Asked /\ waiting["video"]
    BY <1>1, <2>1, <2>2, <2>4, CastConstants DEF CastInv
  <2>5. CASE ~Asked /\ ~waiting["video"]
    BY <1>1, <2>1, <2>5, CastConstants DEF CastInv
  <2>6. QED
    BY <2>3, <2>4, <2>5
<1>4. QED
  BY <1>2, <1>3

LEMMA CastStarts == CastInit => CastInv
<1> SUFFICES ASSUME CastInit
             PROVE  CastInv
  OBVIOUS
<1>1. CastTypes
  BY CastConstants DEF CastInit, CastTypes, UNASKED
<1>2. /\ ~waiting["sys"] /\ ~waiting["video"] /\ ~Asked
      /\ count["video"] = 0 /\ ask = 1
  BY CastConstants DEF CastInit, Asked
<1>3. QED
  BY <1>1, <1>2 DEF CastInv

LEMMA BroadcastKeeps ==
    ASSUME CastInv, Broadcast
    PROVE  CastInv'
<1>1. /\ waiting'["video"] = waiting["video"] /\ waiting' \in [Channels -> BOOLEAN]
      /\ quiet' = 0 /\ quiet = Pace
  BY CastConstants DEF CastInv, CastTypes, Broadcast
<1>2. UNCHANGED <<sock, count, ask, asked>> /\ (Asked' <=> Asked)
  BY DEF Broadcast, Asked
<1>3. CastTypes'
  BY <1>1, <1>2, CastConstants DEF CastInv, CastTypes
<1>4. waiting["video"] => ask - 1 <= AnswerTime
  BY <1>1, CastConstants DEF CastInv
<1>5. QED
  BY <1>1, <1>2, <1>3, <1>4 DEF CastInv

LEMMA AnswerKeeps ==
    ASSUME CastInv, Answer
    PROVE  CastInv'
<1>1. /\ waiting'["video"] = (sock["video"] = "joined")
      /\ waiting'["sys"] = waiting["sys"] /\ waiting' \in [Channels -> BOOLEAN]
  BY CastConstants DEF CastInv, CastTypes, Answer
<1>2. UNCHANGED <<sock, count, ask, quiet>> /\ Asked /\ asked' = -1 /\ ~Asked'
  BY DEF Answer, Asked, UNASKED
<1>3. CastTypes'
  BY <1>1, <1>2, CastConstants DEF CastInv, CastTypes
<1>4. /\ ask = asked + 1 /\ asked \in Int /\ asked <= AnswerTime
      /\ ask - 1 <= AnswerTime
  BY <1>2, CastConstants DEF CastInv, CastTypes
<1>5. QED
  BY <1>1, <1>2, <1>3, <1>4 DEF CastInv

(* An iteration, of the video socket: one that is joined stays as it is,   *)
(* and its count goes on or starts again.                                  *)
LEMMA IterationOfVideo ==
    ASSUME CastInv, MultcastRecvThread
    PROVE  /\ sock' \in [Channels -> Sockets] /\ count' \in [Channels -> Nat]
           /\ waiting' \in [Channels -> BOOLEAN]
           /\ waiting'["sys"] = FALSE
           /\ sock["video"] = "joined" =>
                 sock'["video"] = "joined" /\ count'["video"] = Counted("video")
           /\ sock["video"] # "joined" /\ sock'["video"] = "joined" => count'["video"] = 0
           /\ waiting'["video"] <=> waiting["video"] /\ waiting["sys"]
<1>1. /\ count' = [c \in Channels |-> IF Overdue(c) THEN 0 ELSE Counted(c)]
      /\ waiting' = [c \in Channels |-> waiting[c] /\ Served # c /\ ~Overdue(c)]
      /\ sock' \in [Channels -> Sockets]
      /\ \A c \in Channels : ~Overdue(c) => sock'[c] = sock[c]
  BY DEF MultcastRecvThread, Recreate
<1>2. \A c \in Channels : count[c] \in Nat /\ Counted(c) \in Nat
  BY DEF CastInv, CastTypes, Counted
<1>3. count' \in [Channels -> Nat]
  BY <1>1, <1>2
<1>4. waiting' \in [Channels -> BOOLEAN] /\ waiting'["sys"] = FALSE
  BY <1>1, CastConstants DEF Served
<1>5. sock["video"] = "joined" =>
        sock'["video"] = "joined" /\ count'["video"] = Counted("video")
  BY <1>1, NotOverdue, CastConstants DEF HearingSocketStays
<1>6. sock["video"] # "joined" /\ sock'["video"] = "joined" => count'["video"] = 0
  BY <1>1, CastConstants
<1>7. waiting'["video"] <=> waiting["video"] /\ waiting["sys"]
  <2>1. waiting'["video"] <=> waiting["video"] /\ Served # "video" /\ ~Overdue("video")
    BY <1>1, CastConstants
  <2>2. waiting["video"] => ~Overdue("video")
    BY NotOverdue DEF CastInv, HearingSocketStays
  <2>3. waiting["video"] => (Served # "video" <=> waiting["sys"])
    BY DEF Served
  <2>4. QED
    BY <2>1, <2>2, <2>3
<1>8. QED
  BY <1>1, <1>3, <1>4, <1>5, <1>6, <1>7

(* The question of an iteration, and its age.                              *)
LEMMA QuestionGoesOn ==
    ASSUME CastInv, MultcastRecvThread
    PROVE  /\ ask' \in 1 .. AskPeriod /\ asked' \in -1 .. AnswerTime
           /\ quiet' \in 0 .. Pace
           /\ quiet = 0 => quiet' = 1
           /\ ask < AskPeriod => /\ ask' = ask + 1
                                 /\ ~Asked => ~Asked'
                                 /\ Asked => Asked' /\ asked' = asked + 1
           /\ ask = AskPeriod => /\ ask' = 1 /\ ~Asked
                                 /\ Asked' => asked' = 0
                                 /\ sock'["video"] = "joined" => Asked'
<1>1. /\ ask \in Nat /\ asked \in Int /\ 1 <= ask /\ ask <= AskPeriod
      /\ -1 <= asked /\ asked < AnswerTime /\ quiet \in Nat /\ quiet <= Pace
  BY CastConstants DEF CastInv, CastTypes, MultcastRecvThread
<1>2. /\ ask' = IF ask = AskPeriod THEN 1 ELSE ask + 1
      /\ asked' = IF ask = AskPeriod THEN GetVideoSrcMode ELSE Waits
      /\ quiet' = IF quiet < Pace THEN quiet + 1 ELSE Pace
  BY DEF MultcastRecvThread, Ask
<1>3. Asked <=> asked # -1
  BY DEF Asked, UNASKED
<1>4. Asked' <=> asked' # -1
  BY DEF Asked, UNASKED
<1>5. /\ Waits = IF asked # -1 THEN asked + 1 ELSE -1
      /\ GetVideoSrcMode = IF sock'["video"] # "none" THEN 0 ELSE Waits
  BY DEF Waits, GetVideoSrcMode, UNASKED
<1>6. Asked => ask = asked + 1
  BY DEF CastInv
<1>7. ask' \in 1 .. AskPeriod /\ quiet' \in 0 .. Pace /\ (quiet = 0 => quiet' = 1)
  BY <1>1, <1>2, CastConstants
<1>8. ask = AskPeriod => ~Asked
  BY <1>1, <1>6, CastConstants
<1>9. CASE ask = AskPeriod
  BY <1>1, <1>2, <1>3, <1>4, <1>5, <1>7, <1>8, <1>9, CastConstants
<1>10. CASE ask < AskPeriod
  BY <1>1, <1>2, <1>3, <1>4, <1>5, <1>7, <1>10, CastConstants
<1>11. QED
  BY <1>1, <1>9, <1>10, CastConstants

LEMMA IterationKeeps ==
    ASSUME CastInv, MultcastRecvThread
    PROVE  CastInv'
<1>1. CastTypes'
  BY IterationOfVideo, QuestionGoesOn DEF CastTypes
<1>2. /\ ask \in Nat /\ 1 <= ask /\ ask <= AskPeriod /\ count["video"] \in Nat
      /\ asked \in Int
  BY CastConstants DEF CastInv, CastTypes
<1>3. ~waiting'["sys"]
  BY IterationOfVideo
<1>4. waiting'["video"] =>
        /\ sock'["video"] = "joined" /\ ~Asked /\ quiet' = 1 /\ ask' = ask + 1
        /\ ask - 1 <= AnswerTime
  <2>1. SUFFICES ASSUME waiting'["video"]
                 PROVE  /\ sock'["video"] = "joined" /\ ~Asked /\ quiet' = 1
                        /\ ask' = ask + 1 /\ ask - 1 <= AnswerTime
    OBVIOUS
  <2>2. waiting["video"] /\ waiting["sys"]
    BY <2>1, IterationOfVideo
  <2>3. quiet = 0 /\ ~Asked /\ ask - 1 <= AnswerTime /\ sock["video"] = "joined"
    BY <2>2 DEF CastInv
  <2>4. ask < AskPeriod
    BY <1>2, <2>3, CastConstants
  <2>5. QED
    BY <2>3, <2>4, IterationOfVideo, QuestionGoesOn
<1>5. Asked' => ask' = asked' + 1 /\ ~waiting'["video"]
  <2>1. CASE ask = AskPeriod
    <3>1. ~waiting'["video"]
      BY <1>2, <1>4, <2>1, QuestionGoesOn, CastConstants
    <3>2. QED
      BY <2>1, <3>1, QuestionGoesOn
  <2>2. CASE ask < AskPeriod
    <3>1. Asked' => Asked
      BY <2>2, QuestionGoesOn
    <3>2. Asked => ask = asked + 1 /\ ~waiting["video"]
      BY DEF CastInv
    <3>3. QED
      BY <1>2, <1>4, <2>2, <3>1, <3>2, QuestionGoesOn
  <2>3. QED
    BY <1>2, <2>1, <2>2, CastConstants
<1>6. waiting'["video"] =>
        /\ sock'["video"] = "joined"
        /\ \/ ask' - 1 <= AnswerTime
           \/ ask' - 1 <= AnswerTime + 1 /\ quiet' = 1 /\ ~waiting'["sys"]
  BY <1>2, <1>3, <1>4, CastConstants
<1>7. ASSUME sock'["video"] = "joined"
      PROVE  count'["video"] <=
                (IF Asked' \/ waiting'["video"] THEN AskPeriod + ask' - 1 ELSE ask' - 1)
  <2>1. /\ ask' \in Nat /\ 0 <= ask' - 1
        /\ 0 <= AskPeriod + ask' - 1 /\ 1 <= AskPeriod + ask' - 1
    <3>1. ask' \in Nat /\ 1 <= ask'
      BY QuestionGoesOn, CastConstants
    <3>2. AskPeriod \in Nat /\ 1 <= AskPeriod
      BY CastConstants
    <3>3. \A a, p \in Nat : 1 <= a /\ 1 <= p =>
             0 <= a - 1 /\ 0 <= p + a - 1 /\ 1 <= p + a - 1
      OBVIOUS
    <3>4. QED
      BY <3>1, <3>2, <3>3
  <2>2. CASE sock["video"] # "joined"
    <3>1. count'["video"] = 0
      BY <1>7, <2>2, IterationOfVideo
    <3>2. QED
      BY <2>1, <3>1
  <2>3. CASE sock["video"] = "joined" /\ Served = "video"
    <3>1. count'["video"] = 1
      BY <2>3, IterationOfVideo DEF Counted
    <3>2. CASE ask = AskPeriod
      BY <1>7, <2>1, <3>1, <3>2, QuestionGoesOn
    <3>3. CASE ask < AskPeriod
      <4>1. 1 <= ask' - 1
        BY <1>2, <3>3, QuestionGoesOn, CastConstants
      <4>2. QED
        BY <2>1, <3>1, <4>1
    <3>4. QED
      BY <1>2, <3>2, <3>3, CastConstants
  <2>4. CASE sock["video"] = "joined" /\ Served # "video"
    <3>1. count'["video"] = count["video"] + 1
      BY <2>4, IterationOfVideo DEF Counted
    <3>2. waiting["video"] => waiting["sys"]
      BY <2>4 DEF Served
    <3>3. waiting'["video"] <=> waiting["video"]
      BY <3>2, IterationOfVideo
    <3>4. count["video"] <=
            (IF Asked \/ waiting["video"] THEN AskPeriod + ask - 1 ELSE ask - 1)
      BY <2>4 DEF CastInv
    <3>5. CASE ask = AskPeriod
      <4>1. Asked' /\ ask' = 1 /\ ~Asked
        BY <1>7, <3>5, QuestionGoesOn
      <4>2. ~waiting["video"]
        BY <1>2, <1>4, <3>3, <3>5, <4>1, CastConstants
      <4>3. QED
        BY <1>2, <3>1, <3>4, <3>5, <4>1, <4>2, CastConstants
    <3>6. CASE ask < AskPeriod
      <4>1. ask' = ask + 1 /\ (Asked' <=> Asked)
        BY <3>6, QuestionGoesOn
      <4>2. QED
        BY <1>2, <3>1, <3>3, <3>4, <4>1, CastConstants
    <3>7. QED
      BY <1>2, <3>5, <3>6, CastConstants
  <2>5. QED
    BY <2>2, <2>3, <2>4
<1>8. QED
  BY <1>1, <1>3, <1>5, <1>6, <1>7 DEF CastInv

(* Whatever became of the sockets: one that is in the player's group is    *)
(* not closed, for no broadcast can hold up the answer of the player for   *)
(* longer than an iteration (MultcastRecvThread).                          *)
THEOREM HearingSocketIsKept == CastSpec => []HearingSocketStays
<1>1. CastInv /\ [CastNext]_castVars => CastInv'
  <2> SUFFICES ASSUME CastInv, [CastNext]_castVars
               PROVE  CastInv'
    OBVIOUS
  <2>1. CASE Broadcast
    BY <2>1, BroadcastKeeps
  <2>2. CASE Answer
    BY <2>2, AnswerKeeps
  <2>3. CASE MultcastRecvThread
    BY <2>3, IterationKeeps
  <2>4. CASE UNCHANGED castVars
    BY <2>4 DEF castVars, CastInv, CastTypes, Asked
  <2>5. QED
    BY <2>1, <2>2, <2>3, <2>4 DEF CastNext
<1>2. QED
  BY <1>1, CastStarts, NotOverdue, PTL DEF CastSpec
=============================================================================
