------------------------------ MODULE Calendar ------------------------------
(***************************************************************************)
(* GetMaxDay of src/cctv/comm.cpp and what a date is.  The maintenance     *)
(* page and the date and time dialog each keep a date in three numbers     *)
(* that buttons change one at a time.                                      *)
(***************************************************************************)
EXTENDS Integers

Months == 1 .. 12

Leap(year) == year % 400 = 0 \/ (year % 100 # 0 /\ year % 4 = 0)

February(year) == IF Leap(year) THEN 29 ELSE 28

GetMaxDay(year, month) ==
    IF month = 2 THEN February(year)
    ELSE IF month \in {4, 6, 9, 11} THEN 30 ELSE 31

Date(year, month, day) == [year |-> year, month |-> month, day |-> day]

(* A day of the calendar.                                                  *)
IsDate(d) == d.month \in Months /\ d.day \in 1 .. GetMaxDay(d.year, d.month)

(* The number after or before n in lo .. hi, which is a ring.              *)
Up(n, lo, hi)   == IF n + 1 > hi THEN lo ELSE n + 1
Down(n, lo, hi) == IF n - 1 < lo THEN hi ELSE n - 1
=============================================================================
