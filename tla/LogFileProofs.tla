--------------------------- MODULE LogFileProofs ---------------------------
(***************************************************************************)
(* Proofs about LogFile, for every limit, cut, number of records and of    *)
(* power cuts: the log stays within its limit and in order, and it is a    *)
(* BoundedLog.                                                             *)
(***************************************************************************)
EXTENDS LogSearch, SequenceTheorems, NumberSets

-----------------------------------------------------------------------------
(* Sequences of lines.                                                     *)

(* The lines of f are in order and none is newer than record k.            *)
Good(f, k) ==
    /\ f \in Seq(Nat)
    /\ Ordered(f)
    /\ \A i \in DOMAIN f : f[i] <= k

(* The part of a good log from one line to another is good.                *)
LEMMA PartIsGood ==
    ASSUME NEW f, NEW k \in Nat, Good(f, k),
           NEW m \in Nat \ {0}, NEW n \in 0 .. Len(f)
    PROVE  /\ Good(SubSeq(f, m, n), k)
           /\ Len(SubSeq(f, m, n)) = IF m <= n THEN n - m + 1 ELSE 0
<1> DEFINE p == SubSeq(f, m, n)
<1>1. /\ p \in Seq(Nat)
      /\ Len(p) = IF m <= n THEN n - m + 1 ELSE 0
      /\ \A i \in 1 .. n - m + 1 : p[i] = f[m + i - 1]
  <2>1. \A i \in m .. n : f[i] \in Nat
    BY DEF Good
  <2>2. QED
    BY <2>1, SubSeqProperties
<1>2. \A i \in DOMAIN p : i \in Nat /\ m + i - 1 \in DOMAIN f /\ p[i] = f[m + i - 1]
  BY SMTT(30), <1>1 DEF Good
<1>3. \A i \in DOMAIN p : p[i] <= k
  BY <1>2 DEF Good
<1>4. Ordered(p)
  <2> SUFFICES ASSUME NEW i \in DOMAIN p, NEW j \in DOMAIN p, i < j,
                      p[i] # GARBAGE, p[j] # GARBAGE
               PROVE  p[i] < p[j]
    BY DEF Ordered
  <2>1. m + i - 1 < m + j - 1
    BY <1>2
  <2>2. QED
    BY <1>2, <2>1 DEF Good, Ordered
<1>5. QED
  BY <1>1, <1>3, <1>4 DEF Good

(* A newer record, or what is left of one, may be added to a good log.     *)
LEMMA AddedIsGood ==
    ASSUME NEW f, NEW k \in Nat, Good(f, k), NEW l \in Nat, NEW line \in {GARBAGE, l},
           k <= l, line # GARBAGE => k < l
    PROVE  Good(Append(f, line), l) /\ Len(Append(f, line)) = Len(f) + 1
<1> DEFINE g == Append(f, line)
<1>0. line \in Nat /\ f \in Seq(Nat)
  BY DEF Good, GARBAGE
<1>1. /\ g \in Seq(Nat) /\ Len(g) = Len(f) + 1
      /\ \A i \in 1 .. Len(f) : g[i] = f[i]
      /\ g[Len(f) + 1] = line
  BY <1>0, AppendProperties
<1>2. \A i \in DOMAIN g : (i \in DOMAIN f /\ g[i] = f[i]) \/ (i = Len(f) + 1 /\ g[i] = line)
  BY <1>0, <1>1
<1>3. \A i \in DOMAIN f : f[i] \in Nat /\ f[i] <= k
  BY <1>0 DEF Good
<1>4. \A i \in DOMAIN g : g[i] <= l
  BY <1>2, <1>3 DEF GARBAGE
<1>5. Ordered(g)
  <2> SUFFICES ASSUME NEW i \in DOMAIN g, NEW j \in DOMAIN g, i < j,
                      g[i] # GARBAGE, g[j] # GARBAGE
               PROVE  g[i] < g[j]
    BY DEF Ordered
  <2>1. i \in DOMAIN f /\ g[i] = f[i]
    BY <1>0, <1>1, <1>2
  <2>2. CASE j \in DOMAIN f
    BY <2>1, <2>2, <1>0, <1>1 DEF Good, Ordered
  <2>3. CASE j = Len(f) + 1
    BY <2>1, <2>3, <1>1, <1>3
  <2>4. QED
    BY <1>2, <2>2, <2>3
<1>6. QED
  BY <1>1, <1>4, <1>5 DEF Good

(* A log that is good up to a record is good up to a later one.            *)
LEMMA GoodLater ==
    ASSUME NEW f, NEW k \in Nat, NEW l \in Nat, k <= l, Good(f, k)
    PROVE  Good(f, l)
<1>1. \A i \in DOMAIN f : f[i] \in Nat /\ f[i] <= k
  BY DEF Good
<1>2. QED
  BY <1>1 DEF Good

(* What an accident leaves of a good log.                                  *)
LEMMA LeftIsGood ==
    ASSUME NEW f, NEW k \in Nat, Good(f, k), NEW n \in 0 .. Len(f), NEW t \in BOOLEAN
    PROVE  /\ Good(Left(f, n, t), k)
           /\ Len(Left(f, n, t)) = IF t THEN n + 1 ELSE n
<1>1. Good(SubSeq(f, 1, n), k) /\ Len(SubSeq(f, 1, n)) = n
  <2>1. Len(f) \in Nat
    BY DEF Good
  <2>2. n \in Nat /\ 1 \in Nat \ {0} /\ (IF 1 <= n THEN n - 1 + 1 ELSE 0) = n
    BY <2>1
  <2>3. QED
    BY <2>2, PartIsGood
<1>2. CASE t
  <2>1. GARBAGE \in {GARBAGE, k}
    OBVIOUS
  <2>2. Good(Append(SubSeq(f, 1, n), GARBAGE), k)
        /\ Len(Append(SubSeq(f, 1, n), GARBAGE)) = Len(SubSeq(f, 1, n)) + 1
    BY <1>1, <2>1, AddedIsGood
  <2>3. QED
    BY <1>1, <1>2, <2>2 DEF Left
<1>3. CASE ~t
  BY <1>1, <1>3 DEF Left
<1>4. QED
  BY <1>2, <1>3

-----------------------------------------------------------------------------
(* The inductive invariant.                                                *)

Accident == restarts > 0 \/ failed

Types ==
    /\ torn \in BOOLEAN /\ failed \in BOOLEAN /\ pc \in {"idle", "copy"}
    /\ count \in Nat /\ last \in Nat /\ restarts \in Nat
    /\ synced \in 0 .. Len(file)

(* While it is being copied the log is the beginning of the new file.      *)
Copying ==
    pc = "copy" =>
        /\ ~torn
        /\ count >= Limit
        /\ Len(file) <= Len(tmp) /\ file = SubSeq(tmp, 1, Len(file))

(* The count never falls behind the lines, neither of the log nor of the   *)
(* new file that is about to take its place.                               *)
Counting ==
    ~failed =>
        /\ count <= Limit
        /\ pc = "idle" => Len(file) <= count
        /\ pc = "copy" => Len(tmp) <= count - Cut + 1

IInv ==
    /\ Types
    /\ Good(file, last) /\ Good(tmp, last)
    /\ torn => Accident
    /\ Copying
    /\ Counting

LEMMA EmptyIsGood == ASSUME NEW k \in Nat PROVE Good(<<>>, k) /\ Len(<<>>) = 0
<1>1. <<>> \in Seq(Nat) /\ Len(<<>>) = 0
  OBVIOUS
<1>2. DOMAIN <<>> = {}
  OBVIOUS
<1>3. QED
  BY <1>1, <1>2 DEF Good, Ordered

LEMMA InitIInv == Init => IInv
<1> SUFFICES ASSUME Init PROVE IInv
  OBVIOUS
<1>1. Good(<<>>, 0) /\ Len(<<>>) = 0
  BY EmptyIsGood
<1>2. /\ file = <<>> /\ tmp = <<>> /\ Len(file) = 0 /\ synced = 0 /\ count = 0
      /\ last = 0 /\ restarts = 0 /\ pc = "idle" /\ ~torn /\ ~failed
  BY <1>1 DEF Init
<1>3. synced \in 0 .. Len(file) /\ count \in Nat /\ last \in Nat /\ restarts \in Nat
  BY <1>2
<1>4. torn \in BOOLEAN /\ failed \in BOOLEAN
  BY Zenon DEF Init
<1>5. Types
  BY <1>2, <1>3, <1>4 DEF Types
<1>6. Good(file, last) /\ Good(tmp, last)
  BY <1>1, <1>2
<1>7. Copying
  BY <1>2 DEF Copying
<1>8. Counting
  BY <1>2, LimitAssumption DEF Counting
<1>9. QED
  BY <1>2, <1>5, <1>6, <1>7, <1>8 DEF IInv

LEMMA WriteIInv == IInv /\ Write => IInv'
<1> SUFFICES ASSUME IInv, Write PROVE IInv'
  OBVIOUS
<1>1. /\ last \in Nat /\ last' = last + 1 /\ count \in Nat /\ count < Limit /\ pc = "idle"
      /\ file \in Seq(Nat) /\ Len(file) \in Nat /\ Limit \in Nat
  BY LimitAssumption DEF IInv, Types, Good, Write, NewRecord, Room
<1>2. Good(file, last') /\ Good(tmp, last')
  BY <1>1, GoodLater DEF IInv
<1>3. Good(file', last') /\ Len(file') <= Len(file) + 1 /\ Len(file) <= Len(file')
  <2>1. CASE torn
    BY <2>1, <1>1, <1>2 DEF Write
  <2>2. CASE ~torn
    <3>1. last' \in {GARBAGE, last'} /\ last < last' /\ last' \in Nat
      BY <1>1
    <3>2. Good(Append(file, last'), last') /\ Len(Append(file, last')) = Len(file) + 1
      BY <3>1, <1>1, AddedIsGood DEF IInv
    <3>3. QED
      BY <2>2, <3>2, <1>1 DEF Write
  <2>3. QED
    BY <2>1, <2>2
<1>4. Len(file') \in Nat
  BY <1>3 DEF Good
<1>5. Types'
  <2>1. UNCHANGED <<synced, pc, restarts, failed>> /\ count' = count + 1 /\ torn' = FALSE
    BY DEF Write
  <2>2. synced' \in 0 .. Len(file')
    BY <1>1, <1>3, <1>4, <2>1 DEF IInv, Types
  <2>3. torn' \in BOOLEAN
    BY <2>1
  <2>4. count' \in Nat /\ last' \in Nat
    BY <1>1, <2>1
  <2>5. QED
    BY <2>1, <2>2, <2>3, <2>4 DEF IInv, Types
<1>6. Copying' /\ Counting'
  BY <1>1, <1>3, <1>4 DEF IInv, Counting, Copying, Write
<1>7. QED
  BY <1>2, <1>3, <1>5, <1>6 DEF IInv, Write, Accident

(* The new file of a full log.                                             *)
LEMMA NewFile ==
    ASSUME IInv, WriteFull
    PROVE  /\ last' = last + 1 /\ pc = "idle" /\ count >= Limit
           /\ Good(file, last') /\ Good(tmp', last')
           /\ ~failed => Len(tmp') <= count - Cut + 1
<1>1. /\ last \in Nat /\ last' = last + 1 /\ last' \in Nat /\ count \in Nat
      /\ count >= Limit /\ pc = "idle"
      /\ file \in Seq(Nat) /\ Len(file) \in Nat /\ Limit \in Nat /\ Cut \in 1 .. Limit
  BY LimitAssumption DEF IInv, Types, Good, WriteFull, NewRecord, Room
<1>2. Good(file, last')
  BY <1>1, GoodLater DEF IInv
<1>3. Good(Kept, last) /\ Len(Kept) = IF Cut + 1 <= Len(file) THEN Len(file) - Cut ELSE 0
  <2>1. Cut + 1 \in Nat \ {0} /\ Len(file) \in 0 .. Len(file)
    BY <1>1
  <2>2. /\ Good(Kept, last)
        /\ Len(Kept) = IF Cut + 1 <= Len(file) THEN Len(file) - (Cut + 1) + 1 ELSE 0
    BY <2>1, <1>1, PartIsGood DEF IInv, Kept
  <2>3. QED
    BY <2>2, <1>1
<1>4. Good(tmp', last') /\ Len(tmp') <= Len(Kept) + 1
  <2>1. CASE torn
    <3>1. tmp' = Kept /\ Len(Kept) \in Nat
      BY <2>1, <1>3 DEF WriteFull, Good
    <3>2. QED
      BY <3>1, <1>1, <1>3, GoodLater
  <2>2. CASE ~torn
    <3>1. last' \in {GARBAGE, last'} /\ last < last'
      BY <1>1
    <3>2. Good(Append(Kept, last'), last') /\ Len(Append(Kept, last')) = Len(Kept) + 1
      BY <3>1, <1>1, <1>3, AddedIsGood
    <3>3. Len(Kept) \in Nat
      BY <1>3 DEF Good
    <3>4. QED
      BY <2>2, <3>2, <3>3 DEF WriteFull
  <2>3. QED
    BY <2>1, <2>2
<1>5. ASSUME ~failed PROVE Len(tmp') <= count - Cut + 1
  <2>1. Len(file) <= count /\ count = Limit
    BY <1>1, <1>5 DEF IInv, Counting
  <2>2. Len(Kept) <= count - Cut
    BY <1>1, <1>3, <2>1
  <2>3. Len(Kept) \in Nat /\ Len(tmp') \in Nat
    BY <1>3, <1>4 DEF Good
  <2>4. QED
    BY <1>1, <1>4, <2>2, <2>3
<1>6. QED
  BY <1>1, <1>2, <1>4, <1>5

LEMMA WriteFullIInv == IInv /\ WriteFull => IInv'
<1> SUFFICES ASSUME IInv, WriteFull PROVE IInv'
  OBVIOUS
<1>1. /\ last' = last + 1 /\ pc = "idle" /\ count >= Limit
      /\ Good(file, last') /\ Good(tmp', last')
      /\ ~failed => Len(tmp') <= count - Cut + 1
  BY NewFile
<1>2. /\ last \in Nat /\ last' \in Nat /\ count \in Nat /\ Limit \in Nat /\ Cut \in 1 .. Limit
      /\ Len(file) \in Nat /\ Len(tmp') \in Nat /\ restarts' = restarts
  BY <1>1, LimitAssumption DEF IInv, Types, Good, WriteFull
<1>3. CASE /\ pc' = "copy"
           /\ file' = <<>> /\ torn' = FALSE /\ synced' = 0
           /\ UNCHANGED <<count, failed>>
  <2>1. Good(file', last') /\ Len(file') = 0
    BY <1>2, <1>3, EmptyIsGood
  <2>2. SubSeq(tmp', 1, 0) = <<>>
    BY SubSeqEmpty
  <2>3. Types' /\ Copying'
    <3>1. synced' \in 0 .. Len(file')
      BY <1>3, <2>1
    <3>2. torn' \in BOOLEAN
      BY <1>3
    <3>3. Types'
      BY <1>2, <1>3, <3>1, <3>2 DEF IInv, Types
    <3>4. Copying'
      BY <1>1, <1>2, <1>3, <2>1, <2>2 DEF Copying
    <3>5. QED
      BY <3>3, <3>4
  <2>4. Counting'
    BY <1>1, <1>2, <1>3 DEF IInv, Counting
  <2>5. QED
    BY <1>1, <1>3, <2>1, <2>3, <2>4 DEF IInv
<1>4. CASE /\ count' = count - Cut + 1
           /\ failed' = TRUE
           /\ UNCHANGED <<pc, file, torn, synced>>
  <2>1. count' \in Nat
    BY <1>1, <1>2, <1>4
  <2>2. Types' /\ Copying' /\ Counting'
    BY <1>1, <1>2, <1>4, <2>1 DEF IInv, Types, Copying, Counting
  <2>3. QED
    BY <1>1, <1>4, <2>2 DEF IInv, Accident
<1>5. QED
  BY <1>3, <1>4 DEF WriteFull

LEMMA CopyIInv == IInv /\ Copy => IInv'
<1> SUFFICES ASSUME IInv, Copy PROVE IInv'
  OBVIOUS
<1>1. PICK n \in Len(file) + 1 .. Len(tmp) : file' = SubSeq(tmp, 1, n)
  BY DEF Copy
<1>2. /\ pc = "copy" /\ UNCHANGED <<torn, synced, tmp, count, pc, last, restarts, failed>>
      /\ Len(file) \in Nat /\ Len(tmp) \in Nat /\ last \in Nat /\ n \in 0 .. Len(tmp) /\ n \in Nat
  BY <1>1 DEF Copy, IInv, Types, Good
<1>3. Good(file', last) /\ Len(file') = n
  <2>1. (IF 1 <= n THEN n - 1 + 1 ELSE 0) = n
    BY <1>2
  <2>2. QED
    BY <1>1, <1>2, <2>1, PartIsGood DEF IInv
<1>4. Types' /\ Copying' /\ Counting'
  BY <1>1, <1>2, <1>3 DEF IInv, Types, Copying, Counting
<1>5. QED
  BY <1>2, <1>3, <1>4 DEF IInv, Accident

LEMMA CopiedIInv == IInv /\ Copied => IInv'
<1> SUFFICES ASSUME IInv, Copied PROVE IInv'
  OBVIOUS
<1>1. /\ pc = "copy" /\ file = tmp /\ pc' = "idle" /\ synced' = Len(file)
      /\ count' = count - Cut + 1
      /\ UNCHANGED <<file, torn, tmp, last, restarts, failed>>
      /\ count \in Nat /\ count >= Limit /\ Limit \in Nat /\ Cut \in 1 .. Limit
      /\ Len(file) \in Nat /\ Len(tmp) \in Nat
  BY LimitAssumption DEF Copied, IInv, Types, Good, Copying
<1>2. Types' /\ Copying'
  BY <1>1 DEF IInv, Types, Copying
<1>3. Counting'
  BY <1>1 DEF IInv, Counting
<1>4. QED
  BY <1>1, <1>2, <1>3 DEF IInv, Accident

LEMMA CopyFailsIInv == IInv /\ CopyFails => IInv'
<1> SUFFICES ASSUME IInv, CopyFails PROVE IInv'
  OBVIOUS
<1>1. PICK t \in BOOLEAN : torn' = t /\ file' = Left(file, Len(file), t)
  BY DEF CopyFails
<1>2. /\ pc = "copy" /\ pc' = "idle" /\ count' = count - Cut + 1 /\ failed' = TRUE
      /\ UNCHANGED <<synced, tmp, last, restarts>>
      /\ count \in Nat /\ count >= Limit /\ Limit \in Nat /\ Cut \in 1 .. Limit
      /\ Len(file) \in Nat /\ last \in Nat /\ Len(file) \in 0 .. Len(file)
  BY LimitAssumption DEF CopyFails, IInv, Types, Good, Copying
<1>3. Good(file', last) /\ Len(file') = IF t THEN Len(file) + 1 ELSE Len(file)
  BY <1>1, <1>2, LeftIsGood DEF IInv
<1>4. Types' /\ Copying' /\ Counting'
  BY <1>1, <1>2, <1>3 DEF IInv, Types, Copying, Counting
<1>5. QED
  BY <1>2, <1>3, <1>4 DEF IInv, Accident

LEMMA RestartIInv == IInv /\ Restart => IInv'
<1> SUFFICES ASSUME IInv, Restart PROVE IInv'
  OBVIOUS
<1>1. PICK n \in synced .. Len(file), t \in BOOLEAN :
        /\ file' = Left(file, n, t)
        /\ t => n < Len(file) \/ (pc = "copy" /\ n < Len(tmp))
        /\ torn' = (t \/ (torn /\ n = Len(file)))
  BY DEF Restart
<1>2. /\ restarts' = restarts + 1 /\ pc' = "idle" /\ synced' = Len(file')
      /\ count' = Len(file') /\ UNCHANGED <<tmp, last, failed>>
      /\ Len(file) \in Nat /\ Len(tmp) \in Nat /\ last \in Nat /\ n \in 0 .. Len(file)
      /\ restarts \in Nat /\ torn \in BOOLEAN /\ count \in Nat /\ pc \in {"idle", "copy"}
      /\ Limit \in Nat /\ Cut \in 1 .. Limit
  BY LimitAssumption DEF Restart, Counted, IInv, Types, Good
<1>3. Good(file', last) /\ Len(file') = IF t THEN n + 1 ELSE n
  BY <1>1, <1>2, LeftIsGood DEF IInv
<1>4. ~failed => Len(file') <= Limit
  <2> SUFFICES ASSUME ~failed PROVE Len(file') <= Limit
    OBVIOUS
  <2>1. CASE pc = "idle"
    <3>1. Len(file) <= count /\ count <= Limit
      BY <2>1 DEF IInv, Counting
    <3>2. t => n < Len(file)
      BY <2>1, <1>1
    <3>3. QED
      BY <3>1, <3>2, <1>2, <1>3
  <2>2. CASE pc = "copy"
    <3>1. Len(file) <= Len(tmp) /\ Len(tmp) <= count - Cut + 1 /\ count <= Limit
      BY <2>2 DEF IInv, Counting, Copying
    <3>2. Len(tmp) <= Limit
      BY <3>1, <1>2
    <3>3. t => n < Len(tmp)
      BY <3>1, <1>1, <1>2
    <3>4. QED
      BY <3>1, <3>2, <3>3, <1>2, <1>3
  <2>3. QED
    BY <2>1, <2>2, <1>2
<1>5. Len(file') \in Nat
  BY <1>3 DEF Good
<1>6. Types' /\ Copying' /\ Counting'
  BY <1>1, <1>2, <1>4, <1>5 DEF IInv, Types, Copying, Counting
<1>7. QED
  BY <1>2, <1>3, <1>6 DEF IInv, Accident

LEMMA StutterIInv == IInv /\ UNCHANGED vars => IInv'
BY DEF IInv, Types, Good, Ordered, Copying, Counting, Accident, vars

LEMMA NextIInv == IInv /\ [Next]_vars => IInv'
BY WriteIInv, WriteFullIInv, CopyIInv, CopiedIInv, CopyFailsIInv, RestartIInv, StutterIInv
   DEF Next

LEMMA Invariance == Spec => []IInv
<1>1. Init => IInv
  BY InitIInv
<1>2. IInv /\ [Next]_vars => IInv'
  BY NextIInv
<1>3. QED
  BY <1>1, <1>2, PTL DEF Spec

-----------------------------------------------------------------------------
(* The log never grows past its limit, nor its count, over any number of   *)
(* records and power cuts, as long as no copy failed (LOG_WriteLog,        *)
(* LOG_Init).                                                              *)
THEOREM LogIsBounded == Spec => []Bounded
<1>1. IInv => Bounded
  <2> SUFFICES ASSUME IInv, ~failed
               PROVE  Len(file) <= Limit /\ count <= Limit /\ (pc = "idle" => Len(file) <= count)
    BY DEF Bounded
  <2>1. /\ Len(file) \in Nat /\ Len(tmp) \in Nat /\ count \in Nat /\ pc \in {"idle", "copy"}
        /\ Limit \in Nat /\ Cut \in 1 .. Limit
    BY LimitAssumption DEF IInv, Types, Good
  <2>2. QED
    BY <2>1 DEF IInv, Counting, Copying
<1>2. QED
  BY <1>1, Invariance, PTL

(* The records in the log are in the order in which they were written,     *)
(* and none is there twice, whatever power cuts and failed copies took.    *)
THEOREM LogIsInOrder == Spec => []InOrder
<1>1. IInv => InOrder
  BY DEF IInv, Good, InOrder
<1>2. QED
  BY <1>1, Invariance, PTL

-----------------------------------------------------------------------------
(* The refinement.                                                         *)

TheLog == IF pc = "copy" THEN tmp ELSE file

LEMMA InitRefines == Init => BL!LogInit
BY DEF Init, BL!LogInit

(* An unaltered log, number and accident: a step LogFile takes by itself.  *)
LEMMA Unaltered ==
    ASSUME TheLog' = TheLog, last' = last, Accident' = Accident
    PROVE  UNCHANGED BL!logVars
BY DEF BL!logVars, TheLog, Accident

LEMMA WriteRefines == IInv /\ Write => BL!Add
<1> SUFFICES ASSUME IInv, Write PROVE BL!Add
  OBVIOUS
<1>1. /\ pc = "idle" /\ pc' = "idle" /\ last' = last + 1
      /\ restarts' = restarts /\ failed' = failed
      /\ file' = IF torn THEN file ELSE Append(file, last')
  BY DEF Write, NewRecord
<1>2. TheLog = file /\ TheLog' = file' /\ Accident' = Accident
  BY <1>1 DEF TheLog, Accident
<1>3. torn => Accident
  BY DEF IInv
<1>4. Accident \in BOOLEAN
  BY DEF Accident, IInv, Types
<1>5. QED
  BY <1>1, <1>2, <1>3, <1>4 DEF BL!Add, BL!AddedTo, TheLog, Accident

(* A copy that does not even begin leaves the log as it is.                *)
LEMMA WriteFullRefines == IInv /\ WriteFull => BL!AddWhenFull \/ BL!Add
<1> SUFFICES ASSUME IInv, WriteFull PROVE BL!AddWhenFull \/ BL!Add
  OBVIOUS
<1>1. /\ pc = "idle" /\ last' = last + 1 /\ restarts' = restarts
      /\ tmp' = IF torn THEN Kept ELSE Append(Kept, last')
  BY DEF WriteFull, NewRecord
<1>2. TheLog = file
  BY <1>1 DEF TheLog
<1>3. CASE pc' = "copy" /\ UNCHANGED <<count, failed>>
  <2>1. TheLog' = tmp' /\ Accident' = Accident
    BY <1>1, <1>3 DEF TheLog, Accident
  <2>2. (torn => Accident) /\ Accident \in BOOLEAN
    BY DEF IInv, Accident
  <2>3. BL!AddWhenFull
    BY <1>1, <1>2, <2>1, <2>2 DEF BL!AddWhenFull, BL!AddedTo, TheLog, Accident, Kept
  <2>4. QED
    BY <2>3
<1>4. CASE failed' = TRUE /\ UNCHANGED <<pc, file, torn, synced>>
  <2>1. TheLog' = file /\ Accident' = TRUE
    BY <1>1, <1>4 DEF TheLog, Accident
  <2>2. BL!Add
    BY <1>1, <1>2, <2>1 DEF BL!Add, BL!AddedTo, TheLog, Accident
  <2>3. QED
    BY <2>2
<1>5. QED
  BY <1>3, <1>4 DEF WriteFull

(* What an accident leaves of the log is a part of it, whether it strikes  *)
(* the log or the copy.                                                    *)
LEMMA LossRefines ==
    ASSUME IInv, NEW n \in 0 .. Len(file), NEW t \in BOOLEAN,
           file' = Left(file, n, t), pc' = "idle", Accident' = TRUE, last' = last
    PROVE  BL!LoseEnd
<1>1. Len(file) \in Nat /\ Len(tmp) \in Nat /\ pc \in {"idle", "copy"} /\ n \in Nat
  BY DEF IInv, Types, Good
<1>2. n \in 0 .. Len(TheLog) /\ SubSeq(file, 1, n) = SubSeq(TheLog, 1, n)
  <2>1. CASE pc = "idle"
    BY <2>1 DEF TheLog
  <2>2. CASE pc = "copy"
    <3>1. /\ Len(file) <= Len(tmp) /\ file = SubSeq(tmp, 1, Len(file)) /\ TheLog = tmp
          /\ tmp \in Seq(Nat) /\ file \in Seq(Nat)
      BY <2>2 DEF IInv, Copying, TheLog, Good
    <3>2. n \in 0 .. Len(tmp)
      BY <1>1, <3>1
    <3>3. DOMAIN file = 1 .. Len(file) /\ \A i \in 1 .. Len(file) : file[i] = tmp[i]
      BY <1>1, <3>1
    <3>4. SubSeq(file, 1, n) = [i \in 1 .. n |-> file[i]]
          /\ SubSeq(tmp, 1, n) = [i \in 1 .. n |-> tmp[i]]
      BY <1>1, <3>1, <3>2
    <3>5. QED
      BY <1>1, <3>1, <3>2, <3>3, <3>4
  <2>3. QED
    BY <1>1, <2>1, <2>2
<1>3. TheLog' = Left(file, n, t)
  BY DEF TheLog
<1>4. TheLog' = SubSeq(TheLog, 1, n) \/ TheLog' = Append(SubSeq(TheLog, 1, n), GARBAGE)
  BY <1>2, <1>3 DEF Left
<1>5. QED
  BY <1>2, <1>4 DEF BL!LoseEnd, TheLog, Accident

LEMMA NextRefines == IInv /\ [Next]_vars => [BL!LogNext]_(BL!logVars)
<1> SUFFICES ASSUME IInv, [Next]_vars PROVE [BL!LogNext]_(BL!logVars)
  OBVIOUS
<1>1. CASE Write
  BY <1>1, WriteRefines DEF BL!LogNext
<1>2. CASE WriteFull
  BY <1>2, WriteFullRefines DEF BL!LogNext
<1>3. CASE Copy
  <2>1. TheLog' = TheLog /\ last' = last /\ Accident' = Accident
    BY <1>3 DEF Copy, TheLog, Accident
  <2>2. QED
    BY <2>1, Unaltered
<1>4. CASE Copied
  <2>1. TheLog' = TheLog /\ last' = last /\ Accident' = Accident
    BY <1>4 DEF Copied, TheLog, Accident
  <2>2. QED
    BY <2>1, Unaltered
<1>5. CASE CopyFails
  <2>1. Len(file) \in 0 .. Len(file)
    BY DEF IInv, Types, Good
  <2>2. pc' = "idle" /\ Accident' = TRUE /\ last' = last
    BY <1>5 DEF CopyFails, Accident
  <2>3. PICK t \in BOOLEAN : file' = Left(file, Len(file), t)
    BY <1>5 DEF CopyFails
  <2>4. QED
    BY <2>1, <2>2, <2>3, LossRefines DEF BL!LogNext
<1>6. CASE Restart
  <2>1. PICK n \in synced .. Len(file), t \in BOOLEAN : file' = Left(file, n, t)
    BY <1>6 DEF Restart
  <2>2. n \in 0 .. Len(file)
    BY <2>1 DEF IInv, Types, Good
  <2>3. restarts' > 0
    BY <1>6 DEF Restart, IInv, Types
  <2>4. pc' = "idle" /\ Accident' = TRUE /\ last' = last
    BY <1>6, <2>3 DEF Restart, Accident
  <2>5. QED
    BY <2>1, <2>2, <2>4, LossRefines DEF BL!LogNext
<1>7. CASE UNCHANGED vars
  <2>1. TheLog' = TheLog /\ last' = last /\ Accident' = Accident
    BY <1>7 DEF vars, TheLog, Accident
  <2>2. QED
    BY <2>1, Unaltered
<1>8. QED
  BY <1>1, <1>2, <1>3, <1>4, <1>5, <1>6, <1>7 DEF Next

(* LogFile, with its two files, its copy and its count, is a BoundedLog:   *)
(* only the Cut oldest lines leave a full log, in the step that adds the   *)
(* new record, and only an accident cuts the end off (LOG_WriteLog,        *)
(* CopyFile, LOG_Init).                                                    *)
THEOREM LogIsABoundedLog == Spec => ImplementsBoundedLog
<1>1. Init => BL!LogInit
  BY InitRefines
<1>2. IInv /\ [Next]_vars => [BL!LogNext]_(BL!logVars)
  BY NextRefines
<1>3. QED
  BY <1>1, <1>2, Invariance, PTL DEF Spec, ImplementsBoundedLog, BL!LogSpec

-----------------------------------------------------------------------------
(* The search of the log.                                                  *)

(* The rows that lines give are some of them, in their order.              *)
LEMMA RowsAreLines ==
    ASSUME NEW lines \in Seq(Nat)
    PROVE  /\ RowsOf(lines) \in Seq(Asked)
           /\ \E at \in [DOMAIN RowsOf(lines) -> DOMAIN lines] :
                /\ \A k \in DOMAIN RowsOf(lines) : RowsOf(lines)[k] = lines[at[k]]
                /\ \A k, l \in DOMAIN RowsOf(lines) : k < l => at[k] < at[l]
<1> DEFINE S == Hits(lines)
           c == Cardinality(S)
           at == [k \in 1 .. c |-> Nth(k, S)]
<1>1. DOMAIN lines = 1 .. Len(lines) /\ Len(lines) \in Nat
  BY LenProperties
<1>2. S \in SUBSET (1 .. Len(lines)) /\ S \in SUBSET Nat /\ \A i \in S : lines[i] \in Asked
  BY <1>1 DEF Hits
<1>3. IsFiniteSet(S) /\ c \in Nat
  <2>1. IsFiniteSet(1 .. Len(lines))
    BY <1>1, FS_Interval
  <2>2. QED
    BY <1>2, <2>1, FS_Subset, FS_CardinalityType
<1>4. RowsOf(lines) = [k \in 1 .. c |-> lines[Nth(k, S)]]
  BY DEF RowsOf
<1> HIDE DEF S, c
<1>5. ASSUME NEW k \in 1 .. Cardinality(S)
      PROVE  Nth(k, S) \in S
  BY <1>2, <1>3, NthTells
<1>6. \A k, l \in 1 .. Cardinality(S) : k < l => Nth(k, S) < Nth(l, S)
  BY <1>2, <1>3, NthGrows
<1>7. c = Cardinality(S)
  BY DEF c
<1>8. at \in [1 .. c -> DOMAIN lines] /\ DOMAIN RowsOf(lines) = 1 .. c
  BY <1>1, <1>2, <1>4, <1>5, <1>7
<1>9. \A k \in 1 .. c : RowsOf(lines)[k] = lines[at[k]] /\ RowsOf(lines)[k] \in Asked
  BY <1>2, <1>4, <1>5, <1>7
<1>10. \A k, l \in 1 .. c : k < l => at[k] < at[l]
  BY <1>6, <1>7
<1> HIDE DEF at
<1>11. RowsOf(lines) \in [1 .. c -> Asked]
  BY <1>4, <1>9
<1>12. RowsOf(lines) \in Seq(Asked)
  BY <1>3, <1>11
<1>13. /\ at \in [DOMAIN RowsOf(lines) -> DOMAIN lines]
       /\ \A k \in DOMAIN RowsOf(lines) : RowsOf(lines)[k] = lines[at[k]]
       /\ \A k, l \in DOMAIN RowsOf(lines) : k < l => at[k] < at[l]
  BY <1>8, <1>9, <1>10
<1>14. QED
  BY <1>12, <1>13, Zenon

(* The rows are in order, and older than every line still to be read.      *)
SearchInv ==
    /\ before \in Nat
    /\ found \in Seq(Asked) /\ Ordered(found)
    /\ \A r \in DOMAIN found : found[r] <= last
    /\ reading => \A r \in DOMAIN found, i \in DOMAIN TheLog :
                    before < i /\ TheLog[i] # GARBAGE => found[r] < TheLog[i]

LEMMA AskedTypes == Asked \in SUBSET Nat /\ GARBAGE \notin Asked
  BY AskedAssumption, BoundAssumption DEF Lines, GARBAGE

LEMMA FoundTypes ==
    ASSUME SearchInv
    PROVE  /\ Len(found) \in Nat /\ DOMAIN found = 1 .. Len(found)
           /\ \A r \in DOMAIN found : found[r] \in Nat /\ found[r] # GARBAGE
<1>1. Len(found) \in Nat /\ DOMAIN found = 1 .. Len(found)
  BY LenProperties DEF SearchInv
<1>2. \A r \in DOMAIN found : found[r] \in Asked
  BY <1>1, ElementOfSeq DEF SearchInv
<1>3. QED
  BY <1>1, <1>2, AskedTypes

(* The lines behind the a-th, up to the b-th.                              *)
LEMMA TailIndex ==
    ASSUME NEW f \in Seq(Nat), NEW a \in Nat, NEW b \in Nat, b <= Len(f)
    PROVE  LET s == SubSeq(f, a + 1, b) IN
           /\ s \in Seq(Nat) /\ Len(s) \in Nat /\ DOMAIN s = 1 .. Len(s)
           /\ \A i \in DOMAIN s : a + i \in 1 .. b /\ s[i] = f[a + i]
<1> DEFINE s == SubSeq(f, a + 1, b)
<1>1. \A i \in a + 1 .. b : f[i] \in Nat
  BY ElementOfSeq
<1>2. /\ s \in Seq(Nat)
      /\ Len(s) = IF a + 1 <= b THEN b - (a + 1) + 1 ELSE 0
      /\ \A i \in 1 .. b - (a + 1) + 1 : s[i] = f[a + 1 + i - 1]
  BY <1>1, SubSeqProperties
<1> HIDE DEF s
<1>3. Len(s) \in Nat /\ DOMAIN s = 1 .. Len(s)
  BY <1>2, LenProperties
<1>4. \A i \in 1 .. Len(s) : a + i \in 1 .. b /\ s[i] = f[a + i]
  <2>1. ASSUME NEW n \in Nat, n = IF a + 1 <= b THEN b - (a + 1) + 1 ELSE 0, NEW i \in 1 .. n
        PROVE  a + i \in 1 .. b /\ i \in 1 .. b - (a + 1) + 1 /\ a + 1 + i - 1 = a + i
    <3>1. CASE a + 1 <= b
      BY <2>1, <3>1
    <3>2. CASE ~(a + 1 <= b)
      BY <2>1, <3>2
    <3>3. QED
      BY <3>1, <3>2
  <2>2. QED
    BY <1>2, <1>3, <2>1
<1>5. QED
  BY <1>2, <1>3, <1>4 DEF s

(* Lines from behind the position are read.                                *)
LEMMA ReadKeeps ==
    ASSUME IInv, SearchInv, reading, NEW lines \in Seq(Nat), before' \in Nat, before' >= before,
           \A j \in DOMAIN lines :
              /\ before + j \in DOMAIN TheLog /\ lines[j] = TheLog[before + j]
              /\ before + j <= before',
           found' = found \o RowsOf(lines), UNCHANGED vars
    PROVE  SearchInv'
<1> DEFINE rows == RowsOf(lines)
           m == Len(found)
<1>1. PICK at \in [DOMAIN rows -> DOMAIN lines] :
        /\ \A k \in DOMAIN rows : rows[k] = lines[at[k]]
        /\ \A k, l \in DOMAIN rows : k < l => at[k] < at[l]
  BY RowsAreLines
<1>2. rows \in Seq(Asked) /\ DOMAIN rows = 1 .. Len(rows) /\ Len(rows) \in Nat
  BY RowsAreLines, LenProperties
<1>3. \A k \in DOMAIN rows : rows[k] \in Nat /\ rows[k] # GARBAGE
  BY <1>2, ElementOfSeq, AskedTypes
<1>4. \A k \in DOMAIN rows :
        /\ at[k] \in DOMAIN lines /\ at[k] \in Nat /\ before + at[k] \in DOMAIN TheLog
        /\ rows[k] = TheLog[before + at[k]] /\ before + at[k] <= before' /\ before + at[k] > before
  <2>1. \A j \in DOMAIN lines : j \in Nat /\ j > 0
    BY LenProperties
  <2>2. before \in Nat
    BY DEF SearchInv
  <2>3. \A k \in DOMAIN rows : at[k] \in DOMAIN lines
    BY <1>1
  <2> HIDE DEF rows
  <2>4. QED
    BY <1>1, <2>1, <2>2, <2>3
<1>5. /\ m \in Nat /\ DOMAIN found = 1 .. m
      /\ \A r \in DOMAIN found : found[r] \in Nat /\ found[r] # GARBAGE
  BY FoundTypes
<1>6. /\ found' \in Seq(Asked) /\ DOMAIN found' = 1 .. m + Len(rows)
      /\ \A i \in DOMAIN found' :
            \/ i \in DOMAIN found /\ found'[i] = found[i]
            \/ i - m \in DOMAIN rows /\ i > m /\ found'[i] = rows[i - m]
  <2>1. found \in Seq(Asked)
    BY DEF SearchInv
  <2>2. /\ found' \in Seq(Asked) /\ Len(found') = m + Len(rows)
        /\ \A i \in 1 .. m + Len(rows) : found'[i] = IF i <= m THEN found[i] ELSE rows[i - m]
    BY <1>2, <2>1, ConcatProperties
  <2>3. DOMAIN found' = 1 .. m + Len(rows)
    BY <2>2, LenProperties
  <2> HIDE DEF rows, m
  <2>4. QED
    BY SMTT(30), <1>2, <1>5, <2>2, <2>3
<1>7. Good(TheLog, last)
  BY DEF TheLog, IInv
<1>8. TheLog' = TheLog /\ last' = last
  BY DEF vars, TheLog
<1>9. \A i \in DOMAIN TheLog : i \in Nat /\ TheLog[i] \in Nat /\ TheLog[i] <= last
  BY <1>7 DEF Good
<1>10. \A k \in DOMAIN rows, r \in DOMAIN found : found[r] < rows[k]
  BY <1>3, <1>4 DEF SearchInv
<1>11. \A k, l \in DOMAIN rows : k < l => rows[k] < rows[l]
  <2>1. SUFFICES ASSUME NEW k \in DOMAIN rows, NEW l \in DOMAIN rows, k < l
                 PROVE  rows[k] < rows[l]
    OBVIOUS
  <2>2. before + at[k] < before + at[l]
    BY <1>1, <1>4, <2>1 DEF SearchInv
  <2>3. QED
    BY <1>3, <1>4, <1>7, <2>1, <2>2 DEF Good, Ordered
<1> HIDE DEF rows, m
<1>12. Ordered(found')
  <2>1. SUFFICES ASSUME NEW i \in DOMAIN found', NEW j \in DOMAIN found', i < j
                 PROVE  found'[i] < found'[j]
    BY DEF Ordered
  <2>2. CASE i \in DOMAIN found /\ found'[i] = found[i]
    BY <1>5, <1>6, <1>10, <2>1, <2>2 DEF SearchInv, Ordered
  <2>3. CASE i - m \in DOMAIN rows /\ i > m /\ found'[i] = rows[i - m]
    <3>1. j - m \in DOMAIN rows /\ found'[j] = rows[j - m] /\ i - m < j - m
      <4>1. i \in Nat /\ j \in Nat
        BY <1>2, <1>5, <1>6
      <4>2. j \notin DOMAIN found
        BY <1>5, <2>1, <2>3, <4>1
      <4>3. QED
        BY SMTT(30), <1>5, <1>6, <2>1, <4>1, <4>2
    <3>2. QED
      BY <1>11, <2>3, <3>1
  <2>4. QED
    BY <1>6, <2>2, <2>3
<1>13. \A r \in DOMAIN found' : found'[r] <= last
  BY <1>4, <1>6, <1>9 DEF SearchInv
<1>14. ASSUME NEW r \in DOMAIN found', NEW i \in DOMAIN TheLog, before' < i, TheLog[i] # GARBAGE
       PROVE  found'[r] < TheLog[i]
  <2>1. CASE r \in DOMAIN found /\ found'[r] = found[r]
    BY <1>9, <1>14, <2>1 DEF SearchInv
  <2>2. CASE r - m \in DOMAIN rows /\ found'[r] = rows[r - m]
    <3>1. before + at[r - m] < i
      BY <1>4, <1>9, <1>14, <2>2 DEF SearchInv
    <3>2. QED
      BY <1>3, <1>4, <1>7, <1>14, <2>2, <3>1 DEF Good, Ordered
  <2>3. QED
    BY <1>6, <2>1, <2>2
<1>15. QED
  BY <1>6, <1>8, <1>12, <1>13, <1>14 DEF SearchInv

(* A record is written, or the log copied: the lines behind the position   *)
(* were behind it before, or are new.                                      *)
LEMMA LogKeeps ==
    ASSUME IInv, IInv', SearchInv, Log
    PROVE  SearchInv'
<1>1. /\ before \in Nat /\ last \in Nat /\ found' = found /\ reading' = reading
      /\ found \in Seq(Asked) /\ Ordered(found)
      /\ \A r \in DOMAIN found : found[r] \in Nat /\ found[r] <= last
      /\ Cut \in Nat /\ Cut >= 1
  BY FoundTypes, LimitAssumption DEF Log, SearchInv, IInv, Types
<1>2. /\ file \in Seq(Nat) /\ tmp \in Seq(Nat) /\ Len(file) \in Nat /\ Len(tmp) \in Nat
      /\ DOMAIN file = 1 .. Len(file) /\ DOMAIN tmp = 1 .. Len(tmp)
  BY LenProperties DEF IInv, Good
<1>3. \A i \in DOMAIN TheLog' : TheLog'[i] \in Nat /\ i \in Nat
  <2>1. TheLog' \in Seq(Nat)
    BY DEF TheLog, IInv, Good
  <2>2. QED
    BY <2>1, LenProperties
<1>4. ASSUME last' \in Nat, last <= last', before' \in Nat,
             \A i \in DOMAIN TheLog' :
                reading /\ before' < i /\ TheLog'[i] # GARBAGE =>
                    \/ TheLog'[i] > last
                    \/ \E j \in DOMAIN TheLog : before < j /\ TheLog'[i] = TheLog[j]
      PROVE  SearchInv'
  <2>1. \A r \in DOMAIN found : found[r] <= last'
    BY <1>1, <1>4
  <2>2. ASSUME reading, NEW r \in DOMAIN found, NEW i \in DOMAIN TheLog',
               before' < i, TheLog'[i] # GARBAGE
        PROVE  found[r] < TheLog'[i]
    <3>1. CASE \E j \in DOMAIN TheLog : before < j /\ TheLog'[i] = TheLog[j]
      BY <2>2, <3>1 DEF SearchInv
    <3>2. CASE TheLog'[i] > last
      BY <1>1, <1>3, <3>2
    <3>3. QED
      BY <1>4, <2>2, <3>1, <3>2
  <2>3. QED
    BY <1>1, <1>4, <2>1, <2>2 DEF SearchInv
<1>5. CASE Write
  <2>1. /\ pc = "idle" /\ pc' = "idle" /\ last' = last + 1
        /\ file' = IF torn THEN file ELSE Append(file, last')
    BY <1>5 DEF Write, NewRecord
  <2>2. before' = before /\ TheLog = file /\ TheLog' = file'
    BY <2>1 DEF Log, TheLog
  <2>3. \A i \in DOMAIN file' :
          (i \in DOMAIN file /\ file'[i] = file[i]) \/ file'[i] = last'
    <3>1. CASE torn
      BY <2>1, <3>1
    <3>2. CASE ~torn
      <4>1. last' \in Nat /\ file' = Append(file, last')
        BY <1>1, <2>1, <3>2
      <4>2. /\ file' \in Seq(Nat) /\ Len(file') = Len(file) + 1
            /\ \A i \in 1 .. Len(file) : file'[i] = file[i]
            /\ file'[Len(file) + 1] = last'
        BY <1>2, <4>1, AppendProperties
      <4>3. DOMAIN file' = 1 .. Len(file) + 1
        BY <4>2, LenProperties
      <4>4. QED
        BY <1>2, <4>2, <4>3
    <3>3. QED
      BY <3>1, <3>2
  <2>4. last' \in Nat /\ last <= last' /\ last' > last
    BY <1>1, <2>1
  <2>5. QED
    BY <1>1, <1>4, <2>2, <2>3, <2>4
<1>6. CASE WriteFull
  <2>1. /\ pc = "idle" /\ last' = last + 1 /\ TheLog = file
        /\ tmp' = IF torn THEN Kept ELSE Append(Kept, last')
    BY <1>6 DEF WriteFull, NewRecord, TheLog
  <2>2. last' \in Nat /\ last <= last' /\ last' > last
    BY <1>1, <2>1
  <2>3. CASE pc' = "copy"
    <3>1. TheLog' = tmp'
      BY <2>3 DEF TheLog
    <3>2. before' \in Nat /\ (reading => before' >= before - Cut)
      <4>1. CASE reading
        BY <1>1, <2>1, <2>3, <4>1, LimitAssumption DEF Log, Moved
      <4>2. CASE ~reading
        BY <1>1, <4>2 DEF Log
      <4>3. QED
        BY <4>1, <4>2
    <3>3. /\ Kept \in Seq(Nat) /\ Len(Kept) \in Nat
          /\ \A i \in 1 .. Len(Kept) : Cut + i \in DOMAIN file /\ Kept[i] = file[Cut + i]
      <4>1. Len(file) \in Nat /\ DOMAIN file = 1 .. Len(file)
        BY <1>2, LenProperties
      <4>2. /\ Kept \in Seq(Nat) /\ Len(Kept) \in Nat /\ DOMAIN Kept = 1 .. Len(Kept)
            /\ \A i \in DOMAIN Kept : Cut + i \in 1 .. Len(file) /\ Kept[i] = file[Cut + i]
        <5>1. \A a, b \in Nat : b <= Len(file) =>
                /\ SubSeq(file, a + 1, b) \in Seq(Nat) /\ Len(SubSeq(file, a + 1, b)) \in Nat
                /\ DOMAIN SubSeq(file, a + 1, b) = 1 .. Len(SubSeq(file, a + 1, b))
                /\ \A i \in DOMAIN SubSeq(file, a + 1, b) :
                      a + i \in 1 .. b /\ SubSeq(file, a + 1, b)[i] = file[a + i]
          BY <1>2, TailIndex, ZenonT(30)
        <5>2. Cut \in Nat /\ Len(file) \in Nat /\ Len(file) <= Len(file)
          BY <1>1, <4>1
        <5>3. QED
          BY <5>1, <5>2, Zenon DEF Kept
      <4>3. QED
        BY <4>1, <4>2
    <3>4. \A i \in DOMAIN tmp' :
            (i \in 1 .. Len(Kept) /\ tmp'[i] = Kept[i]) \/ tmp'[i] = last'
      <4>1. CASE torn
        BY <2>1, <3>3, <4>1, LenProperties
      <4>2. CASE ~torn
        <5>1. tmp' = Append(Kept, last')
          BY <2>1, <4>2
        <5>2. /\ tmp' \in Seq(Nat) /\ Len(tmp') = Len(Kept) + 1
              /\ \A i \in 1 .. Len(Kept) : tmp'[i] = Kept[i]
              /\ tmp'[Len(Kept) + 1] = last'
          BY <2>2, <3>3, <5>1, AppendProperties
        <5>3. DOMAIN tmp' = 1 .. Len(Kept) + 1
          BY <5>2, LenProperties
        <5>4. QED
          BY <3>3, <5>2, <5>3
      <4>3. QED
        BY <4>1, <4>2
    <3>5. ASSUME reading, NEW i \in DOMAIN tmp', before' < i
          PROVE  tmp'[i] > last \/ \E j \in DOMAIN file : before < j /\ tmp'[i] = file[j]
      <4>1. CASE i \in 1 .. Len(Kept) /\ tmp'[i] = Kept[i]
        <5>1. Cut + i \in DOMAIN file /\ tmp'[i] = file[Cut + i]
          BY <3>3, <4>1
        <5>2. before < Cut + i
          BY <1>1, <3>2, <3>3, <3>5, <4>1
        <5>3. QED
          BY <5>1, <5>2
      <4>2. CASE tmp'[i] = last'
        BY <2>2, <4>2
      <4>3. QED
        BY <3>4, <4>1, <4>2
    <3>6. QED
      BY <1>4, <2>1, <2>2, <3>1, <3>2, <3>5
  <2>4. CASE UNCHANGED <<pc, file, torn, synced>>
    <3>1. TheLog' = file /\ before' = before
      BY <2>1, <2>4 DEF Log, TheLog
    <3>2. QED
      BY <1>1, <1>4, <2>1, <2>2, <3>1
  <2>5. QED
    BY <1>6, <2>3, <2>4 DEF WriteFull
<1>7. CASE Copy \/ Copied
  <2>1. TheLog' = TheLog /\ before' = before /\ last' = last
    BY <1>7 DEF Copy, Copied, Log, TheLog
  <2>2. QED
    BY <1>1, <1>4, <2>1
<1>8. CASE CopyFails
  <2>1. PICK t \in BOOLEAN : file' = Left(file, Len(file), t)
    BY <1>8 DEF CopyFails
  <2>2. /\ pc = "copy" /\ pc' = "idle" /\ last' = last /\ before' = before
        /\ TheLog = tmp /\ TheLog' = file'
    BY <1>8 DEF CopyFails, Log, TheLog
  <2>3. \A i \in DOMAIN file : i \in DOMAIN tmp /\ file[i] = tmp[i]
    <3>1. Len(file) <= Len(tmp) /\ file = SubSeq(tmp, 1, Len(file))
      BY <2>2 DEF IInv, Copying
    <3>2. QED
      BY <1>2, <3>1
  <2>4. SubSeq(file, 1, Len(file)) = file
    BY <1>2, SubSeqFull
  <2>5. \A i \in DOMAIN file' :
          (i \in DOMAIN file /\ file'[i] = file[i]) \/ file'[i] = GARBAGE
    <3>1. CASE t
      <4>1. file' = Append(file, GARBAGE) /\ GARBAGE \in Nat
        BY <2>1, <2>4, <3>1 DEF Left, GARBAGE
      <4>2. /\ file' \in Seq(Nat) /\ Len(file') = Len(file) + 1
            /\ \A i \in 1 .. Len(file) : file'[i] = file[i]
            /\ file'[Len(file) + 1] = GARBAGE
        BY <1>2, <4>1, AppendProperties
      <4>3. DOMAIN file' = 1 .. Len(file) + 1
        BY <4>2, LenProperties
      <4>4. QED
        BY <1>2, <4>2, <4>3
    <3>2. CASE ~t
      BY <2>1, <2>4, <3>2 DEF Left
    <3>3. QED
      BY <3>1, <3>2
  <2>6. QED
    BY <1>1, <1>4, <2>2, <2>3, <2>5
<1>9. QED
  BY <1>5, <1>6, <1>7, <1>8 DEF Log

(* The lines a search reads at once are lines of the log, or of the new    *)
(* file that is being copied over it.                                      *)
LEMMA ReadLinesKeeps ==
    ASSUME IInv, SearchInv, NEW n \in 1 .. Len(file), ReadLines(n), UNCHANGED vars
    PROVE  SearchInv'
<1>1. /\ before \in Nat /\ reading /\ n \in before + 1 .. Len(file) /\ n \in Nat
      /\ file \in Seq(Nat) /\ tmp \in Seq(Nat) /\ Len(file) \in Nat /\ Len(tmp) \in Nat
  BY LenProperties DEF SearchInv, ReadLines, IInv, Good
<1>2. ASSUME NEW f \in Seq(Nat), NEW w \in Nat, w <= Len(f), w <= before', before' \in Nat,
             before' >= before, w >= before,
             \A i \in 1 .. w : i \in DOMAIN TheLog /\ f[i] = TheLog[i],
             found' = found \o RowsOf(SubSeq(f, before + 1, w))
      PROVE  SearchInv'
  <2> DEFINE lines == SubSeq(f, before + 1, w)
  <2>1. /\ lines \in Seq(Nat) /\ DOMAIN lines = 1 .. Len(lines)
        /\ \A i \in DOMAIN lines : before + i \in 1 .. w /\ lines[i] = f[before + i]
    BY <1>1, <1>2, TailIndex
  <2> HIDE DEF lines
  <2>2. ASSUME NEW j \in DOMAIN lines
        PROVE  /\ before + j \in DOMAIN TheLog /\ lines[j] = TheLog[before + j]
               /\ before + j <= before'
    <3>1. before + j \in 1 .. w /\ lines[j] = f[before + j]
      BY <2>1, <2>2
    <3>2. before + j <= before'
      <4> DEFINE k == before + j
      <4>1. k \in 1 .. w
        BY <3>1
      <4> HIDE DEF k
      <4>2. k <= before'
        BY <1>2, <4>1
      <4>3. QED
        BY <4>2 DEF k
    <3>3. QED
      BY <1>2, <3>1, <3>2
  <2>5. found' = found \o RowsOf(lines)
    BY <1>2 DEF lines
  <2>6. QED
    BY <1>1, <1>2, <2>1, <2>2, <2>5, ReadKeeps
<1>3. CASE before' = n /\ found' = found \o RowsOf(SubSeq(file, before + 1, n))
  <2>1. \A i \in 1 .. n : i \in DOMAIN TheLog /\ file[i] = TheLog[i]
    <3>1. CASE pc = "copy"
      <4>1. Len(file) <= Len(tmp) /\ file = SubSeq(tmp, 1, Len(file)) /\ TheLog = tmp
        BY <3>1 DEF IInv, Copying, TheLog
      <4>2. DOMAIN tmp = 1 .. Len(tmp) /\ \A i \in 1 .. Len(file) : file[i] = tmp[i]
        BY <1>1, <4>1
      <4>3. QED
        BY <1>1, <4>1, <4>2
    <3>2. CASE pc # "copy"
      BY <1>1, <3>2, LenProperties DEF TheLog
    <3>3. QED
      BY <3>1, <3>2
  <2>2. n <= Len(file) /\ n <= before' /\ before' >= before /\ n >= before /\ before' \in Nat
    BY <1>1, <1>3
  <2>3. QED
    BY <1>1, <1>2, <1>3, <2>1, <2>2
<1>4. ASSUME pc = "copy", n < Len(tmp), n = Len(file), before' = n + 1,
             NEW w \in {n, n + 1}, found' = found \o RowsOf(SubSeq(tmp, before + 1, w))
      PROVE  SearchInv'
  <2>1. TheLog = tmp /\ DOMAIN tmp = 1 .. Len(tmp)
    BY <1>1, <1>4, LenProperties DEF TheLog
  <2>2. /\ w \in Nat /\ w <= Len(tmp) /\ w <= before' /\ before' >= before /\ w >= before
        /\ before' \in Nat
    BY <1>1, <1>4
  <2>3. \A i \in 1 .. w : i \in DOMAIN TheLog /\ tmp[i] = TheLog[i]
    BY <1>1, <2>1, <2>2
  <2>4. QED
    BY <1>1, <1>2, <1>4, <2>2, <2>3
<1>5. QED
  BY <1>3, <1>4 DEF ReadLines

LEMMA SearchStep ==
    ASSUME IInv, SearchInv, [SearchNext]_<<vars, searchVars>>
    PROVE  IInv' /\ SearchInv'
<1>1. IInv'
  <2>1. [Next]_vars
    BY DEF SearchNext, Log, SwitchOn, Next
  <2>2. QED
    BY <2>1, NextIInv
<1>2. ASSUME Log
      PROVE  SearchInv'
  BY <1>1, <1>2, LogKeeps
<1>3. ASSUME SwitchOn \/ (Begin /\ UNCHANGED vars)
      PROVE  SearchInv'
  <2>1. found' = <<>> /\ before' = 0
    BY <1>3 DEF SwitchOn, Begin
  <2>2. QED
    BY <2>1, EmptySeq DEF SearchInv, Ordered
<1>4. ASSUME End, UNCHANGED vars
      PROVE  SearchInv'
  BY <1>4 DEF End, SearchInv, TheLog, vars
<1>5. ASSUME NEW n \in 1 .. Len(file), ReadLines(n), UNCHANGED vars
      PROVE  SearchInv'
  BY <1>5, ReadLinesKeeps
<1>6. ASSUME UNCHANGED <<vars, searchVars>>
      PROVE  SearchInv'
  BY <1>6 DEF SearchInv, TheLog, vars, searchVars
<1>7. QED
  BY <1>1, <1>2, <1>3, <1>4, <1>5, <1>6 DEF SearchNext

(* The rows that searchSystermLog finds are in the order in which the      *)
(* records were written, and none is there twice, although it reads        *)
(* without g_tLogMutex while LOG_WriteLog cuts the log and copies it.      *)
THEOREM SearchFindsInOrder == SearchSpec => []SearchInOrder
<1>1. SearchInit => IInv /\ SearchInv
  <2>1. SearchInit => IInv
    BY InitIInv DEF SearchInit
  <2>2. SearchInit => SearchInv
    BY EmptySeq DEF SearchInit, SearchInv, Ordered
  <2>3. QED
    BY <2>1, <2>2
<1>2. IInv /\ SearchInv /\ [SearchNext]_<<vars, searchVars>> => IInv' /\ SearchInv'
  BY SearchStep
<1>3. SearchInv => SearchInOrder
  BY DEF SearchInv, SearchInOrder
<1>4. QED
  BY <1>1, <1>2, <1>3, PTL DEF SearchSpec
=============================================================================
