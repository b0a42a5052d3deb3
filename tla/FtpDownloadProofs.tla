-------------------------- MODULE FtpDownloadProofs --------------------------
(***************************************************************************)
(* Proofs about FtpDownload, for any number of recorders, files and clicks *)
(* on the download button: 100 percent stands for complete files, an       *)
(* undisturbed download is cleaned up, and a running one is stopped by its *)
(* own end only.                                                           *)
(***************************************************************************)
EXTENDS FtpDownload, FiniteSetTheorems, SequenceTheorems, TLAPS

-----------------------------------------------------------------------------
(* Files and their blocks.                                                 *)

LEMMA FileTypes ==
    /\ Last \in Nat /\ Last >= 1 /\ FileIds = 1 .. Last /\ IsFiniteSet(FileIds)
    /\ \A f \in FileIds : Files[f] \in Nat /\ Files[f] >= 1
    /\ Files \in [FileIds -> Nat]
<1>1. Last \in Nat /\ FileIds = 1 .. Last
  BY FilesAssumption DEF Last, FileIds
<1>2. Last >= 1
  BY <1>1, FilesAssumption, EmptySeq DEF Last
<1>3. IsFiniteSet(FileIds)
  BY <1>1, FS_Interval
<1>4. \A f \in FileIds : Files[f] \in Nat \ {0}
  BY FilesAssumption, ElementOfSeq DEF FileIds
<1>5. \A f \in FileIds : Files[f] \in Nat /\ Files[f] >= 1
  BY <1>4
<1>6. Files = [f \in FileIds |-> Files[f]]
  BY FilesAssumption DEF FileIds
<1>7. QED
  BY <1>1, <1>2, <1>3, <1>5, <1>6

Counts == [FileIds -> Nat]     \* blocks of each file

LEMMA BlockIn ==
    ASSUME NEW w \in Counts
    PROVE  /\ \A x \in Blocks(w) : \E f \in FileIds : \E b \in 1 .. w[f] : x = <<f, b>>
           /\ \A f \in FileIds, b \in Nat : <<f, b>> \in Blocks(w) <=> b \in 1 .. w[f]
  BY DEF Blocks, Counts

LEMMA BlocksFinite ==
    ASSUME NEW w \in Counts
    PROVE  IsFiniteSet(Blocks(w)) /\ Cardinality(Blocks(w)) \in Nat
<1> DEFINE B(f) == {f} \X (1 .. w[f])
           g == [f \in FileIds |-> B(f)]
           T == {B(f) : f \in FileIds}
<1>1. IsFiniteSet(FileIds)
  BY FileTypes
<1>2. g \in Surjection(FileIds, T)
  BY DEF Surjection
<1>3. IsFiniteSet(T)
  <2> HIDE DEF g, T
  <2>1. QED
    BY <1>1, <1>2, FS_Surjection
<1>4. ASSUME NEW f \in FileIds
      PROVE  IsFiniteSet(B(f))
  <2>1. w[f] \in Int
    BY DEF Counts
  <2>2. IsFiniteSet(1 .. w[f])
    BY <2>1, FS_Interval
  <2>3. IsFiniteSet({f})
    BY FS_Singleton
  <2>4. QED
    BY <2>2, <2>3, FS_Product
<1>5. \A S \in T : IsFiniteSet(S)
  BY <1>4
<1>6. IsFiniteSet(UNION T)
  <2> HIDE DEF T
  <2>1. QED
    BY <1>3, <1>5, FS_UNION
<1>7. Blocks(w) = UNION T
  BY DEF Blocks
<1>8. QED
  BY <1>6, <1>7, FS_CardinalityType

(* One more block of a file is one more block of all.                      *)
LEMMA BlocksGrow ==
    ASSUME NEW w \in Counts, NEW f \in FileIds
    PROVE  Cardinality(Blocks([w EXCEPT ![f] = @ + 1]))
             = Cardinality(Blocks(w)) + 1
<1> DEFINE v == [w EXCEPT ![f] = @ + 1]
           new == <<f, w[f] + 1>>
<1>1. v \in Counts /\ v[f] = w[f] + 1 /\ w[f] \in Nat /\ \A g \in FileIds \ {f} : v[g] = w[g]
  BY DEF Counts
<1> HIDE DEF v
<1>2. new \notin Blocks(w)
  <2>1. w[f] + 1 \in Nat /\ w[f] + 1 \notin 1 .. w[f]
    BY <1>1
  <2>2. QED
    BY <2>1, BlockIn
<1>3. ASSUME NEW x \in Blocks(v)
      PROVE  x \in Blocks(w) \cup {new}
  <2>1. PICK g \in FileIds : \E b \in 1 .. v[g] : x = <<g, b>>
    BY <1>1, BlockIn
  <2>2. PICK b \in 1 .. v[g] : x = <<g, b>>
    BY <2>1
  <2>3. b \in Nat /\ v[g] \in Nat /\ w[g] \in Nat
    BY <1>1 DEF Counts
  <2>4. b \in 1 .. w[g] \/ (g = f /\ b = w[f] + 1)
    BY <1>1, <2>3
  <2>5. QED
    BY <2>2, <2>3, <2>4, BlockIn
<1>4. ASSUME NEW x \in Blocks(w)
      PROVE  x \in Blocks(v)
  <2>1. PICK g \in FileIds : \E b \in 1 .. w[g] : x = <<g, b>>
    BY BlockIn
  <2>2. PICK b \in 1 .. w[g] : x = <<g, b>>
    BY <2>1
  <2>3. b \in Nat /\ v[g] \in Nat /\ w[g] \in Nat
    BY <1>1 DEF Counts
  <2>4. b \in 1 .. v[g]
    BY <1>1, <2>3
  <2>5. QED
    BY <1>1, <2>2, <2>3, <2>4, BlockIn
<1>5. new \in Blocks(v)
  <2>1. w[f] + 1 \in Nat /\ w[f] + 1 \in 1 .. v[f]
    BY <1>1
  <2>2. QED
    BY <1>1, <2>1, BlockIn
<1>6. Blocks(v) = Blocks(w) \cup {new}
  BY <1>3, <1>4, <1>5
<1>7. Cardinality(Blocks(w) \cup {new}) = Cardinality(Blocks(w)) + 1
  <2> HIDE DEF new
  <2>1. QED
    BY <1>2, BlocksFinite, FS_AddElement
<1>8. QED
  BY <1>6, <1>7 DEF v

(* As many blocks as the files have are all the blocks they have.          *)
LEMMA BlocksAll ==
    ASSUME NEW w \in Counts, \A f \in FileIds : w[f] <= Files[f],
           Cardinality(Blocks(w)) = Cardinality(Blocks(Files))
    PROVE  w = Files
<1>1. Files \in Counts
  BY FileTypes DEF Counts
<1>2. Blocks(w) \in SUBSET Blocks(Files)
  <2>1. SUFFICES ASSUME NEW x \in Blocks(w)
                 PROVE  x \in Blocks(Files)
    OBVIOUS
  <2>2. PICK g \in FileIds : \E b \in 1 .. w[g] : x = <<g, b>>
    BY BlockIn
  <2>3. PICK b \in 1 .. w[g] : x = <<g, b>>
    BY <2>2
  <2>4. b \in Nat /\ w[g] \in Nat /\ Files[g] \in Nat /\ w[g] <= Files[g]
    BY <1>1 DEF Counts
  <2>5. b \in 1 .. Files[g]
    BY <2>4
  <2>6. QED
    BY <1>1, <2>3, <2>4, <2>5, BlockIn
<1>3. Blocks(w) = Blocks(Files)
  BY <1>1, <1>2, BlocksFinite, FS_Subset
<1>4. ASSUME NEW f \in FileIds
      PROVE  w[f] = Files[f]
  <2>1. Files[f] \in Nat /\ Files[f] >= 1 /\ w[f] \in Nat /\ w[f] <= Files[f]
    BY FileTypes DEF Counts
  <2>2. Files[f] \in 1 .. Files[f]
    BY <2>1
  <2>3. <<f, Files[f]>> \in Blocks(w)
    BY <1>1, <1>3, <2>1, <2>2, BlockIn
  <2>4. Files[f] \in 1 .. w[f]
    BY <2>1, <2>3, BlockIn
  <2>5. QED
    BY <2>1, <2>4
<1>5. QED
  BY <1>1, <1>4 DEF Counts

-----------------------------------------------------------------------------
(* The last values in the queue.                                           *)

Queued == {Show, Hidden} \cup {Value(v) : v \in Ends \cup {PARTIAL}}

IsEnd(e) == e.signal = "value" /\ e.value \in Ends
EndSpots(q) == {k \in DOMAIN q : IsEnd(q[k])}

LEMMA QueuedEnds ==
    /\ ~IsEnd(Show) /\ ~IsEnd(Hidden)
    /\ \A v : IsEnd(Value(v)) <=> v \in Ends
    /\ \A e \in Queued : e \in {Show, Hidden} <=> e.signal # "value"
    /\ 0 \notin Ends /\ PARTIAL \notin Ends
  BY DEF Queued, IsEnd, Show, Hidden, Value, Ends, PARTIAL, FAILED

LEMMA EndsFinite ==
    ASSUME NEW q \in Seq(Queued)
    PROVE  IsFiniteSet(EndSpots(q)) /\ Cardinality(EndSpots(q)) \in Nat
<1>1. DOMAIN q = 1 .. Len(q) /\ Len(q) \in Int
  OBVIOUS
<1>2. EndSpots(q) \in SUBSET (1 .. Len(q))
  BY <1>1 DEF EndSpots
<1>3. IsFiniteSet(1 .. Len(q))
  BY <1>1, FS_Interval
<1>4. IsFiniteSet(EndSpots(q))
  BY <1>2, <1>3, FS_Subset
<1>5. QED
  BY <1>4, FS_CardinalityType

(* A thread's report adds a last value or none.                            *)
LEMMA EndReported ==
    ASSUME NEW q \in Seq(Queued), NEW v \in Ends \cup {PARTIAL}
    PROVE  LET p == q \o <<Show, Value(v)>> IN
           /\ p \in Seq(Queued)
           /\ Cardinality(EndSpots(p))
                = IF v \in Ends THEN Cardinality(EndSpots(q)) + 1 ELSE Cardinality(EndSpots(q))
<1> DEFINE p == q \o <<Show, Value(v)>>
           last == Len(q) + 2
<1>1. Show \in Queued /\ Value(v) \in Queued
  BY DEF Queued
<1>2. <<Show, Value(v)>> \in Seq(Queued) /\ p \in Seq(Queued)
  BY <1>1
<1>3. /\ Len(q) \in Nat /\ Len(p) = Len(q) + 2
      /\ DOMAIN q = 1 .. Len(q) /\ DOMAIN p = 1 .. Len(q) + 2
  BY <1>2
<1>4. /\ \A k \in 1 .. Len(q) : p[k] = q[k]
      /\ p[Len(q) + 1] = Show /\ p[last] = Value(v)
  BY <1>2, <1>3
<1> HIDE DEF p
<1>5. \A k \in 1 .. Len(q) + 2 : k \in 1 .. Len(q) \/ k = Len(q) + 1 \/ k = last
  BY <1>3
<1>6. last \in DOMAIN p /\ last \notin DOMAIN q /\ DOMAIN q \subseteq DOMAIN p
  BY <1>3
<1> HIDE DEF last
<1>7. EndSpots(p) = EndSpots(q) \cup (IF v \in Ends THEN {last} ELSE {})
  BY <1>3, <1>4, <1>5, <1>6, QueuedEnds DEF EndSpots
<1>8. last \notin EndSpots(q)
  BY <1>6 DEF EndSpots
<1>9. Cardinality(EndSpots(q) \cup {last}) = Cardinality(EndSpots(q)) + 1
  BY <1>8, EndsFinite, FS_AddElement
<1>10. Cardinality(EndSpots(p))
         = IF v \in Ends THEN Cardinality(EndSpots(q)) + 1 ELSE Cardinality(EndSpots(q))
  BY <1>7, <1>9
<1>11. QED
  BY <1>2, <1>10 DEF p

LEMMA EndNotHidden ==
    ASSUME NEW q \in Seq(Queued)
    PROVE  Append(q, Hidden) \in Seq(Queued) /\ EndSpots(Append(q, Hidden)) = EndSpots(q)
<1> DEFINE p == Append(q, Hidden)
<1>1. Hidden \in Queued
  BY DEF Queued
<1>2. /\ p \in Seq(Queued) /\ Len(q) \in Nat /\ Len(p) = Len(q) + 1
      /\ DOMAIN q = 1 .. Len(q) /\ DOMAIN p = 1 .. Len(q) + 1
  BY <1>1, AppendProperties
<1>3. (\A k \in 1 .. Len(q) : p[k] = q[k]) /\ p[Len(q) + 1] = Hidden
  BY <1>1, AppendProperties
<1> HIDE DEF p
<1>4. \A k \in 1 .. Len(q) + 1 : k \in 1 .. Len(q) \/ k = Len(q) + 1
  BY <1>2
<1>5. DOMAIN q \subseteq DOMAIN p
  BY <1>2
<1>6. EndSpots(p) = EndSpots(q)
  BY <1>2, <1>3, <1>4, <1>5, QueuedEnds DEF EndSpots
<1>7. QED
  BY <1>2, <1>6 DEF p

(* A slot takes one signal off the queue.                                  *)
LEMMA EndTaken ==
    ASSUME NEW q \in Seq(Queued), q # <<>>
    PROVE  /\ Tail(q) \in Seq(Queued) /\ Head(q) \in Queued
           /\ Cardinality(EndSpots(Tail(q)))
                = IF IsEnd(Head(q)) THEN Cardinality(EndSpots(q)) - 1
                                    ELSE Cardinality(EndSpots(q))
<1> DEFINE t == Tail(q)
           S == EndSpots(t)
           T == EndSpots(q) \ {1}
           f == [k \in S |-> k + 1]
<1>1. /\ t \in Seq(Queued) /\ Head(q) \in Queued /\ Head(q) = q[1]
      /\ Len(q) \in Nat /\ Len(q) >= 1 /\ Len(t) = Len(q) - 1
      /\ DOMAIN q = 1 .. Len(q) /\ DOMAIN t = 1 .. Len(q) - 1
  BY HeadTailProperties, EmptySeq
<1>2. \A k \in 1 .. Len(q) - 1 : t[k] = q[k + 1]
  BY <1>1, HeadTailProperties
<1> HIDE DEF t
<1>3. \A k \in S : k \in Nat /\ k + 1 \in T
  <2>1. SUFFICES ASSUME NEW k \in S PROVE k \in Nat /\ k + 1 \in T
    OBVIOUS
  <2>2. k \in 1 .. Len(q) - 1 /\ IsEnd(t[k])
    BY <1>1 DEF EndSpots
  <2>3. k \in Nat /\ k + 1 \in 1 .. Len(q) /\ k + 1 # 1
    BY <1>1, <2>2
  <2>4. QED
    BY <1>1, <1>2, <2>2, <2>3 DEF EndSpots
<1>4. \A j \in T : \E k \in S : j = k + 1
  <2>1. SUFFICES ASSUME NEW j \in T PROVE \E k \in S : j = k + 1
    OBVIOUS
  <2>2. j \in 1 .. Len(q) /\ j # 1 /\ IsEnd(q[j])
    BY <1>1 DEF EndSpots
  <2>3. j - 1 \in 1 .. Len(q) - 1 /\ (j - 1) + 1 = j
    BY <1>1, <2>2
  <2>4. j - 1 \in S
    BY <1>1, <1>2, <2>2, <2>3 DEF EndSpots
  <2>5. QED
    BY <2>3, <2>4
<1>5. IsFiniteSet(S) /\ IsFiniteSet(EndSpots(q)) /\ Cardinality(EndSpots(q)) \in Nat
  BY <1>1, EndsFinite
<1> HIDE DEF S, T
<1>6. f \in Bijection(S, T)
  <2>1. f \in Injection(S, T)
    BY <1>3 DEF Injection, IsInjective
  <2>2. f \in Surjection(S, T)
    BY <1>3, <1>4 DEF Surjection
  <2>3. QED
    BY <2>1, <2>2 DEF Bijection
<1>7. Cardinality(S) = Cardinality(T)
  BY <1>5, <1>6, FS_Bijection DEF ExistsBijection
<1>8. Cardinality(T) = IF 1 \in EndSpots(q) THEN Cardinality(EndSpots(q)) - 1
                                            ELSE Cardinality(EndSpots(q))
  BY <1>5, FS_RemoveElement DEF T
<1>9. 1 \in EndSpots(q) <=> IsEnd(Head(q))
  BY <1>1 DEF EndSpots
<1>10. QED
  BY <1>1, <1>7, <1>8, <1>9 DEF S, t
-----------------------------------------------------------------------------
(* What is known of a thread.                                              *)

(* The file at the head of the queue is open.                              *)
Receiving(n) ==
    th[n] \in {"recv", "data", "flush"} \/ (th[n] \in {"check", "emit"} /\ pos[n] \notin Ends)

ThreadOK(n) ==
    \* a recorder without a connection has no thread and no counts
    /\ ~handle[n] => /\ th[n] = "off" /\ pos[n] = 0 /\ got[n] = 0 /\ kept[n]
                     /\ written[n] = Nothing /\ stick[n] = Nothing
    /\ Receiving(n) => file[n] <= Last
    \* a running thread has reported no last value, a reporting one has a value
    /\ th[n] \in {"top", "recv", "data"} => pos[n] \notin Ends
    /\ th[n] \in {"check", "emit", "hide"} => pos[n] # 0
    \* the counts are those of the blocks, and 100 is reported for all that was told
    /\ got[n] = Cardinality(Blocks(written[n]))
    /\ \A f \in FileIds : written[n][f] <= Files[f]
    /\ pos[n] = 100 => got[n] = total[n]
    \* what was written and closed is on the stick unless a loss went unnoticed
    /\ kept[n] => \A f \in FileIds :
                     stick[n][f] = written[n][f] \/ (f = file[n] /\ Receiving(n))

ThreadsOK == \A n \in Nvrs : ThreadOK(n)

ThreadFrame(n) ==
    UNCHANGED <<handle[n], th[n], file[n], total[n], got[n], written[n], stick[n], pos[n],
                kept[n]>>

LEMMA FrameKeeps ==
    ASSUME NEW n \in Nvrs, ThreadOK(n), ThreadFrame(n)
    PROVE  ThreadOK(n)'
<1>1. /\ handle'[n] = handle[n] /\ th'[n] = th[n] /\ file'[n] = file[n]
      /\ total'[n] = total[n] /\ got'[n] = got[n] /\ written'[n] = written[n]
      /\ pos'[n] = pos[n] /\ stick'[n] = stick[n] /\ kept'[n] = kept[n]
  BY DEF ThreadFrame
<1>2. QED
  BY <1>1 DEF ThreadOK, Receiving

LEMMA NothingCounted ==
    /\ Nothing \in Counts /\ Cardinality(Blocks(Nothing)) = 0
    /\ \A f \in FileIds : Nothing[f] <= Files[f]
<1>1. Nothing \in Counts /\ \A f \in FileIds : Nothing[f] = 0
  BY DEF Nothing, Counts
<1>2. \A f \in FileIds : Nothing[f] <= Files[f]
  BY <1>1, FileTypes
<1>3. Blocks(Nothing) = {}
  <2>1. \A f \in FileIds : \A b \in 1 .. Nothing[f] : FALSE
    BY <1>1
  <2>2. QED
    BY <1>1, <2>1, BlockIn
<1>4. QED
  BY <1>1, <1>2, <1>3, FS_EmptySet

LEMMA QueueType == TypeOK => events \in Seq(Queued)
  BY DEF TypeOK, Queued

LEMMA ThreadStart == Init => TypeOK /\ ThreadsOK
<1> SUFFICES ASSUME Init PROVE TypeOK /\ ThreadsOK
  OBVIOUS
<1>1. TypeOK
  <2>1. 0 \in 0 .. MaxClicks /\ EmptyQueue \in 1 .. Last + 1
    BY ClicksAssumption, FileTypes DEF EmptyQueue
  <2>2. events \in Seq({Show, Hidden} \cup {Value(v) : v \in Ends \cup {PARTIAL}})
    BY DEF Init
  <2>3. QED
    BY <2>1, <2>2 DEF Init, TypeOK, Nothing, Places
<1>2. ThreadsOK
  BY NothingCounted, QueuedEnds DEF Init, ThreadsOK, ThreadOK, Receiving, EmptyQueue, Ends
<1>3. QED
  BY <1>1, <1>2

(* Where a thread may go next with its file and its position.              *)
LEMMA OthersStay ==
    ASSUME TypeOK, NEW n \in Nvrs, Thread(n), NEW m \in Nvrs \ {n}
    PROVE  ThreadFrame(m)
<1> USE DEF TypeOK, ThreadFrame, threadVars, guiVars, counts, flushed, Goto, Fail, Break,
            NextFile
<1>1. CASE Downloads(n)
  <2> USE DEF Downloads
  <2>1. UNCHANGED handle
    BY <1>1
  <2>2. CASE Stopped(n) \/ NoStick(n) \/ OpenFails(n) \/ RequestFails(n) \/ Request(n)
    BY <2>1, <2>2 DEF Stopped, NoStick, OpenFails, RequestFails, Request
  <2>3. CASE Block(n)
    BY <2>1, <2>3 DEF Block
  <2>4. CASE WriteFails(n) \/ EndOfFile(n) \/ RecvFails(n) \/ LookForStick(n) \/ WaitAgain(n)
    BY <2>1, <2>4 DEF WriteFails, EndOfFile, RecvFails, LookForStick, WaitAgain
  <2>5. CASE Flush(n)
    BY <2>1, <2>5 DEF Flush
  <2>6. QED
    BY <1>1, <2>2, <2>3, <2>4, <2>5
<1>2. CASE Check(n)
  BY <1>2 DEF Check
<1>3. CASE Emit(n)
  BY <1>3 DEF Emit
<1>4. CASE Hide(n)
  BY <1>4 DEF Hide
<1>5. QED
  BY <1>1, <1>2, <1>3, <1>4 DEF Thread

LEMMA DownloadsKeep ==
    ASSUME TypeOK, NEW n \in Nvrs, ThreadOK(n), Downloads(n)
    PROVE  TypeOK' /\ ThreadOK(n)'
<1>1. UNCHANGED <<usb, handle, guiVars, events, alone>>
  BY DEF Downloads
<1>2. /\ n \in DOMAIN th /\ n \in DOMAIN file /\ n \in DOMAIN got /\ n \in DOMAIN pos
      /\ n \in DOMAIN kept /\ n \in DOMAIN written /\ written[n] \in Counts
      /\ n \in DOMAIN stick /\ stick[n] \in Counts
      /\ file[n] \in 1 .. Last + 1 /\ pos[n] \in Ends \cup {0, PARTIAL}
      /\ got[n] \in Nat /\ total[n] \in Nat /\ got[n] <= total[n]
  BY DEF TypeOK, Counts
<1>3. CASE Stopped(n)
  <2>1. TypeOK'
    BY <1>1, <1>3 DEF Stopped, Fail, Break, Goto, TypeOK, guiVars, counts, flushed, Places, Ends
  <2>2. QED
    BY <1>1, <1>2, <1>3, <2>1 DEF Stopped, Fail, Break, Goto, counts, flushed, ThreadOK, Receiving, Ends, FAILED
<1>4. CASE NoStick(n)
  <2>1. TypeOK'
    BY <1>1, <1>4 DEF NoStick, Fail, Break, Goto, TypeOK, guiVars, counts, flushed, Places, Ends
  <2>2. QED
    BY <1>1, <1>2, <1>4, <2>1 DEF NoStick, Fail, Break, Goto, counts, flushed, ThreadOK, Receiving, Ends, FAILED
<1>5. CASE RequestFails(n)
  <2>1. TypeOK'
    BY <1>1, <1>5 DEF RequestFails, Fail, Break, Goto, TypeOK, guiVars, counts, flushed, Places, Ends
  <2>2. QED
    BY <1>1, <1>2, <1>5, <2>1 DEF RequestFails, Fail, Break, Goto, counts, flushed, ThreadOK, Receiving, Ends, FAILED
<1>6. CASE Request(n)
  <2>1. TypeOK'
    BY <1>1, <1>6 DEF Request, Fail, Break, Goto, TypeOK, guiVars, counts, flushed, Places, Ends
  <2>2. QED
    BY <1>1, <1>2, <1>6, <2>1 DEF Request, Fail, Break, Goto, counts, flushed, ThreadOK, Receiving, Ends, FAILED
<1>7. CASE LookForStick(n)
  <2>1. TypeOK'
    BY <1>1, <1>7 DEF LookForStick, Fail, Break, Goto, TypeOK, guiVars, counts, flushed, Places, Ends
  <2>2. QED
    BY <1>1, <1>2, <1>7, <2>1 DEF LookForStick, Fail, Break, Goto, counts, flushed, ThreadOK, Receiving, Ends, FAILED
<1>8. CASE WaitAgain(n)
  <2>1. TypeOK'
    BY <1>1, <1>8 DEF WaitAgain, Fail, Break, Goto, TypeOK, guiVars, counts, flushed, Places, Ends
  <2>2. QED
    BY <1>1, <1>2, <1>8, <2>1 DEF WaitAgain, Fail, Break, Goto, counts, flushed, ThreadOK, Receiving, Ends, FAILED
<1>9. CASE WriteFails(n)
  <2>1. TypeOK'
    BY <1>1, <1>9 DEF WriteFails, Fail, Break, Goto, TypeOK, guiVars, counts, flushed, Places, Ends
  <2>2. QED
    BY <1>1, <1>2, <1>9, <2>1 DEF WriteFails, Fail, Break, Goto, counts, flushed, ThreadOK, Receiving, Ends, FAILED
<1>10. CASE EndOfFile(n)
  <2>1. TypeOK'
    BY <1>1, <1>10 DEF EndOfFile, Fail, Break, Goto, TypeOK, guiVars, counts, flushed, Places, Ends
  <2>2. QED
    BY <1>1, <1>2, <1>10, <2>1 DEF EndOfFile, Fail, Break, Goto, counts, flushed, ThreadOK, Receiving, Ends, FAILED
<1>11. CASE RecvFails(n)
  <2>1. TypeOK'
    BY <1>1, <1>11 DEF RecvFails, Fail, Break, Goto, TypeOK, guiVars, counts, flushed, Places, Ends
  <2>2. QED
    BY <1>1, <1>2, <1>11, <2>1 DEF RecvFails, Fail, Break, Goto, counts, flushed, ThreadOK, Receiving, Ends, FAILED
<1>12. CASE OpenFails(n)
  <2>1. file[n] <= Last /\ file[n] + 1 \in 1 .. Last + 1
    BY <1>2, <1>12, FileTypes DEF OpenFails
  <2>2. TypeOK'
    BY <1>1, <1>12, <2>1 DEF OpenFails, NextFile, TypeOK, guiVars, counts, flushed
  <2>3. QED
    BY <1>1, <1>2, <1>12, <2>2 DEF OpenFails, NextFile, counts, flushed, ThreadOK, Receiving
<1>13. CASE Block(n)
  <2> DEFINE f == file[n]
  <2>1. f \in FileIds /\ f <= Last /\ th[n] = "data" /\ handle[n]
    BY <1>2, <1>13, FileTypes DEF Block, ThreadOK, Receiving
  <2>2. /\ written' = [written EXCEPT ![n] = [written[n] EXCEPT ![f] = @ + 1]]
        /\ got' = [got EXCEPT ![n] = got[n] + 1]
    BY <1>13 DEF Block
  <2>3. /\ written'[n] = [written[n] EXCEPT ![f] = @ + 1]
        /\ got'[n] = got[n] + 1
    BY <1>2, <2>2
  <2>4. /\ UNCHANGED <<run, file, total, stick, kept>>
        /\ \/ Percent(n) /\ Break(n, 100)
           \/ Fail(n, PARTIAL)
           \/ pos[n] = 0 /\ Goto(n, "recv") /\ UNCHANGED pos
        /\ got[n] < total[n] /\ written[n][f] < Files[f]
    BY <1>13 DEF Block, flushed
  <2>5. written'[n] \in Counts /\ \A g \in FileIds : written'[n][g] <= Files[g]
    <3>1. written'[n] \in Counts
      BY <1>2, <2>1, <2>3 DEF Counts
    <3>2. ASSUME NEW g \in FileIds
          PROVE  written'[n][g] <= Files[g]
      <4>1. CASE g = f
        <5>1. written'[n][g] = written[n][f] + 1 /\ written[n][f] \in Nat /\ Files[f] \in Nat
          BY <1>2, <2>1, <2>3, <4>1, FileTypes DEF Counts
        <5>2. QED
          BY <2>4, <4>1, <5>1
      <4>2. CASE g # f
        BY <1>2, <2>3, <4>2 DEF Counts, ThreadOK
      <4>3. QED
        BY <4>1, <4>2
    <3>3. QED
      BY <3>1, <3>2
  <2>6. got'[n] = Cardinality(Blocks(written'[n]))
    BY <1>2, <2>1, <2>3, BlocksGrow DEF ThreadOK
  <2>7. got'[n] \in Nat /\ got'[n] <= total[n]
    BY <1>2, <2>3, <2>4
  <2>8. /\ \/ th'[n] = "flush" /\ pos'[n] = 100 /\ got'[n] = total'[n]
           \/ th'[n] = "check" /\ pos'[n] = PARTIAL
           \/ th'[n] = "recv" /\ pos'[n] = 0
        /\ th' \in [Nvrs -> Places] /\ pos' \in [Nvrs -> Ends \cup {0, PARTIAL}]
    <3>1. CASE Percent(n) /\ Break(n, 100)
      BY <1>2, <2>4, <3>1 DEF Percent, Break, Goto, TypeOK, Places, Ends
    <3>2. CASE Fail(n, PARTIAL)
      BY <1>2, <3>2 DEF Fail, Goto, TypeOK, Places
    <3>3. CASE pos[n] = 0 /\ Goto(n, "recv") /\ UNCHANGED pos
      BY <1>2, <3>3 DEF Goto, TypeOK, Places
    <3>4. QED
      BY <2>4, <3>1, <3>2, <3>3
  <2>9. TypeOK'
    <3>1. got' \in [Nvrs -> Nat] /\ written' \in [Nvrs -> [FileIds -> Nat]]
      BY <2>2, <2>3, <2>5, <2>7 DEF TypeOK, Counts
    <3>2. \A m \in Nvrs : got'[m] <= total'[m]
      BY <2>2, <2>3, <2>4, <2>7 DEF TypeOK
    <3>3. QED
      BY <1>1, <2>4, <2>8, <3>1, <3>2 DEF TypeOK, guiVars
  <2>10. PARTIAL # 100 /\ PARTIAL # 0 /\ 100 # 0 /\ PARTIAL \notin Ends /\ 0 \notin Ends
    BY QueuedEnds DEF PARTIAL
  <2>11. handle'[n] /\ file'[n] = f /\ f <= Last
    BY <1>1, <2>1, <2>4
  <2>12. pos'[n] = 100 => got'[n] = total'[n]
    BY <2>8, <2>10
  <2>13. /\ th'[n] \in {"top", "recv", "data"} => pos'[n] \notin Ends
         /\ th'[n] \in {"check", "emit", "hide"} => pos'[n] # 0
         /\ Receiving(n)'
    BY <2>8, <2>10 DEF Receiving
  <2>14. kept'[n] => \A g \in FileIds : stick'[n][g] = written'[n][g] \/ g = file'[n]
    <3>1. SUFFICES ASSUME kept[n], NEW g \in FileIds, g # f
                   PROVE  stick[n][g] = written'[n][g]
      BY <2>4, <2>11
    <3>2. stick[n][g] = written[n][g]
      BY <3>1 DEF ThreadOK, f
    <3>3. QED
      BY <1>2, <2>3, <3>1, <3>2 DEF Counts
  <2>15. ThreadOK(n)'
    <3> HIDE DEF f
    <3>1. QED
      BY <2>5, <2>6, <2>11, <2>12, <2>13, <2>14 DEF ThreadOK
  <2>16. QED
    BY <2>9, <2>15
<1>14. CASE Flush(n)
  <2> DEFINE f == file[n]
  <2>1. f \in FileIds /\ f <= Last /\ handle[n] /\ th[n] = "flush"
    BY <1>2, <1>14, FileTypes DEF Flush, ThreadOK, Receiving
  <2>2. UNCHANGED <<run, total, got, written, pos>>
    BY <1>14 DEF Flush, counts
  <2>3. /\ \/ stick' = [stick EXCEPT ![n][f] = written[n][f]] /\ kept' = kept
           \/ kept' = [kept EXCEPT ![n] = FALSE] /\ stick' = stick
        /\ \/ pos[n] \in Ends /\ th' = [th EXCEPT ![n] = "check"] /\ file' = file
           \/ pos[n] \notin Ends /\ th' = [th EXCEPT ![n] = "top"]
                /\ file' = [file EXCEPT ![n] = f + 1]
    BY <1>14 DEF Flush, Goto, NextFile
  <2>4. f + 1 \in 1 .. Last + 1 /\ written[n][f] \in Nat
    BY <1>2, <2>1, FileTypes DEF Counts
  <2> HIDE DEF f
  <2>5. stick' \in [Nvrs -> [FileIds -> Nat]] /\ kept' \in [Nvrs -> BOOLEAN]
    <3>1. stick \in [Nvrs -> [FileIds -> Nat]] /\ kept \in [Nvrs -> BOOLEAN]
      BY DEF TypeOK
    <3>2. CASE stick' = [stick EXCEPT ![n][f] = written[n][f]] /\ kept' = kept
      BY <2>1, <2>4, <3>1, <3>2
    <3>3. CASE kept' = [kept EXCEPT ![n] = FALSE] /\ stick' = stick
      BY <3>1, <3>3
    <3>4. QED
      BY <2>3, <3>2, <3>3
  <2>6. th' \in [Nvrs -> Places] /\ file' \in [Nvrs -> 1 .. Last + 1]
    <3>1. th \in [Nvrs -> Places] /\ file \in [Nvrs -> 1 .. Last + 1]
      BY DEF TypeOK
    <3>2. "check" \in Places /\ "top" \in Places
      BY DEF Places
    <3>3. th' \in [Nvrs -> Places]
      BY <2>3, <3>1, <3>2
    <3>4. file' \in [Nvrs -> 1 .. Last + 1]
      BY <2>3, <2>4, <3>1
    <3>5. QED
      BY <3>3, <3>4
  <2>7. TypeOK'
    BY <1>1, <2>2, <2>5, <2>6 DEF TypeOK, guiVars
  <2>8. th'[n] \in {"check", "top"} /\ (th'[n] = "check" <=> pos'[n] \in Ends)
    BY <1>2, <2>2, <2>3 DEF TypeOK
  <2>9. kept'[n] => \A g \in FileIds : stick'[n][g] = written'[n][g]
    <3>1. SUFFICES ASSUME kept'[n], NEW g \in FileIds
                   PROVE  stick'[n][g] = written'[n][g]
      OBVIOUS
    <3>2. stick' = [stick EXCEPT ![n][f] = written[n][f]] /\ kept[n]
      BY <2>3, <3>1 DEF TypeOK
    <3>3. CASE g = f
      BY <1>2, <2>1, <2>2, <3>2, <3>3 DEF Counts
    <3>4. CASE g # f
      <4>1. stick[n][g] = written[n][g]
        BY <3>2, <3>4 DEF ThreadOK, f
      <4>2. QED
        BY <1>2, <2>1, <2>2, <3>2, <3>4, <4>1 DEF Counts
    <3>5. QED
      BY <3>3, <3>4
  <2>10. handle'[n] /\ (th'[n] = "check" => pos'[n] # 0) /\ ~Receiving(n)'
    <3>1. handle'[n]
      BY <1>1, <2>1
    <3>2. QED
      BY <2>8, <3>1, QueuedEnds DEF Receiving
  <2>11. ThreadOK(n)'
    BY <2>2, <2>8, <2>9, <2>10 DEF ThreadOK
  <2>12. QED
    BY <2>7, <2>11
<1>15. QED
  BY <1>3, <1>4, <1>5, <1>6, <1>7, <1>8, <1>9, <1>10, <1>11, <1>12, <1>13, <1>14 DEF Downloads

LEMMA ReportKeeps ==
    ASSUME TypeOK, NEW n \in Nvrs, ThreadOK(n), Check(n) \/ Emit(n) \/ Hide(n)
    PROVE  TypeOK' /\ ThreadOK(n)'
<1>1. n \in DOMAIN th /\ pos[n] \in Ends \cup {0, PARTIAL} /\ Continue(n) \in {"ended", "recv"}
  BY DEF TypeOK, Continue
<1>2. CASE Check(n)
  <2>1. TypeOK'
    BY <1>1, <1>2 DEF Check, Goto, TypeOK, guiVars, counts, flushed, Places
  <2>2. QED
    BY <1>1, <1>2, <2>1 DEF Check, Goto, ThreadOK, Receiving, counts, flushed, Continue
<1>3. CASE Emit(n)
  <2>1. pos[n] \in Ends \cup {PARTIAL}
    BY <1>1, <1>3 DEF Emit, ThreadOK
  <2>2. events' \in Seq(Queued)
    BY <1>3, <2>1, QueueType, EndReported DEF Emit
  <2>3. TypeOK'
    BY <1>1, <1>3, <2>2 DEF Emit, Goto, TypeOK, guiVars, counts, flushed, Places, Queued
  <2>4. QED
    BY <1>1, <1>3, <2>3 DEF Emit, Goto, ThreadOK, Receiving, counts, flushed, Continue
<1>4. CASE Hide(n)
  <2>1. events' \in Seq(Queued)
    BY <1>4, QueueType, EndNotHidden DEF Hide
  <2>2. TypeOK'
    BY <1>1, <1>4, <2>1 DEF Hide, Goto, TypeOK, guiVars, counts, flushed, Places, Queued
  <2>3. QED
    BY <1>1, <1>4, <2>2 DEF Hide, Goto, counts, flushed, ThreadOK, Receiving
<1>5. QED
  BY <1>2, <1>3, <1>4
(* The click that connects: the files are put into the queue and the       *)
(* thread starts with nothing written.                                     *)
LEMMA StartKeeps ==
    ASSUME TypeOK, ThreadsOK, ClickStarts
    PROVE  TypeOK' /\ ThreadsOK'
<1> DEFINE n == gui.nvr
<1>1. n \in Nvrs /\ gui \in [at : {"idle", "connect", "join"}, nvr : Nvrs]
  BY DEF TypeOK
<1>2. PICK size \in SizesTold : AddFiles(n, size)
  BY DEF ClickStarts
<1> HIDE DEF n
<1>3. /\ handle' = [handle EXCEPT ![n] = TRUE] /\ ~handle[n]
      /\ StartThread(n)
      /\ gui' = [gui EXCEPT !.at = "idle"]
      /\ UNCHANGED <<usb, sel, buttons, events, clicks, got, written, stick, kept, pos, alone>>
  BY DEF ClickStarts, flushed, n
<1>4. /\ th' = [th EXCEPT ![n] = "top"] /\ run' = [run EXCEPT ![n] = TRUE]
      /\ file' = [file EXCEPT ![n] = 1]
      /\ total' = [total EXCEPT ![n] = Cardinality(Blocks(size))]
  BY <1>2, <1>3 DEF StartThread, AddFiles, FTP_PutNodeToWorkQueue
<1>5. Cardinality(Blocks(size)) \in Nat
  <2>1. size \in Counts
    <3> DEFINE S == UNION {0 .. Files[f] : f \in FileIds}
    <3>1. \A k \in S : k \in Nat
      BY FileTypes
    <3> HIDE DEF S
    <3>2. size \in [FileIds -> S]
      BY <1>2 DEF SizesTold, S
    <3>3. QED
      BY <3>1, <3>2 DEF Counts
  <2>2. QED
    BY <2>1, BlocksFinite
<1>6. /\ got[n] = 0 /\ pos[n] = 0 /\ written[n] = Nothing /\ stick[n] = Nothing
      /\ got[n] = Cardinality(Blocks(written[n]))
      /\ \A f \in FileIds : written[n][f] <= Files[f]
  BY <1>1, <1>3 DEF ThreadsOK, ThreadOK
<1>7. TypeOK'
  <2>1. 1 \in 1 .. Last + 1
    BY FileTypes
  <2>2. gui' \in [at : {"idle", "connect", "join"}, nvr : Nvrs]
    BY <1>1, <1>3
  <2>3. total' \in [Nvrs -> Nat]
    BY <1>4, <1>5 DEF TypeOK
  <2>4. \A m \in Nvrs : got'[m] <= total'[m]
    BY <1>3, <1>4, <1>5, <1>6 DEF TypeOK
  <2>5. /\ handle' \in [Nvrs -> BOOLEAN] /\ alone' \in [Nvrs -> BOOLEAN]
        /\ run' \in [Nvrs -> BOOLEAN] /\ th' \in [Nvrs -> Places]
        /\ file' \in [Nvrs -> 1 .. Last + 1]
    BY <1>3, <1>4, <2>1 DEF TypeOK, Places
  <2>6. QED
    BY <1>3, <2>2, <2>3, <2>4, <2>5 DEF TypeOK
<1>8. ASSUME NEW m \in Nvrs, m # n
      PROVE  ThreadOK(m)'
  <2>1. ThreadFrame(m)
    BY <1>3, <1>4, <1>8 DEF ThreadFrame, TypeOK
  <2>2. QED
    BY <2>1, FrameKeeps DEF ThreadsOK
<1>9. ASSUME NEW m \in Nvrs, m = n
      PROVE  ThreadOK(m)'
  <2>1. /\ handle'[m] /\ th'[m] = "top" /\ pos'[m] = 0 /\ 0 \notin Ends /\ 0 # 100
        /\ got'[m] = got[m] /\ written'[m] = Nothing /\ stick'[m] = Nothing
    BY <1>3, <1>4, <1>6, <1>9, QueuedEnds DEF TypeOK
  <2>2. /\ got'[m] = Cardinality(Blocks(written'[m]))
        /\ \A f \in FileIds : written'[m][f] <= Files[f]
    BY <1>6, <1>9, <2>1
  <2>3. ~Receiving(m)'
    BY <2>1 DEF Receiving
  <2>4. QED
    BY <2>1, <2>2, <2>3 DEF ThreadOK
<1>10. QED
  BY <1>7, <1>8, <1>9 DEF ThreadsOK

(* The slot that destroys the connection frees the thread's counts.        *)
LEMMA DestroyKeeps ==
    ASSUME TypeOK, ThreadsOK, Destroy
    PROVE  TypeOK' /\ ThreadsOK'
<1> DEFINE n == gui.nvr
<1>1. n \in Nvrs /\ gui \in [at : {"idle", "connect", "join"}, nvr : Nvrs]
  BY DEF TypeOK
<1> HIDE DEF n
<1>2. /\ handle' = [handle EXCEPT ![n] = FALSE] /\ gui' = [gui EXCEPT !.at = "idle"]
      /\ th' = [th EXCEPT ![n] = "off"] /\ file' = [file EXCEPT ![n] = EmptyQueue]
      /\ total' = [total EXCEPT ![n] = 0] /\ got' = [got EXCEPT ![n] = 0]
      /\ written' = [written EXCEPT ![n] = Nothing] /\ pos' = [pos EXCEPT ![n] = 0]
      /\ stick' = [stick EXCEPT ![n] = Nothing] /\ kept' = [kept EXCEPT ![n] = TRUE]
      /\ alone' = [alone EXCEPT ![n] = TRUE]
      /\ UNCHANGED <<usb, sel, buttons, events, clicks, run>>
  BY DEF Destroy, Freed, FTP_DestroyWorkQueue, n
<1>3. TypeOK'
  <2>1. EmptyQueue \in 1 .. Last + 1 /\ Nothing \in [FileIds -> Nat]
    BY FileTypes DEF EmptyQueue, Nothing
  <2>2. gui' \in [at : {"idle", "connect", "join"}, nvr : Nvrs]
    BY <1>1, <1>2
  <2>3. written' \in [Nvrs -> [FileIds -> Nat]] /\ stick' \in [Nvrs -> [FileIds -> Nat]]
    BY <1>2, <2>1 DEF TypeOK
  <2>4. QED
    BY SMTT(30), <1>2, <2>1, <2>2, <2>3 DEF TypeOK, Places
<1>4. ASSUME NEW m \in Nvrs, m # n
      PROVE  ThreadOK(m)'
  <2>1. ThreadFrame(m)
    BY <1>2, <1>4 DEF ThreadFrame, TypeOK
  <2>2. QED
    BY <2>1, FrameKeeps DEF ThreadsOK
<1>5. ASSUME NEW m \in Nvrs, m = n
      PROVE  ThreadOK(m)'
  <2>1. /\ ~handle'[m] /\ th'[m] = "off" /\ pos'[m] = 0 /\ got'[m] = 0
        /\ written'[m] = Nothing /\ stick'[m] = Nothing /\ kept'[m] /\ 0 # 100
    BY <1>2, <1>5 DEF TypeOK
  <2>2. ~Receiving(m)'
    BY <2>1 DEF Receiving
  <2>3. QED
    BY <2>1, <2>2, NothingCounted DEF ThreadOK
<1>6. QED
  BY <1>3, <1>4, <1>5 DEF ThreadsOK

LEMMA GuiFrame ==
    ASSUME ThreadsOK,
           UNCHANGED <<handle, th, file, total, got, written, stick, pos, kept>>
    PROVE  ThreadsOK'
<1>1. ASSUME NEW n \in Nvrs
      PROVE  ThreadOK(n)'
  <2>1. ThreadFrame(n)
    BY DEF ThreadFrame
  <2>2. QED
    BY <2>1, FrameKeeps DEF ThreadsOK
<1>2. QED
  BY <1>1 DEF ThreadsOK

(* A signal taken off the queue.                                           *)
LEMMA QueueShrinks ==
    ASSUME TypeOK, events # <<>>, events' = Tail(events)
    PROVE  events' \in Seq({Show, Hidden} \cup {Value(v) : v \in Ends \cup {PARTIAL}})
  BY QueueType, EndTaken DEF Queued

LEMMA GuiKeeps ==
    ASSUME TypeOK, ThreadsOK,
           \/ \E n \in Nvrs : Click(n)
           \/ ShowSlot \/ ValueSlot \/ ClickIgnored \/ ConnectFails \/ Unplug
           \/ UNCHANGED vars
    PROVE  TypeOK' /\ ThreadsOK'
<1> USE DEF threadVars, guiVars, counts, flushed
<1>1. CASE \E n \in Nvrs : Click(n)
  <2>1. PICK n \in Nvrs : Click(n)
    BY <1>1
  <2>2. clicks + 1 \in 0 .. MaxClicks
    BY <2>1, ClicksAssumption DEF Click, TypeOK
  <2>3. alone' \in [Nvrs -> BOOLEAN]
    BY <2>1 DEF Click, TypeOK
  <2>4. TypeOK'
    BY <2>1, <2>2, <2>3 DEF Click, TypeOK
  <2>5. QED
    BY <2>1, <2>4, GuiFrame DEF Click
<1>2. CASE ShowSlot
  <2>1. TypeOK'
    BY <1>2, QueueShrinks DEF ShowSlot, TypeOK
  <2>2. QED
    BY <1>2, <2>1, GuiFrame DEF ShowSlot
<1>3. CASE ValueSlot
  <2>1. gui' \in [at : {"idle", "connect", "join"}, nvr : Nvrs] /\ run' \in [Nvrs -> BOOLEAN]
    <3>1. CASE gui' = [at |-> "join", nvr |-> sel] /\ run' = [run EXCEPT ![sel] = FALSE]
      BY <3>1 DEF TypeOK
    <3>2. CASE UNCHANGED <<gui, run>>
      BY <3>2 DEF TypeOK
    <3>3. QED
      BY <1>3, <3>1, <3>2 DEF ValueSlot
  <2>2. TypeOK'
    BY <1>3, <2>1, QueueShrinks DEF ValueSlot, TypeOK
  <2>3. QED
    BY <1>3, <2>2, GuiFrame DEF ValueSlot
<1>4. CASE ClickIgnored \/ ConnectFails
  <2>1. ClickReturns
    BY <1>4 DEF ClickIgnored, ConnectFails
  <2>2. TypeOK'
    BY <2>1 DEF ClickReturns, TypeOK
  <2>3. QED
    BY <2>1, <2>2, GuiFrame DEF ClickReturns
<1>5. CASE Unplug
  <2>1. TypeOK'
    BY <1>5 DEF Unplug, TypeOK
  <2>2. QED
    BY <1>5, <2>1, GuiFrame DEF Unplug
<1>6. CASE UNCHANGED vars
  <2>1. TypeOK'
    BY <1>6 DEF vars, TypeOK
  <2>2. QED
    BY <1>6, <2>1, GuiFrame DEF vars
<1>7. QED
  BY <1>1, <1>2, <1>3, <1>4, <1>5, <1>6

LEMMA ThreadKeeps ==
    ASSUME TypeOK, ThreadsOK, NEW n \in Nvrs, Thread(n)
    PROVE  TypeOK' /\ ThreadsOK'
<1>1. ThreadOK(n)
  BY DEF ThreadsOK
<1>2. TypeOK' /\ ThreadOK(n)'
  BY <1>1, DownloadsKeep, ReportKeeps DEF Thread
<1>3. ASSUME NEW m \in Nvrs \ {n}
      PROVE  ThreadOK(m)'
  BY OthersStay, FrameKeeps DEF ThreadsOK
<1>4. QED
  BY <1>2, <1>3 DEF ThreadsOK

LEMMA StepCases ==
    ASSUME [Next]_vars
    PROVE  \/ \E n \in Nvrs : Thread(n)
           \/ ClickStarts \/ Destroy
           \/ \/ \E n \in Nvrs : Click(n)
              \/ ShowSlot \/ ValueSlot \/ ClickIgnored \/ ConnectFails \/ Unplug
              \/ UNCHANGED vars
  BY DEF Next, Slots

LEMMA ThreadStep == TypeOK /\ ThreadsOK /\ [Next]_vars => TypeOK' /\ ThreadsOK'
<1> SUFFICES ASSUME TypeOK, ThreadsOK, [Next]_vars PROVE TypeOK' /\ ThreadsOK'
  OBVIOUS
<1>1. CASE \E n \in Nvrs : Thread(n)
  BY <1>1, ThreadKeeps
<1>2. CASE ClickStarts
  BY <1>2, StartKeeps
<1>3. CASE Destroy
  BY <1>3, DestroyKeeps
<1>4. CASE \/ \E n \in Nvrs : Click(n)
           \/ ShowSlot \/ ValueSlot \/ ClickIgnored \/ ConnectFails \/ Unplug
           \/ UNCHANGED vars
  BY <1>4, GuiKeeps
<1>5. QED
  BY <1>1, <1>2, <1>3, <1>4, StepCases

LEMMA ThreadsAlwaysOK == Spec => [](TypeOK /\ ThreadsOK)
  BY ThreadStart, ThreadStep, PTL DEF Spec

(* Every count, place and queued signal keeps its type: no thread reports  *)
(* 0 or takes a file past the last, and none writes more than it was told. *)
THEOREM TypeCorrect == Spec => []TypeOK
  BY ThreadsAlwaysOK, PTL

(* One percentage stands for all files, a file that failed is skipped, a   *)
(* file that ends early counts as done and what is written is in a buffer: *)
(* still, when the server told every size and no loss at a file's end went *)
(* unnoticed, 100 is reported only when every file is on the stick to its  *)
(* last block.                                                             *)
THEOREM HundredIsComplete == Spec => []DoneIsComplete
<1>1. TypeOK /\ ThreadsOK => DoneIsComplete
  <2>1. SUFFICES ASSUME TypeOK, ThreadsOK, NEW n \in Nvrs,
                        Reporting(n), pos[n] = 100, Sized(n), kept[n]
                 PROVE  stick[n] = Files
    BY DEF DoneIsComplete
  <2>2. ThreadOK(n) /\ written[n] \in Counts /\ stick[n] \in Counts
    <3>1. written[n] \in Counts /\ stick[n] \in Counts
      BY <2>1 DEF TypeOK, Counts
    <3>2. QED
      BY <2>1, <3>1 DEF ThreadsOK
  <2>3. Cardinality(Blocks(written[n])) = Cardinality(Blocks(Files))
    BY <2>1, <2>2 DEF ThreadOK, Sized
  <2>4. \A f \in FileIds : written[n][f] <= Files[f]
    BY <2>2 DEF ThreadOK
  <2>5. written[n] = Files
    BY <2>2, <2>3, <2>4, BlocksAll
  <2>6. ~Receiving(n)
    BY <2>1 DEF Receiving, Reporting, Ends
  <2>7. \A f \in FileIds : stick[n][f] = written[n][f]
    BY <2>1, <2>2, <2>6 DEF ThreadOK
  <2>8. QED
    BY <2>2, <2>5, <2>7 DEF Counts
<1>2. QED
  BY <1>1, ThreadsAlwaysOK, PTL
-----------------------------------------------------------------------------
(* Who is stopped and destroyed.                                           *)

(* A recorder nobody has turned away from is the one selected.             *)
Selected ==
    /\ gui.at # "idle" => sel = gui.nvr
    /\ \A n \in Nvrs : alone[n] /\ handle[n] => sel = n

(* Only the slot that waits for a thread has stopped it.                   *)
Joining(n) == gui = [at |-> "join", nvr |-> n]
StoppedByJoin == \A n \in Nvrs : handle[n] /\ ~run[n] => Joining(n)

(* The end of a download left alone is still to be handled.                *)
Heard ==
    \A n \in Nvrs :
        alone[n] /\ handle[n] /\ th[n] \in {"hide", "ended"} => Joining(n) \/ EndSpots(events) # {}

(* Each last value in the queue, and the one being handled, has come from  *)
(* a connection of its own that is still there.                            *)
Reported == {n \in Nvrs : handle[n] /\ th[n] \in {"hide", "ended"} /\ pos[n] \in Ends}
Handling == IF gui.at = "join" THEN 1 ELSE 0
Answered == Cardinality(EndSpots(events)) + Handling <= Cardinality(Reported)

EndsOK == Selected /\ StoppedByJoin /\ Heard /\ Answered

LEMMA CountTypes ==
    ASSUME TypeOK
    PROVE  /\ Cardinality(EndSpots(events)) \in Nat /\ IsFiniteSet(EndSpots(events))
           /\ (EndSpots(events) # {} <=> Cardinality(EndSpots(events)) # 0)
           /\ IsFiniteSet(Reported) /\ Cardinality(Reported) \in Nat
<1>1. IsFiniteSet(EndSpots(events)) /\ Cardinality(EndSpots(events)) \in Nat
  BY QueueType, EndsFinite
<1>2. Reported \in SUBSET Nvrs
  BY DEF Reported
<1>3. IsFiniteSet(Reported)
  BY <1>2, NvrsAssumption, FS_Subset
<1>4. QED
  BY <1>1, <1>3, FS_CardinalityType, FS_EmptySet

LEMMA EndsStart == Init => EndsOK
<1> SUFFICES ASSUME Init PROVE EndsOK
  OBVIOUS
<1>1. TypeOK
  BY ThreadStart
<1>2. Cardinality(EndSpots(events)) = 0 /\ Handling = 0
  <2>1. EndSpots(events) = {}
    BY DEF Init, EndSpots
  <2>2. QED
    BY <2>1, FS_EmptySet DEF Init, Handling
<1>3. Answered
  BY <1>1, <1>2, CountTypes DEF Answered
<1>4. QED
  BY <1>3 DEF Init, EndsOK, Selected, StoppedByJoin, Heard

(* A step of a thread: what it does to the page, and how it may end.       *)
LEMMA ThreadMoves ==
    ASSUME TypeOK, NEW n \in Nvrs, ThreadOK(n), Thread(n)
    PROVE  /\ UNCHANGED <<handle, sel, gui, run, alone>> /\ handle[n]
           /\ n \in Reported => pos'[n] = pos[n] /\ th'[n] \in {"hide", "ended"}
           /\ \/ UNCHANGED events
              \/ events' = Append(events, Hidden)
              \/ Emit(n)
           /\ (th'[n] \in {"hide", "ended"} /\ th[n] # "hide" /\ ~Emit(n))
                => ~run[n] \/ sel # n
<1> USE DEF threadVars, guiVars, counts, flushed
<1>1. n \in DOMAIN th /\ Continue(n) \in {"ended", "recv"}
  BY DEF TypeOK, Continue
<1>2. CASE Downloads(n)
  <2>1. UNCHANGED <<handle, sel, gui, run, alone, events>> 
        /\ th[n] \in {"top", "recv", "data", "flush"}
    BY <1>2 DEF Downloads, Stopped, NoStick, OpenFails, RequestFails, Request, LookForStick,
       WaitAgain, Block, WriteFails, EndOfFile, RecvFails, Flush
  <2>2. handle[n] /\ n \notin Reported
    BY <2>1 DEF ThreadOK, Reported
  <2>3. run[n] => th'[n] \notin {"hide", "ended"}
    BY <1>1, <1>2, <2>1 DEF Downloads, Stopped, NoStick, OpenFails, RequestFails, Request,
       LookForStick, WaitAgain, Block, WriteFails, EndOfFile, RecvFails, Flush, Fail, Break, Goto
  <2>4. QED
    BY <2>1, <2>2, <2>3
<1>3. CASE Check(n)
  <2>1. handle[n] /\ n \notin Reported
    BY <1>3 DEF Check, ThreadOK, Reported
  <2>2. th'[n] = "emit" \/ sel # n
    BY <1>1, <1>3, <2>1 DEF Check, Goto
  <2>3. QED
    BY <1>3, <2>1, <2>2 DEF Check
<1>4. CASE Emit(n)
  <2>1. handle[n] /\ n \notin Reported
    BY <1>4 DEF Emit, ThreadOK, Reported
  <2>2. QED
    BY <1>4, <2>1 DEF Emit
<1>5. CASE Hide(n)
  <2>1. handle[n]
    BY <1>5 DEF Hide, ThreadOK
  <2>2. th'[n] = "ended"
    BY <1>1, <1>5 DEF Hide, Goto
  <2>3. QED
    BY <1>5, <2>1, <2>2 DEF Hide
<1>6. QED
  BY <1>2, <1>3, <1>4, <1>5 DEF Thread

LEMMA ThreadEnds ==
    ASSUME TypeOK, ThreadsOK, EndsOK, NEW n \in Nvrs, Thread(n)
    PROVE  EndsOK'
<1>1. ThreadOK(n) /\ TypeOK'
  BY ThreadKeeps DEF ThreadsOK
<1>2. /\ UNCHANGED <<handle, sel, gui, run, alone>> /\ handle[n]
      /\ n \in Reported => pos'[n] = pos[n] /\ th'[n] \in {"hide", "ended"}
      /\ UNCHANGED events \/ events' = Append(events, Hidden) \/ Emit(n)
      /\ (th'[n] \in {"hide", "ended"} /\ th[n] # "hide" /\ ~Emit(n)) => ~run[n] \/ sel # n
  BY <1>1, ThreadMoves
<1>3. Selected' /\ StoppedByJoin'
  BY <1>2 DEF EndsOK, Selected, StoppedByJoin, Joining
<1>4. Reported \in SUBSET Reported'
  <2>1. SUFFICES ASSUME NEW m \in Reported PROVE m \in Reported'
    OBVIOUS
  <2>2. CASE m = n
    BY <1>2, <2>2 DEF Reported
  <2>3. CASE m # n
    <3>1. ThreadFrame(m)
      BY <2>3, OthersStay DEF Reported
    <3>2. QED
      BY <3>1 DEF Reported, ThreadFrame
  <2>4. QED
    BY <2>2, <2>3
<1>5. Handling' = Handling /\ Handling \in {0, 1}
  BY <1>2 DEF Handling
<1>6. Cardinality(Reported) <= Cardinality(Reported') /\ Cardinality(Reported') \in Nat
  <2>1. Reported' \in SUBSET Nvrs
    BY DEF Reported
  <2>2. IsFiniteSet(Reported')
    BY <2>1, NvrsAssumption, FS_Subset
  <2>3. QED
    BY <1>4, <2>2, FS_Subset, FS_CardinalityType
<1>7. CASE Emit(n)
  <2>1. pos[n] \in Ends \cup {PARTIAL}
    BY <1>1, <1>7 DEF Emit, ThreadOK, TypeOK
  <2>2. Cardinality(EndSpots(events'))
          = IF pos[n] \in Ends THEN Cardinality(EndSpots(events)) + 1
                               ELSE Cardinality(EndSpots(events))
    BY <1>7, <2>1, QueueType, EndReported DEF Emit
  <2>3. CASE pos[n] \in Ends
    <3>1. n \notin Reported /\ n \in Reported'
      BY <1>2, <1>7, <2>3 DEF Emit, Goto, Reported, TypeOK
    <3>2. Reported' \in SUBSET (Reported \cup {n})
      <4>1. SUFFICES ASSUME NEW m \in Reported', m # n PROVE m \in Reported
        OBVIOUS
      <4>2. ThreadFrame(m)
        BY <4>1, OthersStay DEF Reported
      <4>3. QED
        BY <4>1, <4>2 DEF Reported, ThreadFrame
    <3>3. Reported' = Reported \cup {n}
      BY <1>4, <3>1, <3>2
    <3>4. Cardinality(Reported') = Cardinality(Reported) + 1
      BY <3>1, <3>3, CountTypes, FS_AddElement
    <3>5. Answered'
      BY <1>5, <2>2, <2>3, <3>4, CountTypes DEF EndsOK, Answered
    <3>6. EndSpots(events') # {}
      <4>1. Cardinality(EndSpots(events')) # 0
        BY <2>2, <2>3, CountTypes
      <4>2. QED
        BY <4>1, FS_EmptySet
    <3>7. Heard'
      BY <3>6 DEF Heard
    <3>8. QED
      BY <1>3, <3>5, <3>7 DEF EndsOK
  <2>4. CASE pos[n] \notin Ends
    <3>1. Answered'
      BY <1>5, <1>6, <2>2, <2>4, CountTypes DEF EndsOK, Answered
    <3>2. EndSpots(events) # {} => EndSpots(events') # {}
      BY <2>2, <2>4, CountTypes, FS_EmptySet
    <3>3. th'[n] \notin {"hide", "ended"}
      BY <1>7, <2>4 DEF Emit, Goto, Continue, TypeOK
    <3>4. Heard'
      <4>1. SUFFICES ASSUME NEW m \in Nvrs, alone'[m], handle'[m], th'[m] \in {"hide", "ended"}
                     PROVE  Joining(m)' \/ EndSpots(events') # {}
        BY DEF Heard
      <4>2. m # n
        BY <3>3, <4>1
      <4>3. th'[m] = th[m]
        BY <4>2, OthersStay DEF ThreadFrame
      <4>4. Joining(m) \/ EndSpots(events) # {}
        BY <1>2, <4>1, <4>3 DEF EndsOK, Heard
      <4>5. QED
        BY <1>2, <3>2, <4>4 DEF Joining
    <3>5. QED
      BY <1>3, <3>1, <3>4 DEF EndsOK
  <2>5. QED
    BY <2>3, <2>4
<1>8. CASE ~Emit(n)
  <2>1. EndSpots(events') = EndSpots(events)
    BY <1>2, <1>8, QueueType, EndNotHidden
  <2>2. Answered'
    BY <1>5, <1>6, <2>1, CountTypes DEF EndsOK, Answered
  <2>3. Heard'
    <3>1. SUFFICES ASSUME NEW m \in Nvrs, alone'[m], handle'[m], th'[m] \in {"hide", "ended"}
                   PROVE  Joining(m)' \/ EndSpots(events') # {}
      BY DEF Heard
    <3>2. alone[m] /\ handle[m] /\ sel = m
      BY <1>2, <3>1 DEF EndsOK, Selected
    <3>3. CASE m = n /\ th[n] # "hide"
      <4>1. ~run[n]
        BY <1>2, <1>8, <3>1, <3>2, <3>3
      <4>2. Joining(n)
        BY <1>2, <4>1 DEF EndsOK, StoppedByJoin
      <4>3. QED
        BY <1>2, <3>3, <4>2 DEF Joining
    <3>4. CASE m = n /\ th[n] = "hide"
      <4>1. Joining(n) \/ EndSpots(events) # {}
        BY <3>2, <3>4 DEF EndsOK, Heard
      <4>2. QED
        BY <1>2, <2>1, <3>4, <4>1 DEF Joining
    <3>5. CASE m # n
      <4>1. th'[m] = th[m]
        BY <3>5, OthersStay DEF ThreadFrame
      <4>2. Joining(m) \/ EndSpots(events) # {}
        BY <3>1, <3>2, <4>1 DEF EndsOK, Heard
      <4>3. QED
        BY <1>2, <2>1, <4>2 DEF Joining
    <3>6. QED
      BY <3>3, <3>4, <3>5
  <2>4. QED
    BY <1>3, <2>2, <2>3 DEF EndsOK
<1>9. QED
  BY <1>7, <1>8
(* A slot takes a signal: a last value stops the recorder selected now.    *)
LEMMA ValueEnds ==
    ASSUME TypeOK, EndsOK, ValueSlot
    PROVE  EndsOK'
<1>1. /\ events # <<>> /\ gui.at = "idle" /\ events' = Tail(events)
      /\ UNCHANGED <<handle, sel, th, pos, alone>>
      /\ Head(events).signal = "value"
      /\ IF Head(events).value \in Ends /\ handle[sel]
         THEN /\ gui' = [at |-> "join", nvr |-> sel]
              /\ run' = [run EXCEPT ![sel] = FALSE]
         ELSE UNCHANGED <<gui, run>>
  BY DEF ValueSlot
<1>2. Cardinality(EndSpots(events'))
        = IF IsEnd(Head(events)) THEN Cardinality(EndSpots(events)) - 1
                                 ELSE Cardinality(EndSpots(events))
  BY <1>1, QueueType, EndTaken
<1>3. IsEnd(Head(events)) <=> Head(events).value \in Ends
  BY <1>1 DEF IsEnd
<1>4. Reported' = Reported /\ Handling = 0
  BY <1>1 DEF Reported, Handling
<1>5. CASE IsEnd(Head(events)) /\ handle[sel]
  <2>1. gui' = [at |-> "join", nvr |-> sel] /\ run' = [run EXCEPT ![sel] = FALSE]
    BY <1>1, <1>3, <1>5
  <2>2. gui'.at = "join" /\ gui'.nvr = sel /\ Handling' = 1
    BY <2>1 DEF Handling
  <2>3. Selected'
    BY <1>1, <2>2 DEF EndsOK, Selected
  <2>4. StoppedByJoin'
    <3>1. SUFFICES ASSUME NEW n \in Nvrs, handle'[n], ~run'[n] PROVE Joining(n)'
      BY DEF StoppedByJoin
    <3>2. CASE n = sel
      BY <2>1, <3>2 DEF Joining
    <3>3. CASE n # sel
      <4>1. ~run[n] /\ handle[n]
        BY <1>1, <2>1, <3>1, <3>3 DEF TypeOK
      <4>2. Joining(n)
        BY <4>1 DEF EndsOK, StoppedByJoin
      <4>3. QED
        BY <1>1, <4>2 DEF Joining
    <3>4. QED
      BY <3>2, <3>3
  <2>5. Heard'
    <3>1. SUFFICES ASSUME NEW n \in Nvrs, alone'[n], handle'[n] PROVE Joining(n)'
      BY DEF Heard
    <3>2. sel = n
      BY <1>1, <3>1 DEF EndsOK, Selected
    <3>3. QED
      BY <2>1, <3>2 DEF Joining
  <2>6. Answered'
    BY <1>2, <1>4, <1>5, <2>2, CountTypes DEF EndsOK, Answered
  <2>7. QED
    BY <2>3, <2>4, <2>5, <2>6 DEF EndsOK
<1>6. CASE ~(IsEnd(Head(events)) /\ handle[sel])
  <2>1. UNCHANGED <<gui, run>>
    BY <1>1, <1>3, <1>6
  <2>2. Selected' /\ StoppedByJoin'
    BY <1>1, <2>1 DEF EndsOK, Selected, StoppedByJoin, Joining
  <2>3. Heard'
    <3>1. SUFFICES ASSUME NEW n \in Nvrs, alone'[n], handle'[n], th'[n] \in {"hide", "ended"}
                   PROVE  EndSpots(events') # {}
      BY DEF Heard
    <3>2. sel = n /\ ~IsEnd(Head(events)) /\ ~Joining(n)
      BY <1>1, <1>6, <3>1 DEF EndsOK, Selected, Joining
    <3>3. Cardinality(EndSpots(events)) # 0
      BY <1>1, <3>1, <3>2, CountTypes DEF EndsOK, Heard
    <3>4. QED
      BY <1>2, <3>2, <3>3, FS_EmptySet
  <2>4. Answered'
    <3>1. Handling' = 0
      BY <1>1, <2>1 DEF Handling
    <3>2. QED
      BY <1>2, <1>4, <3>1, CountTypes DEF EndsOK, Answered
  <2>5. QED
    BY <2>2, <2>3, <2>4 DEF EndsOK
<1>7. QED
  BY <1>5, <1>6

LEMMA ShowEnds ==
    ASSUME TypeOK, EndsOK, ShowSlot
    PROVE  EndsOK'
<1>1. /\ events # <<>> /\ events' = Tail(events) /\ Head(events) \in {Show, Hidden}
      /\ UNCHANGED <<handle, sel, gui, th, run, pos, alone>>
  BY DEF ShowSlot, threadVars
<1>2. ~IsEnd(Head(events))
  BY <1>1, QueuedEnds
<1>3. Cardinality(EndSpots(events')) = Cardinality(EndSpots(events))
  BY <1>1, <1>2, QueueType, EndTaken
<1>4. EndSpots(events) # {} => EndSpots(events') # {}
  BY <1>3, CountTypes, FS_EmptySet
<1>5. Reported' = Reported /\ Handling' = Handling
  BY <1>1 DEF Reported, Handling
<1>6. Selected' /\ StoppedByJoin' /\ Answered'
  BY <1>1, <1>3, <1>5 DEF EndsOK, Selected, StoppedByJoin, Joining, Answered
<1>7. Heard'
  BY <1>1, <1>4 DEF EndsOK, Heard, Joining
<1>8. QED
  BY <1>6, <1>7 DEF EndsOK

(* The connection that was waited for is gone, and so is its last value.   *)
LEMMA DestroyEnds ==
    ASSUME TypeOK, EndsOK, Destroy
    PROVE  EndsOK'
<1> DEFINE k == gui.nvr
<1>1. k \in Nvrs /\ gui = [at |-> "join", nvr |-> k]
  BY DEF TypeOK, Destroy
<1>2. /\ gui.at = "join" /\ gui'.at = "idle" /\ sel = k
      /\ handle' = [handle EXCEPT ![k] = FALSE]
      /\ th' = [th EXCEPT ![k] = "off"] /\ pos' = [pos EXCEPT ![k] = 0]
      /\ alone' = [alone EXCEPT ![k] = TRUE]
      /\ UNCHANGED <<sel, events, run>>
  BY <1>1 DEF Destroy, Freed, EndsOK, Selected
<1> HIDE DEF k
<1>3. \A n \in Nvrs : handle'[n] => /\ n # k /\ handle[n] /\ th'[n] = th[n]
                                  /\ pos'[n] = pos[n] /\ (alone'[n] <=> alone[n])
  BY <1>1, <1>2 DEF TypeOK
<1>4. \A n \in Nvrs : handle'[n] => ~Joining(n)
  BY <1>1, <1>3 DEF Joining
<1>5. \A n \in Nvrs : handle'[n] => ~alone[n] /\ run[n]
  BY <1>2, <1>3, <1>4 DEF EndsOK, Selected, StoppedByJoin
<1>6. Selected' /\ StoppedByJoin' /\ Heard'
  BY <1>2, <1>3, <1>5 DEF Selected, StoppedByJoin, Heard
<1>7. Reported' = Reported \ {k}
  <2>1. \A n \in Nvrs \ {k} :
          (handle'[n] <=> handle[n]) /\ th'[n] = th[n] /\ pos'[n] = pos[n]
    BY <1>2 DEF TypeOK
  <2>2. ~handle'[k]
    BY <1>1, <1>2 DEF TypeOK
  <2>3. QED
    BY <2>1, <2>2 DEF Reported
<1>8. Cardinality(Reported') >= Cardinality(Reported) - 1 /\ Cardinality(Reported') \in Int
  <2>1. Cardinality(Reported \ {k})
          = IF k \in Reported THEN Cardinality(Reported) - 1 ELSE Cardinality(Reported)
    BY CountTypes, FS_RemoveElement
  <2>2. QED
    BY <1>7, <2>1, CountTypes
<1>9. Handling = 1 /\ Handling' = 0
  BY <1>2 DEF Handling
<1>10. Answered'
  BY <1>2, <1>8, <1>9, CountTypes DEF EndsOK, Answered
<1>11. QED
  BY <1>6, <1>10 DEF EndsOK

LEMMA ClickEnds ==
    ASSUME TypeOK, ThreadsOK, EndsOK,
           (\E n \in Nvrs : Click(n)) \/ ClickIgnored \/ ConnectFails \/ ClickStarts
    PROVE  EndsOK'
<1>1. CASE \E n \in Nvrs : Click(n)
  <2>1. PICK k \in Nvrs : Click(k)
    BY <1>1
  <2>2. /\ gui.at = "idle" /\ sel' = k /\ gui' = [at |-> "connect", nvr |-> k]
        /\ alone' = [m \in Nvrs |-> alone[m] /\ (handle[m] => m = k)]
        /\ UNCHANGED <<handle, th, run, pos, events>>
    BY <2>1 DEF Click, threadVars
  <2>3. \A n \in Nvrs : ~Joining(n)
    BY <2>2 DEF Joining
  <2>4. Selected' /\ StoppedByJoin' /\ Heard'
    BY <2>2, <2>3 DEF EndsOK, Selected, StoppedByJoin, Heard
  <2>5. Answered'
    BY <2>2 DEF EndsOK, Answered, Handling, Reported
  <2>6. QED
    BY <2>4, <2>5 DEF EndsOK
<1>2. CASE ClickIgnored \/ ConnectFails
  <2>1. /\ gui.at = "connect" /\ gui'.at = "idle"
        /\ UNCHANGED <<handle, sel, th, run, pos, events, alone>>
    BY <1>2 DEF ClickIgnored, ConnectFails, ClickReturns, threadVars, TypeOK
  <2>2. \A n \in Nvrs : ~Joining(n)
    BY <2>1 DEF Joining
  <2>3. Selected' /\ StoppedByJoin' /\ Heard'
    BY <2>1, <2>2 DEF EndsOK, Selected, StoppedByJoin, Heard
  <2>4. Answered'
    BY <2>1 DEF EndsOK, Answered, Handling, Reported
  <2>5. QED
    BY <2>3, <2>4 DEF EndsOK
<1>3. CASE ClickStarts
  <2> DEFINE k == gui.nvr
  <2>1. /\ gui.at = "connect" /\ gui'.at = "idle" /\ sel = k /\ k \in Nvrs /\ ~handle[k]
        /\ handle' = [handle EXCEPT ![k] = TRUE]
        /\ th' = [th EXCEPT ![k] = "top"] /\ run' = [run EXCEPT ![k] = TRUE]
        /\ UNCHANGED <<sel, events, pos, alone>>
    BY <1>3 DEF ClickStarts, StartThread, TypeOK, EndsOK, Selected
  <2> HIDE DEF k
  <2>2. \A n \in Nvrs : ~Joining(n)
    BY <2>1 DEF Joining
  <2>3. \A n \in Nvrs \ {k} : /\ handle'[n] <=> handle[n]
                              /\ th'[n] = th[n]
                              /\ run'[n] <=> run[n]
                              /\ alone'[n] <=> alone[n]
    BY <2>1 DEF TypeOK
  <2>4. handle'[k] /\ run'[k] /\ th'[k] = "top"
    BY <2>1 DEF TypeOK
  <2>5. Selected' /\ StoppedByJoin' /\ Heard'
    BY <2>1, <2>2, <2>3, <2>4 DEF EndsOK, Selected, StoppedByJoin, Heard
  <2>6. Reported' = Reported /\ Handling = 0 /\ Handling' = 0
    BY <2>1, <2>3, <2>4 DEF Reported, Handling
  <2>7. Answered'
    BY <2>1, <2>6 DEF EndsOK, Answered
  <2>8. QED
    BY <2>5, <2>7 DEF EndsOK
<1>4. QED
  BY <1>1, <1>2, <1>3

LEMMA EndsStep == TypeOK /\ ThreadsOK /\ EndsOK /\ [Next]_vars => EndsOK'
<1> SUFFICES ASSUME TypeOK, ThreadsOK, EndsOK, [Next]_vars PROVE EndsOK'
  OBVIOUS
<1>1. CASE UNCHANGED <<handle, sel, gui, events, th, run, pos, alone>>
  BY <1>1 DEF EndsOK, Selected, StoppedByJoin, Joining, Heard, Answered, Handling, Reported
<1>2. CASE \E n \in Nvrs : Thread(n)
  BY <1>2, ThreadEnds
<1>3. CASE ShowSlot
  BY <1>3, ShowEnds
<1>4. CASE ValueSlot
  BY <1>4, ValueEnds
<1>5. CASE Destroy
  BY <1>5, DestroyEnds
<1>6. CASE (\E n \in Nvrs : Click(n)) \/ ClickIgnored \/ ConnectFails \/ ClickStarts
  BY <1>6, ClickEnds
<1>7. CASE Unplug \/ UNCHANGED vars
  BY <1>1, <1>7 DEF Unplug, vars, guiVars, threadVars
<1>8. QED
  BY <1>2, <1>3, <1>4, <1>5, <1>6, <1>7, StepCases

LEMMA EndsAlwaysOK == Spec => [](TypeOK /\ ThreadsOK /\ EndsOK)
  BY ThreadStart, ThreadStep, EndsStart, EndsStep, PTL DEF Spec

(* A download whose recorder stays the selected one is cleaned up however  *)
(* it ends: once its thread has ended and its signals are handled its      *)
(* connection is gone.                                                     *)
THEOREM EndedIsGone == Spec => []EndIsDestroyed
<1>1. TypeOK /\ EndsOK => EndIsDestroyed
  <2>1. SUFFICES ASSUME TypeOK, EndsOK, NEW n \in Nvrs, Quiet, th[n] = "ended", alone[n], handle[n]
                 PROVE  FALSE
    BY DEF EndIsDestroyed
  <2>2. EndSpots(events) = {}
    BY <2>1 DEF Quiet, EndSpots
  <2>3. ~Joining(n)
    BY <2>1 DEF Quiet, Joining
  <2>4. QED
    BY <2>1, <2>2, <2>3 DEF EndsOK, Heard
<1>2. QED
  BY <1>1, EndsAlwaysOK, PTL

(* The signal does not say whose end it is, but each last value has a      *)
(* connection of its own that it came from.                                *)
LEMMA StopsOwn ==
    ASSUME TypeOK, ThreadsOK, EndsOK, Next, NEW n \in Nvrs, run[n], ~run'[n],
           \A m \in Nvrs \ {n} : ~handle[m]
    PROVE  pos[n] \in Ends
<1>1. ValueSlot
  <2>1. ASSUME NEW m \in Nvrs, Thread(m)
        PROVE  FALSE
    <3>1. run' = run
      BY <2>1, ThreadMoves DEF ThreadsOK
    <3>2. QED
      BY <3>1
  <2>2. ~ClickStarts
    BY DEF ClickStarts, StartThread, TypeOK
  <2>3. /\ ~ShowSlot /\ ~Destroy /\ ~ClickIgnored /\ ~ConnectFails /\ ~Unplug
        /\ ~ \E m \in Nvrs : Click(m)
    BY DEF ShowSlot, Destroy, ClickIgnored, ConnectFails, ClickReturns, Unplug, Click, threadVars
  <2>4. QED
    BY <2>1, <2>2, <2>3 DEF Next, Slots
<1>2. events # <<>> /\ IsEnd(Head(events))
  <2>1. Head(events).signal = "value" /\ events # <<>> /\ run' # run
    BY <1>1 DEF ValueSlot
  <2>2. QED
    BY <1>1, <2>1 DEF ValueSlot, IsEnd
<1>3. Cardinality(Reported) # 0
  <2>1. 1 \in EndSpots(events)
    BY <1>2, QueueType, EmptySeq DEF EndSpots
  <2>2. Cardinality(EndSpots(events)) # 0
    BY <2>1, CountTypes
  <2>3. QED
    BY <2>2, CountTypes DEF EndsOK, Answered, Handling
<1>4. PICK m \in Nvrs : m \in Reported
  BY <1>3, FS_EmptySet DEF Reported
<1>5. m = n
  BY <1>4 DEF Reported
<1>6. QED
  BY <1>4, <1>5 DEF Reported

(* Whatever signals of earlier downloads are still queued, a running       *)
(* download is stopped by its own last value only, as long as no other     *)
(* recorder has a connection.                                              *)
THEOREM StoppedByItsOwnEnd == Spec => StopsWhatEnded
<1>1. TypeOK /\ ThreadsOK /\ EndsOK /\ [Next]_vars
        => [ \A n \in Nvrs :
              (run[n] /\ ~run'[n] /\ \A m \in Nvrs \ {n} : ~handle[m]) => pos[n] \in Ends ]_vars
  BY StopsOwn
<1>2. QED
  BY <1>1, EndsAlwaysOK, PTL DEF Spec, StopsWhatEnded
=============================================================================
