-------------------------- MODULE RecordSearchProofs --------------------------
(***************************************************************************)
(* Proofs about RecordSearch, for any number of recorders, searches,       *)
(* packets and downloads and any limit of the polls: the search button     *)
(* comes back in time, the table answers the last search, its rows play    *)
(* what they show, and an answer of two packets is shown whole.            *)
(***************************************************************************)
EXTENDS RecordSearch, SequenceTheorems, NumberSets

LEMMA ConstantTypes ==
    /\ Nvrs \in Nat /\ Nvrs >= 1 /\ MaxParts \in Nat /\ MaxParts >= 1
    /\ MaxSearches \in Nat /\ MaxDownloads \in Nat /\ MaxReports \in Nat
    /\ GiveUp \in Nat /\ FillTime \in Nat /\ FillTime > 1
    /\ Ids \in SUBSET Nat /\ IsFiniteSet(Ids)
    /\ OFF \notin Nat /\ OFF \in Int
<1>1. Nvrs \in Nat /\ Nvrs >= 1
  BY BoundsAssumption
<1>2. IsFiniteSet(Ids)
  BY <1>1, FS_Interval DEF Ids
<1>3. Ids \in SUBSET Nat
  BY DEF Ids
<1>4. QED
  BY <1>1, <1>2, <1>3, BoundsAssumption, TimeAssumption DEF OFF

-----------------------------------------------------------------------------
(* The packets on their way: those of the searches in T.                   *)

PacketsOf(T) == [search : T, part : 1 .. MaxParts, last : BOOLEAN]
OrdersOf(T) == [search : T, sent : 0 .. MaxParts - 1]

Holds(T) ==
    /\ owed \in [Ids -> Seq(OrdersOf(T))]
    /\ queue \in [Ids -> Seq(PacketsOf(T) \cup {Report})]
    /\ buf \in Seq(PacketsOf(T))
    /\ table \in Seq(PacketsOf(T))
    /\ paths \in Seq(PacketsOf(T))

(* The timer takes the heads of the queues that name recordings.           *)
LEMMA TakenTypes ==
    ASSUME NEW P, queue \in [Ids -> Seq(P \cup {Report})]
    PROVE  /\ Taken \in Seq(P)
           /\ \A n \in Ids : Ready = {n} => Taken = <<Head(queue[n])>>
           /\ Ready = {} => Taken = <<>>
<1> DEFINE c == Cardinality(Ready)
           e == [k \in 1 .. c |-> Head(queue[Nth(k, Ready)])]
<1>1. Ready \in SUBSET Ids /\ Ready \in SUBSET Nat
  BY ConstantTypes DEF Ready
<1>2. IsFiniteSet(Ready) /\ c \in Nat
  BY <1>1, ConstantTypes, FS_Subset, FS_CardinalityType
<1>3. ASSUME NEW k \in 1 .. c
      PROVE  Nth(k, Ready) \in Ready /\ e[k] \in P
  <2>1. Nth(k, Ready) \in Ready
    BY <1>1, <1>2, NthTells
  <2>2. /\ queue[Nth(k, Ready)] \in Seq(P \cup {Report}) /\ queue[Nth(k, Ready)] # <<>>
        /\ Head(queue[Nth(k, Ready)]) # Report
    BY <2>1 DEF Ready
  <2>3. Head(queue[Nth(k, Ready)]) \in P
    BY <2>2, HeadTailProperties
  <2>4. QED
    BY <2>1, <2>3
<1>4. Taken = e
  BY DEF Taken
<1>5. ASSUME NEW n \in Ids, Ready = {n}
      PROVE  Taken = <<Head(queue[n])>>
  <2>1. c = 1
    BY <1>5, FS_Singleton
  <2>2. 1 \in 1 .. c
    BY <2>1
  <2>3. Nth(1, Ready) = n
    BY <1>3, <1>5, <2>2
  <2>4. Taken = [k \in 1 .. 1 |-> Head(queue[Nth(k, Ready)])]
    BY <1>4, <2>1
  <2>5. QED
    BY <2>3, <2>4
<1>6. ASSUME Ready = {}
      PROVE  Taken = <<>>
  <2>1. c = 0
    BY <1>6, FS_EmptySet
  <2>2. Taken = [k \in 1 .. 0 |-> Head(queue[Nth(k, Ready)])]
    BY <1>4, <2>1
  <2>3. QED
    BY <2>2
<1>7. e \in Seq(P)
  <2> HIDE DEF c
  <2>1. e \in [1 .. c -> P]
    BY <1>3
  <2>2. QED
    BY <1>2, <2>1
<1>8. QED
  BY <1>4, <1>5, <1>6, <1>7

(* The answer's next packet is one of the search it answers.               *)
LEMMA HoldsAnswer ==
    ASSUME NEW T, Holds(T), NEW n \in Ids, Answer(n)
    PROVE  Holds(T)'
<1> DEFINE o == Head(owed[n])
<1>1. /\ owed[n] \in Seq(OrdersOf(T)) /\ owed[n] # <<>>
      /\ queue[n] \in Seq(PacketsOf(T) \cup {Report})
  BY DEF Holds, Answer
<1>2. /\ o \in OrdersOf(T) /\ Tail(owed[n]) \in Seq(OrdersOf(T))
      /\ 1 \in 1 .. Len(owed[n]) /\ o = owed[n][1]
  BY <1>1, HeadTailProperties, EmptySeq
<1>3. PICK last \in IF o.sent + 1 = MaxParts THEN {TRUE} ELSE BOOLEAN :
        /\ queue' = [queue EXCEPT ![n] =
             Append(@, [search |-> o.search, part |-> o.sent + 1, last |-> last])]
        /\ \/ last /\ owed' = [owed EXCEPT ![n] = Tail(@)]
           \/ ~last /\ owed' = [owed EXCEPT ![n][1].sent = @ + 1]
  BY DEF Answer
<1>4. o.search \in T /\ o.sent \in 0 .. MaxParts - 1 /\ o = [search |-> o.search, sent |-> o.sent]
  BY <1>2 DEF OrdersOf
<1> DEFINE p == [search |-> o.search, part |-> o.sent + 1, last |-> last]
           q == [owed[n] EXCEPT ![1] = [o EXCEPT !.sent = @ + 1]]
<1>5. p \in PacketsOf(T)
  <2>1. o.sent + 1 \in 1 .. MaxParts
    BY <1>4, ConstantTypes
  <2>2. last \in BOOLEAN
    BY <1>3
  <2>3. QED
    BY <1>4, <2>1, <2>2 DEF PacketsOf
<1>6. Append(queue[n], p) \in Seq(PacketsOf(T) \cup {Report})
  BY <1>1, <1>5, AppendProperties
<1>7. ~last => q \in Seq(OrdersOf(T))
  <2>1. SUFFICES ASSUME ~last PROVE q \in Seq(OrdersOf(T))
    OBVIOUS
  <2>a. o.sent + 1 # MaxParts
    BY <1>3, <2>1
  <2>2. o.sent + 1 \in 0 .. MaxParts - 1
    <3> HIDE DEF o
    <3>1. QED
      BY <1>4, <2>a, ConstantTypes
  <2>3. [o EXCEPT !.sent = @ + 1] \in OrdersOf(T)
    BY <1>2, <2>2 DEF OrdersOf
  <2>4. QED
    BY <1>1, <1>2, <2>3, ExceptSeq
<1>8. [owed[n] EXCEPT ![1].sent = @ + 1] = q
  BY <1>2
<1>9. queue' = [queue EXCEPT ![n] = Append(queue[n], p)]
  BY <1>3
<1>10. owed' = [owed EXCEPT ![n] = IF last THEN Tail(owed[n]) ELSE q]
  <2>1. CASE last
    BY <1>3, <2>1
  <2>2. CASE ~last
    <3>1. owed' = [owed EXCEPT ![n][1].sent = @ + 1]
      BY <1>3, <2>2
    <3>2. QED
      BY <1>8, <2>2, <3>1
  <2>3. QED
    BY <2>1, <2>2
<1>11. (IF last THEN Tail(owed[n]) ELSE q) \in Seq(OrdersOf(T))
  BY <1>2, <1>7
<1> HIDE DEF p, q
<1>12. /\ queue' \in [Ids -> Seq(PacketsOf(T) \cup {Report})]
       /\ owed' \in [Ids -> Seq(OrdersOf(T))]
  BY <1>6, <1>9, <1>10, <1>11 DEF Holds
<1>13. QED
  BY <1>12 DEF Holds, Answer, list

LEMMA HoldsStep ==
    ASSUME NEW T, Holds(T), [Next]_vars, ~ \E n \in Ids : Search(n)
    PROVE  Holds(T)'
<1> USE DEF Holds, network, list
<1>1. CASE SearchRefused
  BY <1>1, EmptySeq DEF SearchRefused, ClearList
<1>2. ASSUME NEW n \in Ids, Answer(n)
      PROVE  Holds(T)'
  BY <1>2, HoldsAnswer
<1>3. ASSUME NEW n \in Ids, Lose(n)
      PROVE  Holds(T)'
  BY <1>3, EmptySeq DEF Lose
<1>8. ASSUME NEW n \in Ids, Tell(n)
      PROVE  Holds(T)'
  <2>1. Append(queue[n], Report) \in Seq(PacketsOf(T) \cup {Report})
    BY AppendProperties
  <2>2. QED
    BY <1>8, <2>1 DEF Tell
<1>4. CASE pmsgTimerFunc
  <2>1. Taken \in Seq(PacketsOf(T))
    BY TakenTypes
  <2>2. buf' \in Seq(PacketsOf(T))
    BY <1>4, <2>1, ConcatProperties DEF pmsgTimerFunc, pmsgCtrl, recordQueryCtrl
  <2>3. \A n \in Ids : queue[n] # <<>> => Tail(queue[n]) \in Seq(PacketsOf(T) \cup {Report})
    BY HeadTailProperties
  <2>4. queue' \in [Ids -> Seq(PacketsOf(T) \cup {Report})]
    BY <1>4, <2>3, EmptySeq DEF pmsgTimerFunc
  <2>5. QED
    BY <1>4, <2>2, <2>4 DEF pmsgTimerFunc
<1>5. CASE recordTableWidgetFillFunc
  <2>1. Len(buf) \in Nat /\ Len(paths) \in Nat
    BY LenProperties
  <2>2. \A i \in Len(buf) + 1 .. Len(paths) : paths[i] \in PacketsOf(T)
    BY <2>1, ElementOfSeq
  <2>3. SubSeq(paths, Len(buf) + 1, Len(paths)) \in Seq(PacketsOf(T))
    BY <2>1, <2>2, SubSeqProperties
  <2>4. QED
    BY <1>5, <2>3, ConcatProperties DEF recordTableWidgetFillFunc
<1>6. CASE \/ PollFinds \/ PollWaits \/ PollGivesUp \/ DownloadShows \/ DownloadHides
           \/ Elapse \/ UNCHANGED vars \/ \E n \in Ids : Choose(n)
  BY <1>6 DEF PollFinds, PollWaits, PollGivesUp, DownloadShows, DownloadHides, Elapse, Choose, vars
<1>7. QED
  BY <1>1, <1>2, <1>3, <1>4, <1>5, <1>6, <1>8 DEF Next, Timers

-----------------------------------------------------------------------------
(* Types.                                                                  *)

(* Every search but the one polled for has added at most one try; a        *)
(* download that is shown has not ended.                                   *)
Counts ==
    /\ bar => downloads < MaxDownloads
    /\ slots <= searches
    /\ tries <= GiveUp + searches - (IF poll = OFF THEN 0 ELSE 1)

LEMMA TypesHold == TypeOK => Holds(1 .. MaxSearches)
  BY DEF TypeOK, Holds, Packets, PacketsOf, OrdersOf

LEMMA CompleteTypes ==
    ASSUME queue \in [Ids -> Seq(Packets \cup {Report})]
    PROVE  Complete \in 0 .. MaxParts
<1> DEFINE ends == {p \in UNION {ToSet(queue[n]) : n \in Ids} : p.search = searches /\ p.last}
<1>1. \A n \in Ids : ToSet(queue[n]) \subseteq Packets \cup {Report}
  BY ElementOfSeq DEF ToSet
<1>a. ~Report.last
  BY DEF Report
<1>2. \A p \in ends : p \in Packets
  BY <1>1, <1>a
<1>3. \A p \in ends : p.part \in 1 .. MaxParts
  BY <1>2 DEF Packets
<1>4. Complete = IF ends = {} THEN 0 ELSE (CHOOSE p \in ends : TRUE).part
  BY DEF Complete
<1>5. ends # {} => (CHOOSE p \in ends : TRUE) \in ends
  OBVIOUS
<1> HIDE DEF ends
<1>6. QED
  BY <1>3, <1>4, <1>5, ConstantTypes

LEMMA SearchTypes ==
    ASSUME TypeOK, Counts, NEW n \in Ids, Search(n)
    PROVE  TypeOK' /\ Counts'
<1>1. searches + 1 \in 1 .. MaxSearches
  BY ConstantTypes DEF TypeOK, Search
<1>2. [search |-> searches + 1, sent |-> 0] \in [search : 1 .. MaxSearches, sent : 0 .. MaxParts - 1]
  BY <1>1, ConstantTypes
<1>3. Append(owed[n], [search |-> searches + 1, sent |-> 0])
         \in Seq([search : 1 .. MaxSearches, sent : 0 .. MaxParts - 1])
  BY <1>2, AppendProperties DEF TypeOK
<1>4. owed' \in [Ids -> Seq([search : 1 .. MaxSearches, sent : 0 .. MaxParts - 1])]
  BY <1>3 DEF TypeOK, Search
<1>5. buf' \in Seq(Packets) /\ table' \in Seq(Packets) /\ paths' \in Seq(Packets)
  BY EmptySeq DEF Search, ClearList
<1>6. /\ poll' \in OFF .. 1 /\ slots' \in 0 .. MaxSearches /\ (poll' = OFF) = (slots' = 0)
      /\ searches' \in 0 .. MaxSearches /\ Counts'
  BY <1>1, ConstantTypes DEF TypeOK, Search, StartPoll, Counts
<1>7. age' \in 0 .. LongAgo /\ prompt' \in 0 .. MaxParts
  BY ConstantTypes DEF Search, LongAgo
<1>8. button' \in BOOLEAN /\ box' \in BOOLEAN /\ stalled' \in BOOLEAN /\ near' \in BOOLEAN
  BY DEF Search
<1>a. asked' \in [1 .. searches' -> Ids]
  <2>1. asked \in [1 .. searches -> Ids] /\ searches \in Nat /\ searches' = searches + 1
    BY ConstantTypes DEF TypeOK, Search
  <2>2. asked \in Seq(Ids) /\ Len(asked) = searches
    BY <2>1
  <2>b. Append(asked, n) \in Seq(Ids) /\ Len(Append(asked, n)) = searches + 1
    BY <2>2, AppendProperties
  <2>c. \A q \in Seq(Ids) : q \in [1 .. Len(q) -> Ids]
    OBVIOUS
  <2>3. Append(asked, n) \in [1 .. searches + 1 -> Ids]
    <3> DEFINE q == Append(asked, n)
    <3> HIDE DEF q
    <3>1. q \in [1 .. Len(q) -> Ids] /\ Len(q) = searches + 1
      BY <2>b, <2>c DEF q
    <3>2. QED
      BY <3>1 DEF q
  <2>4. QED
    BY <2>1, <2>3 DEF Search
<1>9. clean' \in BOOLEAN /\ fresh' \in BOOLEAN
  BY Zenon DEF Search
<1>10. QED
  BY <1>4, <1>5, <1>6, <1>7, <1>8, <1>9, <1>a DEF TypeOK, Search, LongAgo, Packets

LEMMA TypesStep ==
    ASSUME TypeOK, Counts, [Next]_vars
    PROVE  TypeOK' /\ Counts'
<1>1. ASSUME NEW n \in Ids, Search(n)
      PROVE  TypeOK' /\ Counts'
  BY <1>1, SearchTypes
<1>2. CASE ~ \E n \in Ids : Search(n)
  <2>1. Holds(1 .. MaxSearches)'
    BY <1>2, TypesHold, HoldsStep
  <2>2. /\ owed' \in [Ids -> Seq([search : 1 .. MaxSearches, sent : 0 .. MaxParts - 1])]
        /\ queue' \in [Ids -> Seq(Packets \cup {Report})]
        /\ buf' \in Seq(Packets) /\ table' \in Seq(Packets) /\ paths' \in Seq(Packets)
    BY <2>1 DEF Holds, Packets, PacketsOf, OrdersOf
  <2> DEFINE Rest ==
        /\ button \in BOOLEAN /\ bar \in BOOLEAN
        /\ box \in BOOLEAN /\ chosen \in Ids
        /\ asked \in [1 .. searches -> Ids]
        /\ reports \in 0 .. MaxReports
        /\ downloads \in 0 .. MaxDownloads
        /\ searches \in 0 .. MaxSearches
        /\ pmsg \in 0 .. 1 /\ poll \in OFF .. 1
        /\ slots \in 0 .. MaxSearches
        /\ (poll = OFF) = (slots = 0)
        /\ tries \in 0 .. GiveUp + MaxSearches
        /\ fill \in OFF .. FillTime
        /\ age \in 0 .. LongAgo
        /\ clean \in BOOLEAN /\ fresh \in BOOLEAN /\ stalled \in BOOLEAN
        /\ prompt \in 0 .. MaxParts /\ near \in BOOLEAN
        /\ Counts
  <2>3. Rest
    BY DEF TypeOK
  <2>4. ASSUME SearchRefused \/ \E n \in Ids : Answer(n) \/ Lose(n) PROVE Rest'
    <3>1. /\ UNCHANGED <<choice, gui, timers, age, fresh, answer, stalled, reports>>
          /\ clean' \in BOOLEAN
      BY <2>3, <2>4 DEF SearchRefused, Answer, Lose, history, network
    <3>2. QED
      BY <2>3, <3>1 DEF choice, answer, gui, timers, LongAgo, Counts
  <2>14. ASSUME \E n \in Ids : Tell(n) \/ Choose(n) PROVE Rest'
    <3>1. /\ UNCHANGED <<box, asked, gui, timers, history>>
          /\ chosen' \in Ids /\ reports' \in 0 .. MaxReports
      <4>1. CASE \E n \in Ids : Tell(n)
        BY <2>3, <4>1, ConstantTypes DEF Tell, choice
      <4>2. CASE \E n \in Ids : Choose(n)
        BY <2>3, <4>2 DEF Choose, network
      <4>3. QED
        BY <2>14, <4>1, <4>2
    <3>2. QED
      BY <2>3, <3>1 DEF history, answer, gui, timers, LongAgo, Counts
  <2>5. ASSUME pmsgTimerFunc PROVE Rest'
    <3>a. near' \in BOOLEAN
      <4>1. EndIsNear \in BOOLEAN
        BY DEF EndIsNear
      <4>2. QED
        BY <2>3, <2>5, <4>1 DEF pmsgTimerFunc, answer
    <3>1. prompt' \in 0 .. MaxParts
      BY <2>5, CompleteTypes DEF pmsgTimerFunc, answer, TypeOK
    <3>2. pmsg' \in 0 .. 1
      BY <2>5 DEF pmsgTimerFunc
    <3>3. QED
      BY <2>3, <2>5, <3>a, <3>1, <3>2 DEF pmsgTimerFunc, choice, gui, LongAgo, Counts
  <2>6. ASSUME PollFinds PROVE Rest'
    BY <2>3, <2>6, ConstantTypes DEF choice, network, answer, PollFinds, StopPoll, Counts, gui, list, history, LongAgo, OFF
  <2>7. ASSUME PollWaits PROVE Rest'
    BY <2>3, <2>7, ConstantTypes DEF choice, network, answer, PollWaits, Enough, Counts, gui, list, history, LongAgo, OFF
  <2>8. ASSUME PollGivesUp PROVE Rest'
    BY <2>3, <2>8, ConstantTypes DEF choice, network, answer, PollGivesUp, StopPoll, Counts, list, history, LongAgo, OFF
  <2>9. ASSUME recordTableWidgetFillFunc PROVE Rest'
    BY <2>3, <2>9, ConstantTypes DEF choice, network, answer, recordTableWidgetFillFunc, StopFill, Counts, history, LongAgo, OFF
  <2>10. ASSUME DownloadShows \/ DownloadHides \/ UNCHANGED vars PROVE Rest'
    <3>1. CASE DownloadShows
      BY <2>3, <3>1 DEF choice, network, answer, DownloadShows, Counts, list, timers, history, LongAgo
    <3>2. CASE DownloadHides
      <4>1. downloads + 1 \in 0 .. MaxDownloads
        BY <2>3, <3>2, ConstantTypes DEF DownloadHides, Counts
      <4>2. QED
        BY <2>3, <3>2, <4>1 DEF choice, network, answer, DownloadHides, Counts, list, timers, history, LongAgo
    <3>3. CASE UNCHANGED vars
      BY <2>3, <3>3 DEF choice, network, answer, Counts, list, timers, history, gui, vars, LongAgo
    <3>4. QED
      BY <2>10, <3>1, <3>2, <3>3
  <2>11. ASSUME Elapse PROVE Rest'
    <3>1. stalled' \in BOOLEAN
      BY <2>11 DEF Elapse, Due
    <3>2. age' \in 0 .. LongAgo
      BY <2>3, <2>11, ConstantTypes DEF Elapse, LongAgo
    <3>3. pmsg' \in 0 .. 1 /\ poll' \in OFF .. 1 /\ fill' \in OFF .. FillTime
      BY <2>3, <2>11, ConstantTypes DEF Elapse, Sooner, OFF
    <3>4. (poll' = OFF) = (poll = OFF)
      BY <2>3, <2>11, ConstantTypes DEF Elapse, Sooner, OFF
    <3>5. QED
      BY <2>3, <2>11, <3>1, <3>2, <3>3, <3>4 DEF choice, network, answer, Elapse, Counts, gui, LongAgo
  <2> HIDE DEF Rest
  <2>12. Rest'
    BY <1>2, <2>4, <2>5, <2>6, <2>7, <2>8, <2>9, <2>10, <2>11, <2>14 DEF Next, Timers
  <2>13. QED
    BY <2>2, <2>12 DEF TypeOK, Rest, LongAgo, Packets
<1>3. QED
  BY <1>1, <1>2

LEMMA TypesInit == Init => TypeOK /\ Counts
<1> SUFFICES ASSUME Init PROVE TypeOK /\ Counts
  OBVIOUS
<1>1. /\ owed \in [Ids -> Seq([search : 1 .. MaxSearches, sent : 0 .. MaxParts - 1])]
      /\ queue \in [Ids -> Seq(Packets \cup {Report})]
  BY EmptySeq DEF Init
<1>2. buf \in Seq(Packets) /\ table \in Seq(Packets) /\ paths \in Seq(Packets)
  BY EmptySeq DEF Init
<1>3. /\ pmsg \in 0 .. 1 /\ poll \in OFF .. 1 /\ slots \in 0 .. MaxSearches
      /\ (poll = OFF) = (slots = 0) /\ tries \in 0 .. GiveUp + MaxSearches
      /\ fill \in OFF .. FillTime /\ age \in 0 .. LongAgo /\ prompt \in 0 .. MaxParts
      /\ downloads \in 0 .. MaxDownloads /\ searches \in 0 .. MaxSearches /\ Counts
  BY ConstantTypes DEF Init, Counts, LongAgo, OFF
<1>4. chosen \in Ids /\ asked \in [1 .. searches -> Ids] /\ reports \in 0 .. MaxReports
  <2>1. chosen = 1 /\ searches = 0 /\ asked = <<>> /\ reports = 0
    BY DEF Init
  <2>2. 1 \in Ids
    BY ConstantTypes DEF Ids
  <2>3. asked \in [1 .. 0 -> Ids]
    BY <2>1
  <2>4. QED
    BY <2>1, <2>2, <2>3, ConstantTypes
<1>5. QED
  BY <1>1, <1>2, <1>3, <1>4 DEF Init, TypeOK

(* Every variable keeps its type; the polls are bounded because each       *)
(* search but the one under way has added at most one.                     *)
THEOREM TypeCorrect == Spec => []TypeOK
<1>1. TypeOK /\ Counts /\ [Next]_vars => (TypeOK /\ Counts)'
  BY TypesStep
<1>2. QED
  BY <1>1, TypesInit, PTL DEF Spec

-----------------------------------------------------------------------------
(* The search button.                                                      *)

(* A disabled button waits for a timer, unless a download holds it.  While *)
(* no timer is late, the poll comes once a half second and counts, and the *)
(* fill comes FillTime after the last poll.                                *)
InTime ==
    /\ ~button /\ ~bar => poll # OFF \/ fill # OFF
    /\ ~stalled /\ poll # OFF => age + poll <= tries + 1 /\ age + poll <= GiveUp + 1
    /\ ~stalled /\ fill # OFF => age + fill <= GiveUp + 1 + FillTime

LEMMA TimeTypes ==
    ASSUME TypeOK
    PROVE  /\ age \in Int /\ poll \in Int /\ fill \in Int /\ tries \in Int /\ slots \in Int
           /\ poll # OFF => poll >= 0 /\ slots >= 1
           /\ fill # OFF => fill >= 0
           /\ poll <= 1 /\ fill <= FillTime /\ tries >= 0 /\ age <= LongAgo /\ LongAgo \in Int
           /\ LongAgo > GiveUp + 1 + FillTime
  BY ConstantTypes DEF TypeOK, OFF, LongAgo

LEMMA InTimeStep ==
    ASSUME TypeOK, TypeOK', InTime, [Next]_vars
    PROVE  InTime'
<1> USE TimeTypes, ConstantTypes DEF OFF
<1>1. CASE SearchRefused \/ \E n \in Ids : Answer(n) \/ Lose(n) \/ Tell(n) \/ Choose(n)
  <2>1. UNCHANGED <<gui, timers, age, stalled>>
    BY <1>1 DEF SearchRefused, Answer, Lose, Tell, Choose, history
  <2>2. QED
    BY <2>1 DEF InTime, gui, timers
<1>2. ASSUME NEW n \in Ids, Search(n)
      PROVE  InTime'
  <2>1. /\ button' = FALSE /\ age' = 0 /\ poll' = 1 /\ tries' = tries /\ fill' = fill
        /\ bar' = bar
    BY <1>2 DEF Search, StartPoll
  <2>2. /\ age \in Int /\ poll \in Int /\ fill \in Int /\ tries \in Int /\ tries >= 0
        /\ fill <= FillTime /\ GiveUp \in Nat /\ FillTime \in Nat
    OBVIOUS
  <2>3. QED
    BY <2>1, <2>2 DEF InTime
<1>3. CASE pmsgTimerFunc
  BY <1>3 DEF InTime, pmsgTimerFunc, gui
<1>4. CASE PollFinds
  BY <1>4 DEF InTime, PollFinds, StopPoll, gui, history
<1>5. CASE PollWaits
  BY <1>5 DEF InTime, PollWaits, Enough, gui, history
<1>6. CASE PollGivesUp
  BY <1>6 DEF InTime, PollGivesUp, StopPoll, history
<1>7. CASE recordTableWidgetFillFunc
  BY <1>7 DEF InTime, recordTableWidgetFillFunc, StopFill, history
<1>8. CASE DownloadShows \/ DownloadHides
  BY <1>8 DEF InTime, DownloadShows, DownloadHides, timers, history
<1>9. CASE Elapse
  <2>1. ~stalled' => ~stalled /\ poll # 0 /\ fill # 0
    BY <1>9 DEF Elapse, Due
  <2>2. poll' = Sooner(poll) /\ fill' = Sooner(fill) /\ UNCHANGED <<button, bar, tries>>
    BY <1>9 DEF Elapse, gui
  <2>3. age' = IF age < LongAgo THEN age + 1 ELSE age
    BY <1>9 DEF Elapse
  <2>4. (poll' = OFF) = (poll = OFF) /\ (fill' = OFF) = (fill = OFF)
    BY <2>2 DEF Sooner
  <2>5. ~stalled' /\ poll' # OFF => age' + poll' <= age + poll
    BY <2>1, <2>2, <2>3, <2>4 DEF Sooner
  <2>6. ~stalled' /\ fill' # OFF => age' + fill' <= age + fill
    BY <2>1, <2>2, <2>3, <2>4 DEF Sooner
  <2>7. ~button' /\ ~bar' => poll' # OFF \/ fill' # OFF
    BY <2>2, <2>4 DEF InTime
  <2>8. age' \in Int /\ poll' \in Int /\ fill' \in Int
    BY <2>2, <2>3 DEF Sooner
  <2>9. ~stalled' /\ poll' # OFF => age' + poll' <= tries' + 1 /\ age' + poll' <= GiveUp + 1
    BY <2>1, <2>2, <2>4, <2>5, <2>8 DEF InTime
  <2>10. ~stalled' /\ fill' # OFF => age' + fill' <= GiveUp + 1 + FillTime
    BY <2>1, <2>2, <2>4, <2>6, <2>8 DEF InTime
  <2>11. QED
    BY <2>7, <2>9, <2>10 DEF InTime
<1>10. CASE UNCHANGED vars
  BY <1>10 DEF InTime, vars, gui, timers, history
<1>11. QED
  BY <1>1, <1>2, <1>3, <1>4, <1>5, <1>6, <1>7, <1>8, <1>9, <1>10 DEF Next, Timers

(* recordQueryEndSlot and recordTableWidgetFillFunc give the search button *)
(* back at the latest GiveUp + 1 + FillTime half seconds after the search, *)
(* whatever the recorder answers, while no timer is late and no download   *)
(* holds the button.                                                       *)
THEOREM ButtonComesBack == Spec => []ButtonInTime
<1>1. Init => InTime
  BY DEF Init, InTime
<1>2. TypeOK /\ TypeOK' /\ InTime /\ [Next]_vars => InTime'
  BY InTimeStep
<1>3. TypeOK /\ InTime => ButtonInTime
  BY TimeTypes, ConstantTypes DEF InTime, ButtonInTime, OFF
<1>4. QED
  BY <1>1, <1>2, <1>3, TypeCorrect, PTL DEF Spec

-----------------------------------------------------------------------------
(* How often the table is filled.                                          *)

(* Since a search that found no table about to be filled, there is one     *)
(* fill at most, and it comes upon an empty table.                         *)
OneTable ==
    fresh =>
        /\ table = paths
        /\ poll # OFF => fill = OFF /\ table = <<>>
        /\ fill # OFF => table = <<>>

LEMMA OneTableStep ==
    ASSUME TypeOK, OneTable, [Next]_vars
    PROVE  OneTable'
<1> USE ConstantTypes DEF OFF
<1>1. CASE SearchRefused
  BY <1>1 DEF OneTable, SearchRefused, ClearList, timers
<1>2. ASSUME NEW n \in Ids, Search(n)
      PROVE  OneTable'
  BY <1>2 DEF OneTable, Search, ClearList
<1>3. CASE pmsgTimerFunc \/ \E n \in Ids : Answer(n) \/ Lose(n) \/ Tell(n) \/ Choose(n)
  BY <1>3 DEF OneTable, Answer, Lose, Tell, Choose, pmsgTimerFunc, list, timers, history
<1>4. CASE PollFinds
  BY <1>4 DEF OneTable, PollFinds, StopPoll, list, history
<1>5. CASE PollWaits
  BY <1>5 DEF OneTable, PollWaits, list, history
<1>6. CASE PollGivesUp
  BY <1>6 DEF OneTable, PollGivesUp, StopPoll, list, history
<1>7. CASE recordTableWidgetFillFunc
  <2>1. SUFFICES ASSUME fresh PROVE OneTable'
    BY <1>7 DEF OneTable, recordTableWidgetFillFunc, history
  <2>2. fill # OFF /\ poll = OFF /\ table = <<>> /\ paths = <<>>
    BY <1>7, <2>1 DEF OneTable, recordTableWidgetFillFunc
  <2>3. buf \in Seq(Packets)
    BY DEF TypeOK
  <2>4. SubSeq(paths, Len(buf) + 1, Len(paths)) = <<>>
    BY <2>2, <2>3
  <2>5. table' = buf \o <<>> /\ paths' = buf \o <<>>
    BY <1>7, <2>2, <2>4 DEF recordTableWidgetFillFunc
  <2>6. fill' = OFF /\ poll' = OFF
    BY <1>7, <2>2 DEF recordTableWidgetFillFunc, StopFill
  <2>7. QED
    BY <2>5, <2>6 DEF OneTable
<1>8. CASE DownloadShows \/ DownloadHides \/ UNCHANGED vars
  BY <1>8 DEF OneTable, DownloadShows, DownloadHides, vars, list, timers, history
<1>9. CASE Elapse
  <2>1. (poll' = OFF) = (poll = OFF) /\ (fill' = OFF) = (fill = OFF)
    BY <1>9, TimeTypes DEF Elapse, Sooner
  <2>2. UNCHANGED <<table, paths, fresh>>
    BY <1>9 DEF Elapse, list
  <2>3. QED
    BY <2>1, <2>2 DEF OneTable
<1>10. QED
  BY <1>1, <1>2, <1>3, <1>4, <1>5, <1>6, <1>7, <1>8, <1>9 DEF Next, Timers

-----------------------------------------------------------------------------
(* The search that is answered.                                            *)

(* If nothing was on its way at the last search, all there is answers it.  *)
SameSearch == clean => Holds({searches})

LEMMA SameSearchStep ==
    ASSUME TypeOK, SameSearch, [Next]_vars
    PROVE  SameSearch'
<1>1. ASSUME NEW n \in Ids, Search(n), clean'
      PROVE  Holds({searches})'
  <2> DEFINE T == {searches'}
             a == [search |-> searches + 1, sent |-> 0]
  <2>1. \A m \in Ids : owed[m] = <<>> /\ NoRecordings(m) /\ queue'[m] = queue[m]
    BY <1>1 DEF Search
  <2>9. ASSUME NEW m \in Ids PROVE queue[m] \in Seq(PacketsOf(T) \cup {Report})
    <3>1. queue[m] \in [1 .. Len(queue[m]) -> Packets \cup {Report}] /\ Len(queue[m]) \in Nat
      BY LenProperties DEF TypeOK
    <3>2. \A i \in 1 .. Len(queue[m]) : queue[m][i] = Report
      BY <2>1, <3>1 DEF NoRecordings
    <3>3. queue[m] \in [1 .. Len(queue[m]) -> PacketsOf(T) \cup {Report}]
      BY <3>1, <3>2
    <3>4. QED
      BY <3>1, <3>3
  <2>2. a \in OrdersOf(T)
    BY <1>1, ConstantTypes DEF Search, OrdersOf
  <2>3. Append(<<>>, a) \in Seq(OrdersOf(T)) /\ <<>> \in Seq(OrdersOf(T)) /\ <<>> \in Seq(PacketsOf(T))
    BY <2>2, AppendProperties, EmptySeq
  <2>4. owed' = [owed EXCEPT ![n] = Append(owed[n], a)] \/ owed' = owed
    BY <1>1 DEF Search
  <2> HIDE DEF a, T
  <2>5. \A m \in Ids : /\ owed'[m] \in Seq(OrdersOf(T))
                       /\ queue'[m] \in Seq(PacketsOf(T) \cup {Report})
    BY <1>1, <2>1, <2>3, <2>4, <2>9 DEF TypeOK, Search
  <2>6. /\ owed' \in [Ids -> Seq(OrdersOf(T))]
        /\ queue' \in [Ids -> Seq(PacketsOf(T) \cup {Report})]
    BY <1>1, <2>4, <2>5 DEF TypeOK, Search
  <2>7. buf' = <<>> /\ table' = <<>> /\ paths' = <<>>
    BY <1>1 DEF Search, ClearList
  <2>8. QED
    BY <2>3, <2>6, <2>7 DEF Holds, T
<1>2. CASE ~ \E n \in Ids : Search(n)
  <2>1. searches' = searches /\ (clean' => clean)
    <3>1. CASE SearchRefused \/ \E n \in Ids : Answer(n) \/ Lose(n) \/ Tell(n) \/ Choose(n)
      <4>1. CASE SearchRefused
        <5>1. searches' = searches /\ clean' = FALSE
          BY <4>1 DEF SearchRefused, gui
        <5>2. QED
          BY <5>1
      <4>2. CASE \E n \in Ids : Answer(n) \/ Lose(n) \/ Tell(n) \/ Choose(n)
        <5>1. UNCHANGED <<gui, history>>
          BY <4>2 DEF Answer, Lose, Tell, Choose
        <5>2. QED
          BY <5>1 DEF gui, history
      <4>3. QED
        BY <3>1, <4>1, <4>2
    <3>2. CASE Timers
      BY <3>2 DEF Timers, pmsgTimerFunc, PollFinds, PollWaits, PollGivesUp,
           recordTableWidgetFillFunc, gui, history
    <3>3. CASE DownloadShows \/ DownloadHides \/ Elapse \/ UNCHANGED vars
      BY <3>3 DEF DownloadShows, DownloadHides, Elapse, vars, gui, history
    <3>4. QED
      BY <1>2, <3>1, <3>2, <3>3 DEF Next
  <2>2. ASSUME NEW k, searches = k, clean'
        PROVE  Holds({k})'
    BY <1>2, <2>1, <2>2, HoldsStep DEF SameSearch
  <2>3. QED
    BY <2>1, <2>2 DEF SameSearch
<1>3. QED
  BY <1>1, <1>2 DEF SameSearch

(* The table names recordings of the last search, although a packet does   *)
(* not tell which search it answers, if recordQueryCtrl had no earlier     *)
(* answer to wait for when the search was begun.                           *)
THEOREM TableAnswersItsSearch == Spec => []AnswersItsSearch
<1>1. Init => SameSearch
  BY EmptySeq DEF Init, SameSearch, Holds
<1>2. TypeOK /\ SameSearch /\ [Next]_vars => SameSearch'
  BY SameSearchStep
<1>3. SameSearch => AnswersItsSearch
  <2>1. SUFFICES ASSUME SameSearch, clean, NEW i \in DOMAIN table
                 PROVE  table[i].search = searches
    BY DEF AnswersItsSearch
  <2>2. table \in Seq(PacketsOf({searches}))
    BY <2>1 DEF SameSearch, Holds
  <2>3. table[i] \in PacketsOf({searches})
    BY <2>1, <2>2, ElementOfSeq
  <2>4. QED
    BY <2>3 DEF PacketsOf
<1>4. QED
  BY <1>1, <1>2, <1>3, TypeCorrect, PTL DEF Spec

-----------------------------------------------------------------------------
(* Rows and paths.                                                         *)

(* The paths are those of the first recordings of the buffer, and of the   *)
(* first rows of the table.                                                *)
InFront ==
    /\ Len(paths) <= Len(buf) /\ Len(paths) <= Len(table)
    /\ \A i \in 1 .. Len(paths) : paths[i] = buf[i] /\ paths[i] = table[i]

LEMMA ListTypes ==
    ASSUME TypeOK
    PROVE  /\ buf \in Seq(Packets) /\ table \in Seq(Packets) /\ paths \in Seq(Packets)
           /\ Taken \in Seq(Packets)
  BY TakenTypes DEF TypeOK

LEMMA InFrontStep ==
    ASSUME TypeOK, InFront, [Next]_vars
    PROVE  InFront'
<1>1. CASE SearchRefused \/ \E n \in Ids : Search(n)
  <2>1. buf' = <<>> /\ table' = <<>> /\ paths' = <<>>
    BY <1>1 DEF SearchRefused, Search, ClearList
  <2>2. QED
    BY <2>1 DEF InFront
<1>2. CASE pmsgTimerFunc
  <2>1. buf' = buf \o Taken /\ table' = table /\ paths' = paths
    BY <1>2 DEF pmsgTimerFunc, pmsgCtrl, recordQueryCtrl
  <2>2. Len(buf \o Taken) >= Len(buf) /\ \A i \in 1 .. Len(buf) : (buf \o Taken)[i] = buf[i]
    BY ListTypes, ConcatProperties, LenProperties
  <2>3. Len(paths) \in Nat /\ Len(buf) \in Nat /\ Len(buf \o Taken) \in Nat
    BY ListTypes, ConcatProperties, LenProperties
  <2>4. QED
    BY <2>1, <2>2, <2>3 DEF InFront
<1>3. CASE recordTableWidgetFillFunc
  <2>1. table' = buf \o table /\ paths' = buf \o SubSeq(paths, Len(buf) + 1, Len(paths))
        /\ buf' = buf
    BY <1>3 DEF recordTableWidgetFillFunc
  <2>2. Len(paths) \in Nat /\ Len(buf) \in Nat /\ Len(table) \in Nat
    BY ListTypes, LenProperties
  <2>3. SubSeq(paths, Len(buf) + 1, Len(paths)) = <<>>
    <3>1. Len(buf) + 1 > Len(paths)
      BY <2>2 DEF InFront
    <3>2. QED
      BY <2>2, <3>1, ListTypes
  <2>4. paths' = buf
    BY <2>1, <2>3, ListTypes, ConcatEmptySeq
  <2>5. /\ Len(buf \o table) = Len(buf) + Len(table)
        /\ \A i \in 1 .. Len(buf) : (buf \o table)[i] = buf[i]
    BY ListTypes, ConcatProperties
  <2>6. QED
    BY <2>1, <2>2, <2>4, <2>5 DEF InFront
<1>4. ASSUME UNCHANGED list PROVE InFront'
  BY <1>4 DEF InFront, list
<1>5. CASE \E n \in Ids : Answer(n) \/ Lose(n) \/ Tell(n) \/ Choose(n)
  BY <1>4, <1>5 DEF Answer, Lose, Tell, Choose
<1>6. CASE PollFinds \/ PollWaits \/ PollGivesUp
  BY <1>4, <1>6 DEF PollFinds, PollWaits, PollGivesUp
<1>7. CASE DownloadShows \/ DownloadHides \/ Elapse \/ UNCHANGED vars
  BY <1>4, <1>7 DEF DownloadShows, DownloadHides, Elapse, vars
<1>8. QED
  BY <1>1, <1>2, <1>3, <1>5, <1>6, <1>7 DEF Next, Timers

(* A row of recordFileTableWidget plays and downloads, by m_acFilePath and *)
(* carSeletionComboBox, the recording that it names or none: none only if  *)
(* SearchBtnClicked came while the table was about to be filled, another   *)
(* recorder's only if the box was turned or earlier answers came.          *)
THEOREM RowsPlay == Spec => []RowsPlayWhatTheyShow
<1>1. Init => OneTable /\ SameSearch /\ InFront
  BY EmptySeq DEF Init, OneTable, SameSearch, Holds, InFront
<1>2. TypeOK /\ OneTable /\ [Next]_vars => OneTable'
  BY OneTableStep
<1>3. TypeOK /\ SameSearch /\ [Next]_vars => SameSearch'
  BY SameSearchStep
<1>4. TypeOK /\ InFront /\ [Next]_vars => InFront'
  BY InFrontStep
<1>5. TypeOK /\ OneTable /\ SameSearch /\ InFront => RowsPlayWhatTheyShow
  <2>1. SUFFICES ASSUME TypeOK, OneTable, SameSearch, InFront PROVE RowsPlayWhatTheyShow
    OBVIOUS
  <2>2. fresh => Len(paths) = Len(table)
    BY <2>1 DEF OneTable
  <2>3. ASSUME NEW i \in DOMAIN paths
        PROVE  /\ i \in DOMAIN table /\ paths[i] = table[i]
               /\ clean /\ chosen = asked[searches] => RowPlays(i) = RowShows(i)
    <3>1. DOMAIN paths = 1 .. Len(paths) /\ DOMAIN table = 1 .. Len(table)
          /\ Len(paths) \in Nat /\ Len(table) \in Nat
      BY <2>1, ListTypes, LenProperties
    <3>2. i \in DOMAIN table /\ paths[i] = table[i]
      BY <2>1, <3>1 DEF InFront
    <3>3. clean => table[i].search = searches
      <4>1. SUFFICES ASSUME clean PROVE table[i].search = searches
        OBVIOUS
      <4>2. table \in Seq(PacketsOf({searches}))
        BY <2>1, <4>1 DEF SameSearch, Holds
      <4>3. table[i] \in PacketsOf({searches})
        BY <3>2, <4>2, ElementOfSeq
      <4>4. QED
        BY <4>3 DEF PacketsOf
    <3>4. QED
      BY <3>2, <3>3 DEF RowPlays, RowShows
  <2>4. QED
    BY <2>2, <2>3 DEF RowsPlayWhatTheyShow
<1>6. QED
  BY <1>1, <1>2, <1>3, <1>4, <1>5, TypeCorrect, PTL DEF Spec

-----------------------------------------------------------------------------
(* A short answer.                                                         *)

(* No recording is named in the packets of q.                              *)
Silent(q) == \A i \in 1 .. Len(q) : q[i] = Report

(* Nothing but reports follows the last packet of an answer.               *)
Closed(q) == \A i, j \in 1 .. Len(q) : i < j /\ q[i].last => q[j] = Report

(* The answer begins with part 1, and a packet right behind another of the *)
(* answer is the next part.                                                *)
Stepwise(q) ==
    \A i \in 1 .. Len(q) : q[i] # Report =>
        /\ (\A j \in 1 .. i - 1 : q[j] = Report) => q[i].part = 1
        /\ i > 1 /\ q[i - 1] # Report => q[i].part = q[i - 1].part + 1

(* No other recorder answers, and n has one search to answer at most.      *)
Alone(n) ==
    /\ \A m \in Ids \ {n} : owed[m] = <<>> /\ Silent(queue[m])
    /\ owed[n] # <<>> => Len(owed[n]) = 1
    /\ Closed(queue[n])
    /\ \A i \in 1 .. Len(queue[n]) : queue[n][i].last => owed[n] = <<>>

(* Before its first packet is taken: the packets are in order.             *)
Unread(n) ==
    buf = <<>> =>
        /\ prompt = 0 /\ table = <<>> /\ fill = OFF
        /\ Stepwise(queue[n])
        /\ owed[n] # <<>> =>
             /\ owed[n][1].sent = 0 <=> Silent(queue[n])
             /\ queue[n] # <<>> /\ queue[n][Len(queue[n])] # Report =>
                  queue[n][Len(queue[n])].part = owed[n][1].sent

(* All of the answer has been taken, and the table is filled from it.      *)
AllTaken(n) ==
    /\ Len(buf) = prompt /\ Silent(queue[n])
    /\ table # <<>> => table = buf

(* The second packet is the next to be taken, before the table is filled.  *)
SecondNext(n) ==
    /\ Len(buf) = 1 /\ prompt = 2
    /\ queue[n] # <<>> /\ Head(queue[n]) # Report /\ Silent(Tail(queue[n]))
    /\ table = <<>>
    /\ fill = OFF \/ fill > pmsg

Shown(n) ==
    near /\ prompt > 0 /\ ~stalled => owed[n] = <<>> /\ (AllTaken(n) \/ SecondNext(n))

InLine(n) == Alone(n) /\ Unread(n) /\ Shown(n)

OneAnswers == clean /\ fresh => \E n \in Ids : InLine(n)

Sent == Packets \cup {Report}

LEMMA QueueTypes ==
    ASSUME TypeOK, NEW n \in Ids
    PROVE  /\ queue[n] \in Seq(Sent) /\ buf \in Seq(Packets)
           /\ owed[n] \in Seq([search : 1 .. MaxSearches, sent : 0 .. MaxParts - 1])
           /\ Len(buf) \in Nat /\ Len(queue[n]) \in Nat /\ prompt \in Nat
<1>1. queue[n] \in Seq(Sent) /\ buf \in Seq(Packets) /\ prompt \in Nat
  BY ConstantTypes DEF TypeOK, Sent
<1>2. QED
  BY <1>1, LenProperties DEF TypeOK

LEMMA SilentQueue ==
    ASSUME TypeOK, NEW n \in Ids
    PROVE  Silent(queue[n]) <=> NoRecordings(n)
<1>1. DOMAIN queue[n] = 1 .. Len(queue[n])
  BY QueueTypes, LenProperties
<1>2. QED
  BY <1>1 DEF Silent, NoRecordings

LEMMA ReportIsNotLast == ~Report.last
  BY DEF Report

(* What a packet put at the end of a queue leaves as it is.                *)
LEMMA AfterAppend ==
    ASSUME NEW q \in Seq(Sent), NEW p \in Sent
    PROVE  /\ Len(Append(q, p)) = Len(q) + 1 /\ Append(q, p)[Len(q) + 1] = p
           /\ \A i \in 1 .. Len(q) : Append(q, p)[i] = q[i]
           /\ Append(q, p) # <<>> /\ Len(q) \in Nat
           /\ Silent(Append(q, p)) <=> Silent(q) /\ p = Report
           /\ Closed(Append(q, p)) <=>
                Closed(q) /\ ((\E i \in 1 .. Len(q) : q[i].last) => p = Report)
           /\ q # <<>> => /\ Head(Append(q, p)) = Head(q)
                          /\ Tail(Append(q, p)) = Append(Tail(q), p)
<1> DEFINE r == Append(q, p)
           k == Len(q)
<1>1. /\ Len(r) = k + 1 /\ r[k + 1] = p /\ k \in Nat
      /\ \A i \in 1 .. k : r[i] = q[i]
  BY AppendProperties, LenProperties
<1>2. r # <<>>
  BY AppendProperties
<1>3. q # <<>> => Head(r) = Head(q) /\ Tail(r) = Append(Tail(q), p)
  BY SMTT(60), HeadTailProperties, AppendProperties, EmptySeq
<1> HIDE DEF r, k
<1>4. \A i \in 1 .. k + 1 : i \in 1 .. k \/ i = k + 1
  BY <1>1
<1>5. Silent(r) <=> Silent(q) /\ p = Report
  BY <1>1, <1>4 DEF Silent, k
<1>6. Closed(r) <=> Closed(q) /\ ((\E i \in 1 .. k : q[i].last) => p = Report)
  <2>1. ASSUME Closed(r) PROVE Closed(q) /\ ((\E i \in 1 .. k : q[i].last) => p = Report)
    <3>1. Closed(q)
      BY <1>1, <2>1 DEF Closed, k
    <3>2. ASSUME NEW i \in 1 .. k, q[i].last PROVE p = Report
      <4>1. i \in 1 .. Len(r) /\ k + 1 \in 1 .. Len(r) /\ i < k + 1 /\ r[i] = q[i]
        BY <1>1
      <4>2. QED
        BY <1>1, <2>1, <3>2, <4>1 DEF Closed
    <3>3. QED
      BY <3>1, <3>2
  <2>2. ASSUME Closed(q), (\E i \in 1 .. k : q[i].last) => p = Report PROVE Closed(r)
    <3>1. SUFFICES ASSUME NEW i \in 1 .. k + 1, NEW j \in 1 .. k + 1, i < j, r[i].last
                   PROVE  r[j] = Report
      BY <1>1 DEF Closed
    <3>2. i \in 1 .. k /\ r[i] = q[i]
      BY <1>1, <3>1
    <3>3. CASE j \in 1 .. k
      BY <1>1, <2>2, <3>1, <3>2, <3>3 DEF Closed, k
    <3>4. CASE j = k + 1
      BY <1>1, <2>2, <3>1, <3>2, <3>4
    <3>5. QED
      BY <1>4, <3>3, <3>4
  <2>3. QED
    BY <2>1, <2>2
<1>7. QED
  BY <1>1, <1>2, <1>3, <1>5, <1>6 DEF r, k

(* What the taking of the first packet leaves.                             *)
LEMMA AfterTail ==
    ASSUME NEW q \in Seq(Sent), q # <<>>
    PROVE  /\ Tail(q) \in Seq(Sent) /\ Len(Tail(q)) = Len(q) - 1 /\ Len(q) \in Nat /\ Len(q) > 0
           /\ Head(q) = q[1] /\ \A i \in 1 .. Len(q) - 1 : Tail(q)[i] = q[i + 1]
           /\ Silent(q) <=> Silent(Tail(q)) /\ Head(q) = Report
           /\ Closed(q) => Closed(Tail(q)) /\ (Head(q).last => Silent(Tail(q)))
           /\ Stepwise(q) /\ Head(q) = Report => Stepwise(Tail(q))
<1> DEFINE r == Tail(q)
           k == Len(q)
<1>1. /\ r \in Seq(Sent) /\ Len(r) = k - 1 /\ k \in Nat /\ k > 0 /\ Head(q) = q[1]
      /\ \A i \in 1 .. k - 1 : r[i] = q[i + 1]
  BY HeadTailProperties, LenProperties, EmptySeq
<1> HIDE DEF r, k
<1>2. /\ \A i \in 1 .. k - 1 : i + 1 \in 1 .. k
      /\ \A i \in 1 .. k : i = 1 \/ (i - 1 \in 1 .. k - 1 /\ i = (i - 1) + 1)
      /\ 1 \in 1 .. k
  BY <1>1
<1>3. Silent(q) <=> Silent(r) /\ Head(q) = Report
  <2>1. Silent(q) => Silent(r) /\ Head(q) = Report
    BY <1>1, <1>2 DEF Silent, k
  <2>2. ASSUME Silent(r), Head(q) = Report, NEW i \in 1 .. k PROVE q[i] = Report
    <3>1. CASE i = 1
      BY <1>1, <2>2, <3>1
    <3>2. CASE i - 1 \in 1 .. k - 1
      <4>1. r[i - 1] = Report
        BY <1>1, <2>2, <3>2 DEF Silent
      <4>2. r[i - 1] = q[(i - 1) + 1] /\ (i - 1) + 1 = i
        BY <1>1, <3>2
      <4>3. QED
        BY <4>1, <4>2
    <3>3. QED
      BY <1>2, <3>1, <3>2
  <2>3. QED
    BY <2>1, <2>2 DEF Silent, k
<1>4. Closed(q) => Closed(r) /\ (Head(q).last => Silent(r))
  <2>1. SUFFICES ASSUME Closed(q) PROVE Closed(r) /\ (Head(q).last => Silent(r))
    OBVIOUS
  <2>2. ASSUME NEW i \in 1 .. k - 1, NEW j \in 1 .. k - 1, i < j, r[i].last
        PROVE  r[j] = Report
    <3>1. i + 1 < j + 1 /\ i + 1 \in 1 .. k /\ j + 1 \in 1 .. k
      BY <1>1, <2>2
    <3>2. r[i] = q[i + 1] /\ r[j] = q[j + 1]
      BY <1>1
    <3>3. QED
      BY <2>1, <2>2, <3>1, <3>2 DEF Closed, k
  <2>3. ASSUME q[1].last, NEW j \in 1 .. k - 1 PROVE r[j] = Report
    <3>1. 1 < j + 1 /\ 1 \in 1 .. k /\ j + 1 \in 1 .. k /\ r[j] = q[j + 1]
      BY <1>1
    <3>2. QED
      BY <2>1, <2>3, <3>1 DEF Closed, k
  <2>4. QED
    BY <1>1, <2>2, <2>3 DEF Closed, Silent
<1>5. Stepwise(q) /\ Head(q) = Report => Stepwise(r)
  <2>1. SUFFICES ASSUME Stepwise(q), q[1] = Report, NEW i \in 1 .. k - 1, r[i] # Report
                 PROVE  /\ (\A j \in 1 .. i - 1 : r[j] = Report) => r[i].part = 1
                        /\ i > 1 /\ r[i - 1] # Report => r[i].part = r[i - 1].part + 1
    BY <1>1 DEF Stepwise
  <2>2. i + 1 \in 1 .. k /\ r[i] = q[i + 1] /\ q[i + 1] # Report
    BY <1>1, <2>1
  <2>3. /\ (\A j \in 1 .. i : q[j] = Report) => q[i + 1].part = 1
        /\ q[i] # Report => q[i + 1].part = q[i].part + 1
    <3> DEFINE c == i + 1
    <3>1. c \in 1 .. k /\ q[c] # Report /\ c > 1 /\ c - 1 = i
      BY <2>1, <2>2
    <3> HIDE DEF c
    <3>2. /\ (\A j \in 1 .. c - 1 : q[j] = Report) => q[c].part = 1
          /\ c > 1 /\ q[c - 1] # Report => q[c].part = q[c - 1].part + 1
      BY <2>1, <3>1 DEF Stepwise, k
    <3>3. QED
      BY <3>1, <3>2 DEF c
  <2>4. ASSUME \A j \in 1 .. i - 1 : r[j] = Report, NEW j \in 1 .. i PROVE q[j] = Report
    <3>1. CASE j = 1
      BY <2>1, <3>1
    <3>2. CASE j > 1
      <4>1. j - 1 \in 1 .. i - 1 /\ j - 1 \in 1 .. k - 1 /\ (j - 1) + 1 = j
        BY <1>1, <2>1, <3>2
      <4>2. r[j - 1] = q[j]
        BY <1>1, <4>1
      <4>3. QED
        BY <2>4, <4>1, <4>2
    <3>3. QED
      BY <3>1, <3>2
  <2>5. i > 1 => r[i - 1] = q[i]
    BY <1>1, <2>1
  <2>6. QED
    BY <2>2, <2>3, <2>4, <2>5
<1>6. QED
  BY <1>1, <1>3, <1>4, <1>5 DEF r, k

-----------------------------------------------------------------------------
(* The end that is near is the end that Complete finds.                    *)
LEMMA EndOfAnswer ==
    ASSUME TypeOK, NEW n \in Ids, Alone(n), EndIsNear
    PROVE  \E i \in 1 .. Len(queue[n]) :
             /\ i = 1 \/ i = 2
             /\ queue[n][i].last /\ Complete = queue[n][i].part /\ owed[n] = <<>>
             /\ \A j \in 1 .. Len(queue[n]) : j > i => queue[n][j] = Report
             /\ \A j \in 1 .. Len(queue[n]) : j < i => ~queue[n][j].last
<1> DEFINE ends == {p \in UNION {ToSet(queue[h]) : h \in Ids} : p.search = searches /\ p.last}
           e == CHOOSE p \in ends : TRUE
<1>1. \A m \in Ids : DOMAIN queue[m] = 1 .. Len(queue[m])
  BY QueueTypes, LenProperties
<1>2. \A m \in Ids : \A i \in DOMAIN queue[m] : queue[m][i].last => m = n
  BY <1>1, ReportIsNotLast DEF Alone, Silent
<1>3. PICK i \in DOMAIN queue[n] \cap {1, 2} : queue[n][i].search = searches /\ queue[n][i].last
  BY <1>2 DEF EndIsNear
<1>4. i \in 1 .. Len(queue[n]) /\ (i = 1 \/ i = 2)
  BY <1>1, <1>3
<1>5. /\ \A j \in 1 .. Len(queue[n]) : j > i => queue[n][j] = Report
      /\ \A j \in 1 .. Len(queue[n]) : j < i => ~queue[n][j].last
      /\ owed[n] = <<>>
  <2>1. queue[n][i] # Report
    BY <1>3, ReportIsNotLast
  <2>2. QED
    BY <1>3, <1>4, <2>1 DEF Alone, Closed
<1>6. queue[n][i] \in ends
  BY <1>3 DEF ToSet
<1>7. Complete = e.part
  BY <1>6 DEF Complete
<1>8. e \in ends
  BY <1>6
<1> HIDE DEF e
<1>9. PICK d \in Ids : e \in ToSet(queue[d]) /\ e.last
  BY <1>8
<1>10. PICK j \in DOMAIN queue[d] : e = queue[d][j]
  BY <1>9 DEF ToSet
<1>11. d = n
  BY <1>2, <1>9, <1>10
<1>12. j \in 1 .. Len(queue[n])
  BY <1>1, <1>10, <1>11
<1>13. j = i
  <2>1. ~(j > i)
    BY <1>5, <1>9, <1>10, <1>11, <1>12, ReportIsNotLast
  <2>2. ~(j < i)
    BY <1>5, <1>9, <1>10, <1>11, <1>12
  <2>3. i \in Nat /\ j \in Nat
    BY <1>4, <1>12
  <2>4. QED
    BY <2>1, <2>2, <2>3
<1>14. QED
  BY <1>3, <1>4, <1>5, <1>7, <1>10, <1>11, <1>13

(* The other packets of the answer.                                        *)
LEMMA AnswerInLine ==
    ASSUME TypeOK, NEW n \in Ids, InLine(n), NEW m \in Ids, Answer(m)
    PROVE  InLine(n)'
<1> DEFINE o == Head(owed[n])
           q == queue[n]
           k == Len(queue[n])
<1>1. m = n /\ owed[n] # <<>>
  BY DEF InLine, Alone, Answer
<1>2. /\ owed[n] \in Seq([search : 1 .. MaxSearches, sent : 0 .. MaxParts - 1])
      /\ Len(owed[n]) = 1 /\ o = owed[n][1]
      /\ o \in [search : 1 .. MaxSearches, sent : 0 .. MaxParts - 1]
  <2>1. owed[n] \in Seq([search : 1 .. MaxSearches, sent : 0 .. MaxParts - 1])
    BY DEF TypeOK
  <2>2. Len(owed[n]) = 1
    BY <1>1 DEF InLine, Alone
  <2> DEFINE S == [search : 1 .. MaxSearches, sent : 0 .. MaxParts - 1]
  <2>3. owed[n] \in Seq(S)
    BY <2>1
  <2> HIDE DEF S
  <2>4. Head(owed[n]) \in S /\ Head(owed[n]) = owed[n][1]
    BY <1>1, <2>3, HeadTailProperties
  <2>5. QED
    BY <2>1, <2>2, <2>4 DEF S
<1>3. PICK last \in IF o.sent + 1 = MaxParts THEN {TRUE} ELSE BOOLEAN :
        /\ queue' = [queue EXCEPT ![n] =
             Append(@, [search |-> o.search, part |-> o.sent + 1, last |-> last])]
        /\ \/ last /\ owed' = [owed EXCEPT ![n] = Tail(@)]
           \/ ~last /\ owed' = [owed EXCEPT ![n][1].sent = @ + 1]
  BY <1>1 DEF Answer
<1> DEFINE p == [search |-> o.search, part |-> o.sent + 1, last |-> last]
<1>4. /\ buf' = buf /\ table' = table /\ prompt' = prompt /\ fill' = fill
      /\ pmsg' = pmsg /\ stalled' = stalled /\ near' = near
  BY DEF Answer, list, timers, history, answer
<1>5. /\ p \in Sent /\ p # Report /\ p.last = last /\ p.part = o.sent + 1
      /\ last \in BOOLEAN /\ o.sent \in Nat
  <2>1. o.search \in 1 .. MaxSearches /\ o.sent \in 0 .. MaxParts - 1 /\ last \in BOOLEAN
    BY <1>2, <1>3
  <2>2. o.sent + 1 \in 1 .. MaxParts /\ o.sent \in Nat
    BY <2>1, ConstantTypes
  <2>3. p \in Packets
    BY <2>1, <2>2 DEF Packets
  <2>4. p # Report
    <3>1. p.search # 0 /\ Report.search = 0
      BY <2>1 DEF Report
    <3>2. QED
      BY <3>1
  <2>5. QED
    BY <2>1, <2>2, <2>3, <2>4 DEF Sent
<1>6. queue'[n] = Append(q, p) /\ \A j \in Ids \ {n} : queue'[j] = queue[j]
  BY <1>3 DEF TypeOK
<1>7. q \in Seq(Sent)
  BY QueueTypes
<1> HIDE DEF p
<1>8. /\ Len(Append(q, p)) = k + 1 /\ Append(q, p)[k + 1] = p /\ k \in Nat
      /\ \A i \in 1 .. k : Append(q, p)[i] = q[i]
      /\ Append(q, p) # <<>> /\ ~Silent(Append(q, p))
  BY <1>5, <1>7, AfterAppend
<1>9. \A i \in 1 .. k : ~q[i].last
  BY <1>1 DEF InLine, Alone
<1>10. Closed(Append(q, p))
  BY <1>5, <1>7, <1>9, AfterAppend DEF InLine, Alone
<1>11. last => owed'[n] = <<>>
  <2> DEFINE S == [search : 1 .. MaxSearches, sent : 0 .. MaxParts - 1]
  <2>a. owed[n] \in Seq(S)
    BY <1>2
  <2> HIDE DEF S
  <2>b. Tail(owed[n]) \in Seq(S) /\ Len(Tail(owed[n])) = 0
    BY <1>1, <1>2, <2>a, HeadTailProperties
  <2>1. Tail(owed[n]) = <<>>
    BY <2>b, EmptySeq
  <2>2. QED
    BY <1>3, <2>1 DEF TypeOK
<1>12. ~last => Len(owed'[n]) = 1 /\ owed'[n][1].sent = o.sent + 1
  <2>1. SUFFICES ASSUME ~last PROVE Len(owed'[n]) = 1 /\ owed'[n][1].sent = o.sent + 1
    OBVIOUS
  <2>2. owed'[n] = [owed[n] EXCEPT ![1] = [owed[n][1] EXCEPT !.sent = owed[n][1].sent + 1]]
    BY <1>3, <2>1 DEF TypeOK
  <2>3. Len(owed'[n]) = 1 /\ owed'[n][1] = [owed[n][1] EXCEPT !.sent = owed[n][1].sent + 1]
    BY <1>2, <2>2
  <2>4. QED
    BY <1>2, <2>3
<1>13. \A j \in Ids \ {n} : owed'[j] = owed[j]
  BY <1>3 DEF TypeOK
<1> HIDE DEF o, q, k
<1>14. Alone(n)'
  <2>1. owed'[n] # <<>> => ~last
    BY <1>11
  <2>2. \A i \in 1 .. k + 1 : Append(q, p)[i].last => owed'[n] = <<>>
    <3>1. SUFFICES ASSUME NEW i \in 1 .. k + 1, Append(q, p)[i].last PROVE owed'[n] = <<>>
      OBVIOUS
    <3>2. i \in 1 .. k \/ i = k + 1
      BY <1>8
    <3>3. i = k + 1
      BY <1>8, <1>9, <3>1, <3>2
    <3>4. QED
      BY <1>5, <1>8, <1>11, <3>1, <3>3
  <2>3. QED
    BY <1>6, <1>8, <1>10, <1>12, <1>13, <2>1, <2>2 DEF InLine, Alone
<1>15. Unread(n)'
  <2>1. SUFFICES ASSUME buf = <<>> PROVE Unread(n)'
    BY <1>4 DEF Unread
  <2>2. /\ prompt = 0 /\ table = <<>> /\ fill = OFF
        /\ Stepwise(q) /\ (o.sent = 0 <=> Silent(q))
        /\ q # <<>> /\ q[k] # Report => q[k].part = o.sent
    BY <1>1, <1>2, <2>1 DEF InLine, Unread, q, k
  <2> DEFINE r == Append(q, p)
  <2>a. /\ Len(r) = k + 1 /\ r[k + 1] = p /\ k \in Nat /\ \A i \in 1 .. k : r[i] = q[i]
    BY <1>8
  <2>3. Stepwise(r)
    <3> HIDE DEF r
    <3>1. SUFFICES ASSUME NEW i \in 1 .. k + 1, r[i] # Report
                   PROVE  /\ (\A j \in 1 .. i - 1 : r[j] = Report) => r[i].part = 1
                          /\ i > 1 /\ r[i - 1] # Report => r[i].part = r[i - 1].part + 1
      BY <2>a DEF Stepwise
    <3>2. CASE i \in 1 .. k
      <4>1. /\ r[i] = q[i] /\ \A j \in 1 .. i - 1 : r[j] = q[j]
            /\ i > 1 => r[i - 1] = q[i - 1]
        BY <2>a, <3>2
      <4>2. /\ (\A j \in 1 .. i - 1 : q[j] = Report) => q[i].part = 1
            /\ i > 1 /\ q[i - 1] # Report => q[i].part = q[i - 1].part + 1
        BY <2>2, <3>1, <3>2, <4>1 DEF Stepwise, q, k
      <4>3. (\A j \in 1 .. i - 1 : r[j] = Report) => \A j \in 1 .. i - 1 : q[j] = Report
        BY <4>1
      <4>4. QED
        BY <4>1, <4>2, <4>3
    <3>3. CASE i = k + 1
      <4>1. r[i] = p /\ i - 1 = k
        BY <2>a, <3>3
      <4>2. (\A j \in 1 .. k : r[j] = Report) => p.part = 1
        <5>1. (\A j \in 1 .. k : r[j] = Report) => Silent(q)
          BY <2>a DEF Silent, q, k
        <5>2. QED
          BY <1>5, <2>2, <5>1
      <4>3. k > 0 /\ r[k] # Report => p.part = r[k].part + 1
        <5>1. SUFFICES ASSUME k > 0, r[k] # Report PROVE p.part = r[k].part + 1
          OBVIOUS
        <5>2. r[k] = q[k] /\ q # <<>>
          BY <1>7, <2>a, <5>1, EmptySeq DEF q, k
        <5>3. QED
          BY <1>5, <2>2, <5>1, <5>2
      <4>4. QED
        BY <2>a, <3>3, <4>1, <4>2, <4>3
    <3>4. QED
      BY <2>a, <3>2, <3>3
  <2>4. ~last => owed'[n][1].sent = o.sent + 1 /\ o.sent + 1 # 0
    BY <1>5, <1>12
  <2>5. owed'[n] # <<>> =>
          /\ owed'[n][1].sent = 0 <=> Silent(Append(q, p))
          /\ Append(q, p)[Len(Append(q, p))].part = owed'[n][1].sent
    BY <1>5, <1>8, <1>11, <2>4
  <2>6. QED
    BY <1>4, <1>6, <2>2, <2>3, <2>5 DEF Unread
<1>16. Shown(n)'
  <2>1. ~(near /\ prompt > 0 /\ ~stalled)
    BY <1>1 DEF InLine, Shown
  <2>2. QED
    BY <1>4, <2>1 DEF Shown
<1>17. QED
  BY <1>14, <1>15, <1>16 DEF InLine

(* A report behind the packets of the answer.                              *)
LEMMA TellInLine ==
    ASSUME TypeOK, NEW n \in Ids, InLine(n), NEW m \in Ids, Tell(m)
    PROVE  InLine(n)'
<1>1. /\ UNCHANGED <<owed, buf, table, prompt, near, fill, pmsg, stalled>>
      /\ queue' = [queue EXCEPT ![m] = Append(queue[m], Report)]
  BY DEF Tell, list, timers, history, answer
<1>2. queue'[m] = Append(queue[m], Report) /\ \A j \in Ids \ {m} : queue'[j] = queue[j]
  BY <1>1 DEF TypeOK
<1>3. Report \in Sent
  BY DEF Sent
<1>4. \A j \in Ids \ {n} : Silent(queue'[j])
  <2>1. SUFFICES ASSUME NEW j \in Ids \ {n} PROVE Silent(queue'[j])
    OBVIOUS
  <2>2. Silent(queue[j]) /\ queue[j] \in Seq(Sent)
    BY QueueTypes DEF InLine, Alone
  <2>3. Silent(Append(queue[j], Report))
    BY <1>3, <2>2, AfterAppend
  <2>4. QED
    BY <1>2, <2>2, <2>3
<1>5. CASE m # n
  <2>1. queue'[n] = queue[n]
    BY <1>2, <1>5
  <2>2. QED
    BY <1>1, <1>4, <2>1 DEF InLine, Alone, Unread, Shown, AllTaken, SecondNext
<1>6. CASE m = n
  <2> DEFINE q == queue[n]
             r == Append(queue[n], Report)
             k == Len(queue[n])
  <2>1. q \in Seq(Sent) /\ queue'[n] = r
    BY <1>2, <1>6, QueueTypes
  <2>2. /\ Len(r) = k + 1 /\ r[k + 1] = Report /\ k \in Nat /\ r # <<>>
        /\ \A i \in 1 .. k : r[i] = q[i]
        /\ Silent(r) <=> Silent(q)
        /\ Closed(q) => Closed(r)
        /\ q # <<>> => Head(r) = Head(q) /\ Tail(r) = Append(Tail(q), Report)
    BY <1>3, <2>1, AfterAppend
  <2>3. q # <<>> /\ Silent(Tail(q)) => Silent(Append(Tail(q), Report))
    <3>1. q # <<>> => Tail(q) \in Seq(Sent)
      BY <2>1, AfterTail
    <3>2. QED
      BY <1>3, <3>1, AfterAppend
  <2> HIDE DEF q, r, k
  <2>4. \A i \in 1 .. k + 1 : i \in 1 .. k \/ i = k + 1
    BY <2>2
  <2>5. \A i \in 1 .. k + 1 : r[i].last => i \in 1 .. k /\ q[i].last
    BY <2>2, <2>4, ReportIsNotLast
  <2>6. Alone(n)'
    BY <1>1, <1>4, <2>1, <2>2, <2>5 DEF InLine, Alone, q, k
  <2>7. Stepwise(q) => Stepwise(r)
    <3>1. SUFFICES ASSUME Stepwise(q), NEW i \in 1 .. k + 1, r[i] # Report
                   PROVE  /\ (\A j \in 1 .. i - 1 : r[j] = Report) => r[i].part = 1
                          /\ i > 1 /\ r[i - 1] # Report => r[i].part = r[i - 1].part + 1
      BY <2>2 DEF Stepwise
    <3>2. i \in 1 .. k
      BY <2>2, <2>4, <3>1
    <3>3. /\ r[i] = q[i] /\ \A j \in 1 .. i - 1 : r[j] = q[j]
          /\ i > 1 => r[i - 1] = q[i - 1]
      BY <2>2, <3>2
    <3>4. /\ (\A j \in 1 .. i - 1 : q[j] = Report) => q[i].part = 1
          /\ i > 1 /\ q[i - 1] # Report => q[i].part = q[i - 1].part + 1
      BY <3>1, <3>2, <3>3 DEF Stepwise, q, k
    <3>5. (\A j \in 1 .. i - 1 : r[j] = Report) => \A j \in 1 .. i - 1 : q[j] = Report
      BY <3>3
    <3>6. QED
      BY <3>3, <3>4, <3>5
  <2>8. Unread(n)'
    BY <1>1, <2>1, <2>2, <2>7 DEF InLine, Unread, q
  <2>9. Shown(n)'
    BY <1>1, <2>1, <2>2, <2>3 DEF InLine, Shown, AllTaken, SecondNext, q
  <2>10. QED
    BY <2>6, <2>8, <2>9 DEF InLine
<1>7. QED
  BY <1>5, <1>6

(* The timer takes a packet of each recorder.                              *)
LEMMA TimerInLine ==
    ASSUME TypeOK, NEW n \in Ids, InLine(n), pmsgTimerFunc
    PROVE  InLine(n)'
<1> DEFINE q == queue[n]
           r == Tail(queue[n])
<1>1. \A d \in Ids : queue'[d] = IF queue[d] = <<>> THEN <<>> ELSE Tail(queue[d])
  BY DEF pmsgTimerFunc
<1>2. /\ owed' = owed /\ table' = table /\ fill' = fill /\ stalled' = stalled /\ pmsg' = 1
      /\ buf' = buf \o Taken
      /\ IF buf = <<>> /\ Taken # <<>>
         THEN prompt' = Complete /\ near' = EndIsNear
         ELSE prompt' = prompt /\ near' = near
  BY DEF pmsgTimerFunc, pmsgCtrl, recordQueryCtrl, answer
<1>3. queue \in [Ids -> Seq(Packets \cup {Report})]
  BY DEF TypeOK
<1>4. ASSUME NEW d \in Ids \ {n}
      PROVE  d \notin Ready /\ owed'[d] = <<>> /\ Silent(queue'[d])
  <2>1. owed[d] = <<>> /\ Silent(queue[d]) /\ queue[d] \in Seq(Sent)
    BY QueueTypes DEF InLine, Alone
  <2>2. CASE queue[d] = <<>>
    BY <1>1, <1>2, <2>1, <2>2 DEF Ready
  <2>3. CASE queue[d] # <<>>
    <3>1. Silent(Tail(queue[d])) /\ Head(queue[d]) = Report
      BY <2>1, <2>3, AfterTail
    <3>2. QED
      BY <1>1, <1>2, <2>1, <2>3, <3>1 DEF Ready
  <2>4. QED
    BY <2>2, <2>3
<1>5. q \in Seq(Sent)
  BY QueueTypes
<1>6. ASSUME queue[n] = <<>> \/ Head(queue[n]) = Report
      PROVE  buf' = buf /\ prompt' = prompt /\ near' = near
  <2>1. Ready = {}
    BY <1>4, <1>6 DEF Ready
  <2>2. Taken = <<>>
    BY <1>3, <2>1, TakenTypes
  <2>3. buf \o <<>> = buf
    BY QueueTypes, ConcatEmptySeq
  <2>4. QED
    BY <1>2, <2>2, <2>3
<1>7. CASE queue[n] = <<>>
  <2>1. queue'[n] = queue[n] /\ owed'[n] = owed[n]
    BY <1>1, <1>2, <1>7
  <2>2. QED
    BY <1>2, <1>4, <1>6, <1>7, <2>1 DEF InLine, Alone, Unread, Shown, AllTaken, SecondNext
<1>8. CASE queue[n] # <<>>
  <2>1. queue'[n] = r /\ owed'[n] = owed[n]
    BY <1>1, <1>2, <1>8
  <2>2. /\ r \in Seq(Sent) /\ Len(r) = Len(q) - 1 /\ Len(q) \in Nat /\ Len(q) > 0
        /\ Head(q) = q[1] /\ \A i \in 1 .. Len(q) - 1 : r[i] = q[i + 1]
        /\ Silent(q) <=> Silent(r) /\ Head(q) = Report
        /\ Closed(q) => Closed(r) /\ (Head(q).last => Silent(r))
        /\ Stepwise(q) /\ Head(q) = Report => Stepwise(r)
    BY <1>5, <1>8, AfterTail
  <2> HIDE DEF q, r
  <2>3. Alone(n)'
    <3>1. \A i \in 1 .. Len(r) : i + 1 \in 1 .. Len(q) /\ r[i] = q[i + 1]
      BY <2>2
    <3>2. /\ owed[n] # <<>> => Len(owed[n]) = 1
          /\ Closed(q)
          /\ \A i \in 1 .. Len(q) : q[i].last => owed[n] = <<>>
      BY DEF InLine, Alone, q
    <3>3. Closed(r) /\ \A i \in 1 .. Len(r) : r[i].last => owed[n] = <<>>
      BY <2>2, <3>1, <3>2
    <3>4. QED
      BY <1>4, <2>1, <3>2, <3>3 DEF Alone
  <2>4. CASE Head(q) = Report
    <3>1. buf' = buf /\ prompt' = prompt /\ near' = near
      BY <1>6, <2>4 DEF q
    <3>2. r # <<>> => Len(r) \in 1 .. Len(q) - 1 /\ r[Len(r)] = q[Len(q)]
      <4>1. r # <<>> => Len(r) > 0
        BY <2>2, EmptySeq
      <4>2. Len(r) > 0 => Len(r) \in 1 .. Len(q) - 1 /\ Len(r) + 1 = Len(q)
        BY <2>2
      <4>3. QED
        BY <2>2, <4>1, <4>2
    <3>3. Unread(n)'
      <4>1. SUFFICES ASSUME buf = <<>> PROVE Unread(n)'
        BY <3>1 DEF Unread
      <4>2. /\ prompt = 0 /\ table = <<>> /\ fill = OFF /\ Stepwise(q)
            /\ owed[n] # <<>> =>
                 /\ owed[n][1].sent = 0 <=> Silent(q)
                 /\ q # <<>> /\ q[Len(q)] # Report => q[Len(q)].part = owed[n][1].sent
        BY <4>1 DEF InLine, Unread, q
      <4>3. q # <<>>
        BY <1>8 DEF q
      <4>4. QED
        BY <1>2, <2>1, <2>2, <2>4, <3>1, <3>2, <4>2, <4>3 DEF Unread
    <3>4. Shown(n)'
      <4>1. SUFFICES ASSUME near, prompt > 0, ~stalled
                     PROVE  owed[n] = <<>> /\ AllTaken(n)'
        BY <1>2, <2>1, <3>1 DEF Shown
      <4>2. ~SecondNext(n)
        BY <2>4 DEF SecondNext, q
      <4>3. owed[n] = <<>> /\ AllTaken(n)
        BY <4>1, <4>2 DEF InLine, Shown
      <4>4. QED
        BY <1>2, <2>1, <2>2, <3>1, <4>3 DEF AllTaken, q
    <3>5. QED
      BY <2>3, <3>3, <3>4 DEF InLine
  <2>5. CASE Head(q) # Report
    <3>1. Ready = {n}
      BY <1>4, <1>8, <2>5 DEF Ready, q
    <3>2. Taken = <<Head(q)>>
      BY <1>3, <3>1, TakenTypes DEF q
    <3>3. Head(q) \in Packets /\ buf \in Seq(Packets) /\ Len(buf) \in Nat
      <4>1. 1 \in 1 .. Len(q)
        BY <2>2
      <4>2. q[1] \in Sent
        BY <1>5, <4>1, ElementOfSeq, LenProperties DEF q
      <4>3. QED
        BY <2>2, <2>5, <4>2, QueueTypes DEF Sent
    <3>4. Len(buf') = Len(buf) + 1 /\ buf' # <<>>
      <4>1. buf' = buf \o <<Head(q)>>
        BY <1>2, <3>2
      <4>2. buf \o <<Head(q)>> = Append(buf, Head(q))
        BY <3>3
      <4>3. QED
        BY <3>3, <4>1, <4>2, AppendProperties
    <3>5. Unread(n)'
      BY <3>4 DEF Unread
    <3>6. CASE buf = <<>>
      <4>1. prompt' = Complete /\ near' = EndIsNear
        BY <1>2, <3>2, <3>6
      <4>2. table = <<>> /\ fill = OFF /\ Stepwise(q)
        BY <3>6 DEF InLine, Unread, q
      <4>3. Len(buf) = 0
        BY <3>6
      <4>4. SUFFICES ASSUME EndIsNear PROVE owed[n] = <<>> /\ (AllTaken(n) \/ SecondNext(n))'
        BY <2>1, <2>3, <3>5, <4>1 DEF Shown, InLine
      <4>5. PICK i \in 1 .. Len(q) :
               /\ i = 1 \/ i = 2
               /\ q[i].last /\ Complete = q[i].part /\ owed[n] = <<>>
               /\ \A j \in 1 .. Len(q) : j > i => q[j] = Report
        <5>1. Alone(n)
          BY DEF InLine
        <5>2. QED
          BY <4>4, <5>1, EndOfAnswer DEF q
      <4>6. q[1].part = 1 /\ (i = 2 => q[2].part = 2)
        <5>1. 1 \in 1 .. Len(q) /\ q[1] # Report
          BY <2>2, <2>5
        <5>2. q[1].part = 1
          BY <4>2, <5>1 DEF Stepwise
        <5>3. ASSUME i = 2 PROVE q[2].part = 2
          <6>1. 2 \in 1 .. Len(q) /\ q[2] # Report /\ q[2 - 1] = q[1]
            BY <4>5, <5>3, ReportIsNotLast
          <6>2. q[2].part = q[2 - 1].part + 1
            BY <4>2, <5>1, <6>1 DEF Stepwise
          <6>3. QED
            BY <5>2, <6>1, <6>2
        <5>4. QED
          BY <5>2, <5>3
      <4>7. CASE i = 1
        <5>1. Silent(r)
          BY <2>2, <4>5, <4>7 DEF Silent
        <5>2. AllTaken(n)'
          BY <1>2, <2>1, <3>4, <4>1, <4>2, <4>3, <4>5, <4>6, <4>7, <5>1 DEF AllTaken
        <5>3. QED
          BY <4>5, <5>2
      <4>8. CASE i = 2
        <5>1. Len(r) > 0 /\ r[1] = q[2] /\ r[1] # Report
          <6>1. 1 \in 1 .. Len(q) - 1
            BY <2>2, <4>5, <4>8
          <6>2. QED
            BY <2>2, <4>5, <4>8, <6>1, ReportIsNotLast
        <5>2. r # <<>>
          BY <5>1, EmptySeq
        <5>3. /\ Head(r) = r[1] /\ Len(Tail(r)) = Len(r) - 1
              /\ \A j \in 1 .. Len(r) - 1 : Tail(r)[j] = r[j + 1]
          BY <2>2, <5>2, AfterTail
        <5>4. Silent(Tail(r))
          <6>1. SUFFICES ASSUME NEW j \in 1 .. Len(r) - 1 PROVE Tail(r)[j] = Report
            BY <5>3 DEF Silent
          <6>2. j + 1 \in 1 .. Len(q) - 1 /\ (j + 1) + 1 \in 1 .. Len(q) /\ (j + 1) + 1 > i
            BY <2>2, <4>8, <6>1
          <6>3. Tail(r)[j] = r[j + 1] /\ r[j + 1] = q[(j + 1) + 1]
            BY <2>2, <5>3, <6>1, <6>2
          <6>4. QED
            BY <4>5, <6>2, <6>3
        <5>5. SecondNext(n)'
          BY <1>2, <2>1, <3>4, <4>1, <4>2, <4>3, <4>5, <4>6, <4>8, <5>1, <5>2, <5>3, <5>4
             DEF SecondNext
        <5>6. QED
          BY <4>5, <5>5
      <4>9. QED
        BY <4>5, <4>7, <4>8
    <3>7. CASE buf # <<>>
      <4>1. prompt' = prompt /\ near' = near
        BY <1>2, <3>7
      <4>2. SUFFICES ASSUME near, prompt > 0, ~stalled
                     PROVE  owed[n] = <<>> /\ AllTaken(n)'
        BY <1>2, <2>1, <2>3, <3>5, <4>1 DEF Shown, InLine
      <4>3. ~AllTaken(n)
        <5>1. ~Silent(q)
          BY <2>2, <2>5
        <5>2. QED
          BY <5>1 DEF AllTaken, q
      <4>4. owed[n] = <<>> /\ SecondNext(n)
        BY <4>2, <4>3 DEF InLine, Shown
      <4>5. AllTaken(n)'
        BY <1>2, <2>1, <3>4, <4>1, <4>4 DEF AllTaken, SecondNext, r
      <4>6. QED
        BY <4>4, <4>5
    <3>8. QED
      BY <3>6, <3>7
  <2>6. QED
    BY <2>4, <2>5
<1>9. QED
  BY <1>7, <1>8

(* A search begins with nothing in the queues that names a recording.      *)
LEMMA SearchInLine ==
    ASSUME TypeOK, NEW n \in Ids, Search(n), clean', fresh'
    PROVE  InLine(n)'
<1> USE DEF OFF
<1>1. \A d \in Ids : owed[d] = <<>> /\ Silent(queue[d])
  BY SilentQueue DEF Search
<1>2. /\ buf' = <<>> /\ table' = <<>> /\ prompt' = 0 /\ fill' = OFF
      /\ queue' = queue
  BY DEF Search, ClearList
<1>3. \/ owed' = [owed EXCEPT ![n] = Append(owed[n], [search |-> searches + 1, sent |-> 0])]
      \/ owed' = owed
  BY DEF Search
<1> DEFINE a == [search |-> searches + 1, sent |-> 0]
<1>4. /\ \A d \in Ids \ {n} : owed'[d] = <<>>
      /\ owed'[n] # <<>> => owed'[n] = <<a>>
  BY <1>1, <1>3 DEF TypeOK
<1>5. a.sent = 0
  OBVIOUS
<1> HIDE DEF a
<1>6. owed'[n] # <<>> => Len(owed'[n]) = 1 /\ owed'[n][1].sent = 0
  <2>1. Len(<<a>>) = 1 /\ <<a>>[1] = a
    OBVIOUS
  <2>2. QED
    BY <1>4, <1>5, <2>1
<1>7. Silent(queue[n]) /\ Len(queue[n]) \in Nat
  BY <1>1, QueueTypes
<1>8. Alone(n)'
  BY <1>1, <1>2, <1>4, <1>6, <1>7, ReportIsNotLast DEF Alone, Closed, Silent
<1>9. Unread(n)'
  <2>1. Stepwise(queue[n])
    BY <1>7 DEF Stepwise, Silent
  <2>2. queue[n] # <<>> => queue[n][Len(queue[n])] = Report
    <3>1. queue[n] # <<>> => Len(queue[n]) > 0
      BY QueueTypes, EmptySeq
    <3>2. Len(queue[n]) > 0 => Len(queue[n]) \in 1 .. Len(queue[n])
      BY <1>7
    <3>3. QED
      BY <1>7, <3>1, <3>2 DEF Silent
  <2>3. QED
    BY <1>2, <1>6, <1>7, <2>1, <2>2 DEF Unread
<1>10. Shown(n)'
  BY <1>2 DEF Shown
<1>11. QED
  BY <1>8, <1>9, <1>10 DEF InLine

LEMMA OneAnswersStep ==
    ASSUME TypeOK, OneTable, OneAnswers, [Next]_vars
    PROVE  OneAnswers'
<1> USE ConstantTypes DEF OFF
<1>1. CASE SearchRefused
  BY <1>1 DEF OneAnswers, SearchRefused
<1>2. CASE \E n \in Ids : Search(n)
  BY <1>2, SearchInLine DEF OneAnswers
<1>3. ASSUME ~SearchRefused, ~ \E n \in Ids : Search(n)
      PROVE  clean' = clean /\ fresh' = fresh
  <2>1. CASE \E n \in Ids : Answer(n) \/ Lose(n) \/ Tell(n) \/ Choose(n)
    BY <2>1 DEF Answer, Lose, Tell, Choose, history
  <2>2. CASE Timers
    BY <2>2 DEF Timers, pmsgTimerFunc, PollFinds, PollWaits, PollGivesUp,
         recordTableWidgetFillFunc, history
  <2>3. CASE DownloadShows \/ DownloadHides \/ Elapse \/ UNCHANGED vars
    BY <2>3 DEF DownloadShows, DownloadHides, Elapse, vars, history
  <2>4. QED
    BY <1>3, <2>1, <2>2, <2>3 DEF Next
<1>4. ASSUME ~SearchRefused, ~ \E j \in Ids : Search(j), fresh, NEW n \in Ids, InLine(n)
      PROVE  InLine(n)'
  <2>1. ASSUME NEW m \in Ids, Answer(m)
        PROVE  InLine(n)'
    BY <1>4, <2>1, AnswerInLine
  <2>2. ASSUME NEW m \in Ids, Lose(m)
        PROVE  InLine(n)'
    <3>1. m = n /\ UNCHANGED <<queue, list, timers, history>>
      BY <1>4, <2>2 DEF InLine, Alone, Lose
    <3>2. owed'[n] = <<>> /\ \A j \in Ids \ {n} : owed'[j] = owed[j]
      BY <2>2, <3>1 DEF Lose, TypeOK
    <3>3. UNCHANGED <<queue, buf, table, prompt, near, fill, pmsg, stalled>>
      BY <3>1 DEF list, timers, history, answer
    <3>4. Alone(n)'
      BY <1>4, <3>2, <3>3 DEF InLine, Alone
    <3>5. Unread(n)'
      BY <1>4, <3>2, <3>3 DEF InLine, Unread
    <3>6. Shown(n)'
      BY <1>4, <3>2, <3>3 DEF InLine, Shown, AllTaken, SecondNext
    <3>7. QED
      BY <3>4, <3>5, <3>6 DEF InLine
  <2>3. ASSUME NEW m \in Ids, Tell(m)
        PROVE  InLine(n)'
    BY <1>4, <2>3, TellInLine
  <2>4. CASE pmsgTimerFunc
    BY <1>4, <2>4, TimerInLine
  <2>5. CASE PollFinds
    <3>1. UNCHANGED <<owed, queue, buf, prompt, near, table, pmsg, stalled>>
          /\ fill' = FillTime /\ buf # <<>>
      BY <2>5 DEF PollFinds, network, list, history, answer
    <3>2. fill' > pmsg
      BY <3>1 DEF TypeOK
    <3>3. QED
      BY <1>4, <3>1, <3>2 DEF InLine, Alone, Unread, Shown, AllTaken, SecondNext
  <2>6. CASE (\E m \in Ids : Choose(m)) \/ PollWaits \/ PollGivesUp
             \/ DownloadShows \/ DownloadHides \/ UNCHANGED vars
    <3>1. UNCHANGED <<owed, queue, buf, prompt, near, table, pmsg, fill, stalled>>
      BY <2>6 DEF Choose, PollWaits, PollGivesUp, DownloadShows, DownloadHides, vars, network,
           list, timers, history, answer
    <3>2. QED
      BY <1>4, <3>1 DEF InLine, Alone, Unread, Shown, AllTaken, SecondNext
  <2>7. CASE recordTableWidgetFillFunc
    <3>1. UNCHANGED <<owed, queue, buf, prompt, near, pmsg, stalled>> /\ fill = 0 /\ fill' = OFF
      BY <2>7 DEF recordTableWidgetFillFunc, StopFill, network, history, answer
    <3>2. table = <<>>
      BY <1>4, <3>1 DEF OneTable
    <3>3. buf # <<>>
      BY <1>4, <3>1 DEF InLine, Unread
    <3>4. table' = buf
      BY <2>7, <3>2, QueueTypes, ConcatEmptySeq DEF recordTableWidgetFillFunc
    <3>5. ~(fill = OFF \/ fill > pmsg)
      BY <3>1 DEF TypeOK
    <3>6. Shown(n)'
      <4>1. SUFFICES ASSUME near, prompt > 0, ~stalled
                     PROVE  owed[n] = <<>> /\ AllTaken(n)'
        BY <3>1 DEF Shown
      <4>2. ~SecondNext(n)
        BY <3>5 DEF SecondNext
      <4>3. owed[n] = <<>> /\ AllTaken(n)
        BY <1>4, <4>1, <4>2 DEF InLine, Shown
      <4>4. QED
        BY <3>1, <3>4, <4>3 DEF AllTaken
    <3>7. QED
      BY <1>4, <3>1, <3>3, <3>6 DEF InLine, Alone, Unread
  <2>8. CASE Elapse
    <3>1. /\ UNCHANGED <<owed, queue, buf, prompt, near, table>>
          /\ pmsg' = Sooner(pmsg) /\ fill' = Sooner(fill)
          /\ ~stalled' => ~stalled /\ pmsg # 0 /\ fill # 0
      BY <2>8 DEF Elapse, Due, network, list, answer
    <3>2. (fill = OFF => fill' = OFF)
      BY <3>1, TimeTypes DEF Sooner
    <3>3. ~stalled' /\ fill > pmsg => fill' > pmsg'
      BY <3>1, TimeTypes DEF Sooner, TypeOK
    <3>4. QED
      BY <1>4, <3>1, <3>2, <3>3 DEF InLine, Alone, Unread, Shown, AllTaken, SecondNext
  <2>9. QED
    BY <1>4, <2>1, <2>2, <2>3, <2>4, <2>5, <2>6, <2>7, <2>8 DEF Next, Timers
<1>5. CASE ~SearchRefused /\ ~ \E n \in Ids : Search(n)
  <2>1. SUFFICES ASSUME clean', fresh' PROVE \E n \in Ids : InLine(n)'
    BY DEF OneAnswers
  <2>2. clean /\ fresh
    BY <1>3, <1>5, <2>1
  <2>3. PICK n \in Ids : InLine(n)
    BY <2>2 DEF OneAnswers
  <2>4. InLine(n)'
    BY <1>4, <1>5, <2>2, <2>3
  <2>5. QED
    BY <2>4
<1>6. QED
  BY <1>1, <1>2, <1>5

(* An answer whose end is the first or the second packet in the queue when *)
(* pmsgTimerFunc takes its first one is shown whole by                     *)
(* recordTableWidgetFillFunc: the second packet is taken before the table  *)
(* is filled, if no timer is late, nothing earlier is answered and no      *)
(* earlier table was about to be filled.                                   *)
THEOREM TwoPacketsAreShown == Spec => []ShortAnswerIsWhole
<1>1. Init => OneAnswers
  <2>1. SUFFICES ASSUME Init PROVE \E n \in Ids : InLine(n)
    BY DEF OneAnswers
  <2>2. 1 \in Ids
    BY ConstantTypes DEF Ids
  <2>3. /\ buf = <<>> /\ table = <<>> /\ prompt = 0 /\ fill = OFF
        /\ \A m \in Ids : queue[m] = <<>> /\ owed[m] = <<>>
    BY <2>1 DEF Init
  <2>4. InLine(1)
    BY <2>2, <2>3 DEF InLine, Alone, Unread, Shown, Silent, Closed, Stepwise
  <2>5. QED
    BY <2>2, <2>4
<1>2. TypeOK /\ OneTable /\ OneAnswers /\ [Next]_vars => OneAnswers'
  BY OneAnswersStep
<1>3. TypeOK /\ OneAnswers => ShortAnswerIsWhole
  <2>1. SUFFICES ASSUME TypeOK, OneAnswers, near, prompt > 0, table # <<>>, clean, fresh, ~stalled
                 PROVE  Len(table) = prompt
    BY DEF ShortAnswerIsWhole, Whole
  <2>2. PICK n \in Ids : InLine(n)
    BY <2>1 DEF OneAnswers
  <2>3. AllTaken(n)
    BY <2>1, <2>2 DEF InLine, Shown, SecondNext
  <2>4. QED
    BY <2>1, <2>3 DEF AllTaken
<1>4. Init => OneTable
  BY DEF Init, OneTable
<1>5. TypeOK /\ OneTable /\ [Next]_vars => OneTable'
  BY OneTableStep
<1>6. QED
  BY <1>1, <1>2, <1>3, <1>4, <1>5, TypeCorrect, PTL DEF Spec
=============================================================================
