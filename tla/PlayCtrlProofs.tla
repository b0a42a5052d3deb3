--------------------------- MODULE PlayCtrlProofs ---------------------------
(***************************************************************************)
(* Proofs about PlayCtrl, for any number of cameras, slots, groups and     *)
(* alarms: CMP_Init overwrites a handle at most once for each place, no    *)
(* picture becomes another one than the controller believes, and several   *)
(* alarms have their slots and keep them.                                  *)
(***************************************************************************)
EXTENDS PlayCtrl, FiniteSetTheorems, NumberSets

-----------------------------------------------------------------------------
(* The places of the alarm cameras.                                        *)

LEMMA ConstantTypes ==
    /\ Cameras \subseteq Nat /\ 0 \in Cameras /\ NoCamera \notin Cameras
    /\ Slots \subseteq Nat /\ 0 \in Slots /\ IsFiniteSet(Slots)
    /\ Groups \subseteq [Slots -> Shown] /\ NULL \notin Shown
    /\ OneBig \notin Slots /\ SINGLE # FOUR
  BY CamerasAssumption, SlotsAssumption, GroupsAssumption, NullAssumption
     DEF NoCamera, OneBig, SINGLE, FOUR

(* A list of alarm cameras: in order, none of them twice.                  *)
LEMMA ListTypes ==
    ASSUME NEW w \in AlarmLists \cup {<<>>}
    PROVE  /\ w \in Seq(Cameras) /\ Len(w) \in Nat /\ DOMAIN w = 1 .. Len(w)
           /\ \A j \in DOMAIN w : w[j] \in Cameras
           /\ \A j, k \in DOMAIN w : j # k => w[j] # w[k]
<1>1. w \in Seq(Cameras)
  <2>1. CASE w = <<>>
    BY <2>1
  <2>2. CASE w \in AlarmLists
    BY <2>2, AlarmsAssumption
  <2>3. QED
    BY <2>1, <2>2
<1>2. \A j, k \in DOMAIN w : j # k => w[j] # w[k]
  <2>1. CASE w = <<>>
    BY <2>1
  <2>2. CASE w \in AlarmLists
    BY <2>2, AlarmsAssumption
  <2>3. QED
    BY <2>1, <2>2
<1>3. QED
  BY <1>1, <1>2

(* A slot keeps an alarm camera, and no two slots the same one.            *)
LEMMA KeepTypes ==
    ASSUME curFour \in [Slots -> Shown], NEW w \in AlarmLists \cup {<<>>}
    PROVE  /\ Keep(w) \in [Slots -> Shown]
           /\ \A i \in Slots \ Free(w) : \E j \in DOMAIN w : w[j] = Keep(w)[i]
           /\ \A i, h \in Slots \ Free(w) : Keep(w)[i] = Keep(w)[h] => i = h
<1>1. \A c \in Of(w) : c \in Cameras /\ \E j \in DOMAIN w : w[j] = c
  BY ListTypes DEF Of
<1>2. Keep(w) \in [Slots -> Shown]
  BY DEF Keep, Shown
<1>3. ASSUME NEW i \in Slots \ Free(w)
      PROVE  /\ Keep(w)[i] = curFour[i] /\ curFour[i] \in Of(w)
             /\ ~ \E h \in Slots : h < i /\ curFour[h] = curFour[i]
  BY DEF Free, Keep
<1>4. ASSUME NEW i \in Slots \ Free(w), NEW h \in Slots \ Free(w), Keep(w)[i] = Keep(w)[h]
      PROVE  i = h
  <2>1. ~(i < h) /\ ~(h < i)
    BY <1>3, <1>4
  <2>2. i \in Nat /\ h \in Nat
    BY ConstantTypes
  <2>3. QED
    BY <2>1, <2>2
<1>5. QED
  BY <1>1, <1>2, <1>3, <1>4

LEMMA FiniteParts ==
    ASSUME NEW w \in AlarmLists \cup {<<>>}
    PROVE  /\ Free(w) \in SUBSET Slots /\ Free(w) \in SUBSET Nat /\ IsFiniteSet(Free(w))
           /\ New(w) \in SUBSET DOMAIN w /\ New(w) \in SUBSET Nat /\ IsFiniteSet(New(w))
           /\ IsFiniteSet(DOMAIN w) /\ Cardinality(DOMAIN w) = Len(w)
           /\ Cardinality(Free(w)) \in Nat /\ Cardinality(New(w)) \in Nat
           /\ Cardinality(Slots) \in Nat
<1>1. Free(w) \in SUBSET Slots /\ New(w) \in SUBSET DOMAIN w
  BY DEF Free, New
<1>2. IsFiniteSet(DOMAIN w) /\ Cardinality(DOMAIN w) = Len(w)
  BY ListTypes, FS_Interval
<1>3. IsFiniteSet(Free(w)) /\ IsFiniteSet(New(w))
  BY <1>1, <1>2, ConstantTypes, FS_Subset
<1>4. Free(w) \in SUBSET Nat /\ New(w) \in SUBSET Nat
  <2>1. Slots \in SUBSET Nat
    BY ConstantTypes
  <2>2. DOMAIN w \in SUBSET Nat
    BY ListTypes
  <2>3. QED
    BY <1>1, <2>1, <2>2, Zenon
<1>5. QED
  BY <1>1, <1>2, <1>3, <1>4, ConstantTypes, FS_CardinalityType

(* Alarm cameras that are no more than the slots find a free slot each.    *)
LEMMA FreeSuffice ==
    ASSUME curFour \in [Slots -> Shown], NEW w \in AlarmLists \cup {<<>>},
           Len(w) <= Cardinality(Slots)
    PROVE  Cardinality(New(w)) <= Cardinality(Free(w))
<1> DEFINE kept == Slots \ Free(w)
           old == DOMAIN w \ New(w)
           f == [i \in kept |-> CHOOSE j \in DOMAIN w : w[j] = Keep(w)[i]]
<1>1. ASSUME NEW i \in kept
      PROVE  f[i] \in old /\ w[f[i]] = Keep(w)[i]
  <2>1. f[i] \in DOMAIN w /\ w[f[i]] = Keep(w)[i]
    BY KeepTypes
  <2>2. f[i] \notin New(w)
    BY <2>1 DEF New
  <2>3. QED
    BY <2>1, <2>2
<1>2. f \in [kept -> old]
  BY <1>1
<1>3. ASSUME NEW i \in kept, NEW h \in kept, f[i] = f[h]
      PROVE  i = h
  BY <1>1, <1>3, KeepTypes
<1> HIDE DEF f
<1>4. f \in Injection(kept, old)
  BY <1>2, <1>3 DEF Injection, IsInjective
<1>5. IsFiniteSet(old) /\ Cardinality(old) = Len(w) - Cardinality(New(w))
  <2>1. DOMAIN w \cap New(w) = New(w)
    BY FiniteParts
  <2>2. /\ IsFiniteSet(DOMAIN w \ New(w))
        /\ Cardinality(DOMAIN w \ New(w))
              = Cardinality(DOMAIN w) - Cardinality(DOMAIN w \cap New(w))
    BY FiniteParts, FS_Difference
  <2>3. QED
    BY <2>1, <2>2, FiniteParts
<1>6. IsFiniteSet(kept) /\ Cardinality(kept) = Cardinality(Slots) - Cardinality(Free(w))
  <2>1. Slots \cap Free(w) = Free(w)
    BY FiniteParts
  <2>2. /\ IsFiniteSet(Slots \ Free(w))
        /\ Cardinality(Slots \ Free(w))
              = Cardinality(Slots) - Cardinality(Slots \cap Free(w))
    BY ConstantTypes, FS_Difference
  <2>3. QED
    BY <2>1, <2>2
<1> HIDE DEF kept, old
<1>7. Cardinality(kept) <= Cardinality(old)
  BY <1>4, <1>5, FS_Injection
<1>8. Len(w) \in Nat
  BY ListTypes
<1>9. QED
  BY <1>5, <1>6, <1>7, <1>8, FiniteParts

(* A free slot takes the camera of its rank.                               *)
LEMMA FilledTypes ==
    ASSUME curFour \in [Slots -> Shown], NEW w \in AlarmLists \cup {<<>>}
    PROVE  /\ Filled(w) \in [Slots -> Shown]
           /\ \A i \in Free(w), j \in New(w) :
                Rank(i, Free(w)) = Rank(j, New(w)) => Filled(w)[i] = w[j]
<1>1. ASSUME NEW i \in Free(w), NEW j \in New(w), Rank(i, Free(w)) = Rank(j, New(w))
      PROVE  Filled(w)[i] = w[j]
  <2>1. Rank(j, New(w)) \in 1 .. Cardinality(New(w)) /\ i \in Slots
    BY FiniteParts, RankInRange
  <2>2. Rank(i, Free(w)) <= Cardinality(New(w))
    BY <1>1, <2>1, FiniteParts
  <2>3. Nth(Rank(i, Free(w)), New(w)) = j
    BY <1>1, <2>1, FiniteParts, NthTells
  <2>4. QED
    BY <2>1, <2>2, <2>3 DEF Filled
<1>2. ASSUME NEW i \in Slots
      PROVE  Filled(w)[i] \in Shown
  <2>1. CASE i \notin Free(w)
    BY <2>1, KeepTypes DEF Filled
  <2>2. CASE i \in Free(w) /\ Rank(i, Free(w)) <= Cardinality(New(w))
    <3>1. Rank(i, Free(w)) \in 1 .. Cardinality(Free(w))
      BY <2>2, FiniteParts, RankInRange
    <3>2. Rank(i, Free(w)) \in 1 .. Cardinality(New(w))
      BY <2>2, <3>1, FiniteParts
    <3>3. PICK j \in New(w) : Rank(j, New(w)) = Rank(i, Free(w))
      BY <3>2, FiniteParts, RankTaken
    <3>4. Filled(w)[i] = w[j]
      BY <1>1, <2>2, <3>3
    <3>5. QED
      BY <3>4, FiniteParts, ListTypes DEF Shown
  <2>3. CASE i \in Free(w) /\ ~(Rank(i, Free(w)) <= Cardinality(New(w)))
    BY <2>3 DEF Filled, Shown
  <2>4. QED
    BY <2>1, <2>2, <2>3
<1>3. Filled(w) = [i \in Slots |-> Filled(w)[i]]
  BY DEF Filled
<1>4. QED
  BY <1>1, <1>2, <1>3

(* Every alarm has its slot, or if they are more than the slots, at least  *)
(* the first one.                                                          *)
LEMMA PlacePlaces ==
    ASSUME curFour \in [Slots -> Shown], NEW w \in AlarmLists \cup {<<>>}, w # <<>>
    PROVE  /\ Place(w) \in [Slots -> Shown]
           /\ \A j \in DOMAIN w :
                (j = 1 \/ Len(w) <= Cardinality(Slots)) => \E i \in Slots : Place(w)[i] = w[j]
<1>1. Filled(w) \in [Slots -> Shown] /\ 1 \in DOMAIN w /\ w[1] \in Shown
  <2>1. 1 \in DOMAIN w
    BY ListTypes
  <2>2. QED
    BY <2>1, FilledTypes, ListTypes DEF Shown
<1>2. Place(w) \in [Slots -> Shown]
  BY <1>1 DEF Place
<1>3. \E i \in Slots : Place(w)[i] = w[1]
  <2>1. CASE \A i \in Slots : Filled(w)[i] # w[1]
    <3>1. Place(w)[0] = w[1]
      BY <2>1, <1>1, ConstantTypes DEF Place
    <3>2. QED
      BY <3>1, ConstantTypes
  <2>2. CASE ~ \A i \in Slots : Filled(w)[i] # w[1]
    BY <2>2 DEF Place
  <2>3. QED
    BY <2>1, <2>2
<1>4. ASSUME NEW j \in DOMAIN w, Len(w) <= Cardinality(Slots)
      PROVE  \E i \in Slots : Filled(w)[i] = w[j]
  <2>1. CASE j \in New(w)
    <3>1. Rank(j, New(w)) \in 1 .. Cardinality(New(w))
      BY <2>1, FiniteParts, RankInRange
    <3>2. Rank(j, New(w)) \in 1 .. Cardinality(Free(w))
      BY <1>4, <3>1, FreeSuffice, FiniteParts
    <3>3. PICK i \in Free(w) : Rank(i, Free(w)) = Rank(j, New(w))
      BY <3>2, FiniteParts, RankTaken
    <3>4. Filled(w)[i] = w[j] /\ i \in Slots
      BY <2>1, <3>3, FilledTypes, FiniteParts
    <3>5. QED
      BY <3>4
  <2>2. CASE j \notin New(w)
    <3>1. PICK i \in Slots : Keep(w)[i] = w[j]
      BY <2>2 DEF New
    <3>2. i \notin Free(w)
      BY <3>1, ListTypes, ConstantTypes DEF Free
    <3>3. Filled(w)[i] = w[j]
      BY <3>1, <3>2 DEF Filled
    <3>4. QED
      BY <3>3
  <2>3. QED
    BY <2>1, <2>2
<1>5. ASSUME NEW j \in DOMAIN w, Len(w) <= Cardinality(Slots)
      PROVE  \E i \in Slots : Place(w)[i] = w[j]
  <2>1. Place(w) = Filled(w)
    BY <1>1, <1>4, <1>5 DEF Place
  <2>2. QED
    BY <2>1, <1>4, <1>5
<1>6. QED
  BY <1>2, <1>3, <1>5
-----------------------------------------------------------------------------
(* Every variable keeps its type.                                          *)

(* The single-picture button finds a camera.                               *)
LEMMA SingleOfType == TypeOK => SingleOf \in Shown
<1> SUFFICES ASSUME TypeOK PROVE SingleOf \in Shown
  OBVIOUS
<1> DEFINE on == {i \in Slots : curFour[i] # NoCamera}
<1>1. CASE curSingle = NoCamera /\ on # {}
  <2>1. on \subseteq Nat
    BY ConstantTypes
  <2>2. \E i \in on : \A h \in on : i <= h
    BY <1>1, <2>1, LeastNumber
  <2>3. (CHOOSE i \in on : \A h \in on : i <= h) \in Slots
    BY <2>2
  <2>4. QED
    BY <1>1, <2>3 DEF SingleOf, TypeOK
<1>2. CASE ~(curSingle = NoCamera /\ on # {})
  BY <1>2, ConstantTypes DEF SingleOf, TypeOK, Shown
<1>3. QED
  BY <1>1, <1>2

LEMMA TypeStart == Init => TypeOK
  BY ConstantTypes DEF Init, TypeOK, Nothing, Shown

LEMMA TypeStyle ==
    ASSUME TypeOK,
           \/ \E four \in [Slots -> Shown] : ToFour(four)
           \/ \E single \in Shown : ToSingle(single)
    PROVE  /\ hSinglePlay' \in Shown \cup {NULL} /\ hPlay' \in [Slots -> Shown \cup {NULL}]
           /\ curStyle' \in {SINGLE, FOUR} /\ nextStyle' \in {SINGLE, FOUR}
           /\ curSingle' \in Shown /\ nextSingle' \in Shown
           /\ curFour' \in [Slots -> Shown] /\ nextFour' \in [Slots -> Shown]
<1>1. CASE \E four \in [Slots -> Shown] : ToFour(four)
  BY <1>1 DEF ToFour, Shown
<1>2. CASE \E single \in Shown : ToSingle(single)
  BY <1>2 DEF ToSingle, TypeOK, Shown, Nothing
<1>3. QED
  BY <1>1, <1>2

(* The tick in the style it is to stay in.                                 *)
LEMMA TypeTick ==
    ASSUME TypeOK, FourPlayStylefunc \/ SinglePlayStylefunc
    PROVE  /\ hSinglePlay' \in Shown \cup {NULL} /\ hPlay' \in [Slots -> Shown \cup {NULL}]
           /\ curSingle' \in Shown /\ curFour' \in [Slots -> Shown]
           /\ initFlag' \in BOOLEAN /\ multInitFlag' \in [Slots -> BOOLEAN]
           /\ lost' \in [Places -> Nat] /\ saved' \in Shown \cup {NULL}
<1>1. CASE FourPlayStylefunc
  <2>1. UNCHANGED <<initFlag, saved>>
    BY <1>1 DEF FourPlayStylefunc
  <2>2. CASE Enlarge
    BY <2>1, <2>2 DEF Enlarge, TypeOK
  <2>3. CASE Shrink
    BY <2>1, <2>3 DEF Shrink, TypeOK, Shown
  <2>4. CASE Refill
    <3>1. hPlay' \in [Slots -> Shown \cup {NULL}]
      BY <2>4 DEF Refill, TypeOK, Open
    <3>2. multInitFlag' \in [Slots -> BOOLEAN]
      BY <2>4 DEF Refill, TypeOK
    <3>3. lost' \in [Places -> Nat]
      BY <2>4 DEF Refill, TypeOK, Overwritten
    <3>4. QED
      BY <2>1, <2>4, <3>1, <3>2, <3>3 DEF Refill, TypeOK
  <2>5. CASE UNCHANGED <<curSingle, curFour, hSinglePlay, hPlay, multInitFlag, lost>>
    BY <2>1, <2>5 DEF TypeOK
  <2>6. QED
    BY <1>1, <2>2, <2>3, <2>4, <2>5 DEF FourPlayStylefunc
<1>2. CASE SinglePlayStylefunc
  <2>1. Left \in Shown \cup {NULL}
    BY DEF Left, Closed, Shown
  <2>2. hSinglePlay' \in Shown \cup {NULL}
    BY <1>2, <2>1 DEF SinglePlayStylefunc, TypeOK, Open
  <2>3. lost' \in [Places -> Nat]
    BY <1>2 DEF SinglePlayStylefunc, TypeOK, Overwritten
  <2>4. curSingle' \in Shown /\ initFlag' \in BOOLEAN /\ saved' \in Shown \cup {NULL}
    BY <1>2 DEF SinglePlayStylefunc, TypeOK
  <2>5. QED
    BY <1>2, <2>2, <2>3, <2>4 DEF SinglePlayStylefunc, TypeOK
<1>3. QED
  BY <1>1, <1>2

LEMMA TypeWarn ==
    ASSUME TypeOK, NEW w \in AlarmLists \cup {<<>>}, updateWarnInfoSLot(w)
    PROVE  TypeOK'
<1>1. nextFour' \in [Slots -> Shown] /\ nextSingle' \in Shown
  <2>1. CASE WarnSeveral(w)
    <3>1. w # <<>> /\ curFour \in [Slots -> Shown]
      BY <2>1, ListTypes DEF WarnSeveral, TypeOK
    <3>2. QED
      BY <2>1, <3>1, PlacePlaces DEF WarnSeveral, TypeOK, Shown
  <2>2. CASE WarnOne(w)
    BY <2>2, ListTypes DEF WarnOne, TypeOK, Shown
  <2>3. CASE WarnNone(w)
    BY <2>3, ConstantTypes DEF WarnNone, PollFour, TypeOK, Shown
  <2>4. QED
    BY <2>1, <2>2, <2>3 DEF updateWarnInfoSLot
<1>2. cycleFlag' \in BOOLEAN /\ nextStyle' \in {SINGLE, FOUR}
  BY DEF updateWarnInfoSLot, WarnSeveral, WarnOne, WarnNone, TypeOK
<1>3. QED
  BY <1>1, <1>2 DEF updateWarnInfoSLot, TypeOK, screen, players

LEMMA TypeStep == TypeOK /\ [Next]_vars => TypeOK'
<1> SUFFICES ASSUME TypeOK, [Next]_vars PROVE TypeOK'
  OBVIOUS
<1> USE DEF wanted, screen, players, alarms
<1>1. CASE PlayCtrlFunSlot
  <2>1. CASE curStyle # nextStyle
    <3>1. \/ \E four \in [Slots -> Shown] : ToFour(four)
          \/ \E single \in Shown : ToSingle(single)
      BY <1>1, <2>1 DEF PlayCtrlFunSlot, TypeOK
    <3>2. QED
      BY <1>1, <2>1, <3>1, TypeStyle DEF PlayCtrlFunSlot, TypeOK
  <2>2. CASE curStyle = nextStyle
    <3>1. (FourPlayStylefunc \/ SinglePlayStylefunc) /\ UNCHANGED <<curStyle, wanted>>
      BY <1>1, <2>2 DEF PlayCtrlFunSlot
    <3>2. QED
      BY <1>1, <3>1, TypeTick DEF PlayCtrlFunSlot, TypeOK
  <2>3. QED
    BY <2>1, <2>2
<1>2. CASE videoPollingfunction
  BY <1>2, ConstantTypes DEF videoPollingfunction, PollFour, PollSingle, TypeOK, Shown
<1>3. CASE StartCheck
  BY <1>3 DEF StartCheck, TypeOK
<1>4. CASE StartWrite
  BY <1>4, ConstantTypes DEF StartWrite, PollFour, PollSingle, TypeOK, Shown
<1>5. ASSUME NEW w \in AlarmLists \cup {<<>>}, updateWarnInfoSLot(w)
      PROVE  TypeOK'
  BY <1>5, TypeWarn
<1>6. CASE eventFilter
  BY <1>6 DEF eventFilter, PlayWidCicked, TypeOK, Shown
<1>7. ASSUME NEW c \in Cameras, GroupButtonVideoClickSlot(c)
      PROVE  TypeOK'
  BY <1>7, ConstantTypes DEF GroupButtonVideoClickSlot, TypeOK, Shown
<1>8. ASSUME NEW c \in Cameras, WarnButton(c)
      PROVE  TypeOK'
  BY <1>8 DEF WarnButton, TypeOK, Shown
<1>9. CASE sigalePageSlot
  <2>1. \E single \in Shown : ToSingle(single)
    BY <1>9, SingleOfType DEF sigalePageSlot
  <2>2. QED
    BY <1>9, <2>1, TypeStyle DEF sigalePageSlot, TypeOK
<1>10. CASE fourPageSlot
  <2>1. \E four \in [Slots -> Shown] : ToFour(four)
    BY <1>10, ConstantTypes DEF fourPageSlot
  <2>2. QED
    BY <1>10, <2>1, TypeStyle DEF fourPageSlot, TypeOK
<1>11. CASE cycleSlot
  BY <1>11 DEF cycleSlot, TypeOK, Shown
<1>12. CASE showMonitorManagePage
  BY <1>12 DEF showMonitorManagePage, TypeOK
<1>13. CASE showcctvPage
  BY <1>13 DEF showcctvPage, TypeOK
<1>14. CASE UNCHANGED vars
  BY <1>14 DEF vars, TypeOK
<1>15. QED
  BY <1>1, <1>2, <1>3, <1>4, <1>5, <1>6, <1>7, <1>8, <1>9, <1>10, <1>11, <1>12, <1>13,
     <1>14 DEF Next

(* Every request, picture, handle and flag keeps its type: the cameras     *)
(* that the alarm placement and the buttons choose are cameras there are.  *)
THEOREM TypeCorrect == Spec => []TypeOK
  BY TypeStart, TypeStep, PTL DEF Spec

-----------------------------------------------------------------------------
(* Handles that are overwritten.                                           *)

(* A place whose flag is still down has lost no handle.                    *)
LostSoFar ==
    /\ \A k \in Slots : lost[k] <= 1 /\ (~multInitFlag[k] => lost[k] = 0)
    /\ lost[OneBig] <= 1 /\ (~initFlag => lost[OneBig] = 0)

LEMMA LostStart == Init => LostSoFar
  BY DEF Init, LostSoFar, Places

LEMMA LostStep == TypeOK /\ LostSoFar /\ [Next]_vars => LostSoFar'
<1> SUFFICES ASSUME TypeOK, LostSoFar, [Next]_vars PROVE LostSoFar'
  OBVIOUS
<1>1. CASE UNCHANGED <<lost, initFlag, multInitFlag>>
  BY <1>1 DEF LostSoFar
<1>2. CASE FourPlayStylefunc /\ Refill
  <2>1. lost'[OneBig] = lost[OneBig] /\ initFlag' = initFlag
    BY <1>2, ConstantTypes DEF FourPlayStylefunc, Refill, Places, Fresh, Opening, Changed
  <2>2. ASSUME NEW k \in Slots
        PROVE  lost'[k] <= 1 /\ (~multInitFlag'[k] => lost'[k] = 0)
    <3>1. CASE k \in Fresh
      <4>1. multInitFlag'[k] /\ lost'[k] = lost[k] + Overwritten(hPlay[k]) /\ lost[k] = 0
        BY <1>2, <3>1 DEF Refill, Fresh, LostSoFar, Places
      <4>2. QED
        BY <4>1 DEF Overwritten
    <3>2. CASE k \notin Fresh
      BY <1>2, <3>2 DEF Refill, LostSoFar, TypeOK, Places
    <3>3. QED
      BY <3>1, <3>2
  <2>3. QED
    BY <2>1, <2>2 DEF LostSoFar
<1>3. CASE SinglePlayStylefunc /\ UNCHANGED multInitFlag
  <2>1. \A k \in Slots : lost'[k] = lost[k]
    BY <1>3, ConstantTypes DEF SinglePlayStylefunc, TypeOK, Places
  <2>2. CASE initFlag' = initFlag
    BY <1>3, <2>1, <2>2 DEF SinglePlayStylefunc, LostSoFar
  <2>3. CASE initFlag' # initFlag
    <3>1. initFlag' /\ ~initFlag /\ lost[OneBig] = 0
      BY <1>3, <2>3 DEF SinglePlayStylefunc, LostSoFar, TypeOK
    <3>2. lost' = [lost EXCEPT ![OneBig] = lost[OneBig] + Overwritten(Left)]
      BY <1>3, <2>3, <3>1 DEF SinglePlayStylefunc
    <3>3. lost'[OneBig] = lost[OneBig] + Overwritten(Left)
      BY <3>2 DEF TypeOK, Places
    <3>4. QED
      BY <1>3, <2>1, <3>1, <3>3 DEF LostSoFar, Overwritten
  <2>4. QED
    BY <2>2, <2>3
<1>4. CASE PlayCtrlFunSlot
  <2>1. CASE curStyle # nextStyle
    BY <1>1, <1>4, <2>1 DEF PlayCtrlFunSlot
  <2>2. CASE curStyle = nextStyle /\ FourPlayStylefunc
    BY <1>1, <1>2, <2>2 DEF FourPlayStylefunc, Enlarge, Shrink
  <2>3. CASE curStyle = nextStyle /\ SinglePlayStylefunc
    BY <1>3, <2>3 DEF SinglePlayStylefunc
  <2>4. QED
    BY <1>4, <2>1, <2>2, <2>3 DEF PlayCtrlFunSlot
<1>5. CASE Next /\ ~PlayCtrlFunSlot
  BY <1>1, <1>5 DEF Next, players, videoPollingfunction, StartCheck, StartWrite,
     updateWarnInfoSLot, eventFilter, PlayWidCicked, GroupButtonVideoClickSlot, WarnButton,
     sigalePageSlot, fourPageSlot, cycleSlot, showMonitorManagePage, showcctvPage
<1>6. CASE UNCHANGED vars
  BY <1>1, <1>6 DEF vars, players
<1>7. QED
  BY <1>4, <1>5, <1>6

(* However style changes, page changes, polls and alarms follow each other *)
(* CMP_Init overwrites a live handle at most once for each place.          *)
THEOREM HandlesLostOnce == Spec => []LostOnce
<1>1. LostSoFar => LostOnce
  BY DEF LostSoFar, LostOnce, Places
<1>2. QED
  BY <1>1, TypeStart, TypeStep, LostStart, LostStep, PTL DEF Spec
-----------------------------------------------------------------------------
(* What the handles show.                                                  *)

LEMMA TrueTick ==
    ASSUME TypeOK, TruePictures, FourPlayStylefunc \/ SinglePlayStylefunc
    PROVE  TruePictures'
<1>1. CASE FourPlayStylefunc
  <2>1. CASE Enlarge
    BY <2>1 DEF Enlarge, TruePictures
  <2>2. CASE Shrink
    BY <2>2 DEF Shrink, TruePictures
  <2>3. CASE Refill
    <3>1. ASSUME NEW i \in Slots
          PROVE  hPlay'[i] \in {NULL, curFour'[i]}
      <4>1. curFour'[i] = nextFour[i]
        BY <2>3 DEF Refill
      <4>2. CASE i \in Changed
        BY <2>3, <4>1, <4>2 DEF Refill, Open
      <4>3. CASE i \notin Changed
        BY <2>3, <4>1, <4>3 DEF Refill, TruePictures, Changed, Opening, Fresh
      <4>4. QED
        BY <4>2, <4>3
    <3>2. QED
      BY <2>3, <3>1 DEF Refill, TruePictures
  <2>4. CASE UNCHANGED <<curSingle, curFour, hSinglePlay, hPlay, multInitFlag, lost>>
    BY <2>4 DEF TruePictures
  <2>5. QED
    BY <1>1, <2>1, <2>2, <2>3, <2>4 DEF FourPlayStylefunc
<1>2. CASE SinglePlayStylefunc
  BY <1>2 DEF SinglePlayStylefunc, TruePictures, Left, Closed, Open
<1>3. QED
  BY <1>1, <1>2

LEMMA TrueStyle ==
    ASSUME TypeOK, TruePictures,
           (\E four : ToFour(four)) \/ (\E single : ToSingle(single))
    PROVE  TruePictures'
<1>1. CASE \E four : ToFour(four)
  BY <1>1 DEF ToFour, TruePictures
<1>2. CASE \E single : ToSingle(single)
  BY <1>2 DEF ToSingle, TruePictures
<1>3. QED
  BY <1>1, <1>2

(* No step but a return to the page with a request pending makes a handle  *)
(* play another camera than the controller believes it plays.              *)
LEMMA TrueStep ==
    TypeOK /\ TruePictures /\ (page' = page \/ Settled) /\ [Next]_vars => TruePictures'
<1> SUFFICES ASSUME TypeOK, TruePictures, page' = page \/ Settled, [Next]_vars
             PROVE  TruePictures'
  OBVIOUS
<1>1. CASE UNCHANGED <<hPlay, curFour, hSinglePlay, curSingle>>
  BY <1>1 DEF TruePictures
<1>2. CASE PlayCtrlFunSlot
  BY <1>2, TrueTick, TrueStyle DEF PlayCtrlFunSlot
<1>3. CASE sigalePageSlot \/ fourPageSlot
  BY <1>3, TrueStyle DEF sigalePageSlot, fourPageSlot
<1>4. CASE showMonitorManagePage
  BY <1>4 DEF showMonitorManagePage, TruePictures, screen
<1>5. CASE showcctvPage
  <2>1. Settled
    BY <1>5 DEF showcctvPage
  <2>2. QED
    BY <1>5, <2>1 DEF showcctvPage, TruePictures, Settled
<1>6. CASE \/ videoPollingfunction \/ StartCheck \/ StartWrite
           \/ \E w \in AlarmLists \cup {<<>>} : updateWarnInfoSLot(w)
           \/ eventFilter
           \/ \E c \in Cameras : GroupButtonVideoClickSlot(c) \/ WarnButton(c)
           \/ cycleSlot
  BY <1>1, <1>6 DEF players, screen, videoPollingfunction, StartCheck, StartWrite,
     updateWarnInfoSLot, eventFilter, PlayWidCicked, GroupButtonVideoClickSlot, WarnButton,
     cycleSlot
<1>7. CASE UNCHANGED vars
  BY <1>1, <1>7 DEF vars, players, screen
<1>8. QED
  BY <1>2, <1>3, <1>4, <1>5, <1>6, <1>7 DEF Next

(* A style change, an enlargement, a refill, an alarm and leaving the page *)
(* leave every handle on the camera the controller believes it plays.      *)
THEOREM PicturesNeverLie == Spec => PicturesStayTrue
<1>1. TypeOK /\ [Next]_vars
        => [(TruePictures /\ (page' = page \/ Settled)) => TruePictures']_vars
  BY TrueStep
<1>2. QED
  BY <1>1, TypeStart, TypeStep, PTL DEF Spec, PicturesStayTrue

-----------------------------------------------------------------------------
(* What an alarm has put on the screen.                                    *)

(* While there is an alarm the polls are off.                              *)
PollsOff == warn # <<>> => ~cycleFlag

LEMMA PollsOffStart == Init => PollsOff
  BY DEF Init, PollsOff

LEMMA PollsOffStep == TypeOK /\ PollsOff /\ [Next]_vars => PollsOff'
<1> SUFFICES ASSUME TypeOK, PollsOff, [Next]_vars PROVE PollsOff'
  OBVIOUS
<1>1. CASE UNCHANGED <<warn, cycleFlag>>
  BY <1>1 DEF PollsOff
<1>2. ASSUME NEW w \in AlarmLists \cup {<<>>}, updateWarnInfoSLot(w)
      PROVE  PollsOff'
  <2>1. WarnNone(w) => w = <<>>
    BY ListTypes DEF WarnNone
  <2>2. QED
    BY <1>2, <2>1 DEF updateWarnInfoSLot, WarnSeveral, WarnOne, PollsOff
<1>3. CASE cycleSlot
  BY <1>3 DEF cycleSlot, PollsOff
<1>4. CASE \/ PlayCtrlFunSlot \/ videoPollingfunction \/ StartCheck \/ StartWrite
           \/ eventFilter
           \/ \E c \in Cameras : GroupButtonVideoClickSlot(c) \/ WarnButton(c)
           \/ sigalePageSlot \/ fourPageSlot \/ showMonitorManagePage \/ showcctvPage
  BY <1>1, <1>4 DEF alarms, PlayCtrlFunSlot, videoPollingfunction, StartCheck, StartWrite,
     eventFilter, PlayWidCicked, GroupButtonVideoClickSlot, WarnButton, sigalePageSlot,
     fourPageSlot, showMonitorManagePage, showcctvPage
<1>5. CASE UNCHANGED vars
  BY <1>1, <1>5 DEF vars, alarms
<1>6. QED
  BY <1>2, <1>3, <1>4, <1>5 DEF Next

(* The scan gives the alarms their slots, and no step but the next scan    *)
(* that finds a change takes them away.                                    *)
LEMMA PlacedStep ==
    ASSUME TypeOK, PollsOff, Next, AlarmsPlaced \/ warn' # warn, starting # "write"
    PROVE  AlarmsPlaced'
<1>1. CASE AlarmsPlaced /\ UNCHANGED <<warn, nextStyle, nextFour>>
  BY <1>1 DEF AlarmsPlaced
<1>2. CASE PlayCtrlFunSlot
  <2>1. AlarmsPlaced /\ warn' = warn
    BY <1>2 DEF PlayCtrlFunSlot
  <2>2. CASE curStyle # nextStyle /\ nextStyle = FOUR
    BY <1>1, <1>2, <2>1, <2>2 DEF PlayCtrlFunSlot, ToFour
  <2>3. CASE curStyle # nextStyle /\ nextStyle # FOUR
    BY <1>2, <2>3, ConstantTypes DEF PlayCtrlFunSlot, ToSingle, AlarmsPlaced
  <2>4. CASE curStyle = nextStyle
    BY <1>1, <1>2, <2>1, <2>4 DEF PlayCtrlFunSlot, wanted
  <2>5. QED
    BY <2>2, <2>3, <2>4
<1>3. CASE videoPollingfunction \/ sigalePageSlot \/ fourPageSlot
  <2>1. warn' = <<>>
    BY <1>3 DEF videoPollingfunction, sigalePageSlot, fourPageSlot, PollsOff, alarms
  <2>2. QED
    BY <2>1 DEF AlarmsPlaced
<1>4. ASSUME NEW w \in AlarmLists \cup {<<>>}, updateWarnInfoSLot(w)
      PROVE  AlarmsPlaced'
  <2>1. warn' = w
    BY <1>4 DEF updateWarnInfoSLot
  <2>2. CASE WarnSeveral(w)
    <3>1. w # <<>> /\ curFour \in [Slots -> Shown] /\ nextFour' = Place(w)
      BY <2>2, ListTypes DEF WarnSeveral, TypeOK
    <3>2. QED
      BY <2>1, <3>1, PlacePlaces DEF AlarmsPlaced
  <2>3. CASE WarnOne(w) \/ WarnNone(w)
    <3>1. ~(Len(w) > 1)
      BY <2>3, ListTypes DEF WarnOne, WarnNone
    <3>2. QED
      BY <2>1, <3>1 DEF AlarmsPlaced
  <2>4. QED
    BY <1>4, <2>2, <2>3 DEF updateWarnInfoSLot
<1>5. ASSUME NEW c \in Cameras, GroupButtonVideoClickSlot(c)
      PROVE  AlarmsPlaced'
  <2>1. CASE warn = <<>>
    BY <1>5, <2>1 DEF GroupButtonVideoClickSlot, alarms, AlarmsPlaced
  <2>2. CASE warn # <<>>
    BY <1>1, <1>5, <2>2 DEF GroupButtonVideoClickSlot, alarms
  <2>3. QED
    BY <2>1, <2>2
<1>6. CASE \/ StartCheck \/ eventFilter \/ (\E c \in Cameras : WarnButton(c))
           \/ cycleSlot \/ showMonitorManagePage \/ showcctvPage
  BY <1>1, <1>6 DEF StartCheck, eventFilter, PlayWidCicked, WarnButton, cycleSlot,
     showMonitorManagePage, showcctvPage, alarms, wanted
<1>7. ~StartWrite
  BY DEF StartWrite
<1>8. QED
  BY <1>2, <1>3, <1>4, <1>5, <1>6, <1>7 DEF Next

(* Until the tick has brought a fresh alarm up, nothing else is wanted.    *)
LEMMA ProtectedStep ==
    ASSUME TypeOK, PollsOff, Next,
           warn # <<>>, warnFreshed, warnFreshed', warn' = warn, starting = "done"
    PROVE  UNCHANGED wanted
<1>1. ~PlayCtrlFunSlot
  BY DEF PlayCtrlFunSlot
<1>2. ~videoPollingfunction /\ ~StartCheck /\ ~StartWrite
  BY DEF videoPollingfunction, StartCheck, StartWrite, PollsOff
<1>3. ~ \E w \in AlarmLists \cup {<<>>} : updateWarnInfoSLot(w)
  BY DEF updateWarnInfoSLot
<1>4. ~eventFilter /\ ~ \E c \in Cameras : GroupButtonVideoClickSlot(c) \/ WarnButton(c)
  BY DEF eventFilter, PlayWidCicked, GroupButtonVideoClickSlot, WarnButton
<1>5. ~sigalePageSlot /\ ~fourPageSlot /\ ~cycleSlot
  BY DEF sigalePageSlot, fourPageSlot, cycleSlot
<1>6. CASE showMonitorManagePage \/ showcctvPage
  BY <1>6 DEF showMonitorManagePage, showcctvPage
<1>7. QED
  BY <1>1, <1>2, <1>3, <1>4, <1>5, <1>6 DEF Next

(* A scan that finds several alarms gives each its slot, whatever the      *)
(* slots showed, and neither the operator nor the polls take it away; and  *)
(* until the tick has brought an alarm up no command replaces its picture. *)
THEOREM AlarmsKeepTheirPlaces == Spec => AlarmsHold
<1>1. TypeOK /\ PollsOff /\ [Next]_vars
        => [((AlarmsPlaced \/ warn' # warn) /\ starting # "write") => AlarmsPlaced']_vars
  BY PlacedStep
<1>2. TypeOK /\ PollsOff /\ [Next]_vars
        => [(warn # <<>> /\ warnFreshed /\ warnFreshed' /\ warn' = warn /\ starting = "done")
               => UNCHANGED wanted]_vars
  BY ProtectedStep
<1>3. Spec => [](TypeOK /\ PollsOff)
  BY TypeStart, TypeStep, PollsOffStart, PollsOffStep, PTL DEF Spec
<1>4. Spec => AlarmsStayPlaced
  BY <1>1, <1>3, PTL DEF Spec, AlarmsStayPlaced
<1>5. Spec => AlarmPictureProtected
  BY <1>2, <1>3, PTL DEF Spec, AlarmPictureProtected
<1>6. QED
  BY <1>4, <1>5 DEF AlarmsHold
=============================================================================
