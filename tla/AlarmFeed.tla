----------------------------- MODULE AlarmFeed -----------------------------
(***************************************************************************)
(* The way of an alarm from the train's broadcast to the screen.           *)
(* ParseBroadcastSysData (src/pmsg/pmsgproc.c) runs on the receiving       *)
(* thread and stores the alarms of a message one after the other in the    *)
(* tables of src/state/state.c; updateWarnInfoSLot (src/cctv/cctv.cpp)     *)
(* runs on the GUI thread twice a second, reads the tables one entry after *)
(* the other, and makes new lists when they differ from those it knows.    *)
(* There is no lock, so each store and each read is a step of its own.     *)
(*                                                                         *)
(* A table entry is the set of the alarms raised in it: a byte holds the   *)
(* doors, or the fire, of a car, one word holds all PECUs, and one more    *)
(* the camera of the PECU that was pressed first.                          *)
(***************************************************************************)
EXTENDS Integers, Sequences, SequencesExt

CONSTANTS
    CarCount, DoorCount, PecuCount,     \* 6, 8 and 24 in the code
    CameraOf,       \* the camera of an alarm, by its name; UNSEEN for none
    CarMessages,    \* the messages 0x1800 the train may send
    PecuMessages    \* the messages 0x500: PECU numbers, first pressed first

Cars  == 0 .. CarCount - 1
Pecus == 0 .. PecuCount - 1
Doors == 0 .. DoorCount - 1

FIRST == <<"first", 0>>
PECU  == <<"pecu", 0>>
CarEntries == {"fire", "door", "clip"} \X Cars
Entries == CarEntries \cup {PECU, FIRST}

(* Alarms are named by their entry and their number in it.                 *)
Numbers(entry) ==
    IF entry = PECU THEN Pecus ELSE IF entry[1] = "fire" THEN {0} ELSE Doors
Alarms == UNION {{e} \X Numbers(e) : e \in CarEntries \cup {PECU}}

Kinds == {"fire", "door", "clip", "pecu"}

UNSEEN == -1

ASSUME AlarmAssumption ==
    /\ CarCount \in Nat \ {0} /\ DoorCount \in Nat \ {0} /\ PecuCount \in Nat \ {0}
    /\ CameraOf \in [Alarms -> Nat \cup {UNSEEN}]
    /\ \A m \in CarMessages : \A e \in CarEntries : m[e] \subseteq Numbers(e)
    /\ PecuMessages \subseteq Seq(Int)

VARIABLES
    table,      \* g_atCarriageWarn, g_iPecuWarnValue, g_iPecuFirstWarnVideoIdx
    todo,       \* the stores left of the message that is being parsed
    got,        \* the local copies of the scan
    pos,        \* how many entries the scan has read
    seen,       \* m_acFireWarnInfo, ..., m_iPecuInfo
    warn,       \* the cameras aiWarnVideoIdx had when a scan last found a change
    icons       \* m_aiPecuIdx, m_aiFireIdx, m_aiDoorIdx, m_aiDoorClipIdx

feedVars == <<table, todo, got, pos, seen, warn, icons>>

Nothing == [e \in Entries |-> {}]

-----------------------------------------------------------------------------
(* The receiving thread.                                                   *)

Put(entry, alarms) == [entry |-> entry, alarms |-> alarms]

(* 0x1800: fire and doors car by car, then the six bytes of door clips.    *)
CarStores(m) ==
    [n \in 1 .. 2 * CarCount |->
        LET e == <<IF n % 2 = 1 THEN "fire" ELSE "door", (n - 1) \div 2>> IN Put(e, m[e])]
    \o [n \in 1 .. CarCount |-> Put(<<"clip", n - 1>>, m[<<"clip", n - 1>>])]

(* The camera of the first PECU of the message that has one.               *)
FirstCamera(m) ==
    LET mapped == {i \in DOMAIN m : m[i] \in Pecus /\ CameraOf[<<PECU, m[i]>>] # UNSEEN} IN
    IF mapped = {} THEN {}
    ELSE {CameraOf[<<PECU, m[CHOOSE i \in mapped : \A j \in mapped : i <= j]>>]}

(* 0x500: what is no PECU's address is passed over.                        *)
PecuStores(m) == << Put(FIRST, FirstCamera(m)), Put(PECU, Pecus \cap ToSet(m)) >>

ParseBroadcastSysData ==
    /\ todo = <<>>
    /\ todo' \in {CarStores(m) : m \in CarMessages}
             \cup {PecuStores(m) : m \in PecuMessages}
    /\ UNCHANGED <<table, got, pos, seen, warn, icons>>

Store ==
    /\ todo # <<>>
    /\ table' = [table EXCEPT ![Head(todo).entry] = Head(todo).alarms]
    /\ todo' = Tail(todo)
    /\ UNCHANGED <<got, pos, seen, warn, icons>>

-----------------------------------------------------------------------------
(* The scan of the GUI.                                                    *)

OfCars(kind) == [n \in 1 .. CarCount |-> <<kind, n - 1>>]
ReadOrder == OfCars("door") \o OfCars("fire") \o OfCars("clip") \o <<PECU, FIRST>>

RaisedIn(t) == {a \in Alarms : a[2] \in t[a[1]]}

(* The cameras of all alarms, each listed once, and of the first PECU.     *)
WarnList(t) == t[FIRST] \cup {CameraOf[a] : a \in RaisedIn(t)}

(* The alarms of a kind in the order in which they are looked at.          *)
ScanOrder(kind) ==
    IF kind = "pecu" THEN [n \in 1 .. PecuCount |-> <<PECU, n - 1>>]
    ELSE IF kind = "fire" THEN [n \in 1 .. CarCount |-> <<<<"fire", n - 1>>, 0>>]
    ELSE [n \in 1 .. CarCount * DoorCount |->
            <<<<kind, (n - 1) \div DoorCount>>, (n - 1) % DoorCount>>]

Once(list) == FoldLeft(LAMBDA s, c : IF c \in ToSet(s) THEN s ELSE Append(s, c), <<>>, list)

(* The icons over the pictures, by kind: the first ones of the row are     *)
(* shown, each for a camera; two fires with one camera have two icons.     *)
IconLists(t) ==
    LET raised(k) == SelectSeq(ScanOrder(k), LAMBDA a : a \in RaisedIn(t))
        cameras(k) == [n \in DOMAIN raised(k) |-> CameraOf[raised(k)[n]]]
    IN  [k \in Kinds |-> IF k = "fire" THEN cameras(k) ELSE Once(cameras(k))]

(* setUi: the rows of icons, all hidden.                                   *)
NoIcons == [k \in Kinds |-> <<>>]

(* FindBoxFireBtnInfo and its like: the camera an icon brings up.          *)
CameraOfIcon(k, n) == icons[k][n]
IconCameras(k) == {CameraOfIcon(k, n) : n \in DOMAIN icons[k]}

ReadEntry ==
    /\ pos < Len(ReadOrder)
    /\ LET e == ReadOrder[pos + 1] IN got' = [got EXCEPT ![e] = table[e]]
    /\ pos' = pos + 1
    /\ UNCHANGED <<table, todo, seen, warn, icons>>

\* Mutant: an alarm that is gone is not looked for.
Differs_NewOnly(t) == \E e \in Entries \ {FIRST} : ~(t[e] \subseteq seen[e])
(* Which PECU was first is not compared.                                   *)
Differs(t) == \E e \in Entries \ {FIRST} : t[e] # seen[e]

(* What the scan has read is what it will compare the tables with.         *)
Noted(t) == [t EXCEPT ![FIRST] = {}]

CompareAndShow ==
    /\ pos = Len(ReadOrder)
    /\ IF Differs(got)
       THEN /\ seen' = Noted(got)
            /\ warn' = WarnList(got)
            /\ icons' = IconLists(got)
       ELSE UNCHANGED <<seen, warn, icons>>
    /\ pos' = 0
    /\ got' = Nothing
    /\ UNCHANGED <<table, todo>>

-----------------------------------------------------------------------------
FeedInit ==
    /\ table = Nothing /\ todo = <<>>
    /\ got = Nothing /\ pos = 0
    /\ seen = Nothing /\ warn = {} /\ icons = NoIcons

FeedNext == ParseBroadcastSysData \/ Store \/ ReadEntry \/ CompareAndShow

(* The threads run on; nobody promises a message.                          *)
FeedSpec ==
    FeedInit /\ [][FeedNext]_feedVars
    /\ WF_feedVars(Store) /\ WF_feedVars(ReadEntry) /\ WF_feedVars(CompareAndShow)

-----------------------------------------------------------------------------
(* Properties.                                                             *)

Raised(a) == a[2] \in table[a[1]]

(* An alarm that stays raised comes to the screen and stays there, however *)
(* the stores of messages and the reads of the scans mix.                  *)
AlarmIsShown ==
    \A a \in Alarms : <>[]Raised(a) => <>[](CameraOf[a] \in warn \cap IconCameras(a[1][1]))

(* An icon leaves with its alarms: when no alarm of its kind and camera is *)
(* raised any more, no half of an old message keeps it on the screen.      *)
IconLeaves ==
    \A a \in Alarms :
        LET same == {b \in Alarms : b[1][1] = a[1][1] /\ CameraOf[b] = CameraOf[a]} IN
        <>[](\A b \in same : ~Raised(b)) => <>[](CameraOf[a] \notin IconCameras(a[1][1]))
=============================================================================
