------------------------------ MODULE PlayCtrl ------------------------------
(***************************************************************************)
(* The live-view controller (src/cctv/cctv.cpp): which cameras the page    *)
(* wants on the screen, which it believes are there, and the player        *)
(* handles that show them.                                                 *)
(*                                                                         *)
(* Everything but one start-up call runs on the GUI thread, but the        *)
(* requests and their execution are separate events: buttons, the poll     *)
(* timer and the alarm timer write g_eNextPlayStyle, g_iNextSingleVideoIdx *)
(* and g_aiNextFourVideoIdx, and PlayCtrlFunSlot, twice a second, brings   *)
(* the screen to them.  Both 500 ms timers may fire twice while the other  *)
(* fires once (after a stall of the GUI thread the one whose next multiple *)
(* is nearer comes again first), so the model orders them freely.          *)
(*                                                                         *)
(* A handle is NULL, or the camera its media is opened for (-1: opened for *)
(* nothing or closed).  Calls on a NULL handle do nothing.  The handles    *)
(* g_pHplay[4..7] and g_hBackSinglePlay are never set in the code and      *)
(* g_iBackSingleVideoIdx is -1 whenever it is read; they are left out, and *)
(* so are pictures, labels, colours and which widget is in front.          *)
(***************************************************************************)
EXTENDS Sequences, Ranks

CONSTANTS
    Cameras,        \* camera indices 0 .. GetVideoNum() - 1
    Slots,          \* places of the multi-picture view (0 .. 3 in the code)
    Groups,         \* the groups of cameras, each [Slots -> Cameras \cup {-1}]
    AlarmLists,     \* the lists of alarm cameras, in the order of the scan,
                    \* which enters no camera twice
    NULL            \* no player handle

NoCamera == -1
Shown == Cameras \cup {NoCamera}
SINGLE == "E_SINGLE_VPLAY"
FOUR   == "E_FOUR_VPLAY"

ASSUME CamerasAssumption == Cameras \subseteq Nat /\ 0 \in Cameras
ASSUME SlotsAssumption == Slots \subseteq Nat /\ 0 \in Slots /\ IsFiniteSet(Slots)
ASSUME GroupsAssumption == Groups \subseteq [Slots -> Shown] /\ Groups # {}
ASSUME AlarmsAssumption ==
    /\ AlarmLists \subseteq Seq(Cameras)
    /\ \A w \in AlarmLists : \A j, k \in DOMAIN w : j # k => w[j] # w[k]
ASSUME NullAssumption == NULL \notin Shown

VARIABLES
    curStyle, nextStyle,    \* g_eCurPlayStyle, g_eNextPlayStyle
    curSingle, nextSingle,  \* g_iCurSingleVideoIdx, g_iNextSingleVideoIdx
    curFour, nextFour,      \* g_aiCurFourVideoIdx, g_aiNextFourVideoIdx
    hSinglePlay,            \* g_hSinglePlay
    hPlay,                  \* g_pHplay[0 .. 3]
    initFlag, multInitFlag, \* g_init_flag, g_imult_init_flag
    cycleFlag,              \* g_iVideoCycleFlag
    warn,                   \* the alarm cameras of the last scan
    warnFreshed,            \* g_iWarnFreshed: their picture is still to come
    page,                   \* "live": this page; "menu": it is hidden
    starting,               \* monitorTread's poll: "check", "write", "done"
    lost,                   \* handles a CMP_Init overwrote, by place
    saved                   \* what the last handle put away in hTmp goes on playing

wanted  == <<nextStyle, nextSingle, nextFour>>
screen  == <<curStyle, curSingle, curFour>>
players == <<hSinglePlay, hPlay, initFlag, multInitFlag, lost, saved>>
alarms  == <<cycleFlag, warn, warnFreshed>>
vars    == <<wanted, screen, players, alarms, page, starting>>

OneBig == -1       \* the place of the single picture
Places == Slots \cup {OneBig}

TypeOK ==
    /\ curStyle \in {SINGLE, FOUR} /\ nextStyle \in {SINGLE, FOUR}
    /\ curSingle \in Shown /\ nextSingle \in Shown
    /\ curFour \in [Slots -> Shown] /\ nextFour \in [Slots -> Shown]
    /\ hSinglePlay \in Shown \cup {NULL}
    /\ hPlay \in [Slots -> Shown \cup {NULL}]
    /\ initFlag \in BOOLEAN /\ multInitFlag \in [Slots -> BOOLEAN]
    /\ cycleFlag \in BOOLEAN
    /\ warn \in AlarmLists \cup {<<>>}
    /\ warnFreshed \in BOOLEAN
    /\ page \in {"live", "menu"}
    /\ starting \in {"check", "write", "done"}
    /\ lost \in [Places -> Nat]
    /\ saved \in Shown \cup {NULL}

Nothing == [i \in Slots |-> NoCamera]

Init ==
    /\ curStyle = FOUR /\ nextStyle = FOUR
    /\ curSingle = NoCamera /\ nextSingle = NoCamera
    /\ curFour = Nothing /\ nextFour = Nothing
    /\ hSinglePlay = NULL /\ hPlay = [i \in Slots |-> NULL]
    /\ initFlag = FALSE /\ multInitFlag = [i \in Slots |-> FALSE]
    /\ cycleFlag = TRUE
    /\ warn = <<>> /\ warnFreshed = FALSE
    /\ page = "live"
    /\ starting = "check"
    /\ lost = [k \in Places |-> 0]
    /\ saved = NULL

-----------------------------------------------------------------------------
(* Player handles.                                                         *)

(* CMP_OpenMediaPreview and CMP_PlayMedia.                                 *)
Open(h, c) == IF h = NULL THEN NULL ELSE c
(* CMP_CloseMedia without CMP_UnInit.                                      *)
Closed(h) == IF h = NULL THEN NULL ELSE NoCamera
(* A place whose handle CMP_Init replaces.                                 *)
Overwritten(h) == IF h = NULL THEN 0 ELSE 1

-----------------------------------------------------------------------------
(* PlayStyleChangedfunc, called by the tick and by the two style buttons   *)
(* when g_eNextPlayStyle differs.  It takes the requests as parameters,    *)
(* for the buttons change them first.                                      *)

(* To the multi-picture view: all handles are closed, the wanted cameras   *)
(* opened afresh.                                                          *)
ToFour(four) ==
    /\ hSinglePlay' = NULL
    /\ curSingle' = NoCamera /\ nextSingle' = NoCamera
    /\ hPlay' = [i \in Slots |-> IF four[i] = NoCamera THEN NULL ELSE four[i]]
    /\ curFour' = four /\ nextFour' = four
    /\ curStyle' = FOUR /\ nextStyle' = FOUR

(* To one picture: the slots are closed and no longer wanted, but a slot   *)
(* without a handle keeps its current camera.                              *)
ToSingle(single) ==
    /\ hPlay' = [i \in Slots |-> NULL]
    /\ curFour' = [i \in Slots |-> IF hPlay[i] = NULL THEN curFour[i] ELSE NoCamera]
    /\ nextFour' = Nothing
    /\ hSinglePlay' = IF curSingle = single THEN hSinglePlay ELSE single
    /\ curSingle' = single /\ nextSingle' = single
    /\ curStyle' = SINGLE /\ nextStyle' = SINGLE

-----------------------------------------------------------------------------
(* PlayCtrlFunSlot: every 500 ms, also while the page is hidden.           *)

(* The multi-picture view gives way to one enlarged picture: the slots are *)
(* paused, not closed.                                                     *)
Enlarge ==
    /\ nextSingle \notin {curSingle, NoCamera}
    /\ hSinglePlay' = nextSingle
    /\ curSingle' = nextSingle
    /\ UNCHANGED <<curFour, hPlay, multInitFlag, lost>>

(* Back from the enlarged picture: a slot that changed meanwhile gets a    *)
(* new handle, or none.                                                    *)
Shrink ==
    /\ nextSingle = NoCamera /\ curSingle # NoCamera
    /\ hSinglePlay' = NULL
    /\ curSingle' = NoCamera
    /\ hPlay' = [i \in Slots |->
            IF curFour[i] = nextFour[i] THEN hPlay[i]
            ELSE IF nextFour[i] = NoCamera THEN NULL ELSE nextFour[i]]
    /\ curFour' = nextFour
    /\ UNCHANGED <<multInitFlag, lost>>

(* The slots that are to show another camera: their media is closed, the   *)
(* handle kept.  The first time a slot gets here it is given a handle      *)
(* whether it has one or not; never again after that.                      *)
Changed == {i \in Slots : curFour[i] # nextFour[i]}
Opening == {i \in Changed : nextFour[i] # NoCamera}
\* Mutant: the flag of the slot is not tested.
Fresh_Always == Opening
Fresh == {i \in Opening : ~multInitFlag[i]}

\* Mutant: the media of a slot that becomes empty is not closed.
Refill_LeavesOpen ==
    /\ nextSingle = NoCamera /\ curSingle = NoCamera
    /\ hPlay' = [i \in Slots |->
            IF i \in Fresh THEN nextFour[i]
            ELSE IF i \in Opening THEN Open(hPlay[i], nextFour[i]) ELSE hPlay[i]]
    /\ multInitFlag' = [i \in Slots |-> multInitFlag[i] \/ i \in Fresh]
    /\ lost' = [k \in Places |->
            IF k \in Fresh THEN lost[k] + Overwritten(hPlay[k]) ELSE lost[k]]
    /\ curFour' = nextFour
    /\ UNCHANGED <<curSingle, hSinglePlay>>

Refill ==
    /\ nextSingle = NoCamera /\ curSingle = NoCamera
    /\ hPlay' = [i \in Slots |->
            IF i \in Fresh THEN nextFour[i]
            ELSE IF i \in Changed THEN Open(hPlay[i], nextFour[i]) ELSE hPlay[i]]
    /\ multInitFlag' = [i \in Slots |-> multInitFlag[i] \/ i \in Fresh]
    /\ lost' = [k \in Places |->
            IF k \in Fresh THEN lost[k] + Overwritten(hPlay[k]) ELSE lost[k]]
    /\ curFour' = nextFour
    /\ UNCHANGED <<curSingle, hSinglePlay>>

FourPlayStylefunc ==
    /\ curStyle = FOUR
    /\ \/ Enlarge
       \/ Shrink
       \/ Refill
       \/ /\ nextSingle = curSingle /\ curSingle # NoCamera
          /\ UNCHANGED <<curSingle, curFour, hSinglePlay, hPlay, multInitFlag, lost>>
    /\ UNCHANGED <<initFlag, saved>>

(* The camera of the only alarm.                                           *)
WarnIdx == IF Len(warn) = 1 THEN warn[1] ELSE NoCamera

(* What is left of the handle: closed and kept, or, when it shows the      *)
(* alarm's camera, hidden and put away in the local hTmp.                  *)
PutAway == hSinglePlay # NULL /\ WarnIdx = curSingle
Left    == IF PutAway THEN NULL ELSE Closed(hSinglePlay)

SinglePlayStylefunc ==
    /\ curStyle = SINGLE
    /\ IF nextSingle = curSingle
       THEN UNCHANGED <<curSingle, hSinglePlay, initFlag, lost, saved>>
       ELSE /\ saved' = IF PutAway THEN hSinglePlay ELSE saved
            /\ curSingle' = nextSingle
            /\ initFlag' = (initFlag \/ nextSingle # NoCamera)
            /\ hSinglePlay' =
                IF nextSingle = NoCamera THEN Left
                ELSE IF initFlag THEN Open(Left, nextSingle) ELSE nextSingle
            /\ lost' = IF initFlag' = initFlag THEN lost
                       ELSE [lost EXCEPT ![OneBig] = @ + Overwritten(Left)]
    /\ UNCHANGED <<curFour, hPlay, multInitFlag>>

PlayCtrlFunSlot ==
    /\ IF curStyle # nextStyle
       THEN /\ IF nextStyle = FOUR THEN ToFour(nextFour) ELSE ToSingle(nextSingle)
            /\ UNCHANGED <<initFlag, multInitFlag, lost, saved>>
       ELSE /\ FourPlayStylefunc \/ SinglePlayStylefunc
            /\ UNCHANGED <<curStyle, wanted>>
    /\ warnFreshed' = FALSE
    /\ UNCHANGED <<cycleFlag, warn, page, starting>>

-----------------------------------------------------------------------------
(* Requests of the poll timer.                                             *)

(* The group GetNextFourVideo and the camera GetNextSingleVideo choose are *)
(* left open here: any group, any camera.                                  *)
PollFour ==
    /\ nextSingle' = NoCamera
    /\ nextFour' \in Groups

PollSingle ==
    /\ nextSingle' \in Cameras
    /\ UNCHANGED nextFour

videoPollingfunction ==
    /\ page = "live"
    /\ cycleFlag
    /\ IF curStyle = FOUR THEN PollFour ELSE PollSingle
    /\ UNCHANGED <<nextStyle, screen, players, alarms, page, starting>>

(* monitorTread calls the same function once when it starts, not on the    *)
(* GUI thread: the flag may change between its test and the writes.        *)
StartCheck ==
    /\ starting = "check"
    /\ starting' = IF cycleFlag THEN "write" ELSE "done"
    /\ UNCHANGED <<wanted, screen, players, alarms, page>>

StartWrite ==
    /\ starting = "write"
    /\ IF curStyle = FOUR THEN PollFour ELSE PollSingle
    /\ starting' = "done"
    /\ UNCHANGED <<nextStyle, screen, players, alarms, page>>

-----------------------------------------------------------------------------
(* updateWarnInfoSLot: the alarms have changed since the last scan.        *)

Of(w) == {w[j] : j \in DOMAIN w}

(* A slot that shows an alarm camera keeps it (the first slot that does).  *)
Keep(w) == [i \in Slots |->
    IF curFour[i] \in Of(w) /\ ~ \E h \in Slots : h < i /\ curFour[h] = curFour[i]
    THEN curFour[i] ELSE NoCamera]

Free(w) == {i \in Slots : Keep(w)[i] = NoCamera}
New(w)  == {j \in DOMAIN w : \A i \in Slots : Keep(w)[i] # w[j]}

(* The k-th free slot takes the k-th alarm camera that has none.           *)
Filled(w) == [i \in Slots |->
    IF i \notin Free(w) THEN Keep(w)[i]
    ELSE IF Rank(i, Free(w)) <= Cardinality(New(w))
         THEN w[Nth(Rank(i, Free(w)), New(w))]
         ELSE NoCamera]

(* When no slot is free the first alarm camera pushes slot 0 out.          *)
Place(w) ==
    IF \A i \in Slots : Filled(w)[i] # w[1] THEN [Filled(w) EXCEPT ![0] = w[1]] ELSE Filled(w)

(* Several alarms: the multi-picture view with the alarm cameras.          *)
WarnSeveral(w) ==
    /\ Len(w) > 1
    /\ cycleFlag' = FALSE
    /\ nextStyle' = IF curStyle = SINGLE THEN FOUR ELSE nextStyle
    /\ nextFour' = Place(w)
    /\ nextSingle' = IF curStyle = SINGLE \/ nextFour' # curFour THEN NoCamera ELSE nextSingle

(* One alarm: its camera in the single-picture view.                       *)
WarnOne(w) ==
    /\ Len(w) = 1
    /\ cycleFlag' = FALSE
    /\ nextStyle' = IF curStyle = FOUR THEN SINGLE ELSE nextStyle
    /\ nextSingle' = w[1]
    /\ UNCHANGED nextFour

(* No alarm any more: the cameras of one group (group 1 in the code), or   *)
(* the single picture that is there.                                       *)
WarnNone(w) ==
    /\ Len(w) = 0
    /\ IF curStyle = SINGLE
       THEN /\ nextSingle' = IF curSingle = NoCamera THEN 0 ELSE nextSingle
            /\ UNCHANGED nextFour
       ELSE PollFour
    /\ UNCHANGED <<cycleFlag, nextStyle>>

updateWarnInfoSLot(w) ==
    /\ page = "live"
    /\ w # warn
    /\ warn' = w
    /\ warnFreshed' = TRUE
    /\ WarnSeveral(w) \/ WarnOne(w) \/ WarnNone(w)
    /\ UNCHANGED <<screen, players, page, starting>>

-----------------------------------------------------------------------------
(* The operator.                                                           *)

(* A double click on a window: an enlarged picture shrinks, another one is *)
(* enlarged if its window has a handle.                                    *)
PlayWidCicked(k) ==
    /\ page = "live"
    /\ ~warnFreshed
    /\ curStyle = FOUR
    /\ IF curSingle # NoCamera THEN nextSingle' = NoCamera
       ELSE k \in Slots /\ hPlay[k] # NULL /\ nextSingle' = curFour[k]
    /\ UNCHANGED <<nextStyle, nextFour, screen, players, alarms, page, starting>>

(* Every window tells that it was pressed, also the big one.               *)
eventFilter == \E k \in Places : PlayWidCicked(k)

\* Mutant: the button does not look at g_iWarnFreshed.
GroupButtonVideoClickSlot_NoGuard(c) ==
    /\ page = "live"
    /\ IF curStyle = SINGLE \/ warn # <<>>
       THEN nextSingle' = c /\ UNCHANGED nextFour
       ELSE /\ nextSingle' = NoCamera
            /\ nextFour' \in {g \in Groups : \E i \in Slots : g[i] = c}
    /\ UNCHANGED <<nextStyle, screen, players, alarms, page, starting>>

(* A camera's button.                                                      *)
GroupButtonVideoClickSlot(c) ==
    /\ page = "live"
    /\ ~warnFreshed
    /\ IF curStyle = SINGLE \/ warn # <<>>
       THEN nextSingle' = c /\ UNCHANGED nextFour
       ELSE /\ nextSingle' = NoCamera
            /\ nextFour' \in {g \in Groups : \E i \in Slots : g[i] = c}
    /\ UNCHANGED <<nextStyle, screen, players, alarms, page, starting>>

(* An alarm's icon (fire, door, door clip, emergency call).                *)
WarnButton(c) ==
    /\ page = "live"
    /\ ~warnFreshed
    /\ c \in Of(warn)
    /\ nextSingle' = c
    /\ UNCHANGED <<nextStyle, nextFour, screen, players, alarms, page, starting>>

(* The single-picture button: the enlarged picture, or the first picture.  *)
SingleOf ==
    IF curSingle # NoCamera THEN curSingle
    ELSE LET on == {i \in Slots : curFour[i] # NoCamera} IN
         IF on # {} THEN curFour[CHOOSE i \in on : \A h \in on : i <= h]
         ELSE IF nextSingle # NoCamera THEN nextSingle ELSE 0

sigalePageSlot ==
    /\ page = "live"
    /\ warn = <<>>
    /\ curStyle = FOUR
    /\ ToSingle(SingleOf)
    /\ UNCHANGED <<initFlag, multInitFlag, lost, saved, alarms, page, starting>>

(* The multi-picture button: the group of the single picture.              *)
fourPageSlot ==
    /\ page = "live"
    /\ warn = <<>>
    /\ curStyle = SINGLE
    /\ \E g \in Groups : (curSingle # NoCamera => \E i \in Slots : g[i] = curSingle) /\ ToFour(g)
    /\ UNCHANGED <<initFlag, multInitFlag, lost, saved, alarms, page, starting>>

(* The two buttons for polling.                                            *)
cycleSlot ==
    /\ page = "live"
    /\ warn = <<>>
    /\ cycleFlag' = ~cycleFlag
    /\ nextSingle' = IF cycleFlag' /\ curStyle = FOUR THEN NoCamera ELSE nextSingle
    /\ UNCHANGED <<nextStyle, nextFour, screen, players, warn, warnFreshed, page, starting>>

(* The page is left: only the handles of the current style are closed, and *)
(* the two request timers stop.                                            *)
showMonitorManagePage ==
    /\ page = "live"
    /\ page' = "menu"
    /\ IF curStyle = FOUR
       THEN hPlay' = [i \in Slots |-> NULL] /\ UNCHANGED hSinglePlay
       ELSE hSinglePlay' = NULL /\ UNCHANGED hPlay
    /\ UNCHANGED <<wanted, screen, initFlag, multInitFlag, lost, saved, alarms, starting>>

(* The page comes back: places without a handle get one for the camera     *)
(* that is wanted there.                                                   *)
showcctvPage ==
    /\ page = "menu"
    /\ page' = "live"
    /\ IF curStyle = FOUR
       THEN /\ hPlay' = [i \in Slots |-> IF hPlay[i] = NULL THEN nextFour[i] ELSE hPlay[i]]
            /\ curSingle' = nextSingle
            /\ UNCHANGED hSinglePlay
       ELSE /\ hSinglePlay' = IF hSinglePlay = NULL THEN nextSingle ELSE hSinglePlay
            /\ UNCHANGED <<hPlay, curSingle>>
    /\ UNCHANGED <<wanted, curStyle, curFour, initFlag, multInitFlag, lost, saved,
                   alarms, starting>>

Next ==
    \/ PlayCtrlFunSlot
    \/ videoPollingfunction \/ StartCheck \/ StartWrite
    \/ \E w \in AlarmLists \cup {<<>>} : updateWarnInfoSLot(w)
    \/ eventFilter
    \/ \E c \in Cameras : GroupButtonVideoClickSlot(c) \/ WarnButton(c)
    \/ sigalePageSlot \/ fourPageSlot \/ cycleSlot
    \/ showMonitorManagePage \/ showcctvPage

Spec == Init /\ [][Next]_vars

-----------------------------------------------------------------------------
(* Properties.                                                             *)

(* CMP_Init overwrites a live handle at most once for each place: the init *)
(* flags make sure of it, whatever the order of style changes, page        *)
(* changes and alarms that create handles behind the flags' back.          *)
LostOnce == \A k \in Places : lost[k] <= 1

(* What a place without pending change shows: its own camera or nothing.   *)
TruePictures ==
    /\ \A i \in Slots : hPlay[i] \in {NULL, curFour[i]}
    /\ hSinglePlay \in {NULL, curSingle}

Settled == curStyle = nextStyle /\ curSingle = nextSingle /\ curFour = nextFour

(* No handle comes to play another camera than the one the controller      *)
(* believes it plays, neither through a style change, an enlargement or a  *)
(* refill nor by leaving the page; only a return to the page with a        *)
(* request still pending can do that.                                      *)
PicturesStayTrue == [][(TruePictures /\ (page' = page \/ Settled)) => TruePictures']_vars

(* Several alarms in the multi-picture view: each has its slot, or if they *)
(* are more than the slots, at least the first one.                        *)
AlarmsPlaced ==
    (Len(warn) > 1 /\ nextStyle = FOUR) =>
        \A j \in DOMAIN warn :
            (j = 1 \/ Len(warn) <= Cardinality(Slots)) => \E i \in Slots : nextFour[i] = warn[j]

(* A scan that finds several alarms places them whatever the slots showed, *)
(* and they keep their slots until the next scan that finds a change:      *)
(* neither the operator nor the polls take them away.  The exception is    *)
(* monitorTread between its test of the flag and its writes.               *)
AlarmsStayPlaced ==
    [][((AlarmsPlaced \/ warn' # warn) /\ starting # "write") => AlarmsPlaced']_vars

(* From the scan that finds an alarm to the tick that brings it up, no     *)
(* other command changes what is wanted (again monitorTread apart).        *)
AlarmPictureProtected ==
    [][(warn # <<>> /\ warnFreshed /\ warnFreshed' /\ warn' = warn /\ starting = "done")
          => UNCHANGED wanted]_vars

(* What an alarm has put on the screen, or is about to, stays              *)
(* (updateWarnInfoSLot, GroupButtonVideoClickSlot, videoPollingfunction).  *)
AlarmsHold == AlarmsStayPlaced /\ AlarmPictureProtected

-----------------------------------------------------------------------------
(* What a comment of cctv.cpp says and the code does not do.               *)

(* cctv.cpp:336: the handle of the only alarm is always kept, so that a    *)
(* click on the alarm's icon can switch back to it quickly.                *)
AlarmHandleComesBack ==
    [][(curStyle = SINGLE /\ curStyle' = SINGLE /\ page = "live" /\ warn = <<saved>>
        /\ curSingle # saved /\ curSingle' = saved) => hSinglePlay' = saved]_vars
=============================================================================
