---------------------------- MODULE CameraTable ----------------------------
(***************************************************************************)
(* The cameras of the train as the configuration tells them: STATE_Init    *)
(* reads them one by one into the table and into the lists of the          *)
(* recorders, then the camera each alarm belongs to (src/state/state.c);   *)
(* the live page then makes a button for each place that has a camera      *)
(* (src/cctv/cctv.cpp), and the recordings page offers the cameras of a    *)
(* car and asks its recorder for one of them (src/cctv/recordmanage.cpp).  *)
(*                                                                         *)
(* Two recorders, 2k and 2k+1, make a pair and record the same cameras.    *)
(* A camera whose line is not in order stops the reading: some of its      *)
(* fields are in the table by then, the cameras after it are not, and no   *)
(* alarm gets a camera.  Without a number of cameras none is read.  An     *)
(* address without "://" is passed over unnoticed: the camera is there     *)
(* without it.                                                             *)
(*                                                                         *)
(* A recorder has room for 12 cameras and nobody counts: one more is       *)
(* written behind acVideoIdx, which is undefined, and the model ends.      *)
(***************************************************************************)
EXTENDS Integers, SequencesExt

CONSTANTS
    CameraFiles,    \* [count, lines, alarms]: the configurations
    VideoNums,      \* the numbers of cameras there may be: 28 and 32
    MaxListed,      \* places of acVideoIdx: 12
    PlaceGroups,    \* groups of buttons: 8
    MaxImage        \* names of cameras: 32

Recorders == 0 .. 5
ListedBy(nvr) == {(nvr \div 2) * 2, (nvr \div 2) * 2 + 1}
NoCamera == -1          \* 0xff
NoCount == -1           \* no IPCNUM in the file
Spots == (0 .. PlaceGroups - 1) \X (0 .. 3)

\* A line of the file, of which the first `fields' are there; whether its two
\* addresses have a "://".
Lines == [fields : 0 .. 6, nvr : Int, group : Int, pos : Int, img : Int,
          subOk : BOOLEAN, mainOk : BOOLEAN]

ASSUME TableAssumption ==
    /\ VideoNums \subseteq Nat \ {0}
    /\ \E n \in VideoNums : \A m \in VideoNums : m <= n
    /\ \A c \in CameraFiles : c.count \in Nat \cup {NoCount} /\ c.lines \in Seq(Lines)
    /\ PlaceGroups \in Nat /\ MaxImage \in Nat /\ MaxListed \in Nat

VARIABLES
    file,           \* CCTVConfig.ini
    toRead,         \* "cameras", "alarms", "nothing"; "overrun": undefined
    ipcInfo,        \* the part of g_atIpcInfo that has been written to
    lists,          \* acVideoIdx of each recorder
    alarmCamera,    \* g_acPecuVideoIdx, g_acFireVideoIdx, g_acDoorVideoIdx
    buttons,        \* the image on each place's button, 0: hidden
    carBox,         \* the car chosen on the page, -1: no page yet
    cameraBox,      \* the cameras it offers
    m_iNvrNo,       \* of the page: nothing is ever stored in it
    request         \* the last search: car, entry chosen, camera asked for

tableVars == <<file, toRead, ipcInfo, lists, alarmCamera>>
pageVars == <<buttons, carBox, cameraBox, m_iNvrNo, request>>
cameraVars == <<tableVars, pageVars>>

(* A count that is none of the known becomes the largest.                  *)
VideoNum == IF file.count = NoCount THEN 0
            ELSE IF file.count \in VideoNums THEN file.count
            ELSE CHOOSE n \in VideoNums : \A m \in VideoNums : m <= n
LineOf(i) == IF i < Len(file.lines) THEN file.lines[i + 1]
             ELSE [fields |-> 0, nvr |-> 0, group |-> 0, pos |-> 0, img |-> 0,
                   subOk |-> FALSE, mainOk |-> FALSE]

TableInit ==
    /\ file \in CameraFiles
    /\ toRead = IF file.count = NoCount THEN "alarms" ELSE "cameras"
    /\ ipcInfo = <<>>
    /\ lists = [r \in Recorders |-> <<>>]
    /\ alarmCamera = [a \in DOMAIN file.alarms |-> NoCamera]
    /\ buttons = [p \in Spots |-> 0]
    /\ carBox = -1 /\ cameraBox = <<>>
    /\ m_iNvrNo \in Recorders
    /\ request = <<>>

(* ParseIpcInfo: what the fields that are there leave in the table; the    *)
(* numbers of recorder, group and place count from 1 in the file.  A line  *)
(* may end after the number of the image: the camera has no address then,  *)
(* or after the first of its two addresses, and what AddUserPasswordToRtsp *)
(* returns is not looked at.                                               *)
Parsed(l) ==
    [nvr   |-> IF l.fields > 0 THEN l.nvr - 1 ELSE -1,
     group |-> IF l.fields > 1 THEN l.group - 1 ELSE -1,
     pos   |-> IF l.fields > 2 THEN l.pos - 1 ELSE -1,
     img   |-> IF l.fields > 3 THEN l.img ELSE -1,
     sub   |-> l.fields > 4 /\ l.subOk,
     main  |-> l.fields > 5 /\ l.mainOk]

InOrderLine(l) ==
    /\ l.fields >= 4
    /\ l.nvr \in 1 .. 6 /\ l.group \in 1 .. PlaceGroups /\ l.pos \in 1 .. 4
    /\ l.img \in 1 .. MaxImage

\* Mutant: a line that is not in order is passed over.
AfterBadLine_Next == IF Len(ipcInfo) + 1 = VideoNum THEN "alarms" ELSE "cameras"
(* ReadNvrAndIpc fails, and ParseVideoRele with it.                        *)
AfterBadLine == "nothing"

ReadCamera ==
    LET i == Len(ipcInfo)
        l == LineOf(i)
        full == InOrderLine(l) /\ Len(lists[Parsed(l).nvr]) >= MaxListed
    IN  /\ toRead = "cameras"
        /\ ipcInfo' = Append(ipcInfo, Parsed(l))
        /\ \/ /\ InOrderLine(l) /\ ~full
              /\ lists' = [r \in Recorders |->
                             IF r \in ListedBy(Parsed(l).nvr)
                             THEN Append(lists[r], i) ELSE lists[r]]
              /\ toRead' = IF i + 1 = VideoNum THEN "alarms" ELSE "cameras"
           \/ ~InOrderLine(l) /\ toRead' = AfterBadLine /\ UNCHANGED lists
           \/ full /\ toRead' = "overrun" /\ UNCHANGED lists
        /\ UNCHANGED <<file, alarmCamera, pageVars>>

(* ReadWarnRelate: an alarm whose camera is not one of the table has none. *)
ReadWarnRelate ==
    /\ toRead = "alarms"
    /\ alarmCamera' = [a \in DOMAIN file.alarms |->
                         IF file.alarms[a] \in 1 .. VideoNum
                         THEN file.alarms[a] - 1 ELSE NoCamera]
    /\ toRead' = "nothing"
    /\ UNCHANGED <<file, ipcInfo, lists, pageVars>>

-----------------------------------------------------------------------------
(* The pages.  The program starts whatever STATE_Init has returned; a      *)
(* camera that was not read has -1 for every number.                       *)

Info(i) == IF i < Len(ipcInfo) THEN ipcInfo[i + 1]
           ELSE [nvr |-> -1, group |-> -1, pos |-> -1, img |-> -1,
                 sub |-> FALSE, main |-> FALSE]

(* GetVideoIdxAccordBtnPose: the first camera that has the place.          *)
CameraAt(p) ==
    LET here == {i \in 0 .. VideoNum - 1 : <<Info(i).group, Info(i).pos>> = p} IN
    IF here = {} THEN NoCamera ELSE CHOOSE i \in here : \A j \in here : i <= j

GetVideoImgIdx(i) == Info(i).img

NoUrl == <<>>

(* The address of a picture among others, and of the enlarged picture.     *)
GetVideoRtspUrl(i) == IF Info(i).sub THEN <<"sub", i>> ELSE NoUrl

GetVideoMainRtspUrl(i) == IF Info(i).main THEN <<"main", i>> ELSE GetVideoRtspUrl(i)

(* setUi: the button of a place shows the image of its camera; it is       *)
(* hidden when there is no camera or no such image.                        *)
ButtonFor(p) ==
    IF CameraAt(p) # NoCamera /\ GetVideoImgIdx(CameraAt(p)) \in 1 .. MaxImage
    THEN GetVideoImgIdx(CameraAt(p)) ELSE 0

setUi ==
    /\ toRead = "nothing"
    /\ buttons' = [p \in Spots |-> ButtonFor(p)]

GetNvrVideoNum(nvr) == Len(lists[nvr])
GetNvrVideoIdx(nvr, n) ==
    IF n \in 0 .. GetNvrVideoNum(nvr) - 1 THEN lists[nvr][n + 1] ELSE NoCamera
Offered(nvr) == [n \in 1 .. GetNvrVideoNum(nvr) |-> GetNvrVideoIdx(nvr, n - 1)]

(* getTrainConfig, after the live page: the first car is chosen, and       *)
(* recorder 1 is asked for the cameras.                                    *)
getTrainConfig ==
    /\ setUi /\ carBox = -1
    /\ carBox' = 0
    /\ cameraBox' = Offered(1)
    /\ UNCHANGED <<tableVars, m_iNvrNo, request>>

(* carNoChangeSlot.                                                        *)
ChooseCar ==
    /\ carBox # -1
    /\ carBox' \in Recorders \ {carBox}
    /\ cameraBox' = Offered(carBox')
    /\ UNCHANGED <<tableVars, buttons, m_iNvrNo, request>>

(* The camera is looked up for the recorder m_iNvrNo, whichever car is     *)
(* chosen; the request counts cameras from 1.                              *)
CameraAskedFor(n) == GetNvrVideoIdx(m_iNvrNo, n) + 1

(* SearchBtnClicked, for the n-th camera offered.                          *)
AskForRecordings ==
    /\ carBox # -1
    /\ \E n \in 0 .. Len(cameraBox) - 1 :
         request' = [car |-> carBox, chosen |-> cameraBox[n + 1], camera |-> CameraAskedFor(n)]
    /\ UNCHANGED <<tableVars, buttons, carBox, cameraBox, m_iNvrNo>>

TableNext == ReadCamera \/ ReadWarnRelate \/ getTrainConfig \/ ChooseCar \/ AskForRecordings

-----------------------------------------------------------------------------
(* ReadNvrAndIpc, ReadWarnRelate, setUi, carNoChangeSlot: buttons, page,   *)
(* recorders and alarms agree on who has which camera, however much of the *)
(* configuration could be read: the cameras offered are those recorded in  *)
(* the car chosen, each can be brought up by the button that shows its     *)
(* image, unless another one was told the same place, and the camera of an *)
(* alarm can be found in a car.                                            *)
OffersTheCar ==
    /\ Range(cameraBox) = {i \in 0 .. Len(ipcInfo) - 1 :
                              /\ carBox \in ListedBy(ipcInfo[i + 1].nvr)
                              /\ InOrderLine(LineOf(i))}
    /\ IsInjective(cameraBox)

HasButton(i) ==
    LET p == <<Info(i).group, Info(i).pos>> IN
    CameraAt(p) = i => buttons[p] = Info(i).img

(* A camera that plays among others can be enlarged.  One that can be      *)
(* enlarged plays among others, unless it was told an address without      *)
(* "://".                                                                  *)
Enlarges(i) ==
    /\ GetVideoRtspUrl(i) # NoUrl => GetVideoMainRtspUrl(i) # NoUrl
    /\ GetVideoMainRtspUrl(i) # NoUrl /\ GetVideoRtspUrl(i) = NoUrl
          => LineOf(i).mainOk /\ ~LineOf(i).subOk

(* A search asks the recorder for the camera that was chosen - as long as  *)
(* m_iNvrNo happens to be a recorder of the car's pair.                    *)
AsksForTheChosen ==
    request # <<>> /\ ListedBy(request.car) = ListedBy(m_iNvrNo)
        => request.camera = request.chosen + 1

TableAgrees ==
    /\ carBox # -1 => OffersTheCar /\ \A i \in Range(cameraBox) : HasButton(i)
    /\ \A i \in 0 .. VideoNum - 1 : Enlarges(i)
    /\ AsksForTheChosen
    /\ \A a \in DOMAIN alarmCamera :
         alarmCamera[a] # NoCamera =>
            \E r \in Recorders : alarmCamera[a] \in Range(lists[r])
=============================================================================
