------------------------------ MODULE MCParts ------------------------------
(***************************************************************************)
(* The parts of the client that are each modelled by themselves, one of    *)
(* them per behaviour: part tells which, the others stay as they are       *)
(* pinned here.                                                            *)
(***************************************************************************)
EXTENDS SearchDate, TimeSet, PollOrder, Settings, Multicast, CabVolume, DevStatus,
        AlarmFeed, FtpDialogue, CameraTable, StreamWatch, Gb2312, RecordDesk

VARIABLE part

\* Two layouts of four groups, the train having eight: as many cameras as fill
\* the groups but the last, with some of them there, and as many as fill all.
Place(n) == <<n \div 4, n % 4>>
Long == <<<<0, 1>>, <<0, 2>>>> \o [n \in 1 .. 8 |-> Place(n + 3)] \o <<<<3, 3>>, <<3, 0>>>>
MCLayouts == {Long, Long \o <<<<0, 0>>, <<3, 2>>, <<0, 3>>, <<3, 1>>>>}

\* Ends of February in a leap year and in a year that only looks like one.
MCGiven == {Date(2000, 2, 29), Date(2099, 12, 31), Date(2100, 2, 28)}
MCClockTop == [f \in Fields |-> IF f = "hour" THEN 1 ELSE 0]

\* Three settings of the delivered file, whose third is out of its range.
MCKeys == <<"NoiseMonitorFlag", "LcdVolume", "DriverRoomVolume">>
MCSetting(flag, lcd, driver) ==
    [k \in Names |-> IF k = "NoiseMonitorFlag" THEN flag
                     ELSE IF k = "LcdVolume" THEN lcd ELSE driver]
MCDefault == MCSetting(1, 60, 3)
MCTop == MCSetting(1, 100, 5)
MCShipped == MCSetting(1, 70, 50)

MCSilence == [c \in Channels |-> IF c = "sys" THEN 4 ELSE 6]

\* Two cars with a fire and a door clip; one PECU of two has a camera.
MCCameraOf ==
    [a \in Alarms |->
        IF a[1] = PECU THEN IF a[2] = 0 THEN 5 ELSE UNSEEN
        ELSE IF a[1][1] = "fire" THEN a[1][2] ELSE a[1][2] + 4]
Car(raised) == [e \in CarEntries |-> IF e \in raised THEN {0} ELSE {}]
MCCarMessages ==
    {Car({}), Car({<<"fire", 0>>, <<"clip", 1>>})}
MCPecuMessages == {<<-20>>, <<1, 0>>}

\* A size of 12003, and data ports that spell codes.
MCDigits ==
    (<<"SIZE", 1>> :> {"200"}) @@ (<<"PASV", 1>> :> {"150", "226"})
    @@ (<<"PASV", 2>> :> {"221"})

\* Four cameras, or six where that many are read, the last of which is one too
\* many for its pair or not; the second or the fourth is not in order, or the
\* second has an address without "://"; no number of cameras; an alarm of the
\* second, one of a camera there may be or not.
Camera(fields, nvr, place, img) ==
    [fields |-> fields, nvr |-> nvr, group |-> 1, pos |-> place, img |-> img,
     subOk |-> TRUE, mainOk |-> TRUE]
Four == <<Camera(6, 1, 1, 1), Camera(6, 2, 2, 2), Camera(4, 3, 3, 3), Camera(5, 6, 4, 4)>>
MCCameraFiles ==
    {[count |-> n, lines |-> l, alarms |-> [pecu |-> 2, fire |-> f]] :
        n \in {NoCount, 0, 4}, f \in {0, 4, 5},
        l \in {Four, Four \o Four, Four \o <<Four[3], Four[1]>>,
               [Four EXCEPT ![2].subOk = FALSE], [Four EXCEPT ![2].mainOk = FALSE],
               [Four EXCEPT ![4] = Camera(6, 7, 4, 4)],
               [Four EXCEPT ![2] = Camera(3, 2, 2, 0)],
               [Four EXCEPT ![4] = Camera(6, 5, 4, 33)]}}

\* A slash, a, two characters of the table, one that is not, and two of two bytes.
MCNameChars == {47, 97, 12354, 20013, 20000, 233, 1025}

\* A recording; one and an unfinished one.
MCFinds == {<<FALSE>>, <<FALSE, TRUE>>}

Parts == {"date", "dialog", "poll", "settings", "cast", "volume", "status", "feed",
          "ftp", "cameras", "watch", "name", "desk"}

MCInit ==
    /\ part \in Parts
    /\ IF part = "date"   THEN TRUE ELSE wanted = Date(FirstYear, 1, 1)
    /\ IF part = "dialog" THEN TRUE ELSE date = Date(2000, 2, 29)
    /\ IF part = "poll"   THEN TRUE ELSE layout = Long /\ polling = "four"
    /\ IF part = "cast"   THEN TRUE ELSE sock = [c \in Channels |-> "joined"]
    /\ IF part = "volume" THEN TRUE ELSE master = TRUE /\ lcdSocket = TRUE
    /\ IF part = "ftp" THEN TRUE ELSE served = TRUE
    /\ IF part = "cameras" THEN TRUE
       ELSE /\ file = [count |-> 0, lines |-> Four, alarms |-> [pecu |-> 2, fire |-> 0]]
            /\ m_iNvrNo = 0
    /\ IF part = "name" THEN TRUE ELSE fileName = <<>>
    /\ IF part = "status" THEN TRUE
       ELSE link = [r \in Pair |-> TRUE] /\ asking = FALSE
    /\ WantedInit /\ DialogInit /\ PollInit /\ SettingsInit
    /\ CastInit /\ VolumeInit /\ StatusInit /\ FeedInit
    /\ FtpInit /\ TableInit /\ WatchInit /\ NameInit /\ DeskInit
    /\ \A d \in Pair \cup {CAMERA} : works[d] \/ (part = "status" /\ d = CAMERA)

Rest(p) ==
    /\ part = p
    /\ IF p = "date" THEN TRUE ELSE UNCHANGED wanted
    /\ IF p = "dialog" THEN TRUE ELSE UNCHANGED dialogVars
    /\ IF p = "poll" THEN TRUE ELSE UNCHANGED pollVars
    /\ IF p = "settings" THEN TRUE ELSE UNCHANGED settingsVars
    /\ IF p = "cast" THEN TRUE ELSE UNCHANGED castVars
    /\ IF p = "volume" THEN TRUE ELSE UNCHANGED volumeVars
    /\ IF p = "status" THEN TRUE ELSE UNCHANGED statusVars
    /\ IF p = "feed" THEN TRUE ELSE UNCHANGED feedVars
    /\ IF p = "ftp" THEN TRUE ELSE UNCHANGED ftpVars
    /\ IF p = "cameras" THEN TRUE ELSE UNCHANGED cameraVars
    /\ IF p = "watch" THEN TRUE ELSE UNCHANGED watchVars
    /\ IF p = "name" THEN TRUE ELSE UNCHANGED nameVars
    /\ IF p = "desk" THEN TRUE ELSE UNCHANGED deskVars
    /\ UNCHANGED part

MCNext ==
    \/ Rest("date")     /\ WantedNext
    \/ Rest("dialog")   /\ DialogNext
    \/ Rest("poll")     /\ PollNext
    \/ Rest("settings") /\ SettingsNext
    \/ Rest("cast")     /\ CastNext
    \/ Rest("volume")   /\ VolumeNext
    \/ Rest("status")   /\ StatusNext
    \/ Rest("feed")     /\ FeedNext
    \/ Rest("ftp")      /\ FtpNext
    \/ Rest("cameras")  /\ TableNext
    \/ Rest("watch")    /\ WatchNext
    \/ Rest("name")     /\ NameNext
    \/ Rest("desk")     /\ DeskNext

allVars ==
    <<part, wanted, dialogVars, pollVars, settingsVars, castVars, volumeVars, statusVars,
      feedVars, ftpVars, cameraVars, watchVars, nameVars, deskVars>>

\* The fairness of the parts, each where it is the part that runs.
MCSpec ==
    /\ MCInit /\ [][MCNext]_allVars
    /\ WF_castVars(part = "cast" /\ MultcastRecvThread)
    /\ WF_castVars(part = "cast" /\ Broadcast)
    /\ WF_castVars(part = "cast" /\ Answer)
    /\ WF_volumeVars(part = "volume" /\ SendVolumes)
    /\ WF_statusVars(part = "status" /\ getDevStateSignalCtrl)
    /\ WF_statusVars(part = "status" /\ PollColours)
    /\ WF_statusVars(part = "status" /\ PlayCtrlFunSlot)
    /\ \A r \in Pair :
        /\ WF_statusVars(part = "status" /\ Reply(r))
        /\ WF_statusVars(part = "status" /\ pmsgCtrl(r))
    /\ WF_feedVars(part = "feed" /\ Store)
    /\ WF_feedVars(part = "feed" /\ ReadEntry)
    /\ WF_feedVars(part = "feed" /\ CompareAndShow)
    /\ WF_watchVars(part = "watch" /\ Change)
    /\ WF_watchVars(part = "watch" /\ getPLayStrameState)

(* Multicast: the train and the player are heard again and again, whatever *)
(* became of the sockets (MultcastRecvThread).                             *)
CastIsHeard == part = "cast" => EverybodyHeard

(* CabVolume: the screens learn the volume of the master's cab             *)
(* (MultcastRecvThread, PMSG_AdjustLcdVolume).                             *)
VolumeArrives == part = "volume" => ScreensLearn

(* DevStatus: rows and buttons end up with what recorders and cameras are  *)
(* (getDevStateSignalCtrl, pmsgCtrl, UpdateCamStatefunc).                  *)
StatusSettles == part = "status" => ScreenSettles

(* AlarmFeed: an alarm that stays comes to the screen, an icon leaves with *)
(* its alarms (ParseBroadcastSysData, updateWarnInfoSLot).                 *)
AlarmsSettle == part = "feed" => AlarmIsShown /\ IconLeaves

(* StreamWatch: no picture of a lost stream stays (getPLayStrameState).    *)
LossIsSeen == part = "watch" => LossShows
=============================================================================
