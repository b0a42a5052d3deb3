----------------------------- MODULE DevStatus -----------------------------
(***************************************************************************)
(* The states of recorders and cameras on the maintenance page and on the  *)
(* buttons of the live view, for one pair of recorders and a camera of     *)
(* theirs.  The monitor thread (src/cctv/cctv.cpp) raises a signal every   *)
(* few seconds; getDevStateSignalCtrl (src/cctv/sysmanage.cpp) then asks   *)
(* the connected recorders and empties the rows of the others;             *)
(* the answers are taken from a queue by a slow timer: they may be older   *)
(* than the row they fill.                                                 *)
(*                                                                         *)
(* UpdateCamStatefunc, which colours the camera's button, has no timer of  *)
(* its own: the poll calls it while it is on, the play timer once after    *)
(* the alarms changed, and every button that chooses a camera.             *)
(*                                                                         *)
(* The monitor thread counts its seconds from a field it has not set: when *)
(* that holds a time far ahead, it never raises the signal.                *)
(***************************************************************************)
EXTENDS Integers, Sequences

CONSTANTS
    MaxTurns    \* bound: how often a link or a device changes its state

Pair == {0, 1}

ASSUME StatusAssumption == MaxTurns \in Nat

VARIABLES
    link,       \* PMSG_GetConnectStatus() is E_SERV_STATUS_CONNECT
    works,      \* the recorder's disk, and the camera
    asking,     \* s_info.uptime did not start with a time far ahead
    question,   \* a recorder has been asked and has not answered
    answers,    \* its packets in the queue
    row,        \* columns 1 to 3 of its row
    online,     \* column 4
    errFlag,    \* m_iCheckDiskErrFlag
    videoOnline,\* GetVideoOnlineState() of the camera
    lit,        \* its button shows it online
    cycling,    \* g_iVideoCycleFlag: the poll is on
    freshed,    \* g_iWarnFreshed: the alarms have changed since the last tick
    turns

statusVars ==
    <<link, works, asking, question, answers, row, online, errFlag,
      videoOnline, lit, cycling, freshed, turns>>

buttonVars == <<lit, cycling, freshed>>

CAMERA == 2
Packet(about, good) == [about |-> about, good |-> good]

(* getTrainConfig: six rows without a disk, all away.                      *)
NewRows ==
    /\ row = [r \in Pair |-> "empty"]
    /\ online = [r \in Pair |-> FALSE]

StatusInit ==
    /\ link \in [Pair -> BOOLEAN]
    /\ works \in [Pair \cup {CAMERA} -> BOOLEAN]
    /\ asking \in BOOLEAN
    /\ question = [r \in Pair |-> FALSE]
    /\ answers = [r \in Pair |-> <<>>]
    /\ NewRows
    /\ errFlag = [r \in Pair |-> FALSE]
    /\ videoOnline = FALSE /\ lit = FALSE
    /\ cycling = TRUE /\ freshed = FALSE
    /\ turns = 0

(* A link is made or lost, a question with it; a disk or camera fails or   *)
(* is repaired.                                                            *)
Turn ==
    /\ turns < MaxTurns
    /\ turns' = turns + 1
    /\ \/ \E r \in Pair :
            /\ link' = [link EXCEPT ![r] = ~@]
            /\ question' = [question EXCEPT ![r] = FALSE]
            /\ UNCHANGED works
       \/ \E d \in DOMAIN works :
            works' = [works EXCEPT ![d] = ~@] /\ UNCHANGED <<link, question>>
    /\ UNCHANGED <<asking, answers, row, online, errFlag, videoOnline, buttonVars>>

PMSG_GetConnectStatus(r) == link[r]
SetVideoOnlineState(good) == videoOnline' = good
GetVideoOnlineState == videoOnline

\* Mutant: a recorder that is not connected only loses its last column.
Emptied_Not == row
Emptied == [r \in Pair |-> IF PMSG_GetConnectStatus(r) THEN row[r] ELSE "empty"]

(* Every recorder with a link is asked for its state and its cameras'.     *)
getDevStateSignalCtrl ==
    /\ asking
    /\ question' = [r \in Pair |-> PMSG_GetConnectStatus(r)]
    /\ row' = Emptied
    /\ online' = link
    /\ UNCHANGED <<link, works, asking, answers, errFlag, videoOnline, buttonVars, turns>>

(* The recorder answers; it has no link without its thread's reading it.   *)
Reply(r) ==
    /\ question[r] /\ answers[r] = <<>>
    /\ question' = [question EXCEPT ![r] = FALSE]
    /\ answers' = [answers EXCEPT
            ![r] = <<Packet(r, works[r]), Packet(CAMERA, works[CAMERA])>>]
    /\ UNCHANGED <<link, works, asking, row, online, errFlag, videoOnline, buttonVars, turns>>

(* What a disk answer makes of the row.  The flag, which should be set by  *)
(* the eighteenth answer, is set by every answer.                          *)
getNvrStatusCtrl(r, good) ==
    /\ errFlag' = [errFlag EXCEPT ![r] = TRUE]
    /\ row' = [row EXCEPT ![r] = IF good THEN "good" ELSE IF errFlag'[r] THEN "bad" ELSE @]
    /\ UNCHANGED videoOnline

(* pmsgTimerFunc takes one packet and gives it to pmsgCtrl.                *)
pmsgCtrl(r) ==
    /\ answers[r] # <<>>
    /\ answers' = [answers EXCEPT ![r] = Tail(@)]
    /\ LET p == Head(answers[r]) IN
       IF p.about = CAMERA
       THEN SetVideoOnlineState(p.good) /\ UNCHANGED <<row, errFlag>>
       ELSE getNvrStatusCtrl(r, p.good)
    /\ UNCHANGED <<link, works, asking, question, online, buttonVars, turns>>

(* The other recorder of the pair stands in for the camera's own.          *)
Reachable == \E r \in Pair : PMSG_GetConnectStatus(r)

UpdateCamStatefunc == lit' = (GetVideoOnlineState /\ Reachable)

RestOfStatus ==
    UNCHANGED <<link, works, asking, question, answers, row, online, errFlag,
                videoOnline, turns>>

(* videoPollingfunction: the timer of the poll and the starting thread.    *)
PollColours ==
    /\ cycling
    /\ UpdateCamStatefunc
    /\ UNCHANGED <<cycling, freshed>> /\ RestOfStatus

(* updateWarnInfoSLot finds other alarms than at its last look.            *)
updateWarnInfoSLot ==
    /\ freshed' = TRUE
    /\ UNCHANGED <<lit, cycling>> /\ RestOfStatus

(* The timer that plays.                                                   *)
PlayCtrlFunSlot ==
    /\ IF freshed THEN UpdateCamStatefunc ELSE UNCHANGED lit
    /\ freshed' = FALSE
    /\ UNCHANGED cycling /\ RestOfStatus

(* A camera, an alarm or the style is chosen: not before the play timer    *)
(* has seen new alarms.                                                    *)
GroupButtonVideoClickSlot ==
    /\ ~freshed
    /\ UpdateCamStatefunc
    /\ UNCHANGED <<cycling, freshed>> /\ RestOfStatus

(* cycleSlot: the poll is opened and closed.                               *)
cycleSlot ==
    /\ cycling' = ~cycling
    /\ UNCHANGED <<lit, freshed>> /\ RestOfStatus

StatusNext ==
    \/ Turn \/ getDevStateSignalCtrl
    \/ PollColours \/ updateWarnInfoSLot \/ PlayCtrlFunSlot
    \/ GroupButtonVideoClickSlot \/ cycleSlot
    \/ \E r \in Pair : Reply(r) \/ pmsgCtrl(r)

(* The monitor thread and the timers run on, that of the poll without an   *)
(* effect while the poll is closed; a recorder that is asked answers while *)
(* the link stands.  Nobody has to press a button, no alarm has to come.   *)
StatusFairness ==
    /\ WF_statusVars(getDevStateSignalCtrl)
    /\ WF_statusVars(PollColours)
    /\ WF_statusVars(PlayCtrlFunSlot)
    /\ \A r \in Pair : WF_statusVars(Reply(r)) /\ WF_statusVars(pmsgCtrl(r))

StatusSpec == StatusInit /\ [][StatusNext]_statusVars /\ StatusFairness

-----------------------------------------------------------------------------
(* Properties.                                                             *)

(* Something has the buttons coloured again and again: the poll stays open *)
(* or the alarms keep changing.  With the poll closed, no alarms and       *)
(* nobody at the buttons, a button may show a lost camera for ever.        *)
ButtonsAreColoured == <>[]cycling \/ []<>freshed

(* What is shown becomes true once things stay as they are.  The row of a  *)
(* recorder that stays away is emptied for good, although answers of its   *)
(* last connection may have filled it again; the row of a recorder that    *)
(* stays shows its disk.  All this if the monitor thread asks at all.  A   *)
(* camera's button, as far as the buttons are coloured, goes dark when     *)
(* both recorders stay away, and shows what a recorder that stays tells of *)
(* the camera (getDevStateSignalCtrl, pmsgCtrl, UpdateCamStatefunc).       *)
ScreenSettles ==
    /\ asking =>
       \A r \in Pair :
         /\ <>[]~link[r] => <>[](row[r] = "empty" /\ ~online[r])
         /\ <>[](link[r] /\ works[r]) => <>[](row[r] = "good" /\ online[r])
         /\ <>[](link[r] /\ ~works[r]) => <>[](row[r] = "bad" /\ online[r])
    /\ ButtonsAreColoured =>
         /\ <>[](\A r \in Pair : ~link[r]) => <>[]~lit
         /\ asking =>
            \A r \in Pair, on \in BOOLEAN :
              <>[](link[r] /\ works[CAMERA] = on) => <>[](lit = on)
=============================================================================
