---------------------------- MODULE RecordSearch ----------------------------
(***************************************************************************)
(* Searching a recorder for recordings (src/cctv/recordmanage.cpp, and the *)
(* timer of src/cctv/menuwidget.cpp that hands over the recorders'         *)
(* packets).                                                               *)
(*                                                                         *)
(* The answer comes in packets.  pmsgTimerFunc takes one packet of each    *)
(* recorder every 500 ms; recordQueryEndSlot looks every 500 ms whether    *)
(* anything has come, and then has the table filled one second later.      *)
(* The same queue brings what the recorder tells of its disk and cameras,  *)
(* which is asked for every ten seconds: such a packet costs a turn of the *)
(* timer as well.  Nothing in a packet tells which search it answers.  The *)
(* search button and the box that names the recorder are disabled          *)
(* meanwhile, but the end of a download enables the button too.  A         *)
(* recording is played and downloaded from the recorder that the box       *)
(* names then, by the path kept for its row.                               *)
(*                                                                         *)
(* Time is counted in half seconds.  A timer is OFF or the half seconds    *)
(* until it is due; a due timer fires before time goes on, unless the GUI  *)
(* is held up in some other handler.  A packet stands for the recordings   *)
(* named in it.                                                            *)
(***************************************************************************)
EXTENDS SequencesExt, Ranks

CONSTANTS
    Nvrs,           \* number of recorders
    GiveUp,         \* how many polls may find nothing (10)
    FillTime,       \* from the poll that finds something to the fill (2)
    MaxParts,       \* bound: packets of one answer
    MaxReports,     \* bound: reports the recorders send
    MaxSearches,    \* bound: searches
    MaxDownloads    \* bound: downloads that end

ASSUME TimeAssumption == GiveUp \in Nat /\ FillTime \in Nat /\ FillTime > 1
ASSUME BoundsAssumption ==
    /\ Nvrs \in Nat \ {0} /\ MaxParts \in Nat \ {0} /\ MaxReports \in Nat
    /\ MaxSearches \in Nat /\ MaxDownloads \in Nat

VARIABLES
    button,         \* searchloadButton is enabled
    box, chosen,    \* carSeletionComboBox is enabled, and names a recorder
    bar,            \* the progress of a download is shown
    downloads,      \* downloads that have ended
    searches,       \* searches so far: the last one's number
    owed,           \* by recorder: searches to be answered, packets already sent
    queue,          \* by recorder: its packets for the GUI
    reports,        \* reports sent so far
    buf,            \* m_pcRecordFileBuf and m_iTotalLen
    table, paths,   \* recordFileTableWidget, m_acFilePath
    pmsg,           \* m_PmsgTimer
    poll, slots,    \* FileSearchTimer, how often recordQueryEndSlot is connected
    tries,          \* iRecordNum
    fill,           \* m_recordTabelWidgetFillTimer
    age,            \* history: half seconds since the last search
    clean,          \* history: no earlier search was being answered at its start
    fresh,          \* history: no table was about to be filled at its start
    asked,          \* history: by search, the recorder
    prompt,         \* history: length of its answer, if complete when first seen
    near,           \* history: its end was then one of the next two packets
    stalled         \* history: a timer was late since

choice  == <<box, chosen, asked>>
gui     == <<button, bar, downloads, searches>>
network == <<owed, queue, reports>>
list    == <<buf, table, paths>>
timers  == <<pmsg, poll, slots, tries, fill>>
answer  == <<prompt, near>>
history == <<age, clean, fresh, answer, stalled>>
vars == <<choice, gui, network, list, timers, history>>

Ids == 1 .. Nvrs
OFF == -1
Packets == [search : 1 .. MaxSearches, part : 1 .. MaxParts, last : BOOLEAN]
Report == [search |-> 0, part |-> 0, last |-> FALSE]    \* names no recording
LongAgo == GiveUp + FillTime + 2    \* age is not counted beyond

TypeOK ==
    /\ button \in BOOLEAN /\ bar \in BOOLEAN
    /\ box \in BOOLEAN /\ chosen \in Ids
    /\ asked \in [1 .. searches -> Ids]
    /\ downloads \in 0 .. MaxDownloads
    /\ searches \in 0 .. MaxSearches
    /\ owed \in [Ids -> Seq([search : 1 .. MaxSearches, sent : 0 .. MaxParts - 1])]
    /\ queue \in [Ids -> Seq(Packets \cup {Report})]
    /\ reports \in 0 .. MaxReports
    /\ buf \in Seq(Packets) /\ table \in Seq(Packets) /\ paths \in Seq(Packets)
    /\ pmsg \in 0 .. 1
    /\ poll \in OFF .. 1
    /\ slots \in 0 .. MaxSearches
    /\ (poll = OFF) = (slots = 0)
    /\ tries \in 0 .. GiveUp + MaxSearches
    /\ fill \in OFF .. FillTime
    /\ age \in 0 .. LongAgo
    /\ clean \in BOOLEAN /\ fresh \in BOOLEAN /\ stalled \in BOOLEAN
    /\ prompt \in 0 .. MaxParts /\ near \in BOOLEAN

Init ==
    /\ button = TRUE /\ bar = FALSE
    /\ box = TRUE /\ chosen = 1 /\ asked = <<>>
    /\ downloads = 0 /\ searches = 0
    /\ owed = [n \in Ids |-> <<>>] /\ queue = [n \in Ids |-> <<>>] /\ reports = 0
    /\ buf = <<>> /\ table = <<>> /\ paths = <<>>
    /\ pmsg \in 0 .. 1
    /\ poll = OFF /\ slots = 0 /\ tries = 0 /\ fill = OFF
    /\ age = 0
    /\ clean = TRUE /\ fresh = TRUE /\ stalled = FALSE
    /\ prompt = 0 /\ near = FALSE

-----------------------------------------------------------------------------
(* SearchBtnClicked.                                                       *)

\* Mutant: the buffer is not emptied.
ClearList_KeepsBuffer == table' = <<>> /\ paths' = <<>> /\ UNCHANGED buf
(* Buffer, paths and table are emptied, whatever comes of the search.      *)
ClearList == buf' = <<>> /\ table' = <<>> /\ paths' = <<>>

(* The dates are refused, or the recorder has no handle: nothing more.     *)
SearchRefused ==
    /\ button
    /\ ClearList
    /\ clean' = FALSE
    /\ UNCHANGED <<choice, gui, network, timers, age, fresh, answer, stalled>>

(* The box is turned to a recorder (carNoChangeSlot).                      *)
Choose(n) ==
    /\ box
    /\ chosen' = n
    /\ UNCHANGED <<box, asked, gui, network, list, timers, history>>

(* new QTimer if there is none; start(500); connect() once more.           *)
StartPoll == poll' = 1 /\ slots' = slots + 1

(* Nothing that waits for the GUI names a recording.                       *)
NoRecordings(n) == \A i \in DOMAIN queue[n] : queue[n][i] = Report

(* The request is sent, or cannot be: the timer is started all the same.   *)
Search(n) ==
    /\ button /\ n = chosen
    /\ searches < MaxSearches
    /\ searches' = searches + 1
    /\ ClearList
    /\ \/ owed' = [owed EXCEPT ![n] = Append(@, [search |-> searches + 1, sent |-> 0])]
       \/ UNCHANGED owed
    /\ button' = FALSE /\ box' = FALSE
    /\ StartPoll
    /\ asked' = Append(asked, n)
    /\ age' = 0 /\ prompt' = 0 /\ near' = FALSE /\ stalled' = FALSE
    /\ clean' = \A m \in Ids : owed[m] = <<>> /\ NoRecordings(m)
    /\ fresh' = (fill = OFF)
    /\ UNCHANGED <<chosen, bar, downloads, queue, reports, pmsg, tries, fill>>

-----------------------------------------------------------------------------
(* The recorder and the link.                                              *)

(* The next packet of the answer to the oldest search.                     *)
Answer(n) ==
    /\ owed[n] # <<>>
    /\ LET o == Head(owed[n]) IN
       \E last \in IF o.sent + 1 = MaxParts THEN {TRUE} ELSE BOOLEAN :
        /\ queue' = [queue EXCEPT ![n] =
             Append(@, [search |-> o.search, part |-> o.sent + 1, last |-> last])]
        /\ \/ last /\ owed' = [owed EXCEPT ![n] = Tail(@)]
           \/ ~last /\ owed' = [owed EXCEPT ![n][1].sent = @ + 1]
    /\ UNCHANGED <<reports, choice, gui, list, timers, history>>

(* The recorder tells of its disk or of a camera, or how long a recording  *)
(* is, or that it has found none.                                          *)
Tell(n) ==
    /\ reports < MaxReports
    /\ reports' = reports + 1
    /\ queue' = [queue EXCEPT ![n] = Append(@, Report)]
    /\ UNCHANGED <<choice, gui, owed, list, timers, history>>

(* The connection is lost, and with it what was not received yet.          *)
Lose(n) ==
    /\ owed[n] # <<>>
    /\ owed' = [owed EXCEPT ![n] = <<>>]
    /\ UNCHANGED <<choice, gui, queue, reports, list, timers, history>>

-----------------------------------------------------------------------------
(* The timers.                                                             *)

(* One packet of each recorder that has any; those that name recordings.   *)
Ready == {n \in Ids : queue[n] # <<>> /\ Head(queue[n]) # Report}
Taken == [k \in 1 .. Cardinality(Ready) |-> Head(queue[Nth(k, Ready)])]

(* recordQueryCtrl.                                                        *)
recordQueryCtrl(packets) == buf' = buf \o packets

(* recvPmsgCtrl gives the page the answers that name recordings.           *)
pmsgCtrl(packets) == recordQueryCtrl(packets)

(* How long the answer to the last search is, when its end is already in   *)
(* the queue.                                                              *)
Complete ==
    LET ends == {p \in UNION {ToSet(queue[n]) : n \in Ids} : p.search = searches /\ p.last}
    IN  IF ends = {} THEN 0 ELSE (CHOOSE p \in ends : TRUE).part

(* The end of the answer comes first or second in its queue.               *)
EndIsNear ==
    \E n \in Ids : \E i \in DOMAIN queue[n] \cap {1, 2} :
        queue[n][i].search = searches /\ queue[n][i].last

pmsgTimerFunc ==
    /\ pmsg = 0
    /\ pmsg' = 1
    /\ queue' = [n \in Ids |-> IF queue[n] = <<>> THEN <<>> ELSE Tail(queue[n])]
    /\ pmsgCtrl(Taken)
    /\ IF buf = <<>> /\ Taken # <<>>
       THEN prompt' = Complete /\ near' = EndIsNear
       ELSE UNCHANGED answer
    /\ UNCHANGED <<choice, gui, owed, reports, table, paths, poll, slots, tries, fill,
                   age, clean, fresh, stalled>>

(* The timer is deleted, and its connections with it.                      *)
StopPoll == poll' = OFF /\ slots' = 0

\* Mutant: the table is filled half a second after the poll.
PollFinds_FillsSoon ==
    /\ poll = 0
    /\ buf # <<>>
    /\ tries' = tries + 1
    /\ fill' = FillTime - 1
    /\ StopPoll
    /\ UNCHANGED <<choice, gui, network, list, pmsg, history>>

(* recordQueryEndSlot, when packets have come: recordTableWidgetFillSlot   *)
(* starts the other timer, or starts it again.                             *)
PollFinds ==
    /\ poll = 0
    /\ buf # <<>>
    /\ tries' = tries + 1
    /\ fill' = FillTime
    /\ StopPoll
    /\ UNCHANGED <<choice, gui, network, list, pmsg, history>>

\* Mutant: the limit is an exact number of polls, which some never meet.
Enough_Exactly == tries + slots = GiveUp + 1
(* The slot runs as often as it is connected.                              *)
Enough == tries + slots > GiveUp

(* recordQueryEndSlot, when nothing has come.                              *)
PollWaits ==
    /\ poll = 0
    /\ buf = <<>> /\ ~Enough
    /\ tries' = tries + slots
    /\ poll' = 1
    /\ UNCHANGED <<choice, gui, network, list, pmsg, slots, fill, history>>

PollGivesUp ==
    /\ poll = 0
    /\ buf = <<>> /\ Enough
    /\ tries' = 0
    /\ button' = TRUE /\ box' = TRUE
    /\ StopPoll
    /\ UNCHANGED <<chosen, asked, bar, downloads, searches, network, list, pmsg, fill, history>>

\* Mutant: the timer that has filled the table is not stopped.
StopFill_RunsOn == fill' = FillTime
StopFill == fill' = OFF

(* recordTableWidgetFillFunc: new rows come in front of those that are     *)
(* there, the paths take the place of those that were there.               *)
recordTableWidgetFillFunc ==
    /\ fill = 0
    /\ table' = buf \o table
    /\ paths' = buf \o SubSeq(paths, Len(buf) + 1, Len(paths))
    /\ button' = TRUE /\ box' = TRUE
    /\ StopFill
    /\ UNCHANGED <<chosen, asked, bar, downloads, searches, network, buf, pmsg, poll, slots,
                   tries, history>>

-----------------------------------------------------------------------------
(* downloadProcessBarDisplaySlot.                                          *)

DownloadShows ==
    /\ downloads < MaxDownloads
    /\ bar' = TRUE
    /\ button' = FALSE
    /\ UNCHANGED <<choice, downloads, searches, network, list, timers, history>>

DownloadHides ==
    /\ bar
    /\ bar' = FALSE
    /\ button' = TRUE
    /\ downloads' = downloads + 1
    /\ UNCHANGED <<choice, searches, network, list, timers, history>>

-----------------------------------------------------------------------------
Sooner(t) == IF t > 0 THEN t - 1 ELSE t
Due == 0 \in {pmsg, poll, fill}

Elapse ==
    /\ pmsg' = Sooner(pmsg) /\ poll' = Sooner(poll) /\ fill' = Sooner(fill)
    /\ age' = IF age < LongAgo THEN age + 1 ELSE age
    /\ stalled' = (stalled \/ Due)
    /\ UNCHANGED <<choice, gui, network, list, slots, tries, clean, fresh, answer>>

Timers ==
    \/ pmsgTimerFunc
    \/ PollFinds \/ PollWaits \/ PollGivesUp
    \/ recordTableWidgetFillFunc

Next ==
    \/ SearchRefused
    \/ \E n \in Ids : Choose(n) \/ Search(n) \/ Answer(n) \/ Lose(n) \/ Tell(n)
    \/ Timers
    \/ DownloadShows \/ DownloadHides
    \/ Elapse

Spec == Init /\ [][Next]_vars

-----------------------------------------------------------------------------
(* Properties.                                                             *)

(* The search button comes back in time, answer or not: at the latest when *)
(* the last poll has found something and the table is filled - unless the  *)
(* GUI is held up or a download holds the button.                          *)
ButtonInTime == ~button /\ ~bar /\ ~stalled => age <= GiveUp + 1 + FillTime

(* The table names recordings of the last search only, although nothing in *)
(* the packets says so - if all searches before it were answered by then.  *)
AnswersItsSearch ==
    clean => \A i \in DOMAIN table : table[i].search = searches

(* What a row shows, and what it plays and downloads: the path kept for it *)
(* (recordPlayCtrl, DownloadBtn), from the recorder that the box names.    *)
RowShows(i) == [recorder |-> asked[table[i].search], recording |-> table[i]]
RowPlays(i) == [recorder |-> chosen, recording |-> paths[i]]

(* No row plays or downloads another row's recording, and none another     *)
(* recorder's, unless the box has been turned since the search, or answers *)
(* to an earlier search came with its own.  Every row has a path, unless a *)
(* search was begun while the table was about to be filled (the end of a   *)
(* download had enabled the button): a second filling pushes rows down to  *)
(* where there is none.                                                    *)
RowsPlayWhatTheyShow ==
    /\ \A i \in DOMAIN paths :
         /\ i \in DOMAIN table /\ paths[i] = table[i]
         /\ clean /\ chosen = asked[searches] => RowPlays(i) = RowShows(i)
    /\ fresh => Len(paths) = Len(table)

(* The table, once filled, holds the packets of the answer.                *)
Whole ==
    prompt > 0 /\ table # <<>> /\ clean /\ fresh /\ ~stalled => Len(table) = prompt

(* An answer of one packet, or of two with no report between them, that is *)
(* there when its first packet is taken is shown whole: the second one is  *)
(* taken before the table is filled.                                       *)
ShortAnswerIsWhole == near => Whole

-----------------------------------------------------------------------------
(* What a comment of recordmanage.cpp says and the code does not do.       *)

(* recordmanage.cpp:1316: one second after the first packet all packets    *)
(* have been received, and the table is filled from all of them.           *)
WholeAnswer == Whole
=============================================================================
