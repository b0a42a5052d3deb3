----------------------------- MODULE Multicast -----------------------------
(***************************************************************************)
(* The receiving thread of the train's multicasts: MultcastRecvThread      *)
(* (src/pmsg/pmsgproc.c) with the sockets of src/pmsg/multicast.c.  It     *)
(* listens to the broadcast system and to the video player, of which it    *)
(* asks the mode from time to time.  A socket is created again after a     *)
(* silence, for it may not exist or not be a member of its group: creating *)
(* it and joining the group may fail, at the start and every time later.   *)
(*                                                                         *)
(* Time is counted in iterations of the thread, a millisecond each, here   *)
(* in coarser units.  What an iteration does besides receiving is in       *)
(* module CabVolume.                                                       *)
(***************************************************************************)
EXTENDS Integers

CONSTANTS
    Silence,    \* per channel, after how many iterations: 4000 and 6000
    AskPeriod,  \* 3000: how often the player is asked
    Pace,       \* the least distance of two broadcasts
    AnswerTime, \* the longest the player takes for an answer
    MaxFaults   \* bound: failures to create or to join

Channels == {"sys", "video"}

ASSUME MulticastAssumption ==
    /\ Silence \in [Channels -> Nat \ {0}]
    /\ AskPeriod \in Nat \ {0} /\ Pace \in Nat /\ AnswerTime \in Nat /\ MaxFaults \in Nat
\* The train does not send with every iteration; the player has answered when it
\* is asked again, and before the silence of both periods would be too long.
ASSUME PlayerAnswers ==
    Pace > 1 /\ AnswerTime + 1 < AskPeriod /\ AskPeriod + AnswerTime < Silence["video"]

VARIABLES
    sock,       \* g_iBroadcastSysSocket, g_iVideoSwitchSocket
    count,      \* iSysRecvCount, iVideoRecvCount
    ask,        \* iVideoSourceCount
    waiting,    \* a datagram is in the socket
    heard,      \* the channel that this iteration has heard
    quiet,      \* iterations since the last broadcast, up to Pace
    asked,      \* iterations since a question the player has not answered
    faults

castVars == <<sock, count, ask, waiting, heard, quiet, asked, faults>>

NOBODY == "nobody"
UNASKED == -1

(* What CreateMultcastSocket and AddMulticastAddr leave: no socket, one    *)
(* that is not in the group, or one that is.                               *)
Sockets == {"none", "deaf", "joined"}
Faulty(s) == s # "joined"

CastInit ==
    /\ sock \in [Channels -> Sockets]
    /\ faults = (IF Faulty(sock["sys"]) THEN 1 ELSE 0)
              + (IF Faulty(sock["video"]) THEN 1 ELSE 0)
    /\ faults <= MaxFaults
    /\ count = [c \in Channels |-> 0]
    /\ ask = 1
    /\ waiting = [c \in Channels |-> FALSE]
    /\ heard = NOBODY
    /\ quiet = Pace
    /\ asked = UNASKED

(* The train sends; who is not in the group does not hear it.              *)
Broadcast ==
    /\ quiet = Pace
    /\ ~waiting["sys"]
    /\ waiting' = [waiting EXCEPT !["sys"] = sock["sys"] = "joined"]
    /\ quiet' = 0
    /\ UNCHANGED <<sock, count, ask, heard, asked, faults>>

(* The player answers a question.                                          *)
Answer ==
    /\ asked # UNASKED
    /\ ~waiting["video"]
    /\ waiting' = [waiting EXCEPT !["video"] = sock["video"] = "joined"]
    /\ asked' = UNASKED
    /\ UNCHANGED <<sock, count, ask, heard, quiet, faults>>

(* select() and one recvfrom(): of two readable sockets the broadcast's.   *)
Served ==
    IF waiting["sys"] THEN "sys" ELSE IF waiting["video"] THEN "video" ELSE NOBODY

\* Mutant: a message does not start its count again.
Counted_On(c) == count[c] + 1
\* Mutant: a message on either channel starts both counts again.
Counted_Any(c) == IF Served # NOBODY THEN 1 ELSE count[c] + 1
(* The count starts again with the message, and goes up at once.           *)
Counted(c) == IF Served = c THEN 1 ELSE count[c] + 1

Overdue(c) == Counted(c) > Silence[c]

(* Drop, close, create, join: what was in the socket is gone.              *)
Recreate ==
    /\ sock' \in {s \in [Channels -> Sockets] :
                    \A c \in Channels : ~Overdue(c) => s[c] = sock[c]}
    /\ faults' = faults
         + (IF Overdue("sys") /\ Faulty(sock'["sys"]) THEN 1 ELSE 0)
         + (IF Overdue("video") /\ Faulty(sock'["video"]) THEN 1 ELSE 0)
    /\ faults' <= MaxFaults

Waits == IF asked # UNASKED THEN asked + 1 ELSE UNASKED

(* The question is sent through the video socket, if there is one.         *)
GetVideoSrcMode == IF sock'["video"] # "none" THEN 0 ELSE Waits

Ask ==
    /\ ask' = IF ask = AskPeriod THEN 1 ELSE ask + 1
    /\ asked' = IF ask = AskPeriod THEN GetVideoSrcMode ELSE Waits

MultcastRecvThread ==
    /\ asked < AnswerTime
    /\ heard' = Served
    /\ Recreate
    /\ count' = [c \in Channels |-> IF Overdue(c) THEN 0 ELSE Counted(c)]
    /\ waiting' = [c \in Channels |-> waiting[c] /\ Served # c /\ ~Overdue(c)]
    /\ Ask
    /\ quiet' = IF quiet < Pace THEN quiet + 1 ELSE Pace

CastNext == Broadcast \/ Answer \/ MultcastRecvThread

CastSpec == CastInit /\ [][CastNext]_castVars

(* The thread runs on, the train goes on sending, the player answers.      *)
CastFairSpec ==
    /\ CastSpec
    /\ WF_castVars(MultcastRecvThread)
    /\ WF_castVars(Broadcast)
    /\ WF_castVars(Answer)

-----------------------------------------------------------------------------
(* Properties.                                                             *)

(* However often a socket could not be made, the train and the player are  *)
(* heard again; neither does a train that keeps sending drown the player,  *)
(* which is served only when nothing else is there.                        *)
EverybodyHeard == ([]<>(heard = "sys")) /\ ([]<>(heard = "video"))

(* A video socket that is in its group is never closed and created again:  *)
(* although the broadcasts are served before it and its count goes up with *)
(* every one of them, an answer is taken before the count is too high      *)
(* (MultcastRecvThread).                                                   *)
HearingSocketStays == sock["video"] = "joined" => ~Overdue("video")
=============================================================================
