------------------------------- MODULE NvrLink -------------------------------
(***************************************************************************)
(* The client's TCP links to the train's video recorders (src/pmsg/        *)
(* pmsgcli.c).  main() creates one link per recorder; each link is served  *)
(* by its own CliProcessThread, which connects, polls the socket, sends a  *)
(* heartbeat every second and gives the connection up on an error or after *)
(* a long silence.  The GUI thread sends commands over the same links: it  *)
(* reads iConnectStatus without a lock and iSockfd under tPmsgMutex, while *)
(* the link's thread closes the socket and stores both fields without that *)
(* mutex.                                                                  *)
(*                                                                         *)
(* A socket is a descriptor NUMBER that the process reuses, so the model   *)
(* keeps the kernel's table of numbers (fdOwner).  The two plain stores    *)
(* "iSockfd = ..." and "iConnectStatus = ..." are adjacent and unordered:  *)
(* another thread may see them in either order (pend).                     *)
(*                                                                         *)
(* What the received bytes say (framing, queue) is the subject of module   *)
(* NvrStream; here data only prove that the peer is alive.                 *)
(***************************************************************************)
EXTENDS Integers, FiniteSets

CONSTANTS
    Nvrs,       \* indices of the recorders, in the order main() connects them
    Fds,        \* descriptor numbers the process can be given (0 is stdin)
    OUTSIDE,      \* owner of a descriptor some other part of the process opened
    NONE,       \* owner of a descriptor number that is free
    HearMax,    \* idle polls after which a link is given up (1000 in the code)
    MaxOutside    \* bound: descriptors OUTSIDE holds at the same time

ASSUME NvrsAssumption == Nvrs \subseteq Nat
ASSUME FdsAssumption  == Fds \subseteq Nat \ {0}
ASSUME OwnerAssumption == OUTSIDE \notin Nvrs /\ NONE \notin Nvrs /\ OUTSIDE # NONE
ASSUME HearMaxAssumption == HearMax \in Nat \ {0}

VARIABLES
    pc,         \* where the link's CliProcessThread is
    after,      \* where it goes once the stores of pend have been made
    pend,       \* fields of T_PMSG_CONN_INFO it still has to store
    iSocket,    \* the thread's local descriptor (0 at start, -1 when closed)
    iHearCount, \* polls since data was last received
    iSockfd,        \* T_PMSG_CONN_INFO.iSockfd
    iConnectStatus, \* T_PMSG_CONN_INFO.iConnectStatus
    gui,        \* the command the GUI thread is sending
    dropped,    \* history: that link's thread has closed its socket meanwhile
    fdOwner,    \* the kernel's descriptor table
    link,       \* the kernel's view of the link's connection
    reachable   \* whether the recorder accepts connections

threadVars == <<pc, after, pend, iSocket, iHearCount>>
sharedVars == <<iSockfd, iConnectStatus>>
guiVars    == <<gui, dropped>>
kernelVars == <<fdOwner, link, reachable>>
vars == <<threadVars, sharedVars, guiVars, kernelVars>>

CONNECT   == 1      \* E_SERV_STATUS_CONNECT
UNCONNECT == 0      \* E_SERV_STATUS_UNCONNECT

Locations == {"new", "top", "connecting", "sleep", "select", "beat", "count",
              "close", "store"}
Fields == {"fd", "status"}

TypeOK ==
    /\ pc \in [Nvrs -> Locations]
    /\ after \in [Nvrs -> {"top", "select", "count"}]
    /\ pend \in [Nvrs -> SUBSET Fields]
    /\ iSocket \in [Nvrs -> Fds \cup {-1, 0}]
    /\ iHearCount \in [Nvrs -> 0 .. HearMax]
    /\ iSockfd \in [Nvrs -> Fds \cup {-1, 0}]
    /\ iConnectStatus \in [Nvrs -> {CONNECT, UNCONNECT}]
    /\ gui \in [pc : {"idle", "lock", "send"}, nvr : Nvrs, fd : Fds \cup {-1, 0}]
    /\ dropped \in BOOLEAN
    /\ fdOwner \in [Fds -> Nvrs \cup {OUTSIDE, NONE}]
    /\ link \in [Nvrs -> {"none", "ok", "mute", "reset"}]
    /\ reachable \in [Nvrs -> BOOLEAN]

(* calloc'ed connection records, no thread yet; standard input is 0.       *)
Init ==
    /\ pc = [s \in Nvrs |-> "new"]
    /\ after = [s \in Nvrs |-> "top"]
    /\ pend = [s \in Nvrs |-> {}]
    /\ iSocket = [s \in Nvrs |-> 0]
    /\ iHearCount = [s \in Nvrs |-> 0]
    /\ iSockfd = [s \in Nvrs |-> 0]
    /\ iConnectStatus = [s \in Nvrs |-> UNCONNECT]
    /\ gui \in [pc : {"idle"}, nvr : Nvrs, fd : {-1}]
    /\ dropped = FALSE
    /\ fdOwner = [f \in Fds |-> NONE]
    /\ link = [s \in Nvrs |-> "none"]
    /\ reachable \in [Nvrs -> BOOLEAN]

-----------------------------------------------------------------------------
(* The link's thread.                                                      *)

Goto(s, loc) == pc' = [pc EXCEPT ![s] = loc]

(* main(): PMSG_CreateConnect for recorder s, after those before it.       *)
Create(s) ==
    /\ pc[s] = "new"
    /\ \A t \in Nvrs : t < s => pc[t] # "new"
    /\ Goto(s, "top")
    /\ UNCHANGED <<after, pend, iSocket, iHearCount, sharedVars, guiVars, kernelVars>>

(* Head of the loop without a socket: socket() gives a free number, or the *)
(* attempt fails at once because there is none.                            *)
Socket(s) ==
    /\ pc[s] = "top"
    /\ iSocket[s] <= 0
    /\ \/ \E f \in Fds :
            /\ fdOwner[f] = NONE
            /\ fdOwner' = [fdOwner EXCEPT ![f] = s]
            /\ iSocket' = [iSocket EXCEPT ![s] = f]
            /\ Goto(s, "connecting")
       \/ /\ \A f \in Fds : fdOwner[f] # NONE
          /\ Goto(s, "sleep")
          /\ UNCHANGED <<fdOwner, iSocket>>
    /\ UNCHANGED <<after, pend, iHearCount, sharedVars, guiVars, link, reachable>>

(* connect() succeeded: the two stores that publish the new connection.    *)
Connected(s) ==
    /\ pc[s] = "connecting"
    /\ reachable[s]
    /\ link' = [link EXCEPT ![s] = "ok"]
    /\ pend' = [pend EXCEPT ![s] = Fields]
    /\ after' = [after EXCEPT ![s] = "select"]
    /\ Goto(s, "store")
    /\ UNCHANGED <<iSocket, iHearCount, sharedVars, guiVars, fdOwner, reachable>>

\* Mutant: CreateTcpSocket forgets close() when connect() fails.
ConnectFailed_NoClose(s) ==
    /\ pc[s] = "connecting"
    /\ ~reachable[s]
    /\ iSocket' = [iSocket EXCEPT ![s] = -1]
    /\ Goto(s, "sleep")
    /\ UNCHANGED <<after, pend, iHearCount, sharedVars, guiVars, kernelVars>>

(* connect() failed: CreateTcpSocket closes the number and returns -1.     *)
ConnectFailed(s) ==
    /\ pc[s] = "connecting"
    /\ ~reachable[s]
    /\ fdOwner' = [fdOwner EXCEPT ![iSocket[s]] = NONE]
    /\ iSocket' = [iSocket EXCEPT ![s] = -1]
    /\ Goto(s, "sleep")
    /\ UNCHANGED <<after, pend, iHearCount, sharedVars, guiVars, link, reachable>>

(* sleep(2), then the status is stored again and the loop starts over.     *)
Sleep(s) ==
    /\ pc[s] = "sleep"
    /\ iConnectStatus' = [iConnectStatus EXCEPT ![s] = UNCONNECT]
    /\ Goto(s, "top")
    /\ UNCHANGED <<after, pend, iSocket, iHearCount, iSockfd, guiVars, kernelVars>>

(* Head of the loop with a socket: nothing to do before select().          *)
Resume(s) ==
    /\ pc[s] = "top"
    /\ iSocket[s] > 0
    /\ Goto(s, "select")
    /\ UNCHANGED <<after, pend, iSocket, iHearCount, sharedVars, guiVars, kernelVars>>

(* select() found data and recv() returned some.                           *)
RecvData(s) ==
    /\ pc[s] = "select"
    /\ link[s] = "ok"
    /\ iHearCount' = [iHearCount EXCEPT ![s] = 0]
    /\ Goto(s, "beat")
    /\ UNCHANGED <<after, pend, iSocket, sharedVars, guiVars, kernelVars>>

(* select() timed out after 20 ms.                                         *)
RecvNothing(s) ==
    /\ pc[s] = "select"
    /\ link[s] # "reset"
    /\ Goto(s, "beat")
    /\ UNCHANGED <<after, pend, iSocket, iHearCount, sharedVars, guiVars, kernelVars>>

(* recv() <= 0: the connection is torn down and the loop starts over.      *)
RecvFailed(s) ==
    /\ pc[s] = "select"
    /\ link[s] = "reset"
    /\ iHearCount' = [iHearCount EXCEPT ![s] = 0]
    /\ after' = [after EXCEPT ![s] = "top"]
    /\ Goto(s, "close")
    /\ UNCHANGED <<pend, iSocket, sharedVars, guiVars, kernelVars>>

Locked(s) == gui.pc = "send" /\ gui.nvr = s     \* the GUI holds tPmsgMutex of s

(* A second has passed: PMSG_SendPmsgData sends the heartbeat, under the   *)
(* mutex, when the status says connected.  A mute peer takes it into the   *)
(* socket buffer or lets SO_SNDTIMEO expire; a reset one refuses it.       *)
HeartbeatSent(s) ==
    /\ pc[s] = "beat"
    /\ ~Locked(s)
    /\ iConnectStatus[s] = CONNECT
    /\ link[s] \in {"ok", "mute"}
    /\ Goto(s, "count")
    /\ UNCHANGED <<after, pend, iSocket, iHearCount, sharedVars, guiVars, kernelVars>>

\* Mutant: the failed heartbeat leaves the silence count as it is.
HeartbeatFailed_KeepsCount(s) ==
    /\ pc[s] = "beat"
    /\ \/ iConnectStatus[s] # CONNECT
       \/ ~Locked(s) /\ link[s] \in {"mute", "reset"}
    /\ after' = [after EXCEPT ![s] = "count"]
    /\ Goto(s, "close")
    /\ UNCHANGED <<pend, iSocket, iHearCount, sharedVars, guiVars, kernelVars>>

(* The heartbeat could not be sent: tear the connection down, then go on   *)
(* to the silence counter of the same iteration.                           *)
HeartbeatFailed(s) ==
    /\ pc[s] = "beat"
    /\ \/ iConnectStatus[s] # CONNECT
       \/ ~Locked(s) /\ link[s] \in {"mute", "reset"}
    /\ after' = [after EXCEPT ![s] = "count"]
    /\ iHearCount' = [iHearCount EXCEPT ![s] = 0]
    /\ Goto(s, "close")
    /\ UNCHANGED <<pend, iSocket, sharedVars, guiVars, kernelVars>>

(* Still the same second: no heartbeat in this iteration.                  *)
NoHeartbeat(s) ==
    /\ pc[s] = "beat"
    /\ Goto(s, "count")
    /\ UNCHANGED <<after, pend, iSocket, iHearCount, sharedVars, guiVars, kernelVars>>

(* iHearCount++ and, beyond the limit, the link is given up.               *)
Count(s) ==
    /\ pc[s] = "count"
    /\ iHearCount[s] < HearMax
    /\ iHearCount' = [iHearCount EXCEPT ![s] = @ + 1]
    /\ Goto(s, "top")
    /\ UNCHANGED <<after, pend, iSocket, sharedVars, guiVars, kernelVars>>

Silent(s) ==
    /\ pc[s] = "count"
    /\ iHearCount[s] = HearMax
    /\ iHearCount' = [iHearCount EXCEPT ![s] = 0]
    /\ after' = [after EXCEPT ![s] = "top"]
    /\ Goto(s, "close")
    /\ UNCHANGED <<pend, iSocket, sharedVars, guiVars, kernelVars>>

\* Mutant: a disconnect path forgets iConnectStatus.
Close_KeepsStatus(s) ==
    /\ pc[s] = "close"
    /\ fdOwner' = [f \in Fds |-> IF f = iSocket[s] THEN NONE ELSE fdOwner[f]]
    /\ link' = [link EXCEPT ![s] = "none"]
    /\ iSocket' = [iSocket EXCEPT ![s] = -1]
    /\ pend' = [pend EXCEPT ![s] = {"fd"}]
    /\ dropped' = (dropped \/ (gui.pc # "idle" /\ gui.nvr = s))
    /\ Goto(s, "store")
    /\ UNCHANGED <<after, iHearCount, sharedVars, gui, reachable>>

\* Mutant: a disconnect path forgets iSockfd.
Close_KeepsSockfd(s) ==
    /\ pc[s] = "close"
    /\ fdOwner' = [f \in Fds |-> IF f = iSocket[s] THEN NONE ELSE fdOwner[f]]
    /\ link' = [link EXCEPT ![s] = "none"]
    /\ iSocket' = [iSocket EXCEPT ![s] = -1]
    /\ pend' = [pend EXCEPT ![s] = {"status"}]
    /\ dropped' = (dropped \/ (gui.pc # "idle" /\ gui.nvr = s))
    /\ Goto(s, "store")
    /\ UNCHANGED <<after, iHearCount, sharedVars, gui, reachable>>

(* DestroyTcpSocket(iSocket); iSocket = -1.  From here the number may be   *)
(* handed to anybody, while iSockfd and iConnectStatus still show it.      *)
Close(s) ==
    /\ pc[s] = "close"
    /\ fdOwner' = [f \in Fds |-> IF f = iSocket[s] THEN NONE ELSE fdOwner[f]]
    /\ link' = [link EXCEPT ![s] = "none"]
    /\ iSocket' = [iSocket EXCEPT ![s] = -1]
    /\ pend' = [pend EXCEPT ![s] = Fields]
    /\ dropped' = (dropped \/ (gui.pc # "idle" /\ gui.nvr = s))
    /\ Goto(s, "store")
    /\ UNCHANGED <<after, iHearCount, sharedVars, gui, reachable>>

(* The stores of a new or of a closed connection reach the other threads.  *)
StoreFd(s) ==
    /\ pc[s] = "store"
    /\ "fd" \in pend[s]
    /\ iSockfd' = [iSockfd EXCEPT ![s] = iSocket[s]]
    /\ pend' = [pend EXCEPT ![s] = @ \ {"fd"}]
    /\ UNCHANGED <<pc, after, iSocket, iHearCount, iConnectStatus, guiVars, kernelVars>>

StoreStatus(s) ==
    /\ pc[s] = "store"
    /\ "status" \in pend[s]
    /\ iConnectStatus' = [iConnectStatus EXCEPT
                            ![s] = IF iSocket[s] > 0 THEN CONNECT ELSE UNCONNECT]
    /\ pend' = [pend EXCEPT ![s] = @ \ {"status"}]
    /\ UNCHANGED <<pc, after, iSocket, iHearCount, iSockfd, guiVars, kernelVars>>

(* LOG_WriteLog (its mutex orders the stores), then on with the loop.      *)
Stored(s) ==
    /\ pc[s] = "store"
    /\ pend[s] = {}
    /\ Goto(s, after[s])
    /\ UNCHANGED <<after, pend, iSocket, iHearCount, sharedVars, guiVars, kernelVars>>

Thread(s) ==
    \/ Socket(s) \/ Connected(s) \/ ConnectFailed(s) \/ Sleep(s) \/ Resume(s)
    \/ RecvData(s) \/ RecvNothing(s) \/ RecvFailed(s)
    \/ HeartbeatSent(s) \/ HeartbeatFailed(s) \/ NoHeartbeat(s)
    \/ Count(s) \/ Silent(s)
    \/ Close(s) \/ StoreFd(s) \/ StoreStatus(s) \/ Stored(s)

-----------------------------------------------------------------------------
(* The GUI thread: PMSG_SendPmsgData for one of the links.  It runs once   *)
(* main() has created them all.                                            *)

GuiCheck(s) ==
    /\ gui.pc = "idle"
    /\ \A t \in Nvrs : pc[t] # "new"
    /\ iConnectStatus[s] = CONNECT
    /\ gui' = [pc |-> "lock", nvr |-> s, fd |-> -1]
    /\ dropped' = (iSocket[s] <= 0)
    /\ UNCHANGED <<threadVars, sharedVars, kernelVars>>

(* Under the mutex, iSockfd becomes the argument of send().                *)
GuiLock ==
    /\ gui.pc = "lock"
    /\ gui' = [gui EXCEPT !.pc = "send", !.fd = iSockfd[gui.nvr]]
    /\ UNCHANGED <<threadVars, sharedVars, dropped, kernelVars>>

(* send(): the kernel looks the number up now; the mutex is released.      *)
GuiSend ==
    /\ gui.pc = "send"
    /\ gui' = [gui EXCEPT !.pc = "idle", !.fd = -1]
    /\ dropped' = FALSE
    /\ UNCHANGED <<threadVars, sharedVars, kernelVars>>

-----------------------------------------------------------------------------
(* The environment: recorders and network, and the rest of the process.    *)

(* The peer closes or resets the connection, or a mute one times out.      *)
PeerResets(s) ==
    /\ link[s] \in {"ok", "mute"}
    /\ link' = [link EXCEPT ![s] = "reset"]
    /\ UNCHANGED <<threadVars, sharedVars, guiVars, fdOwner, reachable>>

(* The peer vanishes without a word: power or cable lost.                  *)
PeerMute(s) ==
    /\ link[s] = "ok"
    /\ link' = [link EXCEPT ![s] = "mute"]
    /\ UNCHANGED <<threadVars, sharedVars, guiVars, fdOwner, reachable>>

Reachability(s) ==
    /\ reachable' = [reachable EXCEPT ![s] = ~@]
    /\ UNCHANGED <<threadVars, sharedVars, guiVars, fdOwner, link>>

(* FTP, multicast, log and configuration files come and go.                *)
OutsideOpens(f) ==
    /\ fdOwner[f] = NONE
    /\ Cardinality({g \in Fds : fdOwner[g] = OUTSIDE}) < MaxOutside
    /\ fdOwner' = [fdOwner EXCEPT ![f] = OUTSIDE]
    /\ UNCHANGED <<threadVars, sharedVars, guiVars, link, reachable>>

OutsideCloses(f) ==
    /\ fdOwner[f] = OUTSIDE
    /\ fdOwner' = [fdOwner EXCEPT ![f] = NONE]
    /\ UNCHANGED <<threadVars, sharedVars, guiVars, link, reachable>>

Next ==
    \/ \E s \in Nvrs :
        \/ Create(s)
        \/ Thread(s)
        \/ GuiCheck(s)
        \/ PeerResets(s) \/ PeerMute(s) \/ Reachability(s)
    \/ GuiLock \/ GuiSend
    \/ \E f \in Fds : OutsideOpens(f) \/ OutsideCloses(f)

(* The threads and the GUI's event loop are scheduled; when they are, a    *)
(* system call they are in returns (select 20 ms, send at most 5 s,        *)
(* connect when the kernel gives up).  Nothing is promised of the network. *)
Fairness ==
    /\ \A s \in Nvrs : WF_vars(Create(s)) /\ WF_vars(Thread(s))
    /\ WF_vars(GuiLock) /\ WF_vars(GuiSend)

Spec == Init /\ [][Next]_vars

FairSpec == Spec /\ Fairness

-----------------------------------------------------------------------------
(* Safety.                                                                 *)

(* Every descriptor number the kernel shows as a link's is the one that    *)
(* link's thread holds, and every number a thread holds is its own: no     *)
(* disconnect path leaks a socket (a link that flaps would exhaust the     *)
(* process) and no two links share a number.                               *)
NoFdLeak ==
    \A s \in Nvrs, f \in Fds : fdOwner[f] = s <=> iSocket[s] = f

(* A thread about to call close() holds an open descriptor of its own:     *)
(* a second close of the same number would cut the connection of whichever *)
(* thread was given the number in between.                                 *)
NoForeignClose ==
    \A s \in Nvrs : pc[s] = "close" =>
        /\ iSocket[s] \in Fds
        /\ fdOwner[iSocket[s]] = s

(* Outside the stores of a connect or a disconnect, the two fields other   *)
(* threads read agree with each other and with the thread's socket.        *)
StatusTellsTruth ==
    \A s \in Nvrs : pc[s] \notin {"store", "close"} =>
        /\ iConnectStatus[s] = CONNECT => /\ iSocket[s] = iSockfd[s]
                                          /\ iSockfd[s] \in Fds
        /\ pc[s] \in {"select", "beat"} => iConnectStatus[s] = CONNECT

(* A command of the GUI goes to the recorder it is meant for, or to no     *)
(* descriptor at all, unless that recorder's socket was closed before the  *)
(* send and the status still said connected at the check: there is no      *)
(* other way to reach a wrong server, whatever the order of the unlocked   *)
(* stores.                                                                 *)
CommandReachesItsNvr ==
    gui.pc = "send" /\ ~dropped =>
        \/ gui.fd <= 0
        \/ gui.fd \in Fds /\ fdOwner[gui.fd] = gui.nvr

(* What holds of a link at each location of its thread: where the socket   *)
(* must be open, what the two shared fields still or already say, and that *)
(* an iteration that goes on without a socket has a fresh silence count.   *)
(* Together with NoFdLeak it implies the two properties before the last.   *)
AtLocation(s) ==
    LET open == iSocket[s] \in Fds
    IN  /\ pc[s] \in {"new", "sleep"} => ~open
        /\ pc[s] \in {"connecting", "select", "beat", "close"} => open
        /\ pc[s] = "count" => open \/ iHearCount[s] = 0
        /\ pc[s] \in {"close", "store"} /\ after[s] = "count" => iHearCount[s] = 0
        /\ pc[s] = "close" => after[s] # "select"
        /\ pc[s] = "store" => (open <=> after[s] = "select")
        /\ pc[s] # "store" => pend[s] = {}
        /\ IF open /\ pc[s] # "connecting"
           THEN /\ iSockfd[s] = iSocket[s] \/ ("fd" \in pend[s] /\ iSockfd[s] <= 0)
                /\ iConnectStatus[s] = CONNECT \/ "status" \in pend[s]
           ELSE /\ iSockfd[s] <= 0 \/ "fd" \in pend[s]
                /\ iConnectStatus[s] = UNCONNECT \/ "status" \in pend[s]

LocationInv == \A s \in Nvrs : AtLocation(s)

(* The socket of an undropped command is open and its own: it was at the   *)
(* check, and only Close takes a published socket away.                    *)
CommandInv ==
    gui.pc # "idle" /\ ~dropped =>
        /\ iSocket[gui.nvr] \in Fds
        /\ pc[gui.nvr] # "connecting"
        /\ gui.pc = "send" => gui.fd <= 0 \/ gui.fd = iSocket[gui.nvr]

-----------------------------------------------------------------------------
(* Liveness.                                                               *)

(* A peer that has gone silent without closing is noticed: the status the  *)
(* page shows becomes "not connected", by the heartbeat or by the count.   *)
MuteLinkDropped ==
    \A s \in Nvrs : link[s] = "mute" ~> iConnectStatus[s] = UNCONNECT

(* A recorder that stays reachable is connected again and again, however   *)
(* often the connection breaks.                                            *)
Reconnects ==
    \A s \in Nvrs : <>[]reachable[s] => []<>(iConnectStatus[s] = CONNECT)

(* The link recovers (CliProcessThread): it neither stays with a peer that *)
(* is gone nor without one that is there.                                  *)
LinkRecovers == MuteLinkDropped /\ Reconnects
=============================================================================
