---------------------------- MODULE NvrLinkProofs ----------------------------
(***************************************************************************)
(* The safety properties of NvrLink for every number of recorders, every   *)
(* descriptor range and every silence limit.  TypeOK is inductive; so are, *)
(* on top of it, the ownership of descriptors (NoFdLeak), what holds at    *)
(* each location of a thread (LocationInv) and the state of the command    *)
(* the GUI is sending (CommandInv), taken together.                        *)
(***************************************************************************)
EXTENDS NvrLink, TLAPS

USE NvrsAssumption, FdsAssumption, OwnerAssumption, HearMaxAssumption

Inv == TypeOK /\ NoFdLeak /\ LocationInv /\ CommandInv

(* Every step keeps the types: in particular the silence count stays       *)
(* within 0..HearMax and a descriptor field holds a number or 0 or -1.     *)
LEMMA TypeInductive == TypeOK /\ [Next]_vars => TypeOK'
<1> SUFFICES ASSUME TypeOK, [Next]_vars PROVE TypeOK'
    OBVIOUS
<1> USE DEF TypeOK, Locations, Fields, Goto, CONNECT, UNCONNECT,
            threadVars, sharedVars, guiVars, kernelVars
<1>1. ASSUME NEW s \in Nvrs, Create(s) PROVE TypeOK'
    BY <1>1 DEF Create
<1>2. ASSUME NEW s \in Nvrs, Thread(s) PROVE TypeOK'
    <2>1. CASE Socket(s)
        BY <2>1 DEF Socket
    <2>2. CASE Connected(s)
        BY <2>2 DEF Connected
    <2>3. CASE ConnectFailed(s)
        BY <2>3 DEF ConnectFailed
    <2>4. CASE Sleep(s)
        BY <2>4 DEF Sleep
    <2>5. CASE Resume(s)
        BY <2>5 DEF Resume
    <2>6. CASE RecvData(s) \/ RecvNothing(s) \/ RecvFailed(s)
        BY <2>6 DEF RecvData, RecvNothing, RecvFailed
    <2>7. CASE HeartbeatSent(s) \/ HeartbeatFailed(s) \/ NoHeartbeat(s)
        BY <2>7 DEF HeartbeatSent, HeartbeatFailed, NoHeartbeat
    <2>8. CASE Count(s) \/ Silent(s)
        BY <2>8 DEF Count, Silent
    <2>9. CASE Close(s)
        BY <2>9 DEF Close
    <2>10. CASE StoreFd(s)
        BY <2>10 DEF StoreFd
    <2>11. CASE StoreStatus(s)
        BY <2>11 DEF StoreStatus
    <2>12. CASE Stored(s)
        BY <2>12 DEF Stored
    <2> QED
        BY <1>2, <2>1, <2>2, <2>3, <2>4, <2>5, <2>6, <2>7, <2>8, <2>9, <2>10,
           <2>11, <2>12 DEF Thread
<1>3. ASSUME NEW s \in Nvrs, GuiCheck(s) PROVE TypeOK'
    BY <1>3 DEF GuiCheck
<1>4. ASSUME NEW s \in Nvrs, PeerResets(s) \/ PeerMute(s) \/ Reachability(s)
      PROVE  TypeOK'
    BY <1>4 DEF PeerResets, PeerMute, Reachability
<1>5. CASE GuiLock
    BY <1>5 DEF GuiLock
<1>6. CASE GuiSend
    BY <1>6 DEF GuiSend
<1>7. ASSUME NEW f \in Fds, OutsideOpens(f) \/ OutsideCloses(f) PROVE TypeOK'
    BY <1>7 DEF OutsideOpens, OutsideCloses
<1>8. CASE UNCHANGED vars
    BY <1>8 DEF vars
<1> QED
    BY <1>1, <1>2, <1>3, <1>4, <1>5, <1>6, <1>7, <1>8 DEF Next

(* The initial records are of those types.                                 *)
LEMMA InitTypes == Init => TypeOK
<1> SUFFICES ASSUME Init PROVE TypeOK
    OBVIOUS
<1>1. /\ pc \in [Nvrs -> Locations]
      /\ after \in [Nvrs -> {"top", "select", "count"}]
      /\ pend \in [Nvrs -> SUBSET Fields]
      /\ iHearCount \in [Nvrs -> 0 .. HearMax]
      /\ iConnectStatus \in [Nvrs -> {CONNECT, UNCONNECT}]
    BY DEF Init, Locations
<1>2. /\ iSocket \in [Nvrs -> Fds \cup {-1, 0}]
      /\ iSockfd \in [Nvrs -> Fds \cup {-1, 0}]
      /\ fdOwner \in [Fds -> Nvrs \cup {OUTSIDE, NONE}]
    BY DEF Init
<1>3. gui \in [pc : {"idle", "lock", "send"}, nvr : Nvrs, fd : Fds \cup {-1, 0}]
    BY DEF Init
<1>4. /\ dropped \in BOOLEAN
      /\ link \in [Nvrs -> {"none", "ok", "mute", "reset"}]
      /\ reachable \in [Nvrs -> BOOLEAN]
    BY DEF Init
<1> QED
    BY <1>1, <1>2, <1>3, <1>4 DEF TypeOK

(* The types hold in every reachable state.                                *)
THEOREM TypeCorrect == Spec => []TypeOK
    BY InitTypes, TypeInductive, PTL DEF Spec

-----------------------------------------------------------------------------
(* The strengthening: descriptors and locations.  A step of the thread of  *)
(* link s leaves every other link's socket, location and descriptor alone. *)

(* A thread's descriptor is a real one exactly when it is positive.         *)
LEMMA OpenSocket ==
    ASSUME TypeOK, NEW s \in Nvrs
    PROVE  iSocket[s] \in Fds <=> iSocket[s] > 0
<1>1. iSocket[s] \in Fds \/ iSocket[s] = -1 \/ iSocket[s] = 0
    BY DEF TypeOK
<1>2. \A f \in Fds : f \in Nat /\ f # 0
    BY FdsAssumption
<1>3. CASE iSocket[s] \in Fds
    <2>1. iSocket[s] \in Nat /\ iSocket[s] # 0
        BY <1>2, <1>3
    <2> QED
        BY <2>1, <1>3
<1>4. CASE iSocket[s] = -1
    <2>1. iSocket[s] \notin Fds
        BY <1>2, <1>4
    <2> QED
        BY <2>1, <1>4
<1>5. CASE iSocket[s] = 0
    BY <1>2, <1>5
<1> QED
    BY <1>1, <1>3, <1>4, <1>5

LEMMA ClosedSocket ==
    ASSUME TypeOK, NEW s \in Nvrs, iSocket[s] <= 0
    PROVE  iSocket[s] \notin Fds
<1>1. SUFFICES ASSUME iSocket[s] \in Fds PROVE FALSE
    OBVIOUS
<1>2. iSocket[s] > 0
    BY <1>1, OpenSocket
<1>3. iSocket[s] \in Nat
    BY <1>1, FdsAssumption
<1> QED
    BY <1>2, <1>3

LEMMA ThreadKeepsFds ==
    ASSUME TypeOK, TypeOK', NoFdLeak, LocationInv, NEW s \in Nvrs, Thread(s)
    PROVE  NoFdLeak'
<1> USE DEF TypeOK, NoFdLeak, LocationInv, Goto, threadVars, sharedVars,
            guiVars, kernelVars
<1>1. CASE Socket(s)
    <2>1. ASSUME NEW f \in Fds, fdOwner[f] = NONE, pc[s] = "top", iSocket[s] <= 0,
                 fdOwner' = [fdOwner EXCEPT ![f] = s],
                 iSocket' = [iSocket EXCEPT ![s] = f],
                 Goto(s, "connecting"),
                 UNCHANGED <<after, pend, iHearCount, sharedVars, guiVars>>
          PROVE  NoFdLeak'
        BY <2>1
    <2>2. ASSUME pc[s] = "top", iSocket[s] <= 0, Goto(s, "sleep"),
                 UNCHANGED <<fdOwner, iSocket, after, pend, iHearCount,
                             sharedVars, guiVars>>
          PROVE  NoFdLeak'
        BY <2>2
    <2> QED
        BY <1>1, <2>1, <2>2 DEF Socket
<1>2. CASE Connected(s)
    BY <1>2 DEF Connected
<1>3. CASE ConnectFailed(s)
    BY <1>3 DEF ConnectFailed
<1>4. CASE Sleep(s)
    BY <1>4 DEF Sleep
<1>5. CASE Resume(s)
    BY <1>5 DEF Resume
<1>6. CASE RecvData(s)
    BY <1>6 DEF RecvData
<1>7. CASE RecvNothing(s)
    BY <1>7 DEF RecvNothing
<1>8. CASE RecvFailed(s)
    BY <1>8 DEF RecvFailed
<1>9. CASE HeartbeatSent(s)
    BY <1>9 DEF HeartbeatSent
<1>10. CASE HeartbeatFailed(s)
    BY <1>10 DEF HeartbeatFailed
<1>11. CASE NoHeartbeat(s)
    BY <1>11 DEF NoHeartbeat
<1>12. CASE Count(s)
    BY <1>12 DEF Count
<1>13. CASE Silent(s)
    BY <1>13 DEF Silent
<1>14. CASE Close(s)
    BY <1>14 DEF Close
<1>15. CASE StoreFd(s)
    BY <1>15 DEF StoreFd
<1>16. CASE StoreStatus(s)
    BY <1>16 DEF StoreStatus
<1>17. CASE Stored(s)
    BY <1>17 DEF Stored
<1> QED
    BY <1>1, <1>2, <1>3, <1>4, <1>5, <1>6, <1>7, <1>8, <1>9, <1>10,
       <1>11, <1>12, <1>13, <1>14, <1>15, <1>16, <1>17 DEF Thread

LEMMA ThreadKeepsLocations ==
    ASSUME TypeOK, TypeOK', LocationInv, NEW s \in Nvrs, Thread(s)
    PROVE  LocationInv'
<1> USE DEF TypeOK, Goto, threadVars, sharedVars, guiVars, kernelVars
<1>0. AtLocation(s)
    BY DEF LocationInv
<1>a. ASSUME NEW t \in Nvrs, t # s PROVE AtLocation(t)'
    <2>1. /\ pc'[t] = pc[t] /\ after'[t] = after[t] /\ pend'[t] = pend[t]
          /\ iSocket'[t] = iSocket[t] /\ iHearCount'[t] = iHearCount[t]
          /\ iSockfd'[t] = iSockfd[t] /\ iConnectStatus'[t] = iConnectStatus[t]
        BY <1>a DEF Thread, Socket, Connected, ConnectFailed, Sleep, Resume,
            RecvData, RecvNothing, RecvFailed, HeartbeatSent, HeartbeatFailed,
            NoHeartbeat, Count, Silent, Close, StoreFd, StoreStatus, Stored
    <2>2. AtLocation(t)
        BY DEF LocationInv
    <2> QED
        BY <2>1, <2>2 DEF AtLocation
<1>b. AtLocation(s)'
    <2> USE <1>0 DEF AtLocation, Fields, CONNECT, UNCONNECT
    <2>1. CASE Socket(s)
        <3>0. iSocket[s] \notin Fds
            <4>1. iSocket[s] <= 0
                BY <2>1 DEF Socket
            <4> QED
                BY <4>1, ClosedSocket
        <3>1. /\ pc[s] = "top"
              /\ pend'[s] = pend[s] /\ after'[s] = after[s]
              /\ iSockfd'[s] = iSockfd[s] /\ iConnectStatus'[s] = iConnectStatus[s]
            BY <2>1 DEF Socket
        <3>2. \/ iSocket'[s] \in Fds /\ pc'[s] = "connecting"
              \/ iSocket'[s] = iSocket[s] /\ pc'[s] = "sleep"
            BY <2>1 DEF Socket
        <3> QED
            BY <3>0, <3>1, <3>2
    <2>2. CASE Connected(s)
        BY <2>2 DEF Connected
    <2>3. CASE ConnectFailed(s)
        BY <2>3 DEF ConnectFailed
    <2>4. CASE Sleep(s)
        BY <2>4 DEF Sleep
    <2>5. CASE Resume(s)
        BY <2>5 DEF Resume
    <2>6. CASE RecvData(s)
        BY <2>6 DEF RecvData
    <2>7. CASE RecvNothing(s)
        BY <2>7 DEF RecvNothing
    <2>8. CASE RecvFailed(s)
        BY <2>8 DEF RecvFailed
    <2>9. CASE HeartbeatSent(s)
        BY <2>9 DEF HeartbeatSent
    <2>10. CASE HeartbeatFailed(s)
        BY <2>10 DEF HeartbeatFailed
    <2>11. CASE NoHeartbeat(s)
        BY <2>11 DEF NoHeartbeat
    <2>12. CASE Count(s)
        BY <2>12 DEF Count
    <2>13. CASE Silent(s)
        BY <2>13 DEF Silent
    <2>14. CASE Close(s)
        BY <2>14 DEF Close
    <2>15. CASE StoreFd(s)
        BY <2>15 DEF StoreFd
    <2>16. CASE StoreStatus(s)
        <3>1. /\ pc[s] = "store" /\ pc'[s] = "store"
              /\ iSocket'[s] = iSocket[s] /\ after'[s] = after[s]
              /\ iHearCount'[s] = iHearCount[s] /\ iSockfd'[s] = iSockfd[s]
              /\ "fd" \in pend[s] => "fd" \in pend'[s]
            BY <2>16 DEF StoreStatus
        <3>2. iConnectStatus'[s] = IF iSocket[s] > 0 THEN CONNECT ELSE UNCONNECT
            BY <2>16 DEF StoreStatus
        <3>3. iSocket[s] \in Fds <=> iSocket[s] > 0
            BY OpenSocket
        <3> QED
            BY <3>1, <3>2, <3>3
    <2>17. CASE Stored(s)
        BY <2>17 DEF Stored
    <2> QED
        BY <2>1, <2>2, <2>3, <2>4, <2>5, <2>6, <2>7, <2>8, <2>9, <2>10,
           <2>11, <2>12, <2>13, <2>14, <2>15, <2>16, <2>17 DEF Thread
<1> QED
    BY <1>a, <1>b DEF LocationInv

(* Only Close takes the socket of a link away once it is published, and    *)
(* Close marks the command in progress as dropped.                         *)
LEMMA ThreadKeepsCommand ==
    ASSUME TypeOK, TypeOK', LocationInv, CommandInv, NEW s \in Nvrs, Thread(s)
    PROVE  CommandInv'
<1> DEFINE n == gui.nvr
<1>1. SUFFICES ASSUME gui.pc # "idle", ~dropped'
               PROVE  /\ iSocket'[n] \in Fds
                      /\ pc'[n] # "connecting"
                      /\ gui.pc = "send" => gui.fd <= 0 \/ gui.fd = iSocket'[n]
    <2>1. gui' = gui
        BY DEF Thread, Socket, Connected, ConnectFailed, Sleep, Resume,
            RecvData, RecvNothing, RecvFailed, HeartbeatSent, HeartbeatFailed,
            NoHeartbeat, Count, Silent, Close, StoreFd, StoreStatus, Stored,
            guiVars
    <2> QED
        BY <2>1 DEF CommandInv
<1>2. n \in Nvrs /\ gui.fd \in Fds \cup {-1, 0}
    BY DEF TypeOK
<1>3. ~dropped
    BY <1>1 DEF Thread, Socket, Connected, ConnectFailed, Sleep, Resume,
        RecvData, RecvNothing, RecvFailed, HeartbeatSent, HeartbeatFailed,
        NoHeartbeat, Count, Silent, Close, StoreFd, StoreStatus, Stored, guiVars
<1>4. /\ iSocket[n] \in Fds
      /\ pc[n] # "connecting"
      /\ gui.pc = "send" => gui.fd <= 0 \/ gui.fd = iSocket[n]
    BY <1>1, <1>3 DEF CommandInv
<1>5. iSocket[n] > 0
    BY <1>2, <1>4, OpenSocket
<1>6. iSocket'[n] = iSocket[n]
    <2>1. CASE n # s
        BY <1>2, <2>1 DEF Thread, Socket, Connected, ConnectFailed, Sleep,
            Resume, RecvData, RecvNothing, RecvFailed, HeartbeatSent,
            HeartbeatFailed, NoHeartbeat, Count, Silent, Close, StoreFd,
            StoreStatus, Stored, threadVars, TypeOK
    <2>2. CASE n = s
        <3>1. ~Socket(s)
            BY <1>4, <2>2, ClosedSocket DEF Socket
        <3>2. ~ConnectFailed(s)
            BY <1>4, <2>2 DEF ConnectFailed
        <3>3. ~Close(s)
            BY <1>1, <2>2 DEF Close
        <3> QED
            BY <3>1, <3>2, <3>3 DEF Thread, Connected, Sleep, Resume, RecvData,
                RecvNothing, RecvFailed, HeartbeatSent, HeartbeatFailed,
                NoHeartbeat, Count, Silent, StoreFd, StoreStatus, Stored,
                threadVars
    <2> QED
        BY <2>1, <2>2
<1>7. pc'[n] # "connecting"
    <2>1. CASE n # s
        <3>1. pc'[n] = pc[n]
            <4>1. pc' = pc \/ \E loc : pc' = [pc EXCEPT ![s] = loc]
                BY <1>2 DEF Thread, Socket, Connected, ConnectFailed, Sleep,
                    Resume, RecvData, RecvNothing, RecvFailed, HeartbeatSent,
                    HeartbeatFailed, NoHeartbeat, Count, Silent, Close, StoreFd,
                    StoreStatus, Stored, Goto
            <4> QED
                BY <2>1, <4>1 DEF TypeOK
        <3> QED
            BY <1>4, <3>1
    <2>2. CASE n = s
        <3>1. ~Socket(s)
            BY <1>4, <2>2, ClosedSocket DEF Socket
        <3> QED
            BY <1>4, <2>2, <3>1 DEF Thread, Connected, ConnectFailed, Sleep,
                Resume, RecvData, RecvNothing, RecvFailed, HeartbeatSent,
                HeartbeatFailed, NoHeartbeat, Count, Silent, Close, StoreFd,
                StoreStatus, Stored, Goto, TypeOK, threadVars
    <2> QED
        BY <2>1, <2>2
<1> QED
    BY <1>4, <1>6, <1>7

-----------------------------------------------------------------------------
(* Every step keeps the strengthened invariant.                            *)
LEMMA InvInductive == Inv /\ [Next]_vars => Inv'
<1> SUFFICES ASSUME Inv, [Next]_vars PROVE Inv'
    OBVIOUS
<1> USE DEF Inv
<1>0. TypeOK'
    BY TypeInductive
<1>1. ASSUME NEW s \in Nvrs, Create(s) PROVE Inv'
    <2>1. UNCHANGED <<after, pend, iSocket, iHearCount, iSockfd, iConnectStatus,
                      gui, dropped, fdOwner>>
        BY <1>1 DEF Create, sharedVars, guiVars, kernelVars
    <2>2. pc[s] = "new" /\ pc' = [pc EXCEPT ![s] = "top"]
        BY <1>1 DEF Create, Goto
    <2>3. NoFdLeak'
        BY <2>1 DEF NoFdLeak
    <2>4. ASSUME NEW t \in Nvrs PROVE AtLocation(t)'
        BY <2>1, <2>2 DEF AtLocation, LocationInv, TypeOK
    <2>5. CommandInv'
        BY <2>1, <2>2 DEF CommandInv, TypeOK
    <2> QED
        BY <1>0, <2>3, <2>4, <2>5 DEF LocationInv
<1>2. ASSUME NEW s \in Nvrs, Thread(s) PROVE Inv'
    BY <1>0, <1>2, ThreadKeepsFds, ThreadKeepsLocations, ThreadKeepsCommand
<1>3. ASSUME NEW s \in Nvrs, GuiCheck(s) PROVE Inv'
    <2>1. UNCHANGED <<threadVars, sharedVars, kernelVars>>
        BY <1>3 DEF GuiCheck
    <2>2. gui'.pc = "lock" /\ gui'.nvr = s /\ dropped' = (iSocket[s] <= 0)
        BY <1>3 DEF GuiCheck
    <2>3. NoFdLeak' /\ LocationInv'
        BY <2>1 DEF NoFdLeak, LocationInv, AtLocation, threadVars, sharedVars, kernelVars
    <2>4. ASSUME ~dropped' PROVE iSocket[s] \in Fds /\ pc[s] # "connecting"
        <3>1. iSocket[s] \in Fds
            <4>1. iSocket[s] = -1 \/ iSocket[s] = 0 \/ iSocket[s] \in Fds
                BY DEF TypeOK
            <4>2. ~(iSocket[s] <= 0)
                BY <2>2, <2>4
            <4> QED
                BY <4>1, <4>2
        <3>2. iConnectStatus[s] = CONNECT
            BY <1>3 DEF GuiCheck
        <3> QED
            BY <3>1, <3>2 DEF LocationInv, AtLocation, CONNECT, UNCONNECT
    <2>5. CommandInv'
        BY <2>1, <2>2, <2>4 DEF CommandInv, threadVars
    <2> QED
        BY <1>0, <2>3, <2>5
<1>4. CASE GuiLock
    <2>1. UNCHANGED <<threadVars, sharedVars, kernelVars, dropped>>
        BY <1>4 DEF GuiLock
    <2>2. gui.pc = "lock" /\ gui'.nvr = gui.nvr /\ gui'.fd = iSockfd[gui.nvr]
        BY <1>4 DEF GuiLock, TypeOK
    <2>3. NoFdLeak' /\ LocationInv'
        BY <2>1 DEF NoFdLeak, LocationInv, AtLocation, threadVars, sharedVars, kernelVars
    <2>4. AtLocation(gui.nvr) /\ gui.nvr \in Nvrs
        BY DEF LocationInv, TypeOK
    <2>5. CommandInv'
        BY <2>1, <2>2, <2>4 DEF CommandInv, AtLocation, threadVars
    <2> QED
        BY <1>0, <2>3, <2>5
<1>5. CASE GuiSend
    <2>1. UNCHANGED <<threadVars, sharedVars, kernelVars>> /\ gui'.pc = "idle"
        BY <1>5 DEF GuiSend, TypeOK
    <2> QED
        BY <1>0, <2>1 DEF NoFdLeak, LocationInv, AtLocation, CommandInv,
            threadVars, sharedVars, kernelVars
<1>6. ASSUME NEW s \in Nvrs, PeerResets(s) \/ PeerMute(s) \/ Reachability(s)
      PROVE  Inv'
    <2>1. UNCHANGED <<threadVars, sharedVars, guiVars, fdOwner>>
        BY <1>6 DEF PeerResets, PeerMute, Reachability
    <2> QED
        BY <1>0, <2>1 DEF NoFdLeak, LocationInv, AtLocation, CommandInv,
            threadVars, sharedVars, guiVars
<1>7. ASSUME NEW f \in Fds, OutsideOpens(f) \/ OutsideCloses(f) PROVE Inv'
    <2>1. UNCHANGED <<threadVars, sharedVars, guiVars>>
        BY <1>7 DEF OutsideOpens, OutsideCloses
    <2>2. NoFdLeak'
        BY <1>7, <2>1 DEF OutsideOpens, OutsideCloses, NoFdLeak, TypeOK, threadVars
    <2>3. LocationInv' /\ CommandInv'
        BY <2>1 DEF LocationInv, AtLocation, CommandInv, threadVars, sharedVars, guiVars
    <2> QED
        BY <1>0, <2>2, <2>3
<1>8. CASE UNCHANGED vars
    BY <1>0, <1>8 DEF vars, NoFdLeak, LocationInv, AtLocation, CommandInv,
        threadVars, sharedVars, guiVars, kernelVars
<1> QED
    BY <1>1, <1>2, <1>3, <1>4, <1>5, <1>6, <1>7, <1>8 DEF Next

LEMMA InvInitial == Init => Inv
<1> SUFFICES ASSUME Init PROVE Inv
    OBVIOUS
<1>1. TypeOK
    BY InitTypes
<1>2. NoFdLeak
    BY DEF Init, NoFdLeak
<1>3. LocationInv
    BY DEF Init, LocationInv, AtLocation, UNCONNECT
<1>4. CommandInv
    BY DEF Init, CommandInv
<1> QED
    BY <1>1, <1>2, <1>3, <1>4 DEF Inv

(* The strengthened invariant holds in every reachable state.              *)
THEOREM Invariance == Spec => []Inv
    BY InvInitial, InvInductive, PTL DEF Spec

(* No disconnect path leaks a descriptor and no two links share one.       *)
THEOREM FdsOwned == Spec => []NoFdLeak
<1>1. Inv => NoFdLeak
    BY DEF Inv
<1> QED
    BY <1>1, Invariance, PTL

(* A thread closes only an open descriptor of its own.                     *)
THEOREM NeverClosesForeign == Spec => []NoForeignClose
<1>1. Inv => NoForeignClose
    BY DEF Inv, NoForeignClose, LocationInv, AtLocation, NoFdLeak
<1> QED
    BY <1>1, Invariance, PTL

(* The fields the GUI polls are true outside the store windows.            *)
THEOREM StatusTrue == Spec => []StatusTellsTruth
<1>1. Inv => StatusTellsTruth
    BY DEF Inv, StatusTellsTruth, LocationInv, AtLocation, CONNECT, UNCONNECT
<1> QED
    BY <1>1, Invariance, PTL

(* A command can reach a wrong recorder only through a closed socket.      *)
THEOREM CommandsReachTheirNvr == Spec => []CommandReachesItsNvr
<1>1. Inv => CommandReachesItsNvr
    BY DEF Inv, CommandReachesItsNvr, CommandInv, NoFdLeak, TypeOK
<1> QED
    BY <1>1, Invariance, PTL
=============================================================================
