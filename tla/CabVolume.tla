----------------------------- MODULE CabVolume -----------------------------
(***************************************************************************)
(* What the client of a driver's cab sends to the train: the volume of the *)
(* LCD screens, again and again by the loop of MultcastRecvThread, and the *)
(* volume of the speakers once, when the key first makes this cab the      *)
(* master, and with it the order to watch the noise (src/pmsg/pmsgproc.c). *)
(* Only the master sends.  A datagram may not be sent for want of a        *)
(* socket, may fail, or may be lost; the screens may be switched off and   *)
(* on.                                                                     *)
(***************************************************************************)
EXTENDS Integers

CONSTANTS
    LcdPeriod,      \* 4000 iterations
    MaxMishaps      \* bound: datagrams that do not arrive, screens switched off

ASSUME VolumeAssumption == LcdPeriod \in Nat \ {0, 1} /\ MaxMishaps \in Nat

VARIABLES
    master,         \* GetASCUMasterSlaveFlag()
    firstSent,      \* g_iHaveSendFirstVol
    lcdSocket,      \* g_iLcdSocket > 0
    volumeSent,     \* iOldLcdVolumeValue is the volume
    lcdCount,       \* iLcdVolumeCount
    screens,        \* the LCD screens know the volume
    speakers,       \* so do the speakers
    noise,          \* the noise is watched
    mishaps

volumeVars ==
    <<master, firstSent, lcdSocket, volumeSent, lcdCount, screens, speakers, noise, mishaps>>

GetASCUMasterSlaveFlag == master
SetASCUMasterSlaveFlag(flag) == master' = flag

(* The car by the third number of its address: 21 at one end of the train. *)
GetDeviceCarriageNo(subnet) == IF subnet = 21 THEN 1 ELSE 6

(* STATE_Init makes the client of car 1 the master, until a key tells.     *)
VolumeInit ==
    /\ \E subnet \in {21, 22} : master = (GetDeviceCarriageNo(subnet) = 1)
    /\ firstSent = FALSE
    /\ lcdSocket \in BOOLEAN
    /\ volumeSent = FALSE
    /\ lcdCount = 1
    /\ screens = FALSE /\ speakers = FALSE /\ noise = FALSE
    /\ mishaps = 0

Mishap == mishaps < MaxMishaps /\ mishaps' = mishaps + 1
Smooth == mishaps' = mishaps

(* CreateLcdSocket may fail.                                               *)
CreateFails ==
    /\ ~lcdSocket
    /\ Mishap
    /\ UNCHANGED <<lcdSocket, screens>>

(* A missing socket is made first, and given up when it does not send; a   *)
(* datagram may be sent and lost.                                          *)
AdjustLcdVolume ==
    IF ~GetASCUMasterSlaveFlag THEN Smooth /\ UNCHANGED <<lcdSocket, screens>>
    ELSE \/ CreateFails
         \/ Smooth /\ lcdSocket' = TRUE /\ screens' = TRUE
         \/ Mishap /\ lcdSocket' \in BOOLEAN /\ UNCHANGED screens

\* Mutant: the count only runs until the volume has been sent.
Due_Once == ~volumeSent
(* A new volume is sent at once, and every LcdPeriod iterations.           *)
Due == ~volumeSent \/ lcdCount = LcdPeriod

(* One iteration.                                                          *)
SendVolumes ==
    /\ IF Due THEN AdjustLcdVolume ELSE Smooth /\ UNCHANGED <<lcdSocket, screens>>
    /\ volumeSent' = TRUE
    /\ lcdCount' = IF ~volumeSent THEN 2
                   ELSE IF lcdCount = LcdPeriod THEN 1 ELSE lcdCount + 1
    /\ UNCHANGED <<master, firstSent, speakers, noise>>

(* Two datagrams of the new master, each of which may be lost.             *)
adjustCarriageSpeakerVolume == speakers' \in BOOLEAN
StartNoiseMonitor == noise' \in BOOLEAN

(* The message 0x300 from the key of this end of the train.                *)
KeyMessage ==
    /\ \E flag \in BOOLEAN : SetASCUMasterSlaveFlag(flag)
    /\ IF master' /\ ~firstSent
       THEN /\ firstSent' = TRUE
            /\ adjustCarriageSpeakerVolume /\ StartNoiseMonitor
            /\ IF speakers' /\ noise' THEN Smooth ELSE Mishap
       ELSE Smooth /\ UNCHANGED <<firstSent, speakers, noise>>
    /\ UNCHANGED <<lcdSocket, volumeSent, lcdCount, screens>>

SwitchedOff ==
    /\ Mishap
    /\ screens' = FALSE
    /\ UNCHANGED <<master, firstSent, lcdSocket, volumeSent, lcdCount, speakers, noise>>

VolumeNext == SendVolumes \/ KeyMessage \/ SwitchedOff

VolumeSpec == VolumeInit /\ [][VolumeNext]_volumeVars /\ WF_volumeVars(SendVolumes)

-----------------------------------------------------------------------------
(* Properties.                                                             *)

(* While this cab stays the master the screens learn the volume, whatever  *)
(* was lost before: it is sent again also when it has not changed.         *)
ScreensLearn == <>[]master => <>[]screens
=============================================================================
