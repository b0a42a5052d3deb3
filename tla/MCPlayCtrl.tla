----------------------------- MODULE MCPlayCtrl -----------------------------
(* TLC instance of PlayCtrl: two slots, three cameras in two groups (the    *)
(* second group is not full), up to three alarm cameras.                    *)
EXTENDS PlayCtrl

MCSlots == {0, 1}
MCCameras == {0, 1, 2}
Group(a, b) == [i \in MCSlots |-> IF i = 0 THEN a ELSE b]
MCGroups == {Group(0, 1), Group(2, -1)}
MCAlarmLists == {<<1>>, <<1, 2>>, <<2, 0, 1>>}

(* No action reads saved, and of the properties AlarmHandleComesBack only:  *)
(* the other runs need not tell states apart by it.                         *)
NotSaved ==
    <<wanted, screen, hSinglePlay, hPlay, initFlag, multInitFlag, lost, alarms, page, starting>>
=============================================================================
