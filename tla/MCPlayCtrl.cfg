SPECIFICATION Spec
VIEW NotSaved
CONSTANTS
    Cameras <- MCCameras
    Slots <- MCSlots
    Groups <- MCGroups
    AlarmLists <- MCAlarmLists
    NULL = NULL
INVARIANTS
    LostOnce
PROPERTIES
    PicturesStayTrue
    AlarmsHold
