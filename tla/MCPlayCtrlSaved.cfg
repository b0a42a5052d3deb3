SPECIFICATION Spec
CONSTANTS
    Cameras <- MCCameras
    Slots <- MCSlots
    Groups <- MCGroups
    AlarmLists <- MCAlarmLists
    NULL = NULL
PROPERTY
    AlarmHandleComesBack
