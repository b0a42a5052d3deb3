----------------------------- MODULE PollOrder -----------------------------
(***************************************************************************)
(* Which cameras the live view shows next while it polls: GetNextFourVideo *)
(* and GetNextSingleVideo (src/cctv/cctv.cpp) over the places that the     *)
(* configuration gives to the cameras (src/state/state.c).  A camera has a *)
(* place, a group and a position in it; not every place has a camera.  On  *)
(* a train with FewCameras or less the last group only fills the gaps of   *)
(* the first one.                                                          *)
(*                                                                         *)
(* The controller brings a request to the screen twice a second, the poll  *)
(* timer runs every few seconds: here a request is shown at once.  What a  *)
(* button or an alarm puts on the screen between two polls is arbitrary.   *)
(***************************************************************************)
EXTENDS Integers, Sequences

CONSTANTS
    Layouts,        \* the layouts: a sequence of <<group, position>>, by camera
    LastGroup,      \* 7
    FewCameras,     \* 28
    MaxTouches      \* bound: how often buttons or alarms choose the pictures

Positions == 0 .. 3

ASSUME LayoutsAssumption ==
    \A layout \in Layouts :
        layout \in Seq((0 .. LastGroup) \X Positions) /\ layout # <<>>
ASSUME PollBounds == LastGroup \in Nat \ {0, 1} /\ FewCameras \in Nat /\ MaxTouches \in Nat

VARIABLES
    layout,     \* g_atIpcInfo[camera].iUiGroup, iUiPos
    four,       \* g_aiCurFourVideoIdx
    single,     \* g_iCurSingleVideoIdx
    polling,    \* "four" or "single": g_eCurPlayStyle
    touches     \* choices made by somebody else

pollVars == <<layout, four, single, polling, touches>>

NONE == -1
Videos == 0 .. Len(layout) - 1      \* GetVideoNum()

(* GetVideoIdxAccordBtnPose: the first camera at a place, or none.         *)
VideoAt(group, pos) ==
    LET here == {v \in Videos : layout[v + 1] = <<group, pos>>} IN
    IF here = {} THEN NONE ELSE CHOOSE v \in here : \A w \in here : v <= w

(* GetBtnPoseAccordVideoIdx: <<-1, -1>> for no camera.                     *)
PlaceOf(v) == IF v \in Videos THEN layout[v + 1] ELSE <<-1, -1>>

Few == Len(layout) <= FewCameras

-----------------------------------------------------------------------------
(* GetNextFourVideo.                                                       *)

(* The group of the last picture that shows a camera counts.               *)
LastShown ==
    LET lit == {i \in Positions : four[i] # NONE} IN
    IF lit = {} THEN NONE
    ELSE four[CHOOSE i \in lit : \A j \in lit : j <= i]

\* Mutant: the group after the last is 0 on every train.
NextGroup_AlwaysZero(group) ==
    IF group = LastGroup /\ Few THEN 0
    ELSE IF group = LastGroup + 1 THEN 0
    ELSE group
(* The last group is shown with the first, so 1 comes after it.            *)
NextGroup(group) ==
    IF group = LastGroup /\ Few THEN 0
    ELSE IF group = LastGroup + 1 THEN (IF Few THEN 1 ELSE 0)
    ELSE group

(* The four places of a group, the first completed from the last.          *)
Pictures(group) ==
    [i \in Positions |->
        IF VideoAt(group, i) = NONE /\ group = 0 /\ Few
        THEN VideoAt(LastGroup, i) ELSE VideoAt(group, i)]

GetNextFourVideo == NextGroup(PlaceOf(LastShown)[1] + 1)

-----------------------------------------------------------------------------
(* GetNextSingleVideo.                                                     *)

(* Places in the order of the buttons.                                     *)
PlaceNumber(place) == 4 * place[1] + place[2]

(* A place the first pass looks at: it begins at start.                    *)
Follows(place, start) == PlaceNumber(place) >= PlaceNumber(start)

(* The place after a camera's: after no camera one before the first group, *)
(* after the last position of the last group the first.                    *)
StartPlace(v) ==
    LET p == PlaceOf(v) IN
    IF p[2] + 1 < 4 THEN <<p[1], p[2] + 1>>
    ELSE IF p[1] = LastGroup THEN <<0, 0>> ELSE <<p[1] + 1, 0>>

(* The camera at the first of their places, as VideoAt finds it.           *)
FirstOf(videos) ==
    CHOOSE v \in videos : \A w \in videos \ {v} :
        \/ PlaceNumber(PlaceOf(v)) < PlaceNumber(PlaceOf(w))
        \/ PlaceNumber(PlaceOf(v)) = PlaceNumber(PlaceOf(w)) /\ v < w

(* Two passes: from the start to the last group, then from the beginning.  *)
GetNextSingleVideo ==
    LET start == StartPlace(single)
        ahead == {v \in Videos : Follows(PlaceOf(v), start)} IN
    FirstOf(IF ahead # {} THEN ahead ELSE Videos)

-----------------------------------------------------------------------------
Dark == [i \in Positions |-> NONE]

PollInit ==
    /\ layout \in Layouts
    /\ polling \in {"four", "single"}
    /\ four = Dark /\ single = NONE
    /\ touches = 0

(* videoPollingfunction.                                                   *)
videoPollingfunction ==
    /\ \/ /\ polling = "four"
          /\ \E group \in {GetNextFourVideo} : four' = Pictures(group)
          /\ UNCHANGED single
       \/ polling = "single" /\ single' = GetNextSingleVideo /\ UNCHANGED four
    /\ UNCHANGED <<layout, polling, touches>>

(* A button or an alarm: a style and its pictures.  A group button shows a *)
(* group, an alarm any camera at any place among those shown.              *)
Touch ==
    /\ touches < MaxTouches
    /\ touches' = touches + 1
    /\ \/ /\ polling' = "single"
          /\ single' \in Videos \cup {NONE}
          /\ UNCHANGED four
       \/ /\ polling' = "four"
          /\ \/ \E g \in 0 .. LastGroup :
                   four' = Pictures(IF g = LastGroup /\ Few THEN 0 ELSE g)
             \/ \E v \in Videos, i \in Positions :
                   four' = [four EXCEPT ![i] = v]
          /\ UNCHANGED single
    /\ UNCHANGED layout

PollNext == videoPollingfunction \/ Touch

PollSpec == PollInit /\ [][PollNext]_pollVars

-----------------------------------------------------------------------------
(* Properties.                                                             *)

Visible(v) ==
    IF polling = "four" THEN \E i \in Positions : four[i] = v ELSE single = v

(* The groups the poll goes round are 0 .. Groups - 1.                     *)
Groups == IF Few THEN LastGroup ELSE LastGroup + 1

(* The group among whose pictures the poll shows a camera.                 *)
Home(v) == IF Few /\ PlaceOf(v)[1] = LastGroup THEN 0 ELSE PlaceOf(v)[1]

(* What the poll relies on: each camera has a place of its own, a camera   *)
(* of the last group a gap to fill when there are few, and no group is     *)
(* without a camera, for behind its dark pictures the poll begins again.   *)
Regular ==
    /\ \A v, w \in Videos : PlaceOf(v) = PlaceOf(w) => v = w
    /\ Few => \A i \in Positions : NONE \in {VideoAt(0, i), VideoAt(LastGroup, i)}
    /\ \A g \in 0 .. Groups - 1 : \E v \in Videos : Home(v) = g

(* How far it is from a to b, for one who goes up and after m steps is     *)
(* where he was.                                                           *)
Way(a, b, m) == IF a <= b THEN b - a ELSE b - a + m

(* How many polls a camera has at most to wait for, the one that shows it  *)
(* not counted.                                                            *)
Turns(v) ==
    IF polling = "four" THEN Way(GetNextFourVideo, Home(v), Groups)
    ELSE Way(PlaceNumber(StartPlace(single)), PlaceNumber(PlaceOf(v)), 4 * (LastGroup + 1))

MaxTurn == IF polling = "four" THEN Groups ELSE 4 * (LastGroup + 2)

(* Every poll brings every camera nearer or up, whatever pictures buttons  *)
(* and alarms have left: in groups each is there after as many polls as    *)
(* there are groups, one by one after as many as there are places and four *)
(* (GetNextFourVideo, GetNextSingleVideo).                                 *)
PollComesNearer ==
    [][videoPollingfunction /\ Regular =>
        \A v \in Videos :
            /\ Turns(v) \in 0 .. MaxTurn - 1
            /\ Visible(v)' \/ Turns(v)' < Turns(v)]_pollVars
=============================================================================
