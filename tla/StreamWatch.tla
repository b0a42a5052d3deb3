---------------------------- MODULE StreamWatch ----------------------------
(***************************************************************************)
(* How the live view notices that a stream is lost: the timer of 500 ms    *)
(* asks the player of each watched window for its stream and, when the     *)
(* answer is another than the one behind in the window's node and means    *)
(* lost, fills the window, so that no old picture stays there              *)
(* (getPLayStrameState, src/cctv/cctv.cpp).  PlayCtrl is about which       *)
(* camera a window shows; here a window only gets a new stream, and it     *)
(* matters whether its node is emptied then.  One of the four small        *)
(* windows stands for them.                                                *)
(***************************************************************************)
EXTENDS Integers

CONSTANT SkipTicks      \* looks that are skipped after a new stream: 3

ASSUME WatchAssumption == SkipTicks \in Nat

Views == {"four", "single"}
UNKNOWN == 65535        \* iStreamState of an emptied node

VARIABLES
    view,       \* g_eCurPlayStyle
    zoomed,     \* the single window is over the four
    turn,       \* PlayCtrlFunSlot is to change a window or to look at them
    player,     \* of each window: "none", "opened", "playing", "paused"
    stream,     \* CMP_GetStreamState
    node,       \* m_nodes, single_node: [state, index]
    picture,    \* the window shows a picture
    behind      \* history: the node may tell of a loss before the picture

watchVars == <<view, zoomed, turn, player, stream, node, picture, behind>>

EmptyNode == [state |-> UNKNOWN, index |-> 0]

WatchInit ==
    /\ view = "four" /\ zoomed = FALSE
    /\ turn = "change"
    /\ player = [w \in Views |-> IF w = "four" THEN "opened" ELSE "none"]
    /\ stream = [w \in Views |-> 0]
    /\ node = [w \in Views |-> EmptyNode]
    /\ picture = [w \in Views |-> FALSE]
    /\ behind = [w \in Views |-> FALSE]

-----------------------------------------------------------------------------
(* The player (external).                                                  *)

StartsPlaying(w) ==
    /\ player[w] = "opened"
    /\ player' = [player EXCEPT ![w] = "playing"]
    /\ UNCHANGED <<view, zoomed, turn, stream, node, picture, behind>>

StreamComes(w) ==
    /\ player[w] = "playing" /\ stream[w] = 0
    /\ stream' = [stream EXCEPT ![w] = 1]
    /\ picture' = [picture EXCEPT ![w] = TRUE]
    /\ UNCHANGED <<view, zoomed, turn, player, node, behind>>

StreamGoes(w) ==
    /\ player[w] # "none" /\ stream[w] = 1
    /\ stream' = [stream EXCEPT ![w] = 0]
    /\ UNCHANGED <<view, zoomed, turn, player, node, picture, behind>>

-----------------------------------------------------------------------------
(* The first half of PlayCtrlFunSlot.                                      *)

(* A window gets a new stream; what it showed goes with the old one.       *)
Opens(w) ==
    /\ stream' = [stream EXCEPT ![w] = 0]
    /\ picture' = [picture EXCEPT ![w] = FALSE]

Keeps(w) == UNCHANGED node /\ behind' = [behind EXCEPT ![w] = node[w].state = 0]
Empties(w) ==
    /\ node' = [node EXCEPT ![w] = EmptyNode]
    /\ behind' = [behind EXCEPT ![w] = FALSE]

\* Mutant: the node of a window that gets another camera is not emptied.
FreshNode_Kept(w) == UNCHANGED node /\ behind' = [behind EXCEPT ![w] = FALSE]
(* Another camera of the same style (FourPlayStylefunc,                    *)
(* SinglePlayStylefunc), or the page is shown again (showcctvPage).        *)
FreshNode(w) == Empties(w)

OtherCamera ==
    /\ ~zoomed
    /\ player' = [player EXCEPT ![view] = "opened"]
    /\ Opens(view) /\ FreshNode(view)
    /\ UNCHANGED <<view, zoomed>>

(* PlayStyleChangedfunc opens the windows of the other style with the      *)
(* nodes they had; the camera that is enlarged already goes on.            *)
OtherStyle ==
    LET w == CHOOSE v \in Views : v # view IN
    /\ view' = w /\ zoomed' = FALSE
    /\ \/ /\ player' = [v \in Views |-> IF v = w THEN "opened" ELSE "none"]
          /\ Opens(w) /\ Keeps(w)
       \/ /\ zoomed
          /\ player' = [player EXCEPT !["four"] = "none"]
          /\ UNCHANGED <<stream, picture, node, behind>>

(* One of the four is enlarged: the four are paused, and the timer goes on *)
(* looking at the four.  Back, they go on, or have another camera and the  *)
(* node of the one before.                                                 *)
Enlarged ==
    /\ view = "four" /\ ~zoomed
    /\ zoomed' = TRUE
    /\ player' = [four |-> IF player["four"] = "none" THEN "none" ELSE "paused",
                  single |-> "opened"]
    /\ Opens("single") /\ Keeps("single")
    /\ UNCHANGED view

ZoomedBack ==
    /\ zoomed
    /\ zoomed' = FALSE
    /\ \/ /\ player' = [four |-> "playing", single |-> "none"]
          /\ UNCHANGED <<stream, picture, node, behind>>
       \/ /\ player' = [four |-> "opened", single |-> "none"]
          /\ Opens("four") /\ Keeps("four")
    /\ UNCHANGED view

Same == UNCHANGED <<view, zoomed, player, stream, node, picture, behind>>

Change ==
    /\ turn = "change"
    /\ turn' = "look"
    /\ OtherCamera \/ OtherStyle \/ Enlarged \/ ZoomedBack \/ Same

-----------------------------------------------------------------------------
(* The second half: getPLayStrameState looks at the windows of the style.  *)

Looked ==
    LET n == node[view] IN
    IF n.index < SkipTicks
    THEN [n EXCEPT !.index = @ + 1]
    ELSE IF player[view] # "playing" THEN n
    ELSE [n EXCEPT !.state = stream[view]]

getPLayStrameState ==
    /\ turn = "look"
    /\ turn' = "change"
    /\ node' = [node EXCEPT ![view] = Looked]
    /\ IF Looked.state # node[view].state
       THEN /\ behind' = [behind EXCEPT ![view] = Looked.state = 0]
            /\ picture' = IF Looked.state = 0 THEN [picture EXCEPT ![view] = FALSE]
                          ELSE picture
       ELSE UNCHANGED <<behind, picture>>
    /\ UNCHANGED <<view, zoomed, player, stream>>

WatchNext ==
    \/ Change \/ getPLayStrameState
    \/ \E w \in Views : StartsPlaying(w) \/ StreamComes(w) \/ StreamGoes(w)

-----------------------------------------------------------------------------
(* An old picture of a stream that is lost, in a window that is watched.   *)
OldPicture(w) ==
    /\ view = w /\ player[w] = "playing"
    /\ stream[w] = 0 /\ picture[w]
    /\ ~behind[w]

(* getPLayStrameState: no picture of a lost stream stays in a window,      *)
(* unless its node still told of an earlier loss when the picture came:    *)
(* one seen for less than a tick, or seen with the node of the stream      *)
(* before after a change of style.                                         *)
LossShows == \A w \in Views : OldPicture(w) ~> ~OldPicture(w)
=============================================================================
