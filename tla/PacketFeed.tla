----------------------------- MODULE PacketFeed -----------------------------
(***************************************************************************)
(* What a link promises the GUI: the recorder sends its messages one after *)
(* another; of those it is done with some are taken, each at most once, in *)
(* the order sent, and no heartbeat; and whatever was taken stays taken    *)
(* and is given to the GUI, in that order, one at a time.  Which messages  *)
(* are taken is left open: a connection that breaks costs some.            *)
(* NvrStream implements it with bytes, a kept tail and a queue.            *)
(***************************************************************************)
EXTENDS Integers, Sequences

CONSTANTS
    Count,      \* the messages are 1 .. Count
    Hearts      \* those that are heartbeats

VARIABLES
    sent,       \* the recorder is done with the messages 1 .. sent
    taken,      \* the numbers of the messages taken
    given       \* the numbers of those the GUI was given

feedVars == <<sent, taken, given>>

FeedInit == sent = 0 /\ taken = <<>> /\ given = <<>>

(* The recorder has written the last byte of a message, or gives it up.    *)
Send ==
    /\ sent < Count
    /\ sent' = sent + 1
    /\ UNCHANGED <<taken, given>>

Take(f) ==
    /\ \A i \in DOMAIN taken : taken[i] < f
    /\ taken' = Append(taken, f)
    /\ UNCHANGED <<sent, given>>

Give ==
    /\ Len(given) < Len(taken)
    /\ given' = Append(given, taken[Len(given) + 1])
    /\ UNCHANGED <<sent, taken>>

FeedNext == Send \/ (\E f \in 1 .. sent : f \notin Hearts /\ Take(f)) \/ Give

FeedSpec == FeedInit /\ [][FeedNext]_feedVars
=============================================================================
