------------------------------ MODULE NvrStream ------------------------------
(***************************************************************************)
(* What a recorder sends to the client: the byte stream of one link, the   *)
(* parser of CliProcessThread that cuts it into packets (src/pmsg/         *)
(* pmsgcli.c), the packet queue and the GUI timer that empties it (src/    *)
(* cctv/menuwidget.cpp).                                                   *)
(*                                                                         *)
(* recv() cuts the stream anywhere, so an incomplete tail is kept in       *)
(* pcLeaveBuf and put in front of the next data received.  Every error of  *)
(* the parser throws away all it holds.  A lost connection does NOT reset  *)
(* the tail: the first data of the next connection are appended to it.     *)
(*                                                                         *)
(* A cell <<f, k>> is the k-th byte of the recorder's f-th message.  With  *)
(* Hdr = 5 the cells are the bytes of the protocol: start flag, type, two  *)
(* bytes of length, check byte.  Of bytes that are not the header of one   *)
(* message the model assumes nothing (they may look like any header); of   *)
(* the check byte it assumes that it holds for whole messages only.        *)
(***************************************************************************)
EXTENDS Integers, Sequences

CONSTANTS
    Messages,   \* what the recorder sends, in order: [size, heart]
    Hdr,        \* size of a message without data (5 in the code)
    MaxSize,    \* size of the longest message accepted (1024 + 5)
    MaxBreaks   \* bound: connections that are lost

Ids == DOMAIN Messages

ASSUME HdrAssumption == Hdr \in Nat /\ Hdr > 1 /\ MaxSize \in Nat /\ Hdr <= MaxSize
ASSUME MessagesAssumption ==
    /\ Messages \in Seq([size : Hdr .. MaxSize, heart : BOOLEAN])
    /\ MaxBreaks \in Nat

VARIABLES
    next,       \* the recorder: the next cell it writes
    wire,       \* cells written to the current connection, not yet received
    up,         \* whether there is a connection
    pc,         \* CliProcessThread: "poll", or "parse" inside the inner loop
    buf,        \* the iLeaveLen bytes of pcRecvBuf from iOffset on
    leave,      \* the iPreLeaveLen bytes of pcLeaveBuf
    queue,      \* ptPmsgQueue: packets for the GUI
    handled,    \* history: packets given to recvPmsgCtrl
    breaks      \* connections lost so far

vars == <<next, wire, up, pc, buf, leave, queue, handled, breaks>>

Message(f) == [k \in 1 .. Messages[f].size |-> <<f, k>>]

Cells == UNION {{<<f, k>> : k \in 1 .. Messages[f].size} : f \in Ids}

TypeOK ==
    /\ next \in Cells \cup {<<Len(Messages) + 1, 1>>}
    /\ wire \in Seq(Cells)
    /\ up \in BOOLEAN
    /\ pc \in {"poll", "parse"}
    /\ buf \in Seq(Cells)
    /\ leave \in Seq(Cells)
    /\ Len(leave) < MaxSize
    /\ queue \in Seq(Seq(Cells))
    /\ handled \in Seq(Seq(Cells))
    /\ breaks \in 0 .. MaxBreaks

Init ==
    /\ next = <<1, 1>>
    /\ wire = <<>>
    /\ up = FALSE
    /\ pc = "poll"
    /\ buf = <<>>
    /\ leave = <<>>
    /\ queue = <<>>
    /\ handled = <<>>
    /\ breaks = 0

-----------------------------------------------------------------------------
(* The recorder and the connection.                                        *)

(* The cell the recorder writes after cell c.                              *)
After(c) == IF c[2] = Messages[c[1]].size THEN <<c[1] + 1, 1>> ELSE <<c[1], c[2] + 1>>

Connect ==
    /\ ~up
    /\ up' = TRUE
    /\ UNCHANGED <<next, wire, pc, buf, leave, queue, handled, breaks>>

ServerWrites ==
    /\ up
    /\ next \in Cells
    /\ wire' = Append(wire, next)
    /\ next' = After(next)
    /\ UNCHANGED <<up, pc, buf, leave, queue, handled, breaks>>

(* The connection is lost: recv() failed, the heartbeat failed or the peer *)
(* was silent too long.  The socket is closed, the kernel drops what was   *)
(* on its way and the recorder gives up the message it was writing; none   *)
(* of the three places touches iPreLeaveLen.                               *)
Break ==
    /\ up
    /\ pc = "poll"
    /\ breaks < MaxBreaks
    /\ up' = FALSE
    /\ breaks' = breaks + 1
    /\ wire' = <<>>
    /\ next' = IF next[2] = 1 THEN next ELSE <<next[1] + 1, 1>>
    /\ UNCHANGED <<pc, buf, leave, queue, handled>>

-----------------------------------------------------------------------------
(* CliProcessThread: recv() behind the kept tail, then the inner loop.     *)

Recv ==
    /\ pc = "poll"
    /\ up
    /\ \E n \in 1 .. Len(wire) :
        /\ buf' = leave \o SubSeq(wire, 1, n)
        /\ wire' = SubSeq(wire, n + 1, Len(wire))
    /\ pc' = "parse"
    /\ UNCHANGED <<next, up, leave, queue, handled, breaks>>

(* The header at the head of buf is that of one message.                   *)
HeaderOf(f) == \A k \in 1 .. Hdr - 1 : buf[k] = <<f, k>>

(* What the type and length bytes at the head of buf may say: the truth    *)
(* about a message whose header is there, anything otherwise.              *)
Declared ==
    IF \E f \in Ids : HeaderOf(f)
    THEN {Messages[buf[1][1]]}
    ELSE [size : Hdr .. MaxSize, heart : BOOLEAN]

(* The check byte fits the d bytes before it.                              *)
EccOk(p) == \E f \in Ids : p = Message(f)

Poll == pc' = "poll" /\ buf' = <<>>

(* All bytes of the buffer are consumed.                                   *)
Done ==
    /\ pc = "parse"
    /\ buf = <<>>
    /\ Poll
    /\ UNCHANGED <<next, wire, up, leave, queue, handled, breaks>>

\* Mutant: a short tail is dropped instead of being kept.
KeepShort_Drops ==
    /\ pc = "parse"
    /\ Len(buf) \in 1 .. Hdr - 1
    /\ leave' = <<>>
    /\ Poll
    /\ UNCHANGED <<next, wire, up, queue, handled, breaks>>

(* Fewer bytes than a header: kept for the next recv().                    *)
KeepShort ==
    /\ pc = "parse"
    /\ Len(buf) \in 1 .. Hdr - 1
    /\ leave' = buf
    /\ Poll
    /\ UNCHANGED <<next, wire, up, queue, handled, breaks>>

(* Not a start flag, or a length above 1024: everything is dropped.  Only  *)
(* bytes that are not the header of a message can be like that.            *)
DropBadHeader ==
    /\ pc = "parse"
    /\ Len(buf) >= Hdr
    /\ ~ \E f \in Ids : HeaderOf(f)
    /\ leave' = <<>>
    /\ Poll
    /\ UNCHANGED <<next, wire, up, queue, handled, breaks>>

\* Mutant: the tail of a message longer than what was received is not kept.
KeepIncomplete_Forgets ==
    /\ pc = "parse"
    /\ Len(buf) >= Hdr
    /\ \E m \in Declared : m.size > Len(buf)
    /\ Poll
    /\ UNCHANGED <<next, wire, up, leave, queue, handled, breaks>>

(* The message is not complete yet: kept for the next recv().              *)
KeepIncomplete ==
    /\ pc = "parse"
    /\ Len(buf) >= Hdr
    /\ \E m \in Declared : m.size > Len(buf)
    /\ leave' = buf
    /\ Poll
    /\ UNCHANGED <<next, wire, up, queue, handled, breaks>>

(* One message from the head of buf is consumed.                           *)
Consume(d) ==
    /\ buf' = SubSeq(buf, d + 1, Len(buf))
    /\ leave' = <<>>
    /\ UNCHANGED <<pc, next, wire, up, handled, breaks>>

(* A heartbeat is skipped; its check byte is not looked at.                *)
SkipHeart ==
    /\ pc = "parse"
    /\ Len(buf) >= Hdr
    /\ \E m \in Declared : m.size <= Len(buf) /\ m.heart /\ Consume(m.size)
    /\ UNCHANGED queue

(* A wrong check byte: everything is dropped.                              *)
DropBadEcc ==
    /\ pc = "parse"
    /\ Len(buf) >= Hdr
    /\ \E m \in Declared :
        m.size <= Len(buf) /\ ~m.heart /\ ~EccOk(SubSeq(buf, 1, m.size))
    /\ leave' = <<>>
    /\ Poll
    /\ UNCHANGED <<next, wire, up, queue, handled, breaks>>

\* Mutant: the node put last is the only one left in the queue.
Put_Overwrites(packet) == queue' = <<packet>>
(* PutNodeToPmsgQueue.                                                     *)
Put(packet) == queue' = Append(queue, packet)

(* A whole message is consumed and put into the queue.                     *)
Enqueue ==
    /\ pc = "parse"
    /\ Len(buf) >= Hdr
    /\ \E m \in Declared :
        LET packet == SubSeq(buf, 1, m.size) IN
        /\ m.size <= Len(buf)
        /\ ~m.heart
        /\ EccOk(packet)
        /\ Put(packet)
        /\ Consume(m.size)

Parse ==
    \/ Done \/ KeepShort \/ DropBadHeader \/ KeepIncomplete
    \/ SkipHeart \/ DropBadEcc \/ Enqueue

-----------------------------------------------------------------------------
(* GetNodeFromPmsgQueue, for recvPmsgCtrl.                                 *)
Get ==
    /\ queue # <<>>
    /\ handled' = Append(handled, Head(queue))
    /\ queue' = Tail(queue)

(* pmsgTimerFunc: every 500 ms at most one packet of this recorder.        *)
Tick == Get /\ UNCHANGED <<next, wire, up, pc, buf, leave, breaks>>

Next == Connect \/ ServerWrites \/ Break \/ Recv \/ Parse \/ Tick

Spec == Init /\ [][Next]_vars

(* The link's thread and the GUI timer run for ever; the recorder finishes *)
(* the message it has begun.                                               *)
FairSpec ==
    /\ Spec
    /\ WF_vars(Recv) /\ WF_vars(Parse) /\ WF_vars(Tick)
    /\ WF_vars(ServerWrites)

-----------------------------------------------------------------------------
(* Properties.                                                             *)

(* The bytes the thread has received and not consumed.  In the inner loop  *)
(* pcLeaveBuf is dead: its bytes have been copied to the head of buf.      *)
Received == IF pc = "parse" THEN buf ELSE leave

(* The bytes still to be parsed, in the order they will be.                *)
Stream == Received \o wire

(* The stream is a run of the recorder's bytes that starts at a message    *)
(* and ends where the recorder will go on writing.                         *)
Aligned ==
    LET s == Append(Stream, next) IN
    /\ s[1][2] = 1
    /\ \A i \in 1 .. Len(s) - 1 : s[i] \in Cells /\ s[i + 1] = After(s[i])

Accepted == handled \o queue

(* What the GUI handles are messages the recorder sent, whole, none twice, *)
(* none out of order and no heartbeat, however recv() cuts the stream and  *)
(* whatever a lost connection leaves behind in pcLeaveBuf.                 *)
OnlyWhatWasSent ==
    /\ \A i \in DOMAIN Accepted :
        \E f \in Ids : Accepted[i] = Message(f) /\ ~Messages[f].heart
    /\ \A i, j \in DOMAIN Accepted : i < j => Accepted[i][1][1] < Accepted[j][1][1]

(* The messages these packets are; a packet that is none is 0.             *)
Number(packet) == IF packet = Message(packet[1][1]) THEN packet[1][1] ELSE 0
Numbers(packets) == [i \in DOMAIN packets |-> Number(packets[i])]

(* The link is a PacketFeed: parser, queue and timer together take whole   *)
(* messages the recorder is done with, no heartbeats, in order and each    *)
(* once, however recv() cuts the stream and whatever a lost connection     *)
(* leaves behind, and give the GUI every one they took: none is lost       *)
(* between the socket and the handler.                                     *)
Feed == INSTANCE PacketFeed WITH
        Count <- Len(Messages),
        Hearts <- {f \in Ids : Messages[f].heart},
        sent <- next[1] - 1,
        taken <- Numbers(Accepted),
        given <- Numbers(handled)

ImplementsPacketFeed == Feed!FeedSpec

(* The messages with a byte in the stream.                                 *)
Waiting == {f \in Ids : \E i \in DOMAIN Stream : Stream[i][1] = f}

(* In step, the parser stays in step and loses nothing: as long as no      *)
(* connection breaks, a stream that starts at a message goes on doing so,  *)
(* and a message with a byte in it is either still there or accepted.      *)
LosesNothingInStep ==
    [][(Aligned /\ breaks' = breaks) =>
        /\ Aligned'
        /\ \A f \in Waiting \ Waiting' :
            ~Messages[f].heart => \E i \in DOMAIN Accepted' : Accepted'[i] = Message(f)]_vars

(* Every message whose first byte was received in step reaches the GUI,    *)
(* unless the connection is lost again.                                    *)
Arrives ==
    \A f \in Ids, b \in 0 .. MaxBreaks :
        (Aligned /\ up /\ breaks = b /\ f \in Waiting /\ ~Messages[f].heart)
            ~> (breaks # b \/ \E i \in DOMAIN handled : handled[i] = Message(f))
=============================================================================
