---------------------------- MODULE PacketStream ----------------------------
(***************************************************************************)
(* Assembly of camera frames from USB packets                              *)
(* (libfreenect/src/cameras.c: stream_process, stream_init, stream_setbuf, *)
(* and the depth_process/video_process around them), fed by a camera whose *)
(* packets may be lost, damaged or oversized.                              *)
(*                                                                         *)
(* A frame is PktsPerFrame packets flagged start, middle, end; packets are *)
(* numbered modulo SeqMod.  The stream writes packet data into the slot    *)
(* pkt_num of raw_buf and hands the frame on when it sees the end flag, or *)
(* when the sequence numbers say that the end was lost.  Every camera      *)
(* start uses variable_length = 0, so only that mode is modelled.          *)
(*                                                                         *)
(* An operator named X_Y right before the operator X is a wrong variant of *)
(* X, kept to show that the properties tell it from X.                     *)
(***************************************************************************)
EXTENDS Integers

CONSTANTS
    PktsPerFrame,  \* pkts_per_frame
    SeqMod,        \* 256: seq is a uint8_t
    LostLimit,     \* 5: more lost packets than this lose the synchronisation
    MaxMissed,     \* bound on the packets lost or dropped in a row
    MaxFrames,     \* bound on the frames the camera sends
    SplitBufs,     \* is the raw frame converted into a separate buffer?
    UserBufs       \* the client's frame buffers

ASSUME FrameAssumption ==
    /\ PktsPerFrame \in Nat /\ LostLimit \in Nat /\ LostLimit >= 1
    /\ PktsPerFrame > 2 * LostLimit
ASSUME SeqAssumption ==
    /\ SeqMod \in Nat /\ MaxMissed \in Nat
    /\ LostLimit < SeqMod /\ MaxMissed < SeqMod
ASSUME MaxFramesAssumption == MaxFrames \in Nat
ASSUME BufsAssumption ==
    /\ SplitBufs \in BOOLEAN
    /\ UserBufs \cap {"null", "lib", "raw"} = {}

VARIABLES
    cam,             \* the camera's next packet: its frame, place, number
    missed,          \* packets of a synced stream not taken since the last one
    running,         \* packet_stream.running
    synced, seq, pkt_num, got_pkts, valid_pkts, last_timestamp,
    usr_buf,         \* the buffer the client set last, or "null"
    lib_buf,         \* did stream_init allocate a buffer of its own?
    proc_buf,        \* the buffer handed to the client
    mem,             \* which packet each slot of each buffer holds
    out              \* the last frame handed on

asmVars == <<synced, seq, pkt_num, got_pkts, valid_pkts, last_timestamp>>
bufVars == <<usr_buf, lib_buf, proc_buf>>
vars == <<cam, missed, running, asmVars, bufVars, mem, out>>

Slots == 0..(PktsPerFrame - 1)
Nothing == [frame |-> 0, place |-> 0]
Packets == [frame : Nat, place : Slots]
Bufs == UserBufs \cup {"lib", "raw"}
Empty == [i \in Slots |-> Nothing]
raw_buf == IF SplitBufs THEN "raw" ELSE proc_buf

\* The camera's packet header flags.
Flag(place) ==
    IF place = 0 THEN "sof" ELSE IF place = PktsPerFrame - 1 THEN "eof" ELSE "mof"

\* The camera moves to its next packet.
NextPacket ==
    /\ cam.frame <= MaxFrames
    /\ cam' = [frame |-> IF cam.place = PktsPerFrame - 1 THEN cam.frame + 1 ELSE cam.frame,
               place |-> IF cam.place = PktsPerFrame - 1 THEN 0 ELSE cam.place + 1,
               seq |-> IF cam.seq = SeqMod - 1 THEN 0 ELSE cam.seq + 1]

\* A packet of a synced stream is not taken into the frame.
Miss ==
    IF running /\ synced
    THEN missed < MaxMissed /\ missed' = missed + 1
    ELSE missed' = 0

-----------------------------------------------------------------------------
Init ==
    /\ cam \in [frame : {1}, place : Slots, seq : {0}]
    /\ missed = 0
    /\ running = FALSE
    /\ synced = FALSE
    /\ seq = 0 /\ pkt_num = 0 /\ got_pkts = 0 /\ valid_pkts = 0
    /\ last_timestamp = 0
    /\ usr_buf \in UserBufs \cup {"null"}
    /\ lib_buf = FALSE
    /\ proc_buf = "null"
    /\ mem = [b \in Bufs |-> Empty]
    /\ out = [content |-> Empty, valid |-> 0, timestamp |-> 0, early |-> FALSE]

\* stream_init: the stream starts unsynced, with the client's buffer or its own.
Start ==
    /\ ~running
    /\ running' = TRUE
    /\ synced' = FALSE
    /\ missed' = 0
    /\ lib_buf' = (usr_buf = "null")
    /\ proc_buf' = IF usr_buf = "null" THEN "lib" ELSE usr_buf
    /\ mem' = [mem EXCEPT !["lib"] = Empty, !["raw"] = Empty]
    /\ UNCHANGED <<cam, seq, pkt_num, got_pkts, valid_pkts, last_timestamp, usr_buf, out>>

\* freenect_stop_depth/_video, with stream_freebufs.
Stop ==
    /\ running
    /\ running' = FALSE
    /\ lib_buf' = FALSE
    /\ proc_buf' = "null"
    /\ UNCHANGED <<cam, missed, asmVars, usr_buf, mem, out>>

\* stream_setbuf: a stopped stream only notes the buffer; a running one without
\* a buffer of its own refuses NULL.
SetBuf(b) ==
    IF ~running
    THEN usr_buf' = b /\ UNCHANGED <<lib_buf, proc_buf>>
    ELSE IF b = "null" /\ ~lib_buf
    THEN UNCHANGED bufVars
    ELSE /\ usr_buf' = b
         /\ proc_buf' = IF b = "null" THEN "lib" ELSE b
         /\ UNCHANGED lib_buf

\* Outside of its callback a client changes the buffer of a stopped stream, or
\* of one that does not assemble its frames there.
ClientSetsBuffer ==
    /\ ~running \/ SplitBufs
    /\ \E b \in UserBufs \cup {"null"} : SetBuf(b)
    /\ UNCHANGED <<cam, missed, running, asmVars, mem, out>>

-----------------------------------------------------------------------------
\* A packet lost on the bus, or ignored: shorter than a header, wrong magic, not
\* a start packet for an unsynced stream, or come while the stream is stopped.
Lose ==
    /\ NextPacket
    /\ Miss
    /\ UNCHANGED <<running, asmVars, bufVars, mem, out>>

\* Where the packet belongs: a start packet synchronises an unsynced stream.
\* Each is the value after the lost packets before this one are accounted for.
Lost == IF ~synced THEN 0
        ELSE IF cam.seq >= seq THEN cam.seq - seq ELSE cam.seq - seq + SeqMod
pkt_num_0 == IF synced THEN pkt_num ELSE 0
got_0_Kept == got_pkts
got_0 == IF synced THEN got_pkts ELSE 0
valid_0 == IF synced THEN valid_pkts ELSE 0
Left == PktsPerFrame - pkt_num_0
\* The lost packets include the end of the frame.
FrameLost == Lost > 0 /\ Left <= Lost
pkt_num_1_GapIgnored == IF FrameLost THEN Lost - Left ELSE pkt_num_0
pkt_num_1 == IF FrameLost THEN Lost - Left ELSE pkt_num_0 + Lost
got_1 == IF FrameLost THEN 0 ELSE got_0
valid_1 == IF FrameLost THEN got_0 ELSE valid_0

\* The frame is handed to the client, whose callback may set the next buffer.
Deliver(frame) ==
    /\ out' = frame
    /\ \/ UNCHANGED bufVars
       \/ \E b \in UserBufs \cup {"null"} : SetBuf(b)

\* The frame whose end was lost, reported when a packet of the next one comes;
\* its buffer already holds that packet if the packet is accepted.
LostFrame_NewTimestamp(content) ==
    [content |-> content, valid |-> got_0, timestamp |-> cam.frame, early |-> TRUE]

LostFrame(content) ==
    [content |-> content, valid |-> got_0, timestamp |-> last_timestamp, early |-> TRUE]

Receive == running /\ NextPacket

\* Too many packets were lost.
LoseSync ==
    /\ Receive
    /\ synced
    /\ Lost > LostLimit
    /\ synced' = FALSE
    /\ missed' = 0
    /\ UNCHANGED <<running, seq, pkt_num, got_pkts, valid_pkts, last_timestamp, bufVars, mem, out>>

\* The packet can be placed: it is the start of a frame, or few enough are lost.
Placeable == Receive /\ (synced \/ cam.place = 0) /\ Lost <= LostLimit

HandOnLostFrame ==
    IF FrameLost THEN Deliver(LostFrame(mem[raw_buf]))
    ELSE UNCHANGED <<out, bufVars>>

\* Its flag is damaged, or does not fit its place: resynchronise.
Reject(damaged) ==
    /\ Placeable
    /\ synced
    /\ damaged \/ Flag(cam.place) # Flag(pkt_num_1)
    /\ synced' = FALSE
    /\ missed' = 0
    /\ seq' = cam.seq
    /\ pkt_num' = pkt_num_1 /\ got_pkts' = got_1 /\ valid_pkts' = valid_1
    /\ HandOnLostFrame
    /\ UNCHANGED <<running, last_timestamp, mem>>

\* It holds more data than fits: drop it; it will count as lost.
DropOversized ==
    /\ Placeable
    /\ Flag(cam.place) = Flag(pkt_num_1)
    /\ MaxMissed >= 1
    /\ synced' = TRUE
    /\ missed' = 1
    /\ seq' = cam.seq
    /\ pkt_num' = pkt_num_1 /\ got_pkts' = got_1 /\ valid_pkts' = valid_1
    /\ HandOnLostFrame
    /\ UNCHANGED <<running, last_timestamp, mem>>

\* It is stored (all of it, or what there is of it).
Accept ==
    /\ Placeable
    /\ Flag(cam.place) = Flag(pkt_num_1)
    /\ synced' = TRUE
    /\ missed' = 0
    /\ seq' = IF cam.seq = SeqMod - 1 THEN 0 ELSE cam.seq + 1
    /\ last_timestamp' = cam.frame
    /\ mem' = [mem EXCEPT ![raw_buf][pkt_num_1] = [frame |-> cam.frame, place |-> cam.place]]
    /\ IF cam.place = PktsPerFrame - 1
       THEN /\ pkt_num' = 0 /\ got_pkts' = 0 /\ valid_pkts' = got_1 + 1
            /\ Deliver([content |-> mem'[raw_buf], valid |-> got_1 + 1,
                        timestamp |-> cam.frame, early |-> FALSE])
       ELSE /\ pkt_num' = pkt_num_1 + 1 /\ got_pkts' = got_1 + 1 /\ valid_pkts' = valid_1
            /\ IF FrameLost THEN Deliver(LostFrame(mem'[raw_buf]))
               ELSE UNCHANGED <<out, bufVars>>
    /\ UNCHANGED running

Next ==
    \/ Start
    \/ Stop
    \/ ClientSetsBuffer
    \/ Lose
    \/ LoseSync
    \/ \E damaged \in BOOLEAN : Reject(damaged)
    \/ DropOversized
    \/ Accept

Spec == Init /\ [][Next]_vars

-----------------------------------------------------------------------------
TypeOK ==
    /\ cam \in [frame : Nat, place : Slots, seq : 0..(SeqMod - 1)]
    /\ missed \in 0..MaxMissed
    /\ running \in BOOLEAN /\ synced \in BOOLEAN
    /\ seq \in 0..(SeqMod - 1)
    /\ pkt_num \in Slots
    /\ got_pkts \in Slots
    /\ valid_pkts \in 0..PktsPerFrame
    /\ last_timestamp \in Nat
    /\ usr_buf \in UserBufs \cup {"null"}
    /\ lib_buf \in BOOLEAN
    /\ proc_buf \in UserBufs \cup {"lib", "null"}
    /\ mem \in [Bufs -> [Slots -> Packets]]
    /\ out \in [content : [Slots -> Packets], valid : 0..PktsPerFrame,
                timestamp : Nat, early : BOOLEAN]

\* stream_process never stores a packet in another packet's slot of the frame,
\* whatever was lost, damaged or dropped before it.
PacketsInPlace ==
    \A b \in Bufs, i \in Slots : mem[b][i].frame > 0 => mem[b][i].place = i

\* A running stream always has a buffer to write to and to hand on: its own one
\* exists whenever it is the one in use.
BufferInUse ==
    running => /\ proc_buf # "null"
               /\ proc_buf = "lib" => lib_buf
               /\ proc_buf = (IF usr_buf = "null" THEN "lib" ELSE usr_buf)

\* A frame handed on with every packet counted as arrived (valid_pkts =
\* pkts_per_frame) is one camera frame, not a mixture; when raw_buf is the
\* client's own buffer (split_bufs = 0), the frame after one reported early is
\* excepted: its first packet went to the buffer just handed on.
WholeFrames ==
    [][out' # out /\ out'.valid = PktsPerFrame /\ (SplitBufs \/ ~out.early)
        => \A i \in Slots : out'.content[i] = [frame |-> out'.timestamp, place |-> i]]_vars

\* A frame handed on with at least one packet carries the timestamp of a later
\* camera frame than every frame handed on before it.
TimestampsAdvance ==
    [][out' # out /\ out'.valid > 0 => out'.timestamp > out.timestamp]_vars
=============================================================================
