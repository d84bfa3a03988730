---------------------------- MODULE Frames_proofs ----------------------------
(***************************************************************************)
(* Proofs about MCFrames, for any sizes and contents: that frame assembly  *)
(* stays aligned with the camera, for frames of any length and any loss    *)
(* shorter than a sequence number cycle; that windows of samples are what  *)
(* came of them; that registration keeps the nearest depths, mapping the   *)
(* colours is its inverse and the tables are polynomials; and that a frame *)
(* is converted into the values it stands for: the elements of packed      *)
(* bits, the means of a Bayer picture, the colours of a YUV picture and    *)
(* the cells that OpenNI copies.                                           *)
(***************************************************************************)
EXTENDS MCFrames, FiniteSetTheorems, SequenceTheorems, WellFoundedInduction, TLAPS

\* The camera frame the stream is assembling, while it can still be told.
ExpFrame == IF pkt_num + missed < PktsPerFrame THEN cam.frame ELSE cam.frame - 1

\* The slots below n of the buffer being filled hold packets of frame f.
Holds(buf, n, f) == \A i \in Slots : i < n => buf[i] = [frame |-> f, place |-> i]

\* What a synced stream knows: how far the camera is ahead, and, while the gap
\* is one it tolerates, in which frame and place its next packet belongs.
Aligned ==
    running /\ synced =>
        /\ cam.seq = IF seq + missed < SeqMod THEN seq + missed ELSE seq + missed - SeqMod
        /\ got_pkts <= pkt_num
        /\ missed <= LostLimit =>
            /\ cam.place = IF pkt_num + missed < PktsPerFrame
                           THEN pkt_num + missed ELSE pkt_num + missed - PktsPerFrame
            /\ out.timestamp < ExpFrame
            /\ last_timestamp <= ExpFrame
            /\ got_pkts > 0 => last_timestamp = ExpFrame
            /\ got_pkts = pkt_num /\ (SplitBufs \/ ~out.early)
                => Holds(mem[raw_buf], pkt_num, ExpFrame)

\* Frames handed on and packets stored belong to frames the camera has sent.
Past ==
    /\ out.timestamp <= last_timestamp
    /\ last_timestamp <= cam.frame
    /\ cam.place = 0 => last_timestamp < cam.frame

IInv ==
    /\ TypeOK
    /\ Aligned
    /\ Past
    /\ PacketsInPlace
    /\ BufferInUse

-----------------------------------------------------------------------------
LEMMA InitInv == Init => IInv
<1> SUFFICES ASSUME Init PROVE IInv
  OBVIOUS
<1> USE FrameAssumption, SeqAssumption, BufsAssumption
<1>1. 0 \in Slots /\ Nothing \in Packets
  BY DEF Slots, Nothing, Packets
<1>2. Empty \in [Slots -> Packets] /\ mem \in [Bufs -> [Slots -> Packets]]
  BY <1>1 DEF Init, Empty
<1>3. out \in [content : [Slots -> Packets], valid : 0..PktsPerFrame,
               timestamp : Nat, early : BOOLEAN]
  BY <1>2 DEF Init
<1>4. TypeOK
  <2>1. cam \in [frame : Nat, place : Slots, seq : 0..(SeqMod - 1)]
    BY DEF Init
  <2>2. 0 \in 0..MaxMissed /\ 0 \in 0..(SeqMod - 1) /\ 0 \in 0..PktsPerFrame
    OBVIOUS
  <2> QED
    BY <1>1, <1>2, <1>3, <2>1, <2>2 DEF Init, TypeOK
<1>5. PacketsInPlace
  BY DEF Init, PacketsInPlace, Empty, Nothing
<1> QED
  BY <1>4, <1>5 DEF Init, IInv, Aligned, Past, BufferInUse

-----------------------------------------------------------------------------
\* The camera's next packet, as a place in its sequence of frames.
LEMMA CameraSteps ==
    ASSUME TypeOK, NextPacket
    PROVE  /\ cam' \in [frame : Nat, place : Slots, seq : 0..(SeqMod - 1)]
           /\ cam.frame \in Nat /\ cam.place \in Slots /\ cam.seq \in 0..(SeqMod - 1)
           /\ cam'.seq = IF cam.seq + 1 < SeqMod THEN cam.seq + 1 ELSE 0
           /\ cam'.place = IF cam.place + 1 < PktsPerFrame THEN cam.place + 1 ELSE 0
           /\ cam'.frame = IF cam.place + 1 < PktsPerFrame THEN cam.frame ELSE cam.frame + 1
<1> USE FrameAssumption, SeqAssumption
<1>1. cam.frame \in Nat /\ cam.place \in Slots /\ cam.seq \in 0..(SeqMod - 1)
  BY DEF TypeOK
<1>2. /\ cam'.seq = IF cam.seq + 1 < SeqMod THEN cam.seq + 1 ELSE 0
      /\ cam'.place = IF cam.place + 1 < PktsPerFrame THEN cam.place + 1 ELSE 0
      /\ cam'.frame = IF cam.place + 1 < PktsPerFrame THEN cam.frame ELSE cam.frame + 1
  BY <1>1 DEF NextPacket, Slots
<1>3. cam'.frame \in Nat /\ cam'.place \in Slots /\ cam'.seq \in 0..(SeqMod - 1)
  BY <1>1, <1>2 DEF Slots
<1>4. cam' = [frame |-> cam'.frame, place |-> cam'.place, seq |-> cam'.seq]
  BY DEF NextPacket
<1> QED
  BY <1>1, <1>2, <1>3, <1>4

\* A packet that can be placed belongs into the slot stream_process computes.
LEMMA Placing ==
    ASSUME IInv, Placeable
    PROVE  /\ Lost = IF synced THEN missed ELSE 0
           /\ pkt_num_1 = cam.place
           /\ got_1 \in Nat /\ got_0 \in Slots /\ got_1 <= pkt_num_1
           /\ valid_1 \in 0..PktsPerFrame
           /\ out.timestamp < cam.frame
           /\ got_1 > 0 => last_timestamp = cam.frame
           /\ FrameLost /\ got_0 > 0 => out.timestamp < last_timestamp
           /\ FrameLost => /\ got_1 = 0 /\ cam.place # PktsPerFrame - 1
                           /\ last_timestamp < cam.frame
           /\ got_1 = pkt_num_1 /\ ~FrameLost /\ (SplitBufs \/ ~out.early)
                => Holds(mem[raw_buf], cam.place, cam.frame)
<1> USE FrameAssumption, SeqAssumption
<1>1. /\ cam.frame \in Nat /\ cam.place \in Slots /\ cam.seq \in 0..(SeqMod - 1)
      /\ seq \in 0..(SeqMod - 1) /\ missed \in 0..MaxMissed /\ pkt_num \in Slots
      /\ got_pkts \in Slots /\ valid_pkts \in 0..PktsPerFrame /\ running
      /\ out.timestamp \in Nat /\ last_timestamp \in Nat
  BY CameraSteps DEF IInv, TypeOK, Placeable, Receive
<1>2. CASE ~synced
  <2>1. Lost = 0 /\ cam.place = 0 /\ pkt_num_1 = 0 /\ got_1 = 0 /\ valid_1 = 0 /\ ~FrameLost
    BY <1>1, <1>2 DEF Placeable, Lost, pkt_num_1, pkt_num_0, got_1, got_0, valid_1, valid_0, FrameLost
  <2>2. got_0 = 0
    BY <1>2 DEF got_0
  <2>3. Holds(mem[raw_buf], cam.place, cam.frame)
    BY <2>1 DEF Holds, Slots
  <2> QED
    BY <1>1, <1>2, <2>1, <2>2, <2>3 DEF IInv, Past, Slots
<1>3. CASE synced
  <2>1. Lost = missed
    BY <1>1, <1>3 DEF IInv, Aligned, Lost
  <2>2. missed <= LostLimit
    BY <2>1 DEF Placeable
  <2>3. got_0 = got_pkts /\ pkt_num_0 = pkt_num /\ valid_0 = valid_pkts
    BY <1>3 DEF got_0, pkt_num_0, valid_0
  <2>4. FrameLost <=> pkt_num + missed >= PktsPerFrame
    BY <1>1, <2>1, <2>3 DEF FrameLost, Left, Slots
  <2>5. pkt_num_1 = cam.place
    BY <1>1, <1>3, <2>1, <2>2, <2>3, <2>4 DEF IInv, Aligned, pkt_num_1, Left, Slots
  <2>6. ExpFrame = IF FrameLost THEN cam.frame - 1 ELSE cam.frame
    BY <1>1, <2>4 DEF ExpFrame, Slots
  <2>7. /\ out.timestamp < cam.frame
        /\ got_1 > 0 => last_timestamp = cam.frame
        /\ FrameLost /\ got_0 > 0 => out.timestamp < last_timestamp
        /\ FrameLost => last_timestamp < cam.frame
    BY <1>1, <1>3, <2>2, <2>3, <2>6 DEF IInv, Aligned, got_1, Slots
  <2>8. FrameLost => got_1 = 0 /\ cam.place # PktsPerFrame - 1
    BY <1>1, <2>1, <2>2, <2>3, <2>5 DEF got_1, pkt_num_1, Left, Slots
  <2>9. got_1 \in Nat /\ got_1 <= pkt_num_1 /\ valid_1 \in 0..PktsPerFrame
    BY <1>1, <1>3, <2>1, <2>3, <2>4, <2>5 DEF IInv, Aligned, got_1, pkt_num_1, valid_1, Slots
  <2>10. ASSUME got_1 = pkt_num_1, ~FrameLost, SplitBufs \/ ~out.early
         PROVE  Holds(mem[raw_buf], cam.place, cam.frame)
    <3>1. missed = 0 /\ got_pkts = pkt_num /\ cam.place = pkt_num
      BY <1>1, <1>3, <2>1, <2>3, <2>5, <2>10 DEF IInv, Aligned, got_1, pkt_num_1, Slots
    <3> QED
      BY <1>1, <1>3, <2>2, <2>6, <2>10, <3>1 DEF IInv, Aligned
  <2> QED
    BY <1>1, <1>3, <2>1, <2>3, <2>5, <2>7, <2>8, <2>9, <2>10
<1> QED
  BY <1>2, <1>3

-----------------------------------------------------------------------------
\* stream_setbuf keeps a buffer to write to and to hand on.
LEMMA SetBufKeeps ==
    ASSUME TypeOK, BufferInUse, NEW b \in UserBufs \cup {"null"},
           SetBuf(b) \/ UNCHANGED bufVars, running' = running
    PROVE  /\ usr_buf' \in UserBufs \cup {"null"}
           /\ lib_buf' \in BOOLEAN
           /\ proc_buf' \in UserBufs \cup {"lib", "null"}
           /\ BufferInUse'
BY BufsAssumption DEF TypeOK, BufferInUse, SetBuf, bufVars

\* The buffer a running stream writes to is one of the buffers there are.
LEMMA RawBuf == TypeOK /\ BufferInUse /\ running => raw_buf \in Bufs
BY BufsAssumption DEF TypeOK, BufferInUse, raw_buf, Bufs

LEMMA StartStep == IInv /\ Start => IInv'
<1> SUFFICES ASSUME IInv, Start PROVE IInv'
  OBVIOUS
<1> USE FrameAssumption, SeqAssumption, BufsAssumption
<1>1. Empty \in [Slots -> Packets] /\ 0 \in 0..MaxMissed
  BY DEF Empty, Slots, Nothing, Packets
<1>2. mem' \in [Bufs -> [Slots -> Packets]]
  BY <1>1 DEF IInv, TypeOK, Start
<1>3. TypeOK'
  BY <1>1, <1>2 DEF IInv, TypeOK, Start
<1>4. PacketsInPlace'
  <2> SUFFICES ASSUME NEW b \in Bufs, NEW i \in Slots PROVE (mem[b][i].frame > 0 => mem[b][i].place = i)'
    BY DEF PacketsInPlace
  <2>1. mem'[b] = mem[b] \/ mem'[b] = Empty
    BY DEF Start, IInv, TypeOK
  <2> QED
    BY <2>1 DEF IInv, PacketsInPlace, Empty, Nothing
<1>5. BufferInUse' /\ Aligned' /\ Past'
  BY DEF IInv, TypeOK, Start, BufferInUse, Aligned, Past
<1> QED
  BY <1>3, <1>4, <1>5 DEF IInv

LEMMA StopStep == IInv /\ Stop => IInv'
BY DEF IInv, Stop, asmVars, TypeOK, Aligned, Past, PacketsInPlace, BufferInUse

LEMMA ClientSetsBufferStep == IInv /\ ClientSetsBuffer => IInv'
<1> SUFFICES ASSUME IInv, ClientSetsBuffer PROVE IInv'
  OBVIOUS
<1>1. PICK b \in UserBufs \cup {"null"} : SetBuf(b)
  BY DEF ClientSetsBuffer
<1>2. TypeOK' /\ BufferInUse'
  BY <1>1, SetBufKeeps DEF ClientSetsBuffer, asmVars, IInv, TypeOK
<1>3. running => raw_buf' = raw_buf
  BY DEF ClientSetsBuffer, raw_buf
<1>4. Aligned'
  BY <1>3 DEF ClientSetsBuffer, asmVars, IInv, Aligned, ExpFrame
<1> QED
  BY <1>2, <1>4 DEF ClientSetsBuffer, asmVars, IInv, Past, PacketsInPlace

\* The camera moving on without the stream widens the gap by one.
LEMMA LoseStep == IInv /\ Lose => IInv'
<1> SUFFICES ASSUME IInv, Lose PROVE IInv'
  OBVIOUS
<1> USE FrameAssumption, SeqAssumption
<1>1. /\ cam' \in [frame : Nat, place : Slots, seq : 0..(SeqMod - 1)]
      /\ cam.frame \in Nat /\ cam.place \in Slots /\ cam.seq \in 0..(SeqMod - 1)
      /\ cam'.seq = IF cam.seq + 1 < SeqMod THEN cam.seq + 1 ELSE 0
      /\ cam'.place = IF cam.place + 1 < PktsPerFrame THEN cam.place + 1 ELSE 0
      /\ cam'.frame = IF cam.place + 1 < PktsPerFrame THEN cam.frame ELSE cam.frame + 1
  BY CameraSteps DEF Lose, IInv
<1>2. UNCHANGED <<running, synced, seq, pkt_num, got_pkts, valid_pkts, last_timestamp,
                  usr_buf, lib_buf, proc_buf, raw_buf, mem, out>>
  BY DEF Lose, asmVars, bufVars, raw_buf
<1>3. /\ seq \in 0..(SeqMod - 1) /\ missed \in 0..MaxMissed /\ pkt_num \in Slots
      /\ got_pkts \in Slots /\ out.timestamp \in Nat /\ last_timestamp \in Nat
  BY DEF IInv, TypeOK
<1>4. missed' \in 0..MaxMissed /\ (running /\ synced => missed' = missed + 1)
  BY <1>3 DEF Lose, Miss
<1>5. TypeOK' /\ PacketsInPlace' /\ BufferInUse'
  BY <1>1, <1>2, <1>4 DEF IInv, TypeOK, PacketsInPlace, BufferInUse
<1>6. Past'
  BY <1>1, <1>2, <1>3 DEF IInv, Past, Slots
<1>7. Aligned'
  <2> SUFFICES ASSUME running, synced PROVE Aligned'
    BY <1>2 DEF Aligned
  <2>1. cam'.seq = IF seq + missed' < SeqMod THEN seq + missed' ELSE seq + missed' - SeqMod
    BY <1>1, <1>3, <1>4 DEF IInv, Aligned
  <2>2. ASSUME missed' <= LostLimit
        PROVE  /\ cam'.place = IF pkt_num + missed' < PktsPerFrame
                               THEN pkt_num + missed' ELSE pkt_num + missed' - PktsPerFrame
               /\ ExpFrame' = ExpFrame
    BY <1>1, <1>2, <1>3, <1>4, <2>2 DEF IInv, Aligned, ExpFrame, Slots
  <2>3. missed' <= LostLimit => missed <= LostLimit
    BY <1>3, <1>4
  <2> QED
    BY <1>2, <2>1, <2>2, <2>3 DEF IInv, Aligned
<1> QED
  BY <1>5, <1>6, <1>7 DEF IInv

-----------------------------------------------------------------------------
\* What is known while the next camera packet is being processed.
LEMMA Receiving ==
    ASSUME IInv, Receive
    PROVE  /\ running
           /\ cam' \in [frame : Nat, place : Slots, seq : 0..(SeqMod - 1)]
           /\ cam.frame \in Nat /\ cam.place \in Slots /\ cam.seq \in 0..(SeqMod - 1)
           /\ cam'.seq = IF cam.seq + 1 < SeqMod THEN cam.seq + 1 ELSE 0
           /\ cam'.place = IF cam.place + 1 < PktsPerFrame THEN cam.place + 1 ELSE 0
           /\ cam'.frame = IF cam.place + 1 < PktsPerFrame THEN cam.frame ELSE cam.frame + 1
           /\ mem \in [Bufs -> [Slots -> Packets]]
           /\ raw_buf \in Bufs
           /\ out.timestamp \in Nat /\ last_timestamp \in Nat
           /\ cam.seq \in Nat /\ cam.place \in Nat
BY CameraSteps, RawBuf, FrameAssumption, SeqAssumption DEF Receive, IInv, TypeOK, Slots

\* Handing on a frame: the client's buffers stay sound and the report is typed.
LEMMA Delivering ==
    ASSUME IInv, running' = running, NEW f,
           f \in [content : [Slots -> Packets], valid : 0..PktsPerFrame,
                  timestamp : Nat, early : BOOLEAN],
           Deliver(f)
    PROVE  /\ out' = f
           /\ out' \in [content : [Slots -> Packets], valid : 0..PktsPerFrame,
                        timestamp : Nat, early : BOOLEAN]
           /\ usr_buf' \in UserBufs \cup {"null"}
           /\ lib_buf' \in BOOLEAN
           /\ proc_buf' \in UserBufs \cup {"lib", "null"}
           /\ BufferInUse'
BY SetBufKeeps DEF IInv, Deliver

\* The part of a placeable packet's processing that a refused packet shares.
LEMMA HandingOn ==
    ASSUME IInv, Placeable, running' = running, HandOnLostFrame
    PROVE  /\ out' \in [content : [Slots -> Packets], valid : 0..PktsPerFrame,
                        timestamp : Nat, early : BOOLEAN]
           /\ usr_buf' \in UserBufs \cup {"null"}
           /\ lib_buf' \in BOOLEAN
           /\ proc_buf' \in UserBufs \cup {"lib", "null"}
           /\ BufferInUse'
           /\ out'.timestamp <= last_timestamp /\ out'.timestamp < cam.frame
           /\ ~FrameLost => out' = out /\ raw_buf' = raw_buf
           /\ FrameLost /\ ~SplitBufs => out'.early
           /\ SplitBufs => raw_buf' = raw_buf
           /\ out' # out /\ out'.valid > 0 => out'.timestamp > out.timestamp
           /\ out' # out => out'.valid < PktsPerFrame
<1> USE FrameAssumption, SeqAssumption
<1>1. CASE ~FrameLost
  <2>1. UNCHANGED <<out, usr_buf, lib_buf, proc_buf, raw_buf>>
    BY <1>1 DEF HandOnLostFrame, bufVars, raw_buf
  <2> QED
    BY <1>1, <2>1, Placing DEF IInv, TypeOK, Past, BufferInUse, raw_buf
<1>2. CASE FrameLost
  <2> DEFINE f == LostFrame(mem[raw_buf])
  <2>1. got_0 \in Slots /\ got_0 \in 0..(PktsPerFrame - 1)
    BY Placing DEF Slots
  <2>2. f \in [content : [Slots -> Packets], valid : 0..PktsPerFrame,
               timestamp : Nat, early : BOOLEAN]
    BY <2>1, Receiving DEF LostFrame, Placeable
  <2>3. Deliver(f)
    BY <1>2 DEF HandOnLostFrame
  <2>4. f.timestamp = last_timestamp /\ f.valid = got_0 /\ f.early
    BY DEF LostFrame
  <2>5. cam.place # PktsPerFrame - 1 /\ (got_0 > 0 => out.timestamp < last_timestamp)
    BY <1>2, Placing
  <2>6. last_timestamp < cam.frame
    BY <1>2, Placing
  <2> HIDE DEF f
  <2> QED
    BY <1>2, <2>1, <2>2, <2>3, <2>4, <2>5, <2>6, Delivering, Receiving DEF raw_buf, Placeable
<1> QED
  BY <1>1, <1>2

\* No camera packet is stamped before a frame already handed on.
LEMMA PastKept ==
    ASSUME IInv, Receive,
           out'.timestamp \in Nat, last_timestamp' \in Nat,
           out'.timestamp <= last_timestamp',
           \/ last_timestamp' = last_timestamp
           \/ last_timestamp' = cam.frame
    PROVE  Past'
BY Receiving, FrameAssumption DEF IInv, Past, Slots

LEMMA LoseSyncStep == IInv /\ LoseSync => IInv'
<1> SUFFICES ASSUME IInv, LoseSync PROVE IInv'
  OBVIOUS
<1>1. Receive
  BY DEF LoseSync
<1>2. 0 \in 0..MaxMissed
  BY SeqAssumption
<1>3. TypeOK'
  BY <1>1, <1>2, Receiving DEF LoseSync, bufVars, IInv, TypeOK
<1>4. Past'
  BY <1>1, Receiving, PastKept DEF LoseSync, IInv, Past
<1>5. Aligned' /\ PacketsInPlace' /\ BufferInUse'
  BY <1>1, Receiving DEF LoseSync, bufVars, IInv, Aligned, PacketsInPlace, BufferInUse, Receive
<1> QED
  BY <1>3, <1>4, <1>5 DEF IInv

LEMMA RejectStep == ASSUME NEW d \in BOOLEAN PROVE IInv /\ Reject(d) => IInv'
<1> SUFFICES ASSUME IInv, Reject(d) PROVE IInv'
  OBVIOUS
<1>1. Placeable /\ Receive /\ running' = running /\ HandOnLostFrame
  BY DEF Reject, Placeable
<1>2. 0 \in 0..MaxMissed
  BY SeqAssumption
<1>3. got_1 \in Slots /\ pkt_num_1 \in Slots
  BY <1>1, Placing, Receiving, FrameAssumption DEF Slots
<1>4. TypeOK'
  BY <1>1, <1>2, <1>3, Receiving, HandingOn, Placing DEF Reject, IInv, TypeOK
<1>5. Past'
  BY <1>1, <1>4, Receiving, HandingOn, PastKept DEF Reject, TypeOK
<1>6. Aligned' /\ PacketsInPlace' /\ BufferInUse'
  BY <1>1, HandingOn DEF Reject, IInv, Aligned, PacketsInPlace
<1> QED
  BY <1>4, <1>5, <1>6 DEF IInv

LEMMA DropOversizedStep == IInv /\ DropOversized => IInv'
<1> SUFFICES ASSUME IInv, DropOversized PROVE IInv'
  OBVIOUS
<1> USE FrameAssumption, SeqAssumption
<1>1. Placeable /\ Receive /\ running' = running /\ running /\ HandOnLostFrame
  BY DEF DropOversized, Placeable, Receive
<1>2. 1 \in 0..MaxMissed
  BY DEF DropOversized
<1>3. got_1 \in Slots /\ pkt_num_1 \in Slots /\ pkt_num_1 = cam.place /\ got_1 <= pkt_num_1
  BY <1>1, Placing, Receiving DEF Slots
<1>4. TypeOK'
  BY <1>1, <1>2, <1>3, Receiving, HandingOn, Placing DEF DropOversized, IInv, TypeOK
<1>5. Past'
  BY <1>1, <1>4, Receiving, HandingOn, PastKept DEF DropOversized, TypeOK
<1>6. PacketsInPlace' /\ BufferInUse'
  BY <1>1, HandingOn DEF DropOversized, IInv, PacketsInPlace
<1>7. Aligned'
  <2>1. cam'.seq = IF seq' + missed' < SeqMod THEN seq' + missed' ELSE seq' + missed' - SeqMod
    BY <1>1, Receiving DEF DropOversized
  <2>2. /\ cam'.place = IF pkt_num' + missed' < PktsPerFrame
                        THEN pkt_num' + missed' ELSE pkt_num' + missed' - PktsPerFrame
        /\ ExpFrame' = cam.frame
    BY <1>1, <1>3, Receiving DEF DropOversized, ExpFrame, Slots
  <2>3. /\ out'.timestamp < cam.frame /\ last_timestamp' <= cam.frame
        /\ got_pkts' > 0 => last_timestamp' = cam.frame
    BY <1>1, HandingOn, Placing DEF DropOversized, IInv, Past
  <2>4. ASSUME got_pkts' = pkt_num', SplitBufs \/ ~out'.early
        PROVE  Holds(mem[raw_buf'], pkt_num_1, cam.frame)
    <3>1. CASE FrameLost
      BY <1>1, <1>3, <2>4, <3>1, Placing DEF DropOversized, Holds, Slots
    <3>2. CASE ~FrameLost
      BY <1>1, <1>3, <2>4, <3>2, Placing, HandingOn DEF DropOversized
    <3> QED
      BY <3>1, <3>2
  <2>5. mem' = mem /\ got_pkts' = got_1 /\ pkt_num' = pkt_num_1 /\ missed' = 1
    BY DEF DropOversized
  <2> QED
    BY <1>3, <2>1, <2>2, <2>3, <2>4, <2>5 DEF Aligned
<1> QED
  BY <1>4, <1>5, <1>6, <1>7 DEF IInv

\* A stored packet: where it goes and what raw_buf then holds.
LEMMA Storing ==
    ASSUME IInv, Accept
    PROVE  /\ mem' = [mem EXCEPT ![raw_buf][cam.place] = [frame |-> cam.frame, place |-> cam.place]]
           /\ mem' \in [Bufs -> [Slots -> Packets]]
           /\ mem'[raw_buf][cam.place] = [frame |-> cam.frame, place |-> cam.place]
           /\ \A i \in Slots : i # cam.place => mem'[raw_buf][i] = mem[raw_buf][i]
           /\ \A b \in Bufs : b # raw_buf => mem'[b] = mem[b]
<1> DEFINE pkt == [frame |-> cam.frame, place |-> cam.place]
<1>1. Placeable /\ Receive
  BY DEF Accept, Placeable
<1>2. mem' = [mem EXCEPT ![raw_buf][cam.place] = pkt]
  BY <1>1, Placing DEF Accept
<1>3. pkt \in Packets /\ raw_buf \in Bufs /\ cam.place \in Slots
      /\ mem \in [Bufs -> [Slots -> Packets]]
  BY <1>1, Receiving DEF Packets
<1> HIDE DEF pkt
<1>4. /\ mem' \in [Bufs -> [Slots -> Packets]]
      /\ mem'[raw_buf][cam.place] = pkt
      /\ \A i \in Slots : i # cam.place => mem'[raw_buf][i] = mem[raw_buf][i]
      /\ \A b \in Bufs : b # raw_buf => mem'[b] = mem[b]
  BY <1>2, <1>3
<1> QED
  BY <1>2, <1>4 DEF pkt

LEMMA StoredInPlace == IInv /\ Accept => PacketsInPlace'
<1> SUFFICES ASSUME IInv, Accept, NEW b \in Bufs, NEW i \in Slots
             PROVE  mem'[b][i].frame > 0 => mem'[b][i].place = i
  BY DEF PacketsInPlace
<1>1. mem'[b][i] = mem[b][i] \/ (i = cam.place /\ mem'[b][i] = [frame |-> cam.frame, place |-> cam.place])
  BY Storing
<1> QED
  BY <1>1 DEF IInv, PacketsInPlace

\* A stored packet after which no frame of it is missing so far.
LEMMA StoredWhole ==
    ASSUME IInv, Accept, got_1 = pkt_num_1, SplitBufs \/ ~out.early, ~FrameLost
    PROVE  Holds(mem'[raw_buf], cam.place + 1, cam.frame)
<1>1. Holds(mem[raw_buf], cam.place, cam.frame)
  BY Placing DEF Accept
<1>2. cam.place \in Nat
  BY Receiving DEF Accept, Placeable
<1> QED
  BY <1>1, <1>2, Storing DEF Holds, Slots

\* The end packet: the frame is handed on.
LEMMA AcceptEnd ==
    ASSUME IInv, Accept, cam.place = PktsPerFrame - 1
    PROVE  /\ out' = [content |-> mem'[raw_buf], valid |-> got_1 + 1,
                      timestamp |-> cam.frame, early |-> FALSE]
           /\ out.timestamp < cam.frame
           /\ IInv'
<1> USE FrameAssumption, SeqAssumption
<1> DEFINE f == [content |-> mem'[raw_buf], valid |-> got_1 + 1,
                 timestamp |-> cam.frame, early |-> FALSE]
<1>1. Placeable /\ Receive /\ running' = running /\ running
  BY DEF Accept, Placeable, Receive
<1>2. got_1 + 1 \in 0..PktsPerFrame /\ 0 \in 0..MaxMissed /\ 0 \in Slots
  BY <1>1, Placing, Receiving DEF Slots
<1>3. Deliver(f)
  BY DEF Accept
<1>4. f \in [content : [Slots -> Packets], valid : 0..PktsPerFrame,
              timestamp : Nat, early : BOOLEAN]
  BY <1>1, <1>2, Storing, Receiving
<1>5. f.timestamp = cam.frame
  OBVIOUS
<1> HIDE DEF f
<1>6. out' = f
  BY <1>1, <1>3, <1>4, Delivering
<1>7. TypeOK' /\ BufferInUse'
  <2>1. /\ out' \in [content : [Slots -> Packets], valid : 0..PktsPerFrame,
                      timestamp : Nat, early : BOOLEAN]
        /\ usr_buf' \in UserBufs \cup {"null"}
        /\ lib_buf' \in BOOLEAN
        /\ proc_buf' \in UserBufs \cup {"lib", "null"}
        /\ BufferInUse'
    BY <1>1, <1>3, <1>4, Delivering
  <2>2. /\ pkt_num' = 0 /\ got_pkts' = 0 /\ missed' = 0 /\ last_timestamp' = cam.frame
        /\ valid_pkts' = got_1 + 1 /\ synced' = TRUE /\ seq' = cam'.seq
    BY <1>1, Receiving DEF Accept
  <2>3. seq' \in 0..(SeqMod - 1)
    BY <1>1, <2>2, Receiving
  <2> QED
    BY <1>1, <1>2, <2>1, <2>2, <2>3, Receiving, Storing DEF IInv, TypeOK
<1>8. Past'
  BY <1>1, <1>5, <1>6, <1>7, PastKept, Receiving DEF Accept, TypeOK
<1>9. PacketsInPlace'
  BY StoredInPlace
<1>10. Aligned'
  <2>1. /\ cam'.place = 0 /\ cam'.frame = cam.frame + 1
        /\ pkt_num' = 0 /\ got_pkts' = 0 /\ missed' = 0 /\ last_timestamp' = cam.frame
        /\ seq' = cam'.seq
    BY <1>1, Receiving DEF Accept
  <2>2. ExpFrame' = cam.frame + 1
    BY <1>1, <2>1, Receiving DEF ExpFrame
  <2>3. Holds(mem[raw_buf], pkt_num, ExpFrame)'
    BY <2>1 DEF Holds, Slots
  <2>4. seq' \in 0..(SeqMod - 1)
    BY <1>7 DEF TypeOK
  <2> QED
    BY <1>1, <1>5, <1>6, <2>1, <2>2, <2>3, <2>4, Receiving DEF Aligned
<1> QED
  BY <1>1, <1>6, <1>7, <1>8, <1>9, <1>10, Placing DEF IInv, f

LEMMA InnerSlot ==
    ASSUME NEW n \in Nat, NEW i \in 0..(n - 1), i # n - 1
    PROVE  i + 1 <= n - 1 /\ i + 1 < n
OBVIOUS

\* Any other packet: the frame goes on, after handing on a lost one if need be.
LEMMA AcceptInside ==
    ASSUME IInv, Accept, cam.place # PktsPerFrame - 1
    PROVE  /\ out' # out => out'.valid < PktsPerFrame
           /\ out' # out /\ out'.valid > 0 => out'.timestamp > out.timestamp
           /\ IInv'
<1> USE FrameAssumption, SeqAssumption
<1>1. Placeable /\ Receive /\ running' = running /\ running
  BY DEF Accept, Placeable, Receive
<1>inner. /\ cam.place \in 0..(PktsPerFrame - 1)
      /\ cam.place + 1 <= PktsPerFrame - 1 /\ cam.place + 1 < PktsPerFrame
  <2>1. cam.place \in 0..(PktsPerFrame - 1) /\ PktsPerFrame \in Nat
    BY <1>1, Receiving DEF Slots
  <2> QED
    BY <2>1, InnerSlot
<1>2. /\ pkt_num' = cam.place + 1 /\ got_pkts' = got_1 + 1 /\ missed' = 0
      /\ last_timestamp' = cam.frame /\ valid_pkts' = valid_1 /\ synced' = TRUE
      /\ seq' = cam'.seq
  BY <1>1, Placing, Receiving DEF Accept
<1>3. /\ pkt_num' \in Slots /\ got_pkts' \in Slots /\ missed' \in 0..MaxMissed
      /\ seq' \in 0..(SeqMod - 1)
  <2>1. cam.place \in 0..(PktsPerFrame - 1) /\ cam.place + 1 <= PktsPerFrame - 1
    BY <1>inner
  <2>2. got_1 \in Nat /\ got_1 <= cam.place
    BY <1>1, Placing
  <2>3. cam'.seq \in 0..(SeqMod - 1) /\ 0 \in 0..MaxMissed
    BY <1>1, Receiving
  <2> QED
    BY <1>2, <2>1, <2>2, <2>3 DEF Slots
<1>4. /\ cam'.place = cam.place + 1 /\ cam'.frame = cam.frame
  <2>1. cam.place \in 0..(PktsPerFrame - 1) /\ cam.place + 1 < PktsPerFrame
    BY <1>inner
  <2> QED
    BY <1>1, <2>1, Receiving
<1>5. /\ out' \in [content : [Slots -> Packets], valid : 0..PktsPerFrame,
                    timestamp : Nat, early : BOOLEAN]
      /\ usr_buf' \in UserBufs \cup {"null"}
      /\ lib_buf' \in BOOLEAN
      /\ proc_buf' \in UserBufs \cup {"lib", "null"}
      /\ BufferInUse'
      /\ out'.timestamp <= cam.frame /\ out'.timestamp < cam.frame
      /\ out' # out => out'.valid < PktsPerFrame
      /\ out' # out /\ out'.valid > 0 => out'.timestamp > out.timestamp
      /\ SplitBufs \/ ~FrameLost => raw_buf' = raw_buf
      /\ FrameLost => out'.early
      /\ ~FrameLost => out' = out
  <2>1. CASE ~FrameLost
    <3>1. UNCHANGED <<out, usr_buf, lib_buf, proc_buf, raw_buf>>
      BY <1>1, <2>1 DEF Accept, bufVars, raw_buf
    <3> QED
      BY <1>1, <2>1, <3>1, Placing, Receiving DEF IInv, TypeOK, BufferInUse
  <2>2. CASE FrameLost
    <3> DEFINE f == LostFrame(mem'[raw_buf])
    <3>1. got_0 \in 0..(PktsPerFrame - 1)
      BY <1>1, Placing DEF Slots
    <3>2. f \in [content : [Slots -> Packets], valid : 0..PktsPerFrame,
                 timestamp : Nat, early : BOOLEAN]
      BY <1>1, <3>1, Storing, Receiving DEF LostFrame
    <3>3. Deliver(f)
      BY <2>2 DEF Accept
    <3>4. f.timestamp = last_timestamp /\ f.valid = got_0 /\ f.early
      BY DEF LostFrame
    <3>5. last_timestamp < cam.frame /\ (got_0 > 0 => out.timestamp < last_timestamp)
      BY <1>1, <2>2, Placing
    <3> HIDE DEF f
    <3>6. SplitBufs => raw_buf' = raw_buf
      BY DEF raw_buf
    <3> QED
      BY <1>1, <2>2, <3>1, <3>2, <3>3, <3>4, <3>5, <3>6, Delivering, Receiving
  <2> QED
    BY <2>1, <2>2
<1>6. valid_1 \in 0..PktsPerFrame /\ cam.frame \in Nat /\ cam.place \in Slots
  BY <1>1, Placing, Receiving
<1>7. TypeOK'
  BY <1>1, <1>2, <1>3, <1>5, <1>6, Receiving, Storing DEF IInv, TypeOK
<1>8. Past'
  BY <1>1, <1>2, <1>5, <1>6, <1>7, PastKept DEF TypeOK
<1>9. Aligned'
  <2>1. ExpFrame' = cam.frame
    BY <1>2, <1>3, <1>4 DEF ExpFrame, Slots
  <2>2. got_1 <= cam.place /\ got_1 \in Nat /\ pkt_num_1 = cam.place
    BY <1>1, Placing
  <2>3. ASSUME got_1 = cam.place, SplitBufs \/ ~out'.early
        PROVE  Holds(mem'[raw_buf'], cam.place + 1, cam.frame)
    <3>1. CASE FrameLost
      <4>1. raw_buf' = raw_buf /\ cam.place = 0
        BY <1>1, <1>5, <2>2, <2>3, <3>1, Placing
      <4> QED
        BY <4>1, Storing DEF Holds, Slots
    <3>2. CASE ~FrameLost
      BY <1>5, <2>2, <2>3, <3>2, StoredWhole
    <3> QED
      BY <3>1, <3>2
  <2>4. cam.frame \in Nat /\ cam.place \in 0..(PktsPerFrame - 2) /\ cam'.seq \in Nat
        /\ cam'.seq < SeqMod
    BY <1>2, <1>3, <1>6 DEF Slots
  <2> QED
    BY <1>2, <1>4, <1>5, <2>1, <2>2, <2>3, <2>4 DEF Aligned
<1> QED
  BY <1>5, <1>7, <1>8, <1>9, StoredInPlace DEF IInv

-----------------------------------------------------------------------------
LEMMA StepInv == IInv /\ [Next]_vars => IInv'
<1> SUFFICES ASSUME IInv, [Next]_vars PROVE IInv'
  OBVIOUS
<1>1. CASE UNCHANGED vars
  BY <1>1 DEF vars, asmVars, bufVars, IInv, TypeOK, Aligned, ExpFrame, Holds, raw_buf,
     Past, PacketsInPlace, BufferInUse
<1>2. CASE Accept
  BY <1>2, AcceptEnd, AcceptInside
<1> QED
  BY <1>1, <1>2, StartStep, StopStep, ClientSetsBufferStep, LoseStep, LoseSyncStep,
     RejectStep, DropOversizedStep DEF Next

\* What a step that hands on a frame hands on.
LEMMA HandedOn ==
    ASSUME IInv, [Next]_vars, out' # out
    PROVE  /\ out'.valid > 0 => out'.timestamp > out.timestamp
           /\ out'.valid = PktsPerFrame /\ (SplitBufs \/ ~out.early) =>
                \A i \in Slots : out'.content[i] = [frame |-> out'.timestamp, place |-> i]
<1> USE FrameAssumption, SeqAssumption
<1>1. \/ \E d \in BOOLEAN : Reject(d)
      \/ DropOversized
      \/ Accept
  BY DEF Next, vars, Start, Stop, ClientSetsBuffer, Lose, LoseSync
<1>2. CASE (\E d \in BOOLEAN : Reject(d)) \/ DropOversized
  <2>1. Placeable /\ running' = running /\ HandOnLostFrame
    BY <1>2 DEF Reject, DropOversized
  <2>2. out'.valid < PktsPerFrame /\ out'.valid \in 0..PktsPerFrame
    BY <2>1, HandingOn
  <2> QED
    BY <2>1, <2>2, HandingOn
<1>3. CASE Accept /\ cam.place # PktsPerFrame - 1
  <2>1. out'.valid < PktsPerFrame /\ out'.valid \in 0..PktsPerFrame
    BY <1>3, AcceptInside DEF IInv, TypeOK
  <2> QED
    BY <1>3, <2>1, AcceptInside
<1>4. CASE Accept /\ cam.place = PktsPerFrame - 1
  <2>1. /\ out'.content = mem'[raw_buf] /\ out'.valid = got_1 + 1
        /\ out'.timestamp = cam.frame /\ out.timestamp < cam.frame
    BY <1>4, AcceptEnd
  <2>2. ASSUME out'.valid = PktsPerFrame, SplitBufs \/ ~out.early, NEW i \in Slots
        PROVE  out'.content[i] = [frame |-> out'.timestamp, place |-> i]
    <3>1. Placeable /\ got_1 = pkt_num_1 /\ ~FrameLost
      BY <1>4, <2>1, <2>2, Placing DEF Accept
    <3>2. Holds(mem'[raw_buf], cam.place + 1, cam.frame)
      BY <1>4, <2>2, <3>1, StoredWhole
    <3>3. i < cam.place + 1
      BY <1>4 DEF Slots
    <3> QED
      BY <2>1, <3>2, <3>3 DEF Holds
  <2> QED
    BY <2>1, <2>2
<1> QED
  BY <1>1, <1>2, <1>3, <1>4

\* The inductive invariant holds in every reachable state.
THEOREM Invariant == Spec => []IInv
<1>1. Init => IInv
  BY InitInv
<1>2. IInv /\ [Next]_vars => IInv'
  BY StepInv
<1> QED
  BY <1>1, <1>2, PTL DEF Spec

\* Type correctness: in particular pkt_num stays within the frame.
THEOREM TypeCorrect == Spec => []TypeOK
<1>1. IInv => TypeOK
  BY DEF IInv
<1> QED
  BY <1>1, Invariant, PTL

\* Packets are only ever stored in their own slot.
THEOREM StoredInSlot == Spec => []PacketsInPlace
<1>1. IInv => PacketsInPlace
  BY DEF IInv
<1> QED
  BY <1>1, Invariant, PTL

\* A running stream always has the buffer it uses.
THEOREM HasBuffer == Spec => []BufferInUse
<1>1. IInv => BufferInUse
  BY DEF IInv
<1> QED
  BY <1>1, Invariant, PTL

\* Frames counted as complete are complete, and of one camera frame.
THEOREM CompleteFramesWhole == Spec => WholeFrames
<1>1. IInv /\ [Next]_vars =>
        [out' # out /\ out'.valid = PktsPerFrame /\ (SplitBufs \/ ~out.early)
          => \A i \in Slots : out'.content[i] = [frame |-> out'.timestamp, place |-> i]]_vars
  BY HandedOn
<1> QED
  BY <1>1, Invariant, PTL DEF Spec, WholeFrames

\* Frames are handed on in the order of their timestamps, none twice.
THEOREM FramesAdvance == Spec => TimestampsAdvance
<1>1. IInv /\ [Next]_vars =>
        [out' # out /\ out'.valid > 0 => out'.timestamp > out.timestamp]_vars
  BY HandedOn
<1> QED
  BY <1>1, Invariant, PTL DEF Spec, TimestampsAdvance

-----------------------------------------------------------------------------
\* No two channels share a part of the buffers.
LEMMA SlotsDistinct ==
    ASSUME NEW c \in Channels
    PROVE  /\ audio!Slot(c) \in audio!Slots
           /\ \A d \in Channels : audio!Slot(c) = audio!Slot(d) => c = d
<1>1. c \in 1..9
  BY AudioAssumption DEF audio!ChannelsAssumption
<1>2. audio!Slot(c) \in audio!Slots
  BY <1>1 DEF audio!Slot, audio!Slots
<1>3. ASSUME NEW d \in Channels, audio!Slot(c) = audio!Slot(d)
      PROVE  c = d
  <2>1. d \in 1..9
    BY AudioAssumption DEF audio!ChannelsAssumption
  <2> QED
    BY <1>1, <1>3, <2>1 DEF audio!Slot
<1> QED
  BY <1>2, <1>3

\* The counters after a packet: where one window ends the next begins.
LEMMA CountedAgrees ==
    ASSUME audio!CountersAgree, audioOut' = audio!Counted(audioOut)
    PROVE  audio!CountersAgree'
<1> DEFINE next == IF audioOut.seq + 1 = Wrap THEN 0 ELSE audioOut.seq + 1
           ends == next \in {0, First, Second}
           parity == audioOut.parity + (IF ends THEN 1 ELSE 0)
<1>1. /\ audioOut'.seq = next
      /\ audioOut'.counter = IF ends THEN 0 ELSE audioOut.counter + 1
      /\ audioOut'.parity = IF parity = 3 THEN 0 ELSE parity
  BY DEF audio!Counted
<1>2. /\ audioOut.seq \in 0..Wrap - 1 /\ audioOut.parity \in 0..2
      /\ audioOut.counter = audioOut.seq - <<0, First, Second>>[audioOut.parity + 1]
      /\ audioOut.parity = 0 <=> audioOut.seq < First
      /\ audioOut.parity = 2 <=> audioOut.seq >= Second
  BY DEF audio!CountersAgree
<1>3. First \in Nat /\ Second \in Nat /\ Wrap \in Nat
      /\ 0 < First /\ First < Second /\ Second < Wrap
  BY AudioAssumption DEF audio!MarksAssumption
<1>4. CASE audioOut.seq + 1 = Wrap
  BY <1>1, <1>2, <1>3, <1>4 DEF audio!CountersAgree
<1>5. CASE audioOut.seq + 1 # Wrap
  <2>1. next = audioOut.seq + 1
    BY <1>5
  <2>2. CASE audioOut.parity = 0
    BY <1>1, <1>2, <1>3, <1>5, <2>1, <2>2 DEF audio!CountersAgree
  <2>3. CASE audioOut.parity = 1
    BY <1>1, <1>2, <1>3, <1>5, <2>1, <2>3 DEF audio!CountersAgree
  <2>4. CASE audioOut.parity = 2
    BY <1>1, <1>2, <1>3, <1>5, <2>1, <2>4 DEF audio!CountersAgree
  <2> QED
    BY <1>2, <2>2, <2>3, <2>4
<1> QED
  BY <1>4, <1>5

LEMMA CountersStep ==
    ASSUME audio!CountersAgree, [audio!Next]_audioVars
    PROVE  audio!CountersAgree'
<1>1. CASE audio!iso_out_callback
  BY <1>1, AudioAssumption, CountedAgrees DEF audio!iso_out_callback
<1>2. CASE audio!freenect_start_audio
  BY <1>2, AudioAssumption DEF audio!freenect_start_audio, audio!StartAudio, audio!NoCounters,
     audio!CountersAgree, audio!MarksAssumption
<1>3. CASE UNCHANGED audioOut
  BY <1>3 DEF audio!CountersAgree
<1> QED
  BY <1>1, <1>2, <1>3 DEF audio!Next, audio!iso_in_callback, audio!freenect_stop_audio,
     audio!freenect_set_audio_in_callback, audioVars

-----------------------------------------------------------------------------
AudioShape ==
    /\ buffer \in [audio!Slots -> Nat]
    /\ seen \in [1..10 -> Nat]
    /\ in_window \in Windows \cup {0}
    /\ air.window \in Windows \cup {0}
    /\ air.came \in [Windows \cup {0} -> SUBSET Channels]

\* What came is of the window that is collected or of an earlier one; in a new run of the
\* streams, which knows no window yet, nothing came.
WindowsInOrder ==
    /\ in_window # 0 => in_window = air.window
    /\ in_window = 0 => /\ \A c \in Channels : buffer[audio!Slot(c)] = 0
                        /\ \A w \in Windows : air.came[w] = {}
    /\ \A w \in Windows : w > air.window => air.came[w] = {}

\* The buffers hold what came of the window, and nothing later.
WindowCollected ==
    \A c \in Channels :
      /\ buffer[audio!Slot(c)] <= in_window
      /\ in_window # 0 => (buffer[audio!Slot(c)] = in_window <=> c \in air.came[in_window])

AudioInv == AudioShape /\ WindowsInOrder /\ WindowCollected /\ audio!SeenIsHeld

LEMMA AudioInit == audio!Init => AudioInv
<1> SUFFICES ASSUME audio!Init
             PROVE  AudioInv
  OBVIOUS
<1>1. Windows \subseteq Nat \ {0} /\ Channels \subseteq 1..9
  BY AudioAssumption DEF audio!WindowsAssumption, audio!ChannelsAssumption
<1>2. \A c \in Channels : audio!Slot(c) \in audio!Slots
  BY SlotsDistinct, AudioAssumption
<1> QED
  BY <1>1, <1>2 DEF audio!Init, audio!Zeros, audio!NoneSeen, audio!NoneCame,
     AudioInv, AudioShape, WindowsInOrder, WindowCollected, audio!SeenIsHeld

\* A block replaces the samples of its channel, and of no other.
LEMMA AudioBlock ==
    ASSUME AudioInv, NEW w \in Windows, NEW c \in Channels, audio!iso_in_callback(w, c)
    PROVE  AudioInv'
<1>1. Windows \subseteq Nat \ {0} /\ Channels \subseteq 1..9
  BY AudioAssumption DEF audio!WindowsAssumption, audio!ChannelsAssumption
<1>2. /\ \A d \in Channels : audio!Slot(d) \in audio!Slots
      /\ \A d \in Channels : audio!Slot(c) = audio!Slot(d) => c = d
  BY SlotsDistinct
<1>3. /\ buffer' = [buffer EXCEPT ![audio!Slot(c)] = w]
      /\ seen' = [seen EXCEPT ![c] = w]
      /\ in_window' = w /\ air'.window = w
      /\ air'.came = [air.came EXCEPT ![w] = @ \cup {c}]
      /\ w > air.window \/ w = air.window
  BY DEF audio!iso_in_callback, audio!TakeBlock
<1>4. AudioShape'
  BY <1>1, <1>2, <1>3 DEF AudioInv, AudioShape
<1>5. /\ buffer'[audio!Slot(c)] = w
      /\ \A d \in Channels : d # c => buffer'[audio!Slot(d)] = buffer[audio!Slot(d)]
  BY <1>2, <1>3 DEF AudioInv, AudioShape
<1>6. /\ air'.came[w] = air.came[w] \cup {c}
      /\ \A v \in Windows : v # w => air'.came[v] = air.came[v]
  BY <1>3 DEF AudioInv, AudioShape
<1>7. WindowsInOrder'
  BY <1>1, <1>3, <1>6 DEF AudioInv, AudioShape, WindowsInOrder
<1>8. ASSUME NEW d \in Channels
      PROVE  buffer'[audio!Slot(d)] <= w /\ (buffer'[audio!Slot(d)] = w <=> d \in air'.came[w])
  <2>1. CASE d = c
    BY <1>1, <1>5, <1>6, <2>1
  <2>2. CASE d # c /\ w = in_window
    <3>1. /\ buffer'[audio!Slot(d)] = buffer[audio!Slot(d)]
          /\ d \in air'.came[w] <=> d \in air.came[w]
      BY <1>5, <1>6, <2>2
    <3>2. /\ buffer[audio!Slot(d)] <= w
          /\ w # 0 => (buffer[audio!Slot(d)] = w <=> d \in air.came[w])
      BY <2>2 DEF AudioInv, WindowCollected
    <3> QED
      BY <1>1, <3>1, <3>2
  <2>3. CASE d # c /\ w # in_window
    <3>1. in_window < w /\ air.came[w] = {}
      BY <1>1, <1>3, <2>3 DEF AudioInv, AudioShape, WindowsInOrder
    <3>2. buffer[audio!Slot(d)] \in Nat
      BY <1>2 DEF AudioInv, AudioShape
    <3>3. buffer[audio!Slot(d)] <= in_window
      BY DEF AudioInv, WindowCollected
    <3> QED
      BY <1>1, <1>5, <1>6, <2>3, <3>1, <3>2, <3>3 DEF AudioInv, AudioShape
  <2> QED
    BY <2>1, <2>2, <2>3
<1>9. WindowCollected'
  BY <1>3, <1>8 DEF WindowCollected
<1>10. audio!SeenIsHeld'
  BY <1>1, <1>3, <1>5 DEF AudioInv, AudioShape, audio!SeenIsHeld
<1> QED
  BY <1>4, <1>7, <1>9, <1>10 DEF AudioInv

LEMMA AudioStep == AudioInv /\ [audio!Next]_audioVars => AudioInv'
<1> SUFFICES ASSUME AudioInv, [audio!Next]_audioVars
             PROVE  AudioInv'
  OBVIOUS
<1>1. CASE \E w \in Windows, c \in Channels : audio!iso_in_callback(w, c)
  BY <1>1, AudioBlock
<1>2. CASE audio!freenect_start_audio
  <2>1. Windows \subseteq Nat \ {0} /\ Channels \subseteq 1..9
    BY AudioAssumption DEF audio!WindowsAssumption, audio!ChannelsAssumption
  <2>2. \A c \in Channels : audio!Slot(c) \in audio!Slots
    BY SlotsDistinct, AudioAssumption
  <2>3. /\ in_window' = 0 /\ buffer' = audio!Zeros /\ seen' = audio!NoneSeen
        /\ air'.window = air.window /\ air'.came = audio!NoneCame
    BY <1>2 DEF audio!freenect_start_audio, audio!StartAudio
  <2>4. ASSUME NEW c \in Channels
        PROVE  c \in 1..10 /\ buffer'[audio!Slot(c)] = 0 /\ seen'[c] = 0
    <3>1. c \in 1..10
      BY <2>1
    <3>2. buffer'[audio!Slot(c)] = 0
      BY <2>2, <2>3 DEF audio!Zeros
    <3> QED
      BY <2>3, <3>1, <3>2 DEF audio!NoneSeen
  <2>5. AudioShape'
    BY <2>1, <2>3 DEF audio!Zeros, audio!NoneSeen, audio!NoneCame, AudioInv, AudioShape
  <2>6. WindowsInOrder'
    BY <2>1, <2>3, <2>4 DEF audio!NoneCame, WindowsInOrder
  <2>7. WindowCollected' /\ audio!SeenIsHeld'
    BY <2>3, <2>4 DEF WindowCollected, audio!SeenIsHeld
  <2> QED
    BY <2>5, <2>6, <2>7 DEF AudioInv
<1>3. CASE UNCHANGED <<buffer, seen, in_window, air>>
  BY <1>3 DEF AudioInv, AudioShape, WindowsInOrder, WindowCollected, audio!SeenIsHeld
<1> QED
  BY <1>1, <1>2, <1>3 DEF audio!Next, audio!iso_out_callback, audio!freenect_stop_audio,
     audio!freenect_set_audio_in_callback, audioVars

-----------------------------------------------------------------------------
\* Whichever part runs, the audio streams take their own steps or none.
LEMMA AudioPart == MCSpec => audio!Init /\ [][audio!Next]_audioVars
<1>1. MCInit => audio!Init
  BY DEF MCInit
<1>2. [MCNext]_allVars => [audio!Next]_audioVars
  BY DEF MCNext, allVars, audioVars
<1> QED
  BY <1>1, <1>2, PTL DEF MCSpec

\* However the streams are started, stopped and started again, the numbers a packet
\* carries agree with each other: the Kinect takes the three as one clock.
THEOREM PacketClockAgrees == MCSpec => []CountersAgree
<1>1. audio!Init => audio!CountersAgree
  BY AudioAssumption DEF audio!Init, audio!NoCounters, audio!CountersAgree, audio!MarksAssumption
<1>2. audio!CountersAgree /\ [audio!Next]_audioVars => audio!CountersAgree'
  BY CountersStep
<1>3. audio!CountersAgree => CountersAgree
  BY DEF CountersAgree
<1> QED
  BY <1>1, <1>2, <1>3, AudioPart, PTL

\* The code finds the channels it missed by last_seen_window: that it tells what the
\* buffers hold is true whatever blocks are lost and however often audio is restarted.
THEOREM SeenWindowIsHeld == MCSpec => []SeenIsHeld
<1>1. audio!Init => AudioInv
  BY AudioInit
<1>2. AudioInv /\ [audio!Next]_audioVars => AudioInv'
  BY AudioStep
<1>3. AudioInv => SeenIsHeld
  BY DEF AudioInv, SeenIsHeld
<1> QED
  BY <1>1, <1>2, <1>3, AudioPart, PTL

\* Every window that is handed to the client is what came of it, over older samples.
THEOREM WindowsHandedOn == MCSpec => HandedIsWhatCame
<1> DEFINE Whole == handed' # handed =>
             \A c \in Channels :
               /\ handed'.data[audio!Slot(c)] <= handed'.window
               /\ handed'.window # 0 =>
                    (handed'.data[audio!Slot(c)] = handed'.window <=> c \in air.came[handed'.window])
<1>1. audio!Init => AudioInv
  BY AudioInit
<1>2. AudioInv /\ [audio!Next]_audioVars => AudioInv'
  BY AudioStep
<1>3. AudioInv /\ [audio!Next]_audioVars => [Whole]_audioVars
  <2> SUFFICES ASSUME AudioInv, [audio!Next]_audioVars, handed' # handed, NEW c \in Channels
               PROVE  /\ handed'.data[audio!Slot(c)] <= handed'.window
                      /\ handed'.window # 0 =>
                           (handed'.data[audio!Slot(c)] = handed'.window
                              <=> c \in air.came[handed'.window])
    OBVIOUS
  <2>1. PICK w \in Windows, d \in Channels : audio!iso_in_callback(w, d)
    BY DEF audio!Next, audio!iso_out_callback, audio!freenect_start_audio,
       audio!freenect_stop_audio, audio!freenect_set_audio_in_callback, audioVars
  <2>2. handed' = [window |-> in_window, data |-> buffer]
    BY <2>1 DEF audio!iso_in_callback, audio!TakeBlock
  <2> QED
    BY <2>2 DEF AudioInv, WindowCollected
<1>4. MCSpec => [][Whole]_audioVars
  BY <1>1, <1>2, <1>3, AudioPart, PTL
<1> QED
  BY <1>4 DEF HandedIsWhatCame, audio!HandedIsWhatCame, audioVars, audio!vars

-----------------------------------------------------------------------------
\* Induction over the naturals, for a set of them
LEMMA SmallestThere ==
    ASSUME NEW T \in SUBSET Nat, T # {}
    PROVE  \E x \in T : \A y \in T : x <= y
<1> DEFINE R == {p \in Nat \X Nat : p[1] < p[2]}
<1>1. IsWellFoundedOn(R, Nat)
  BY NatLessThanWellFounded DEF OpToRel
<1>2. \A x, y \in Nat : <<y, x>> \in R <=> y < x
  OBVIOUS
<1> HIDE DEF R
<1>3. PICK x \in T : \A y \in T : <<y, x>> \notin R
  BY <1>1, WFMin
<1>4. \A y \in T : ~(y < x)
  BY <1>2, <1>3
<1> QED
  BY <1>4

LEMMA Induction ==
    ASSUME NEW S, 0 \in S, \A n \in Nat : n \in S => n + 1 \in S
    PROVE  Nat \subseteq S
<1> DEFINE T == {n \in Nat : n \notin S}
<1> SUFFICES ASSUME T # {} PROVE FALSE
  OBVIOUS
<1>1. PICK x \in T : \A y \in T : x <= y
  <2> HIDE DEF T
  <2> T \in SUBSET Nat
    BY DEF T
  <2> QED
    BY SmallestThere
<1>2. x # 0 /\ x - 1 \in Nat /\ x - 1 \notin T
  BY <1>1
<1> QED
  BY <1>1, <1>2

\* A fold over a sequence takes its last element first: f is the function on the sets of
\* places by which it is computed, G the step, b what it starts from.
Last(s) == CHOOSE x \in s : \A y \in s : x >= y
Folds(f, n, G, b) ==
    \A s \in SUBSET (1..n) : f[s] = IF s = {} THEN b ELSE G[<<f[s \ {Last(s)}], Last(s)>>]
HasFold(A, n, G, b) == \E f \in [SUBSET (1..n) -> A] : Folds(f, n, G, b)

LEMMA LastIn ==
    ASSUME NEW n \in Nat, NEW s \in SUBSET (1..n), s # {}
    PROVE  Last(s) \in s /\ \A y \in s : Last(s) >= y
<1> DEFINE T == {k \in Nat : \A y \in s : k >= y}
<1>1. n \in T
  OBVIOUS
<1>2. PICK k \in T : \A j \in T : k <= j
  <2> T \in SUBSET Nat
    OBVIOUS
  <2> HIDE DEF T
  <2> QED
    BY <1>1, SmallestThere
<1>3. k \in s
  <2> SUFFICES ASSUME k \notin s PROVE FALSE
    OBVIOUS
  <2>1. PICK x \in s : TRUE
    OBVIOUS
  <2>2. k - 1 \in Nat /\ \A y \in s : k - 1 >= y
    BY <1>2, <2>1
  <2>3. k - 1 \in T
    BY <2>2
  <2> QED
    BY <1>2, <2>3
<1>4. \E m \in s : \A y \in s : m >= y
  BY <1>2, <1>3
<1> QED
  BY <1>4 DEF Last

LEMMA LastOfInterval ==
    ASSUME NEW n \in Nat, n # 0
    PROVE  Last(1..n) = n /\ (1..n) \ {n} = 1..n - 1
<1>1. 1..n \in SUBSET (1..n) /\ 1..n # {} /\ n \in 1..n
  OBVIOUS
<1>2. Last(1..n) \in 1..n /\ \A y \in 1..n : Last(1..n) >= y
  BY <1>1, LastIn
<1>3. Last(1..n) = n
  BY <1>1, <1>2
<1> QED
  BY <1>3

LEMMA FoldExists ==
    ASSUME NEW A, NEW b \in A, NEW N \in Nat, NEW G \in [A \X (1..N) -> A]
    PROVE  HasFold(A, N, G, b)
<1>1. HasFold(A, 0, G, b)
  <2> DEFINE f == [s \in SUBSET (1..0) |-> b]
  <2>1. 1..0 = {}
    OBVIOUS
  <2>2. f \in [SUBSET (1..0) -> A] /\ Folds(f, 0, G, b)
    BY <2>1 DEF Folds
  <2> QED
    BY <2>2 DEF HasFold
<1>2. ASSUME NEW n \in Nat, HasFold(A, n, G, b), n + 1 <= N
      PROVE  HasFold(A, n + 1, G, b)
  <2>1. PICK f \in [SUBSET (1..n) -> A] : Folds(f, n, G, b)
    BY <1>2 DEF HasFold
  <2> DEFINE g == [s \in SUBSET (1..n + 1) |->
                     IF n + 1 \in s THEN G[<<f[s \ {n + 1}], n + 1>>] ELSE f[s]]
  <2>2. \A s \in SUBSET (1..n + 1) : s \ {n + 1} \in SUBSET (1..n)
    OBVIOUS
  <2>3. ASSUME NEW s \in SUBSET (1..n + 1)
        PROVE  g[s] \in A
    <3>1. s \ {n + 1} \in SUBSET (1..n)
      BY <2>2
    <3>2. CASE n + 1 \in s
      <4>1. n + 1 \in 1..N /\ f[s \ {n + 1}] \in A
        BY <1>2, <3>1
      <4>2. <<f[s \ {n + 1}], n + 1>> \in A \X (1..N)
        BY <4>1
      <4> QED
        BY <3>2, <4>2
    <3>3. CASE n + 1 \notin s
      <4>1. s \in SUBSET (1..n)
        BY <3>1, <3>3
      <4> QED
        BY <3>3, <4>1
    <3> QED
      BY <3>2, <3>3
  <2>4. ASSUME NEW s \in SUBSET (1..n + 1)
        PROVE  g[s] = IF s = {} THEN b ELSE G[<<g[s \ {Last(s)}], Last(s)>>]
    <3>1. CASE n + 1 \in s
      <4>1. n + 1 \in Nat /\ s # {}
        BY <3>1
      <4>2. Last(s) = n + 1
        <5>1. Last(s) \in s /\ \A y \in s : Last(s) >= y
          BY <4>1, LastIn
        <5>2. Last(s) \in 1..n + 1 /\ Last(s) >= n + 1
          BY <3>1, <5>1
        <5> QED
          BY <5>2
      <4>3. s \ {n + 1} \in SUBSET (1..n + 1) /\ n + 1 \notin s \ {n + 1}
        OBVIOUS
      <4>4. g[s \ {n + 1}] = f[s \ {n + 1}] /\ g[s] = G[<<f[s \ {n + 1}], n + 1>>]
        BY <3>1, <4>3
      <4> QED
        BY <4>1, <4>2, <4>4
    <3>2. CASE n + 1 \notin s
      <4>1. s \in SUBSET (1..n) /\ g[s] = f[s]
        BY <3>2, <2>2
      <4>2. f[s] = IF s = {} THEN b ELSE G[<<f[s \ {Last(s)}], Last(s)>>]
        BY <2>1, <4>1 DEF Folds
      <4>3. s \ {Last(s)} \in SUBSET (1..n + 1) /\ n + 1 \notin s \ {Last(s)}
        BY <3>2
      <4>4. g[s \ {Last(s)}] = f[s \ {Last(s)}]
        BY <4>3
      <4> QED
        BY <4>1, <4>2, <4>4
    <3> QED
      BY <3>1, <3>2
  <2>5. g \in [SUBSET (1..n + 1) -> A]
    BY <2>3
  <2>6. Folds(g, n + 1, G, b)
    <3> HIDE DEF g
    <3> QED
      BY <2>4 DEF Folds
  <2> QED
    BY <2>5, <2>6 DEF HasFold
<1> DEFINE S == {n \in Nat : n <= N => HasFold(A, n, G, b)}
<1>3. 0 \in S
  BY <1>1
<1>4. \A n \in Nat : n \in S => n + 1 \in S
  BY <1>2
<1>5. Nat \subseteq S
  <2> HIDE DEF S
  <2> QED
    BY <1>3, <1>4, Induction
<1> QED
  BY <1>5

\* What a fold takes one after another: the beginnings of a sequence
LEMMA Beginnings ==
    ASSUME NEW n \in Nat
    PROVE  /\ 1..0 = {} /\ 1..0 \in SUBSET (1..n)
           /\ \A k \in 1..n : /\ 1..k \in SUBSET (1..n) /\ 1..k # {}
                              /\ Last(1..k) = k /\ (1..k) \ {Last(1..k)} = 1..k - 1
<1>1. ASSUME NEW k \in 1..n
      PROVE  /\ 1..k \in SUBSET (1..n) /\ 1..k # {}
             /\ Last(1..k) = k /\ (1..k) \ {Last(1..k)} = 1..k - 1
  <2>1. k \in Nat /\ k # 0 /\ k \in 1..k
    OBVIOUS
  <2>2. Last(1..k) = k /\ (1..k) \ {k} = 1..k - 1
    BY <2>1, LastOfInterval
  <2> QED
    BY <2>1, <2>2
<1> QED
  BY <1>1

\* A function that computes a fold keeps to the set A that G keeps to.
LEMMA FoldThere ==
    ASSUME NEW A, NEW b \in A, NEW n \in Nat, NEW G \in [A \X (1..n) -> A]
    PROVE  \E f : \A s \in SUBSET (1..n) :
             /\ s = {} => f[s] = b
             /\ s # {} => /\ f[s] = G[<<f[s \ {Last(s)}], Last(s)>>]
                          /\ f[s \ {Last(s)}] \in A /\ Last(s) \in 1..n
<1>1. PICK f \in [SUBSET (1..n) -> A] : Folds(f, n, G, b)
  BY FoldExists DEF HasFold
<1>2. ASSUME NEW s \in SUBSET (1..n), s # {}
      PROVE  /\ f[s] = G[<<f[s \ {Last(s)}], Last(s)>>]
             /\ f[s \ {Last(s)}] \in A /\ Last(s) \in 1..n
  <2>1. Last(s) \in 1..n /\ s \ {Last(s)} \in SUBSET (1..n)
    BY <1>2, LastIn
  <2> QED
    BY <1>1, <1>2, <2>1 DEF Folds
<1>3. ASSUME NEW s \in SUBSET (1..n), s = {} PROVE f[s] = b
  BY <1>1, <1>3 DEF Folds
<1> QED
  BY <1>2, <1>3

-----------------------------------------------------------------------------
\* Registration, pixel after pixel
Register(reg, raw, f, i) ==
    LET mm == reg.mm[raw[i]]
        at == formats!Seen(reg, i, mm)
        cell == at.y * X_RES + at.x - Y_RES * reg.start_lines
    IN  IF mm # formats!NO_MM /\ mm < MAX_METRIC /\ formats!Within(at)
           /\ formats!Nearer(f[cell], mm)
        THEN [f EXCEPT ![cell] = mm] ELSE f

Nowhere == [i \in formats!Pixels |-> formats!NO_MM]
Pictures == [formats!Pixels -> Nat]

LEMMA RegisteredOneByOne ==
    ASSUME NEW reg \in Regs, NEW raw \in Raws, NEW n \in Nat, DOMAIN formats!Indices = 1..n,
           \A z \in Pictures, k \in 1..n : Register(reg, raw, z, formats!Indices[k]) \in Pictures
    PROVE  \E f : /\ f[0] = Nowhere
                  /\ \A k \in 1..n : f[k] = Register(reg, raw, f[k - 1], formats!Indices[k])
                  /\ formats!freenect_apply_registration(reg, raw) = f[n]
<1>0. PICK q : q = formats!Indices
  OBVIOUS
<1> DEFINE A == Pictures
           Iter(f) == f = [s \in SUBSET (1..n) |->
                             IF s = {} THEN Nowhere
                             ELSE Register(reg, raw, f[s \ {Last(s)}], q[Last(s)])]
           G == [p \in A \X (1..n) |-> Register(reg, raw, p[1], q[p[2]])]
<1>1. PICK g : \A s \in SUBSET (1..n) :
        /\ s = {} => g[s] = Nowhere
        /\ s # {} => /\ g[s] = G[<<g[s \ {Last(s)}], Last(s)>>]
                     /\ g[s \ {Last(s)}] \in A /\ Last(s) \in 1..n
  <2>1. G \in [A \X (1..n) -> A]
    BY <1>0
  <2>2. PICK b \in A : b = Nowhere
    BY DEF Nowhere, Pictures, formats!NO_MM
  <2> HIDE DEF G, A
  <2> QED
    BY <2>1, <2>2, FoldThere
<1>2. \E f : Iter(f)
  <2>1. \A s \in SUBSET (1..n) : s # {} =>
          g[s] = Register(reg, raw, g[s \ {Last(s)}], q[Last(s)])
    BY <1>1
  <2>2. Iter([s \in SUBSET (1..n) |-> g[s]])
    BY <1>1, <2>1
  <2> QED
    BY <2>2
<1> DEFINE h == CHOOSE f : Iter(f)
<1>3. Iter(h)
  <2> HIDE DEF Iter
  <2> QED
    BY <1>2
<1>4. formats!freenect_apply_registration(reg, raw) = h[1..n]
  <2>1. formats!FoldLeft(LAMBDA p, i : Register(reg, raw, p, i), Nowhere, q) = h[1..n]
    <3>1. DOMAIN q = 1..n
      BY <1>0
    <3> QED
      BY <3>1, Zenon DEF formats!FoldLeft, formats!MapThenFoldSet, formats!Max, Last
  <2>2. formats!freenect_apply_registration(reg, raw)
          = formats!FoldLeft(LAMBDA p, i : Register(reg, raw, p, i), Nowhere, q)
    BY <1>0, Zenon DEF formats!freenect_apply_registration, Register, Nowhere
  <2> QED
    BY <2>1, <2>2
<1> HIDE DEF h
<1> DEFINE f == [k \in 0..n |-> h[1..k]]
<1>5. f[0] = Nowhere
  BY <1>3, Beginnings
<1>6. ASSUME NEW k \in 1..n PROVE f[k] = Register(reg, raw, f[k - 1], q[k])
  <2>1. /\ 1..k \in SUBSET (1..n) /\ 1..k # {}
        /\ Last(1..k) = k /\ (1..k) \ {Last(1..k)} = 1..k - 1
    BY Beginnings
  <2>2. h[1..k] = Register(reg, raw, h[(1..k) \ {Last(1..k)}], q[Last(1..k)])
    BY <1>3, <2>1
  <2>3. h[1..k] = Register(reg, raw, h[1..k - 1], q[k])
    BY <2>1, <2>2
  <2> QED
    BY <2>3
<1>7. formats!freenect_apply_registration(reg, raw) = f[n]
  BY <1>4
<1> HIDE DEF f
<1> QED
  BY <1>0, <1>5, <1>6, <1>7

-----------------------------------------------------------------------------
\* z has in each cell the nearest of the depths d[i] of the pixels i below n that are
\* shown in it, c[i]: by one pixel after another.
Nearest(z, P, d, c, n) ==
    \A x \in P :
        \/ z[x] = 0 /\ \A i \in 0..n - 1 : c[i] # x
        \/ /\ \E i \in 0..n - 1 : c[i] = x /\ z[x] = d[i]
           /\ \A i \in 0..n - 1 : c[i] = x => z[x] <= d[i]

Put(z, d, c, i) ==
    IF c[i] # -1 /\ formats!Nearer(z[c[i]], d[i]) THEN [z EXCEPT ![c[i]] = d[i]] ELSE z

LEMMA NearestPut ==
    ASSUME NEW P, NEW z \in [P -> Nat], NEW d, NEW c, NEW k \in Nat, -1 \notin P,
           \A i \in 0..k : d[i] \in Nat /\ (c[i] = -1 \/ (c[i] \in P /\ d[i] # 0)),
           Nearest(z, P, d, c, k)
    PROVE  Put(z, d, c, k) \in [P -> Nat] /\ Nearest(Put(z, d, c, k), P, d, c, k + 1)
<1> DEFINE w == Put(z, d, c, k)
<1>1. k \in 0..k /\ d[k] \in Nat /\ (c[k] = -1 \/ (c[k] \in P /\ d[k] # 0))
  OBVIOUS
<1>2. \A i : i \in 0..(k + 1) - 1 <=> i \in 0..k - 1 \/ i = k
  OBVIOUS
<1>3. w \in [P -> Nat]
  BY <1>1 DEF Put
<1>4. \A x \in P : w[x] = IF c[k] = x /\ formats!Nearer(z[x], d[k]) THEN d[k] ELSE z[x]
  BY <1>1 DEF Put
<1> HIDE DEF w
<1>5. ASSUME NEW x \in P
      PROVE  \/ w[x] = 0 /\ \A i \in 0..(k + 1) - 1 : c[i] # x
             \/ /\ \E i \in 0..(k + 1) - 1 : c[i] = x /\ w[x] = d[i]
                /\ \A i \in 0..(k + 1) - 1 : c[i] = x => w[x] <= d[i]
  <2>1. \/ z[x] = 0 /\ \A i \in 0..k - 1 : c[i] # x
        \/ /\ \E i \in 0..k - 1 : c[i] = x /\ z[x] = d[i]
           /\ \A i \in 0..k - 1 : c[i] = x => z[x] <= d[i]
    BY DEF Nearest
  <2>2. z[x] \in Nat /\ w[x] \in Nat
    BY <1>3
  <2>3. \A i \in 0..k - 1 : d[i] \in Nat
    OBVIOUS
  <2>4. CASE c[k] # x
    BY <1>2, <1>4, <2>1, <2>4
  <2>5. CASE c[k] = x /\ formats!Nearer(z[x], d[k])
    <3>1. w[x] = d[k]
      BY <1>4, <2>5
    <3>2. \A i \in 0..k - 1 : c[i] = x => d[k] <= d[i]
      <4>1. z[x] = 0 \/ z[x] > d[k]
        BY <2>5 DEF formats!Nearer, formats!NO_MM
      <4>2. CASE z[x] = 0 /\ \A i \in 0..k - 1 : c[i] # x
        BY <4>2
      <4>3. CASE /\ \E i \in 0..k - 1 : c[i] = x /\ z[x] = d[i]
                 /\ \A i \in 0..k - 1 : c[i] = x => z[x] <= d[i]
        <5>1. z[x] # 0
          <6>1. PICK i \in 0..k - 1 : c[i] = x /\ z[x] = d[i]
            BY <4>3
          <6>2. i \in 0..k /\ c[i] \in P /\ c[i] # -1
            BY <6>1
          <6> QED
            BY <6>1, <6>2
        <5>2. z[x] > d[k]
          BY <4>1, <5>1
        <5> QED
          BY <1>1, <2>2, <2>3, <4>3, <5>2
      <4> QED
        BY <2>1, <4>2, <4>3
    <3>3. \A i \in 0..(k + 1) - 1 : c[i] = x => w[x] <= d[i]
      BY <1>1, <1>2, <3>1, <3>2
    <3> QED
      BY <1>2, <2>5, <3>1, <3>3
  <2>6. CASE c[k] = x /\ ~formats!Nearer(z[x], d[k])
    <3>1. w[x] = z[x] /\ z[x] # 0 /\ z[x] <= d[k]
      BY <1>1, <1>4, <2>2, <2>6 DEF formats!Nearer, formats!NO_MM
    <3> QED
      BY <1>2, <2>1, <2>6, <3>1
  <2> QED
    BY <2>4, <2>5, <2>6
<1> QED
  BY <1>3, <1>5 DEF Nearest, w

LEMMA NearestOfAll ==
    ASSUME NEW P, NEW n \in Nat, NEW d, NEW c, NEW f, -1 \notin P,
           \A i \in 0..n - 1 : d[i] \in Nat /\ (c[i] = -1 \/ (c[i] \in P /\ d[i] # 0)),
           f[0] = [x \in P |-> 0],
           \A k \in 1..n : f[k] = Put(f[k - 1], d, c, k - 1)
    PROVE  f[n] \in [P -> Nat] /\ Nearest(f[n], P, d, c, n)
<1> DEFINE Good(k) == f[k] \in [P -> Nat] /\ Nearest(f[k], P, d, c, k)
           S == {k \in Nat : k <= n => Good(k)}
<1>1. 0 \in S
  <2>1. f[0] \in [P -> Nat] /\ \A x \in P : f[0][x] = 0
    OBVIOUS
  <2>2. Nearest(f[0], P, d, c, 0)
    BY <2>1 DEF Nearest
  <2> QED
    BY <2>1, <2>2
<1>2. ASSUME NEW k \in Nat, k \in S PROVE k + 1 \in S
  <2>1. ASSUME k + 1 <= n PROVE Good(k + 1)
    <3>1. Good(k)
      BY <1>2, <2>1
    <3>2. k + 1 \in 1..n /\ (k + 1) - 1 = k
      BY <2>1
    <3>3. f[k + 1] = Put(f[k], d, c, k)
      BY <3>2
    <3>4. \A i \in 0..k : d[i] \in Nat /\ (c[i] = -1 \/ (c[i] \in P /\ d[i] # 0))
      BY <2>1
    <3>5. PICK z : z = f[k]
      OBVIOUS
    <3>6. Put(z, d, c, k) \in [P -> Nat] /\ Nearest(Put(z, d, c, k), P, d, c, k + 1)
      BY <3>1, <3>4, <3>5, NearestPut
    <3> QED
      BY <3>3, <3>5, <3>6
  <2> HIDE DEF Good
  <2> QED
    BY <2>1
<1>3. Nat \subseteq S
  <2> HIDE DEF S
  <2> QED
    BY <1>1, <1>2, Induction
<1>4. n \in S
  BY <1>3
<1> QED
  BY <1>4

-----------------------------------------------------------------------------
LEMMA Resolution ==
    /\ X_RES \in Nat /\ X_RES # 0 /\ Y_RES \in Nat /\ Y_RES # 0
    /\ MAX_METRIC \in Nat /\ MAX_METRIC # 0
BY FormatsAssumption DEF formats!ResolutionAssumption, formats!MetricAssumption

LEMMA RowsOfCells ==
    ASSUME NEW a \in Nat, NEW b \in Nat, NEW x \in 0..a - 1, NEW y \in 0..b - 1
    PROVE  y * a + x \in Nat /\ y * a + x <= a * b - 1
<1>1. y * a \in Nat /\ a * b \in Nat /\ (b - 1) * a = a * b - a
  OBVIOUS
<1>2. b - 1 - y \in Nat
  OBVIOUS
<1>3. PICK m \in Nat : m = b - 1 - y
  BY <1>2
<1>4. m * a \in Nat /\ (b - 1) * a = y * a + m * a
  <2>1. b - 1 = y + m
    BY <1>3
  <2>2. (y + m) * a = y * a + m * a /\ m * a \in Nat
    OBVIOUS
  <2> QED
    BY <2>1, <2>2
<1> QED
  BY <1>1, <1>4

LEMMA PixelsCounted ==
    \E n \in Nat : /\ n = X_RES * Y_RES /\ formats!Pixels = 0..n - 1
                   /\ DOMAIN formats!Indices = 1..n
                   /\ \A k \in 1..n : formats!Indices[k] = k - 1
<1>1. X_RES * Y_RES \in Nat
  BY Resolution
<1>2. PICK n \in Nat : n = X_RES * Y_RES
  BY <1>1
<1> QED
  BY <1>2 DEF formats!Pixels, formats!Indices

\* What registration sees of a picture: the depth of each pixel, and the cell it shows in
Depths(reg, raw) == [i \in formats!Pixels |-> reg.mm[raw[i]]]
Cells(reg, raw) ==
    [i \in formats!Pixels |-> IF reg.mm[raw[i]] \in 1..MAX_METRIC - 1
                              THEN formats!CellOf(reg, Depths(reg, raw), i) ELSE -1]

LEMMA CellsInPicture ==
    ASSUME NEW reg \in Regs, NEW raw \in Raws, reg.start_lines = 0, NEW i \in formats!Pixels
    PROVE  /\ reg.mm[raw[i]] \in Nat
           /\ \/ formats!CellOf(reg, Depths(reg, raw), i) = -1
              \/ /\ formats!CellOf(reg, Depths(reg, raw), i) \in formats!Pixels
                 /\ reg.mm[raw[i]] # 0
<1> DEFINE mm == reg.mm[raw[i]]
           at == formats!Seen(reg, i, mm)
<1>1. mm \in Nat /\ (formats!Within(at) => reg.table[i].y \in 0..Y_RES - 1)
  BY FormatsAssumption DEF formats!RegistrationAssumption
<1>2. at.y = reg.table[i].y
  BY DEF formats!Seen
<1>3. ASSUME formats!Within(at)
      PROVE  (at.y - Y_RES * reg.start_lines) * X_RES + at.x \in formats!Pixels
  <2> HIDE DEF at
  <2>1. PICK x \in 0..X_RES - 1 : x = at.x
    BY <1>3 DEF formats!Within
  <2>2. PICK y \in 0..Y_RES - 1 : y = at.y
    BY <1>1, <1>2, <1>3
  <2>3. Y_RES * reg.start_lines = 0
    BY Resolution
  <2>4. y * X_RES + x \in Nat /\ y * X_RES + x <= X_RES * Y_RES - 1
    BY Resolution, RowsOfCells
  <2>5. X_RES * Y_RES \in Nat
    BY Resolution
  <2>6. (at.y - Y_RES * reg.start_lines) * X_RES + at.x = y * X_RES + x
    <3>1. y - 0 = y
      OBVIOUS
    <3> QED
      BY <2>1, <2>2, <2>3, <3>1
  <2> QED
    BY <2>4, <2>5, <2>6 DEF formats!Pixels
<1>4. Depths(reg, raw)[i] = mm
  BY DEF Depths
<1>5. formats!CellOf(reg, Depths(reg, raw), i)
        = IF mm = 0 \/ ~formats!Within(at) THEN -1
          ELSE (at.y - Y_RES * reg.start_lines) * X_RES + at.x
  BY <1>4 DEF formats!CellOf, formats!NO_MM
<1> HIDE DEF mm, at
<1> QED
  BY <1>1, <1>3, <1>5 DEF mm

\* Registering puts a pixel into its cell.
LEMMA RegisterPuts ==
    ASSUME NEW reg \in Regs, NEW raw \in Raws, reg.start_lines = 0, NEW i \in formats!Pixels,
           NEW z
    PROVE  Register(reg, raw, z, i) = Put(z, Depths(reg, raw), Cells(reg, raw), i)
<1> DEFINE mm == reg.mm[raw[i]]
           at == formats!Seen(reg, i, mm)
           cell == at.y * X_RES + at.x - Y_RES * reg.start_lines
<1>1. mm \in Nat /\ (formats!Within(at) => reg.table[i].y \in 0..Y_RES - 1)
  BY FormatsAssumption DEF formats!RegistrationAssumption
<1>2. Depths(reg, raw)[i] = mm
  BY DEF Depths
<1>3. at.y = reg.table[i].y
  BY DEF formats!Seen
<1>4. ASSUME formats!Within(at)
      PROVE  (at.y - Y_RES * reg.start_lines) * X_RES + at.x = cell
  <2> HIDE DEF at
  <2>1. PICK x \in 0..X_RES - 1 : x = at.x
    BY <1>4 DEF formats!Within
  <2>2. PICK y \in 0..Y_RES - 1 : y = at.y
    BY <1>1, <1>3, <1>4
  <2>3. Y_RES * reg.start_lines = 0
    BY Resolution
  <2>4. y * X_RES \in Nat /\ (y - 0) * X_RES + x = y * X_RES + x - 0
    BY Resolution
  <2> QED
    BY <2>1, <2>2, <2>3, <2>4
<1>5. formats!CellOf(reg, Depths(reg, raw), i)
        = IF mm = 0 \/ ~formats!Within(at) THEN -1
          ELSE (at.y - Y_RES * reg.start_lines) * X_RES + at.x
  BY <1>2 DEF formats!CellOf, formats!NO_MM
<1>6. Cells(reg, raw)[i]
        = IF mm # 0 /\ mm < MAX_METRIC /\ formats!Within(at) THEN cell ELSE -1
  <2>1. Cells(reg, raw)[i] = IF mm \in 1..MAX_METRIC - 1
                             THEN formats!CellOf(reg, Depths(reg, raw), i) ELSE -1
    BY DEF Cells
  <2>2. mm \in 1..MAX_METRIC - 1 <=> mm # 0 /\ mm < MAX_METRIC
    BY <1>1, Resolution
  <2> HIDE DEF mm, at, cell
  <2> QED
    BY <1>4, <1>5, <2>1, <2>2
<1>7. formats!Within(at) => cell # -1
  <2>1. ASSUME formats!Within(at) PROVE cell # -1
    <3> HIDE DEF at
    <3>2. PICK x \in 0..X_RES - 1 : x = at.x
      BY <2>1 DEF formats!Within
    <3>3. PICK y \in 0..Y_RES - 1 : y = at.y
      BY <1>1, <1>3, <2>1
    <3>4. Y_RES * reg.start_lines = 0 /\ y * X_RES \in Nat
      BY Resolution
    <3> QED
      BY <3>2, <3>3, <3>4
  <2> QED
    BY <2>1
<1>8. Register(reg, raw, z, i)
        = IF mm # formats!NO_MM /\ mm < MAX_METRIC /\ formats!Within(at)
             /\ formats!Nearer(z[cell], mm)
          THEN [z EXCEPT ![cell] = mm] ELSE z
  BY DEF Register
<1> HIDE DEF mm, at, cell
<1> QED
  BY <1>2, <1>6, <1>7, <1>8 DEF Put, formats!NO_MM

\* A registered picture has the nearest depth in each cell.
LEMMA RegisteredNearest ==
    ASSUME NEW reg \in Regs, NEW raw \in Raws, reg.start_lines = 0
    PROVE  /\ formats!freenect_apply_registration(reg, raw) \in [formats!Pixels -> Nat]
           /\ Nearest(formats!freenect_apply_registration(reg, raw), formats!Pixels,
                      Depths(reg, raw), Cells(reg, raw), X_RES * Y_RES)
<1>1. PICK n \in Nat : /\ n = X_RES * Y_RES /\ formats!Pixels = 0..n - 1
                       /\ DOMAIN formats!Indices = 1..n
                       /\ \A k \in 1..n : formats!Indices[k] = k - 1
  BY PixelsCounted
<1>2. PICK q : q = formats!Indices
  OBVIOUS
<1>3. PICK d : d = Depths(reg, raw)
  OBVIOUS
<1>4. PICK c : c = Cells(reg, raw)
  OBVIOUS
<1>5. \A i \in 0..n - 1 : d[i] \in Nat /\ (c[i] = -1 \/ (c[i] \in formats!Pixels /\ d[i] # 0))
  BY <1>1, <1>3, <1>4, CellsInPicture DEF Depths, Cells
<1>6. \A z, k : k \in 1..n => Register(reg, raw, z, q[k]) = Put(z, d, c, k - 1)
  BY <1>1, <1>2, <1>3, <1>4, RegisterPuts
<1>7. -1 \notin formats!Pixels
  BY <1>1
<1>8. Nowhere \in Pictures /\ Nowhere = [x \in formats!Pixels |-> 0]
  BY DEF Nowhere, Pictures, formats!NO_MM
<1>9. \A z \in Pictures, k \in 1..n : Register(reg, raw, z, formats!Indices[k]) \in Pictures
  <2>1. ASSUME NEW z \in Pictures, NEW k \in 1..n PROVE Put(z, d, c, k - 1) \in Pictures
    <3>1. k - 1 \in 0..n - 1
      OBVIOUS
    <3> QED
      BY <1>5, <3>1 DEF Put, Pictures
  <2> QED
    BY <1>2, <1>6, <2>1
<1>10. \E f : /\ f[0] = Nowhere
              /\ \A k \in 1..n : f[k] = Register(reg, raw, f[k - 1], formats!Indices[k])
              /\ formats!freenect_apply_registration(reg, raw) = f[n]
  BY <1>1, <1>9, RegisteredOneByOne
<1>11. PICK f : /\ f[0] = Nowhere
                /\ \A k \in 1..n : f[k] = Register(reg, raw, f[k - 1], q[k])
                /\ formats!freenect_apply_registration(reg, raw) = f[n]
  BY <1>2, <1>10
<1>12. f[n] \in [formats!Pixels -> Nat] /\ Nearest(f[n], formats!Pixels, d, c, n)
  <2>1. \A k \in 1..n : f[k] = Put(f[k - 1], d, c, k - 1)
    BY <1>6, <1>11
  <2>2. f[0] = [x \in formats!Pixels |-> 0]
    BY <1>8, <1>11
  <2>3. PICK P : P = formats!Pixels
    OBVIOUS
  <2> QED
    BY <1>5, <1>7, <2>1, <2>2, <2>3, NearestOfAll
<1> QED
  BY <1>1, <1>3, <1>4, <1>11, <1>12

LEMMA RegisteredWins ==
    ASSUME job.reg \in Regs, job.raw \in Raws,
           frame = formats!freenect_apply_registration(job.reg, job.raw)
    PROVE  formats!NearestWins
<1> SUFFICES ASSUME job.reg.start_lines = 0, NEW cell \in formats!Pixels
             PROVE  LET depths == {job.reg.mm[job.raw[i]] : i \in {j \in formats!Pixels :
                          /\ job.reg.mm[job.raw[j]] \in 1..MAX_METRIC - 1
                          /\ formats!CellOf(job.reg,
                               [k \in formats!Pixels |-> job.reg.mm[job.raw[k]]], j) = cell}}
                    IN  IF depths = {} THEN frame[cell] = formats!NO_MM
                        ELSE frame[cell] \in depths /\ \A d \in depths : frame[cell] <= d
  BY Zenon DEF formats!NearestWins
<1>1. PICK reg \in Regs : reg = job.reg
  OBVIOUS
<1>2. PICK raw \in Raws : raw = job.raw
  OBVIOUS
<1>3. PICK n \in Nat : n = X_RES * Y_RES /\ formats!Pixels = 0..n - 1
  BY PixelsCounted
<1>4. Nearest(frame, formats!Pixels, Depths(reg, raw), Cells(reg, raw), n)
  BY <1>1, <1>2, <1>3, RegisteredNearest
<1> DEFINE I == {j \in formats!Pixels : /\ reg.mm[raw[j]] \in 1..MAX_METRIC - 1
                                        /\ formats!CellOf(reg, Depths(reg, raw), j) = cell}
<1>5. \A j \in formats!Pixels : j \in I <=> Cells(reg, raw)[j] = cell
  <2>1. cell # -1
    BY <1>3
  <2> QED
    BY <2>1 DEF Cells
<1>6. \A j \in formats!Pixels : Depths(reg, raw)[j] = reg.mm[raw[j]]
  BY DEF Depths
<1>7. \/ frame[cell] = 0 /\ I = {}
      \/ /\ \E i \in I : frame[cell] = reg.mm[raw[i]]
         /\ \A i \in I : frame[cell] <= reg.mm[raw[i]]
  <2>1. \A i : i \in 0..n - 1 <=> i \in formats!Pixels
    BY <1>3
  <2> HIDE DEF I
  <2>2. \/ frame[cell] = 0 /\ \A i \in formats!Pixels : Cells(reg, raw)[i] # cell
        \/ /\ \E i \in formats!Pixels : /\ Cells(reg, raw)[i] = cell
                                        /\ frame[cell] = Depths(reg, raw)[i]
           /\ \A i \in formats!Pixels :
                Cells(reg, raw)[i] = cell => frame[cell] <= Depths(reg, raw)[i]
    BY <1>4, <2>1 DEF Nearest
  <2>3. I \subseteq formats!Pixels
    BY DEF I
  <2> QED
    BY <1>5, <1>6, <2>2, <2>3
<1> DEFINE J == {j \in formats!Pixels :
                   /\ job.reg.mm[job.raw[j]] \in 1..MAX_METRIC - 1
                   /\ formats!CellOf(job.reg,
                        [k \in formats!Pixels |-> job.reg.mm[job.raw[k]]], j) = cell}
<1>8. I = J
  BY <1>1, <1>2 DEF Depths
<1> HIDE DEF I, J
<1>9. \/ frame[cell] = 0 /\ J = {}
      \/ /\ \E i \in J : frame[cell] = job.reg.mm[job.raw[i]]
         /\ \A i \in J : frame[cell] <= job.reg.mm[job.raw[i]]
  BY <1>1, <1>2, <1>7, <1>8
<1> DEFINE depths == {job.reg.mm[job.raw[i]] : i \in J}
<1>10. IF depths = {} THEN frame[cell] = formats!NO_MM
       ELSE frame[cell] \in depths /\ \A d \in depths : frame[cell] <= d
  BY <1>9 DEF formats!NO_MM
<1> QED
  BY <1>10, Zenon DEF J

-----------------------------------------------------------------------------
\* The buffer of freenect_map_rgb_to_depth, pixel after pixel
LookAt(reg, depth, z, i) ==
    LET cell == formats!CellOf(reg, depth, i)
    IN  IF cell # -1 /\ formats!Nearer(z[cell], depth[i]) THEN [z EXCEPT ![cell] = depth[i]]
        ELSE z

LEMMA LookedOneByOne ==
    ASSUME NEW reg \in Regs, NEW depth \in Pictures, NEW n \in Nat,
           DOMAIN formats!Indices = 1..n,
           \A z \in Pictures, k \in 1..n : LookAt(reg, depth, z, formats!Indices[k]) \in Pictures
    PROVE  \E f : /\ f[0] = Nowhere
                  /\ \A k \in 1..n : f[k] = LookAt(reg, depth, f[k - 1], formats!Indices[k])
                  /\ formats!zBuffer(reg, depth) = f[n]
<1>0. PICK q : q = formats!Indices
  OBVIOUS
<1> DEFINE A == Pictures
           Iter(f) == f = [s \in SUBSET (1..n) |->
                             IF s = {} THEN Nowhere
                             ELSE LookAt(reg, depth, f[s \ {Last(s)}], q[Last(s)])]
           G == [p \in A \X (1..n) |-> LookAt(reg, depth, p[1], q[p[2]])]
<1>1. PICK g : \A s \in SUBSET (1..n) :
        /\ s = {} => g[s] = Nowhere
        /\ s # {} => /\ g[s] = G[<<g[s \ {Last(s)}], Last(s)>>]
                     /\ g[s \ {Last(s)}] \in A /\ Last(s) \in 1..n
  <2>1. G \in [A \X (1..n) -> A]
    BY <1>0
  <2>2. PICK b \in A : b = Nowhere
    BY DEF Nowhere, Pictures, formats!NO_MM
  <2> HIDE DEF G, A
  <2> QED
    BY <2>1, <2>2, FoldThere
<1>2. \E f : Iter(f)
  <2>1. \A s \in SUBSET (1..n) : s # {} =>
          g[s] = LookAt(reg, depth, g[s \ {Last(s)}], q[Last(s)])
    BY <1>1
  <2>2. Iter([s \in SUBSET (1..n) |-> g[s]])
    BY <1>1, <2>1
  <2> QED
    BY <2>2
<1> DEFINE h == CHOOSE f : Iter(f)
<1>3. Iter(h)
  <2> HIDE DEF Iter
  <2> QED
    BY <1>2
<1>4. formats!zBuffer(reg, depth) = h[1..n]
  <2>1. formats!FoldLeft(LAMBDA p, i : LookAt(reg, depth, p, i), Nowhere, q) = h[1..n]
    <3>1. DOMAIN q = 1..n
      BY <1>0
    <3> QED
      BY <3>1, Zenon DEF formats!FoldLeft, formats!MapThenFoldSet, formats!Max, Last
  <2>2. formats!zBuffer(reg, depth)
          = formats!FoldLeft(LAMBDA p, i : LookAt(reg, depth, p, i), Nowhere, q)
    BY <1>0, Zenon DEF formats!zBuffer, LookAt, Nowhere
  <2> QED
    BY <2>1, <2>2
<1> HIDE DEF h
<1> DEFINE f == [k \in 0..n |-> h[1..k]]
<1>5. f[0] = Nowhere
  BY <1>3, Beginnings
<1>6. ASSUME NEW k \in 1..n PROVE f[k] = LookAt(reg, depth, f[k - 1], q[k])
  <2>1. /\ 1..k \in SUBSET (1..n) /\ 1..k # {}
        /\ Last(1..k) = k /\ (1..k) \ {Last(1..k)} = 1..k - 1
    BY Beginnings
  <2>2. h[1..k] = LookAt(reg, depth, h[(1..k) \ {Last(1..k)}], q[Last(1..k)])
    BY <1>3, <2>1
  <2>3. h[1..k] = LookAt(reg, depth, h[1..k - 1], q[k])
    BY <2>1, <2>2
  <2> QED
    BY <2>3
<1>7. formats!zBuffer(reg, depth) = f[n]
  BY <1>4
<1> HIDE DEF f
<1> QED
  BY <1>0, <1>5, <1>6, <1>7

\* Where nothing is too far away, the buffer has the nearest depths too.
LEMMA BufferNearest ==
    ASSUME NEW reg \in Regs, NEW raw \in Raws, reg.start_lines = 0,
           \A i \in formats!Pixels : reg.mm[raw[i]] < MAX_METRIC
    PROVE  /\ formats!zBuffer(reg, Depths(reg, raw)) \in Pictures
           /\ Nearest(formats!zBuffer(reg, Depths(reg, raw)), formats!Pixels,
                      Depths(reg, raw), Cells(reg, raw), X_RES * Y_RES)
<1>1. PICK n \in Nat : /\ n = X_RES * Y_RES /\ formats!Pixels = 0..n - 1
                       /\ DOMAIN formats!Indices = 1..n
                       /\ \A k \in 1..n : formats!Indices[k] = k - 1
  BY PixelsCounted
<1>2. PICK d \in Pictures : d = Depths(reg, raw)
  BY CellsInPicture DEF Depths, Pictures
<1>3. PICK c : c = Cells(reg, raw)
  OBVIOUS
<1>4. \A i \in formats!Pixels : c[i] = formats!CellOf(reg, d, i)
  <2>1. ASSUME NEW i \in formats!Pixels PROVE c[i] = formats!CellOf(reg, d, i)
    <3>1. reg.mm[raw[i]] \in Nat /\ d[i] = reg.mm[raw[i]]
      BY <1>2, CellsInPicture DEF Depths
    <3>2. CASE reg.mm[raw[i]] = 0
      <4>1. formats!CellOf(reg, d, i) = -1
        BY <3>1, <3>2 DEF formats!CellOf, formats!NO_MM
      <4> QED
        BY <1>3, <3>2, <4>1 DEF Cells
    <3>3. CASE reg.mm[raw[i]] # 0
      <4>1. reg.mm[raw[i]] \in 1..MAX_METRIC - 1
        BY <3>1, <3>3, Resolution
      <4> QED
        BY <1>2, <1>3, <4>1 DEF Cells
    <3> QED
      BY <3>2, <3>3
  <2> QED
    BY <2>1
<1>5. \A i \in 0..n - 1 : d[i] \in Nat /\ (c[i] = -1 \/ (c[i] \in formats!Pixels /\ d[i] # 0))
  BY <1>1, <1>2, <1>3, CellsInPicture DEF Depths, Cells
<1>6. ASSUME NEW z, NEW k \in 1..n
      PROVE  LookAt(reg, d, z, formats!Indices[k]) = Put(z, d, c, k - 1)
  <2>1. formats!Indices[k] = k - 1 /\ k - 1 \in formats!Pixels
    BY <1>1
  <2>2. c[k - 1] = formats!CellOf(reg, d, k - 1)
    BY <1>4, <2>1
  <2> QED
    BY <2>1, <2>2 DEF LookAt, Put
<1>7. -1 \notin formats!Pixels
  BY <1>1
<1>8. Nowhere = [x \in formats!Pixels |-> 0]
  BY DEF Nowhere, formats!NO_MM
<1>9. \A z \in Pictures, k \in 1..n : LookAt(reg, d, z, formats!Indices[k]) \in Pictures
  <2>1. ASSUME NEW z \in Pictures, NEW k \in 1..n
        PROVE  LookAt(reg, d, z, formats!Indices[k]) \in Pictures
    <3>1. k - 1 \in 0..n - 1
      OBVIOUS
    <3>2. Put(z, d, c, k - 1) \in Pictures
      BY <1>5, <3>1 DEF Put, Pictures
    <3> QED
      BY <1>6, <3>2
  <2> QED
    BY <2>1
<1>10. PICK f : /\ f[0] = Nowhere
                /\ \A k \in 1..n : f[k] = LookAt(reg, d, f[k - 1], formats!Indices[k])
                /\ formats!zBuffer(reg, d) = f[n]
  BY <1>1, <1>9, LookedOneByOne
<1>11. f[n] \in [formats!Pixels -> Nat] /\ Nearest(f[n], formats!Pixels, d, c, n)
  <2>1. \A k \in 1..n : f[k] = Put(f[k - 1], d, c, k - 1)
    BY <1>6, <1>10
  <2>2. f[0] = [x \in formats!Pixels |-> 0]
    BY <1>8, <1>10
  <2>3. PICK P : P = formats!Pixels
    OBVIOUS
  <2> QED
    BY <1>5, <1>7, <2>1, <2>2, <2>3, NearestOfAll
<1> QED
  BY <1>1, <1>2, <1>3, <1>10, <1>11 DEF Pictures

\* Two pictures that have the nearest depths are one.
LEMMA NearestUnique ==
    ASSUME NEW P, NEW z \in [P -> Nat], NEW w \in [P -> Nat], NEW d, NEW c, NEW n \in Nat,
           Nearest(z, P, d, c, n), Nearest(w, P, d, c, n),
           \A i \in 0..n - 1 : d[i] \in Nat /\ (c[i] = -1 \/ (c[i] \in P /\ d[i] # 0))
    PROVE  z = w
<1>1. ASSUME NEW x \in P PROVE z[x] = w[x]
  <2>1. z[x] \in Nat /\ w[x] \in Nat
    OBVIOUS
  <2> QED
    BY <2>1 DEF Nearest
<1> QED
  BY <1>1

LEMMA MappedInverse ==
    ASSUME job.reg \in Regs, job.raw \in Raws,
           frame = formats!freenect_map_rgb_to_depth(job.reg,
                     formats!freenect_apply_depth_to_mm(job.reg, job.raw),
                     [c \in formats!Pixels |-> c], formats!Black,
                     [i \in formats!Pixels |-> formats!Held])
    PROVE  formats!MappingInverse
<1>1. PICK reg \in Regs : reg = job.reg
  OBVIOUS
<1>2. PICK raw \in Raws : raw = job.raw
  OBVIOUS
<1>3. PICK n \in Nat : n = X_RES * Y_RES /\ formats!Pixels = 0..n - 1
  BY PixelsCounted
<1>4. ASSUME reg.start_lines = 0, \A i \in formats!Pixels : reg.mm[raw[i]] < MAX_METRIC,
             NEW i \in formats!Pixels
      PROVE  LET w == formats!freenect_apply_registration(reg, raw)
             IN  /\ frame[i] \in formats!Pixels => w[frame[i]] = reg.mm[raw[i]]
                 /\ frame[i] = formats!Held =>
                      \E c \in formats!Pixels : w[c] \in 1..reg.mm[raw[i]] - 1
  <2>1. PICK d : d = Depths(reg, raw)
    OBVIOUS
  <2>2. PICK c : c = Cells(reg, raw)
    OBVIOUS
  <2>3. PICK z \in [formats!Pixels -> Nat] :
          z = formats!zBuffer(reg, d) /\ Nearest(z, formats!Pixels, d, c, n)
    BY <1>3, <1>4, <2>1, <2>2, BufferNearest DEF Pictures
  <2>4. PICK w \in [formats!Pixels -> Nat] :
          /\ w = formats!freenect_apply_registration(reg, raw)
          /\ Nearest(w, formats!Pixels, d, c, n)
    BY <1>3, <1>4, <2>1, <2>2, RegisteredNearest
  <2>5. \A k \in formats!Pixels : d[k] = reg.mm[raw[k]] /\ d[k] \in Nat
    BY <2>1, CellsInPicture, <1>4 DEF Depths
  <2>6. \A k \in 0..n - 1 : d[k] \in Nat /\ (c[k] = -1 \/ (c[k] \in formats!Pixels /\ d[k] # 0))
    BY <1>3, <1>4, <2>1, <2>2, CellsInPicture DEF Depths, Cells
  <2>7. z = w
    BY <2>3, <2>4, <2>6, NearestUnique
  <2>8. formats!freenect_apply_depth_to_mm(reg, raw) = d
    BY <1>4, <2>1 DEF formats!freenect_apply_depth_to_mm, Depths
  <2>9. PICK e : e = formats!CellOf(reg, d, i)
    OBVIOUS
  <2>10. frame[i] = IF e = -1 THEN formats!Black
                    ELSE IF d[i] <= z[e] THEN [k \in formats!Pixels |-> k][e]
                    ELSE formats!Held
    BY <1>1, <1>2, <2>3, <2>8, <2>9 DEF formats!freenect_map_rgb_to_depth
  <2>11. e # -1 => c[i] = e /\ e \in formats!Pixels /\ d[i] # 0
    <3>1. ASSUME e # -1 PROVE c[i] = e /\ e \in formats!Pixels /\ d[i] # 0
      <4>1. reg.mm[raw[i]] \in Nat /\ reg.mm[raw[i]] # 0 /\ e \in formats!Pixels
        BY <1>4, <2>1, <2>9, <3>1, CellsInPicture
      <4>2. reg.mm[raw[i]] \in 1..MAX_METRIC - 1
        BY <1>4, <4>1, Resolution
      <4> QED
        BY <2>1, <2>2, <2>5, <2>9, <4>1, <4>2 DEF Cells
    <3> QED
      BY <3>1
  <2>12. e # -1 => z[e] \in Nat /\ z[e] # 0 /\ z[e] <= d[i]
    <3>1. ASSUME e # -1 PROVE z[e] # 0 /\ z[e] <= d[i]
      <4>1. c[i] = e /\ e \in formats!Pixels /\ i \in 0..n - 1
        BY <1>3, <2>11, <3>1
      <4>2. \/ z[e] = 0 /\ \A k \in 0..n - 1 : c[k] # e
            \/ /\ \E k \in 0..n - 1 : c[k] = e /\ z[e] = d[k]
               /\ \A k \in 0..n - 1 : c[k] = e => z[e] <= d[k]
        BY <2>3, <4>1 DEF Nearest
      <4> QED
        BY <2>6, <3>1, <4>1, <4>2
    <3> QED
      BY <2>3, <2>11, <3>1
  <2>13. formats!Black \notin formats!Pixels /\ formats!Held \notin formats!Pixels
         /\ formats!Black # formats!Held
    BY <1>3 DEF formats!Black, formats!Held
  <2>14. ASSUME frame[i] \in formats!Pixels PROVE w[frame[i]] = reg.mm[raw[i]]
    <3>1. e # -1 /\ d[i] <= z[e] /\ frame[i] = e
      BY <2>10, <2>11, <2>13, <2>14
    <3>2. z[e] = d[i]
      BY <2>5, <2>12, <3>1
    <3> QED
      BY <2>5, <2>7, <3>1, <3>2
  <2>15. ASSUME frame[i] = formats!Held
         PROVE  \E x \in formats!Pixels : w[x] \in 1..reg.mm[raw[i]] - 1
    <3>1. e # -1 /\ ~(d[i] <= z[e])
      BY <2>10, <2>11, <2>13, <2>15
    <3>2. z[e] \in 1..reg.mm[raw[i]] - 1 /\ e \in formats!Pixels
      BY <2>5, <2>11, <2>12, <3>1
    <3> QED
      BY <2>7, <3>2
  <2> QED
    BY <2>4, <2>14, <2>15
<1>5. ASSUME job.reg.start_lines = 0,
             ~(\E i \in formats!Pixels : job.reg.mm[job.raw[i]] >= MAX_METRIC),
             NEW i \in formats!Pixels
      PROVE  LET w == formats!freenect_apply_registration(job.reg, job.raw)
             IN  /\ frame[i] \in formats!Pixels => w[frame[i]] = job.reg.mm[job.raw[i]]
                 /\ frame[i] = formats!Held =>
                      \E c \in formats!Pixels : w[c] \in 1..job.reg.mm[job.raw[i]] - 1
  <2>1. \A k \in formats!Pixels : reg.mm[raw[k]] < MAX_METRIC
    <3>1. ASSUME NEW k \in formats!Pixels PROVE reg.mm[raw[k]] < MAX_METRIC
      <4>1. reg.mm[raw[k]] \in Nat
        BY FormatsAssumption DEF formats!RegistrationAssumption
      <4> QED
        BY <1>1, <1>2, <1>5, <4>1, Resolution
    <3> QED
      BY <3>1
  <2> QED
    BY <1>1, <1>2, <1>4, <1>5, <2>1
<1> QED
  BY <1>5 DEF formats!MappingInverse

-----------------------------------------------------------------------------
\* The tables by differences.  How many pairs and triples n things make:
T2(n) == (n * (n - 1)) \div 2
T3(n) == (n * (n - 1) * (n - 2)) \div 6

LEMMA Product ==
    ASSUME NEW n \in Int, NEW m \in Int, NEW x \in Int
    PROVE  (n + m) * x = n * x + m * x /\ n * x \in Int /\ m * x \in Int
OBVIOUS

LEMMA PairsAndTriples ==
    \A n \in Nat : \E t \in Int, u \in Int : n * (n - 1) = 2 * t /\ n * (n - 1) * (n - 2) = 6 * u
<1> DEFINE Good(n) == \E t \in Int, u \in Int : n * (n - 1) = 2 * t
                                                /\ n * (n - 1) * (n - 2) = 6 * u
           S == {n \in Nat : Good(n)}
<1>1. 0 \in S
  <2>1. 0 * (0 - 1) = 2 * 0 /\ 0 * (0 - 1) * (0 - 2) = 6 * 0
    OBVIOUS
  <2> QED
    BY <2>1
<1>2. ASSUME NEW n \in Nat, n \in S PROVE n + 1 \in S
  <2>1. PICK t \in Int, u \in Int : n * (n - 1) = 2 * t /\ n * (n - 1) * (n - 2) = 6 * u
    BY <1>2
  <2>2. (n + 1) * ((n + 1) - 1) = 2 * (t + n)
    <3>1. (n + 1) * ((n + 1) - 1) = n * (n - 1) + 2 * n
      OBVIOUS
    <3> QED
      BY <2>1, <3>1
  <2>3. (n + 1) * ((n + 1) - 1) * ((n + 1) - 2) = 6 * (u + t)
    <3>1. (n + 1) * ((n + 1) - 1) * ((n + 1) - 2)
            = n * (n - 1) * (n - 2) + 3 * (n * (n - 1))
      OBVIOUS
    <3> QED
      BY <2>1, <3>1
  <2>4. Good(n + 1)
    <3>1. PICK t1 \in Int : t1 = t + n
      OBVIOUS
    <3>2. PICK u1 \in Int : u1 = u + t
      OBVIOUS
    <3>3. (n + 1) * ((n + 1) - 1) = 2 * t1 /\ (n + 1) * ((n + 1) - 1) * ((n + 1) - 2) = 6 * u1
      BY <2>2, <2>3, <3>1, <3>2
    <3> QED
      BY <3>3
  <2> HIDE DEF Good
  <2> QED
    BY <2>4
<1>3. Nat \subseteq S
  <2> HIDE DEF S
  <2> QED
    BY <1>1, <1>2, Induction
<1> QED
  BY <1>3

LEMMA Binomials ==
    ASSUME NEW n \in Nat
    PROVE  /\ T2(n) \in Int /\ T3(n) \in Int
           /\ T2(n + 1) = T2(n) + n /\ T3(n + 1) = T3(n) + T2(n)
<1>1. PICK t \in Int, u \in Int : n * (n - 1) = 2 * t /\ n * (n - 1) * (n - 2) = 6 * u
  BY PairsAndTriples
<1>2. T2(n) = t /\ T3(n) = u
  <2>1. (2 * t) \div 2 = t /\ (6 * u) \div 6 = u
    OBVIOUS
  <2> QED
    BY <1>1, <2>1 DEF T2, T3
<1>3. (n + 1) * ((n + 1) - 1) = 2 * (t + n)
  <2>1. (n + 1) * ((n + 1) - 1) = n * (n - 1) + 2 * n
    OBVIOUS
  <2> QED
    BY <1>1, <2>1
<1>4. (n + 1) * ((n + 1) - 1) * ((n + 1) - 2) = 6 * (u + t)
  <2>1. (n + 1) * ((n + 1) - 1) * ((n + 1) - 2)
          = n * (n - 1) * (n - 2) + 3 * (n * (n - 1))
    OBVIOUS
  <2> QED
    BY <1>1, <2>1
<1>5. T2(n + 1) = t + n /\ T3(n + 1) = u + t
  <2>1. (2 * (t + n)) \div 2 = t + n /\ (6 * (u + t)) \div 6 = u + t
    OBVIOUS
  <2> QED
    BY <1>3, <1>4, <2>1 DEF T2, T3
<1> QED
  BY <1>2, <1>5

LEMMA NoPairs == T2(0) = 0 /\ T3(0) = 0
<1>1. 0 * (0 - 1) = 0 /\ 0 * (0 - 1) * (0 - 2) = 0
  OBVIOUS
<1> QED
  BY <1>1 DEF T2, T3

\* The second differences, and the third, of a polynomial whose last difference is f3
LEMMA SecondDifferences ==
    ASSUME NEW n \in Nat, NEW w, NEW u, NEW f1 \in Int, NEW f2 \in Int, NEW f3 \in Int,
           w[0] = 64 * f1, u[0] = 16384 * f2,
           \A k \in 1..n : /\ w[k] = w[k - 1] + u[k - 1] \div 256
                           /\ u[k] = u[k - 1] + 16384 * f3
    PROVE  \A k \in 0..n : /\ w[k] = 64 * (f1 + k * f2 + T2(k) * f3)
                           /\ u[k] = 16384 * (f2 + k * f3)
<1> DEFINE Good(k) == /\ w[k] = 64 * (f1 + k * f2 + T2(k) * f3)
                      /\ u[k] = 16384 * (f2 + k * f3)
           S == {k \in Nat : k <= n => Good(k)}
<1>1. 0 \in S
  <2>1. 0 * f2 = 0 /\ 0 * f3 = 0
    OBVIOUS
  <2> QED
    BY <2>1, NoPairs
<1>2. ASSUME NEW k \in Nat, k \in S PROVE k + 1 \in S
  <2>1. ASSUME k + 1 <= n PROVE Good(k + 1)
    <3>1. PICK a \in Int : a = k * f2
      BY Product
    <3>2. PICK b \in Int : b = k * f3
      BY Product
    <3>3. T2(k) \in Int /\ T2(k + 1) = T2(k) + k
      BY Binomials
    <3>4. PICK t \in Int : t = T2(k)
      BY <3>3
    <3>5. PICK c \in Int : c = t * f3
      BY Product
    <3>6. w[k] = 64 * (f1 + a + c) /\ u[k] = 16384 * (f2 + b)
      BY <1>2, <2>1, <3>1, <3>2, <3>4, <3>5
    <3>7. (k + 1) * f2 = a + f2 /\ (k + 1) * f3 = b + f3
      BY <3>1, <3>2, Product
    <3>8. T2(k + 1) * f3 = c + b
      BY <3>2, <3>3, <3>4, <3>5, Product
    <3>9. w[k + 1] = w[k] + u[k] \div 256 /\ u[k + 1] = u[k] + 16384 * f3
      <4>1. k + 1 \in 1..n /\ (k + 1) - 1 = k
        BY <2>1
      <4> QED
        BY <4>1
    <3>10. (16384 * (f2 + b)) \div 256 = 64 * (f2 + b)
      OBVIOUS
    <3>11. w[k + 1] = 64 * (f1 + a + c) + 64 * (f2 + b)
      BY <3>6, <3>9, <3>10
    <3>12. w[k + 1] = 64 * (f1 + (a + f2) + (c + b))
      BY <3>11
    <3>13. u[k + 1] = 16384 * (f2 + (b + f3))
      BY <3>6, <3>9
    <3> QED
      BY <3>7, <3>8, <3>12, <3>13
  <2> HIDE DEF Good
  <2> QED
    BY <2>1
<1>3. Nat \subseteq S
  <2> HIDE DEF S
  <2> QED
    BY <1>1, <1>2, Induction
<1> QED
  BY <1>3

LEMMA ThirdDifferences ==
    ASSUME NEW n \in Nat, NEW v, NEW w,
           NEW f0 \in Int, NEW f1 \in Int, NEW f2 \in Int, NEW f3 \in Int,
           v[0] = f0,
           \A k \in 1..n : v[k] = v[k - 1] + w[k - 1] \div 64,
           \A k \in 0..n : w[k] = 64 * (f1 + k * f2 + T2(k) * f3)
    PROVE  \A k \in 0..n : v[k] = f0 + k * f1 + T2(k) * f2 + T3(k) * f3
<1> DEFINE Good(k) == v[k] = f0 + k * f1 + T2(k) * f2 + T3(k) * f3
           S == {k \in Nat : k <= n => Good(k)}
<1>1. 0 \in S
  <2>1. 0 * f1 = 0 /\ 0 * f2 = 0 /\ 0 * f3 = 0
    OBVIOUS
  <2> QED
    BY <2>1, NoPairs
<1>2. ASSUME NEW k \in Nat, k \in S PROVE k + 1 \in S
  <2>1. ASSUME k + 1 <= n PROVE Good(k + 1)
    <3>1. T2(k) \in Int /\ T2(k + 1) = T2(k) + k /\ T3(k) \in Int /\ T3(k + 1) = T3(k) + T2(k)
      BY Binomials
    <3>2. PICK t \in Int : t = T2(k)
      BY <3>1
    <3>3. PICK s \in Int : s = T3(k)
      BY <3>1
    <3>4. PICK a1 \in Int : a1 = k * f1
      BY Product
    <3>5. PICK a2 \in Int : a2 = k * f2
      BY Product
    <3>6. PICK b2 \in Int : b2 = t * f2
      BY Product
    <3>7. PICK b3 \in Int : b3 = t * f3
      BY Product
    <3>8. PICK c3 \in Int : c3 = s * f3
      BY Product
    <3>9. v[k] = f0 + a1 + b2 + c3
      BY <1>2, <2>1, <3>2, <3>3, <3>4, <3>6, <3>8
    <3>10. w[k] = 64 * (f1 + a2 + b3)
      <4>1. k \in 0..n
        BY <2>1
      <4> QED
        BY <3>2, <3>5, <3>7, <4>1
    <3>11. (k + 1) * f1 = a1 + f1
      BY <3>4, Product
    <3>12. T2(k + 1) * f2 = b2 + a2
      BY <3>1, <3>2, <3>5, <3>6, Product
    <3>13. T3(k + 1) * f3 = c3 + b3
      BY <3>1, <3>2, <3>3, <3>7, <3>8, Product
    <3>14. v[k + 1] = v[k] + w[k] \div 64
      <4>1. k + 1 \in 1..n /\ (k + 1) - 1 = k
        BY <2>1
      <4> QED
        BY <4>1
    <3>15. (64 * (f1 + a2 + b3)) \div 64 = f1 + a2 + b3
      OBVIOUS
    <3>16. v[k + 1] = f0 + (a1 + f1) + (b2 + a2) + (c3 + b3)
      BY <3>9, <3>10, <3>14, <3>15
    <3> QED
      BY <3>11, <3>12, <3>13, <3>16
  <2> HIDE DEF Good
  <2> QED
    BY <2>1
<1>3. Nat \subseteq S
  <2> HIDE DEF S
  <2> QED
    BY <1>1, <1>2, Induction
<1> QED
  BY <1>3

\* The differences of a coordinate, and the fold over the rows of a column and that over
\* the columns of a row
Differences == [v : Int, h : Int, vv : Int, hh : Int, hv : Int, vvv : Int]
Parameters == [formats!Coefficients -> Int]

LEMMA StartTyped ==
    ASSUME NEW p \in Parameters
    PROVE  formats!Start(p) \in Differences
<1>1. p.v \in Int /\ p.h \in Int /\ p.vv \in Int /\ p.hh \in Int /\ p.hv \in Int /\ p.vvv \in Int
  BY DEF Parameters, formats!Coefficients
<1>2. ASSUME NEW x \in Int
      PROVE  /\ formats!SignExtend(x, 19) \in Int /\ formats!SignExtend(x, 21) \in Int
             /\ formats!SignExtend(x, 24) \in Int
  BY DEF formats!SignExtend
<1> QED
  BY <1>1, <1>2 DEF formats!Start, Differences

LEMMA RowsOneByOne ==
    ASSUME NEW p \in Parameters, NEW n \in Nat
    PROVE  \E f : /\ f[0] = formats!Start(p)
                  /\ \A k \in 1..n : f[k] = formats!Row(f[k - 1], p)
                  /\ \A k \in 0..n : f[k] \in Differences
                  /\ formats!Rows(n, p) = f[n]
<1> DEFINE A == Differences
           q == [k \in 1..n |-> k]
           b == formats!Start(p)
           Iter(f) == f = [s \in SUBSET (1..n) |->
                             IF s = {} THEN b ELSE formats!Row(f[s \ {Last(s)}], p)]
           G == [e \in A \X (1..n) |-> formats!Row(e[1], p)]
<1>0. b \in A /\ \A s \in A : formats!Row(s, p) \in A
  <2>1. p.a \in Int /\ p.b \in Int /\ p.c \in Int /\ p.d \in Int
    BY DEF Parameters, formats!Coefficients
  <2> QED
    BY <2>1, StartTyped DEF Differences, formats!Row
<1> HIDE DEF A
<1>1. PICK g : \A s \in SUBSET (1..n) :
        /\ s = {} => g[s] = b
        /\ s # {} => /\ g[s] = G[<<g[s \ {Last(s)}], Last(s)>>]
                     /\ g[s \ {Last(s)}] \in A /\ Last(s) \in 1..n
  <2>1. G \in [A \X (1..n) -> A]
    BY <1>0
  <2> HIDE DEF G, b
  <2> QED
    BY <1>0, <2>1, FoldThere
<1>2. \E f : Iter(f)
  <2>1. \A s \in SUBSET (1..n) : s # {} => g[s] = formats!Row(g[s \ {Last(s)}], p)
    BY <1>1
  <2>2. Iter([s \in SUBSET (1..n) |-> g[s]])
    BY <1>1, <2>1
  <2> QED
    BY <2>2
<1> DEFINE h == CHOOSE f : Iter(f)
<1>3. Iter(h)
  <2> HIDE DEF Iter
  <2> QED
    BY <1>2
<1>4. formats!Rows(n, p) = h[1..n]
  <2>1. DOMAIN q = 1..n
    OBVIOUS
  <2> HIDE DEF q
  <2>2. formats!FoldLeft(LAMBDA s, k : formats!Row(s, p), b, q) = h[1..n]
    BY <2>1, Zenon DEF formats!FoldLeft, formats!MapThenFoldSet, formats!Max, Last
  <2> QED
    BY <2>2, Zenon DEF formats!Rows, q
<1> HIDE DEF h, b, q
<1> DEFINE f == [k \in 0..n |-> h[1..k]]
<1>5. f[0] = b
  BY <1>3, Beginnings
<1>6. ASSUME NEW k \in 1..n PROVE f[k] = formats!Row(f[k - 1], p)
  <2>1. /\ 1..k \in SUBSET (1..n) /\ 1..k # {}
        /\ Last(1..k) = k /\ (1..k) \ {Last(1..k)} = 1..k - 1
    BY Beginnings
  <2>2. h[1..k] = formats!Row(h[(1..k) \ {Last(1..k)}], p)
    BY <1>3, <2>1
  <2>3. h[1..k] = formats!Row(h[1..k - 1], p)
    BY <2>1, <2>2
  <2> QED
    BY <2>3
<1>7. formats!Rows(n, p) = f[n]
  BY <1>4
<1> HIDE DEF f
<1>8. \A k \in 0..n : f[k] \in A
  <2> DEFINE S == {k \in Nat : k <= n => f[k] \in A}
  <2>1. 0 \in S
    BY <1>0, <1>5
  <2>2. ASSUME NEW k \in Nat, k \in S PROVE k + 1 \in S
    <3>1. ASSUME k + 1 <= n PROVE f[k + 1] \in A
      <4>1. f[k] \in A /\ k + 1 \in 1..n /\ (k + 1) - 1 = k
        BY <2>2, <3>1
      <4>2. f[k + 1] = formats!Row(f[k], p)
        BY <1>6, <4>1
      <4> QED
        BY <1>0, <4>1, <4>2
    <3> QED
      BY <3>1
  <2>3. Nat \subseteq S
    <3> HIDE DEF S
    <3> QED
      BY <2>1, <2>2, Induction
  <2> QED
    BY <2>3
<1> QED
  BY <1>5, <1>6, <1>7, <1>8 DEF b, A

LEMMA ColumnsOneByOne ==
    ASSUME NEW p \in Parameters, NEW b \in Differences, NEW n \in Nat
    PROVE  \E f : /\ f[0] = b
                  /\ \A k \in 1..n : f[k] = formats!Column(f[k - 1], p)
                  /\ \A k \in 0..n : f[k] \in Differences
                  /\ formats!Columns(n, b, p) = f[n]
<1> DEFINE A == Differences
           q == [k \in 1..n |-> k]
           Iter(f) == f = [s \in SUBSET (1..n) |->
                             IF s = {} THEN b ELSE formats!Column(f[s \ {Last(s)}], p)]
           G == [e \in A \X (1..n) |-> formats!Column(e[1], p)]
<1>0. b \in A /\ \A s \in A : formats!Column(s, p) \in A
  <2>1. p.a \in Int
    BY DEF Parameters, formats!Coefficients
  <2>2. ASSUME NEW s \in Differences PROVE formats!Column(s, p) \in Differences
    <3>1. s.v + s.h \div 64 \in Int /\ s.h + s.hh \div 256 \in Int /\ s.hh + p.a \in Int
      BY <2>1 DEF Differences
    <3>2. PICK x \in Int, y \in Int, z \in Int :
            x = s.v + s.h \div 64 /\ y = s.h + s.hh \div 256 /\ z = s.hh + p.a
      BY <3>1
    <3>3. formats!Column(s, p) = [s EXCEPT !.v = x, !.h = y, !.hh = z]
      BY <3>2 DEF formats!Column
    <3>4. [s EXCEPT !.v = x, !.h = y, !.hh = z] \in Differences
      BY DEF Differences
    <3> QED
      BY <3>3, <3>4
  <2> QED
    BY <2>2
<1> HIDE DEF A
<1>1. PICK g : \A s \in SUBSET (1..n) :
        /\ s = {} => g[s] = b
        /\ s # {} => /\ g[s] = G[<<g[s \ {Last(s)}], Last(s)>>]
                     /\ g[s \ {Last(s)}] \in A /\ Last(s) \in 1..n
  <2>1. G \in [A \X (1..n) -> A]
    BY <1>0
  <2> HIDE DEF G
  <2> QED
    BY <1>0, <2>1, FoldThere
<1>2. \E f : Iter(f)
  <2>1. \A s \in SUBSET (1..n) : s # {} => g[s] = formats!Column(g[s \ {Last(s)}], p)
    BY <1>1
  <2>2. Iter([s \in SUBSET (1..n) |-> g[s]])
    BY <1>1, <2>1
  <2> QED
    BY <2>2
<1> DEFINE h == CHOOSE f : Iter(f)
<1>3. Iter(h)
  <2> HIDE DEF Iter
  <2> QED
    BY <1>2
<1>4. formats!Columns(n, b, p) = h[1..n]
  <2>1. DOMAIN q = 1..n
    OBVIOUS
  <2> HIDE DEF q
  <2>2. formats!FoldLeft(LAMBDA s, k : formats!Column(s, p), b, q) = h[1..n]
    BY <2>1, Zenon DEF formats!FoldLeft, formats!MapThenFoldSet, formats!Max, Last
  <2> QED
    BY <2>2, Zenon DEF formats!Columns, q
<1> HIDE DEF h, q
<1> DEFINE f == [k \in 0..n |-> h[1..k]]
<1>5. f[0] = b
  BY <1>3, Beginnings
<1>6. ASSUME NEW k \in 1..n PROVE f[k] = formats!Column(f[k - 1], p)
  <2>1. /\ 1..k \in SUBSET (1..n) /\ 1..k # {}
        /\ Last(1..k) = k /\ (1..k) \ {Last(1..k)} = 1..k - 1
    BY Beginnings
  <2>2. h[1..k] = formats!Column(h[(1..k) \ {Last(1..k)}], p)
    BY <1>3, <2>1
  <2>3. h[1..k] = formats!Column(h[1..k - 1], p)
    BY <2>1, <2>2
  <2> QED
    BY <2>3
<1>7. formats!Columns(n, b, p) = f[n]
  BY <1>4
<1> HIDE DEF f
<1>8. \A k \in 0..n : f[k] \in A
  <2> DEFINE S == {k \in Nat : k <= n => f[k] \in A}
  <2>1. 0 \in S
    BY <1>0, <1>5
  <2>2. ASSUME NEW k \in Nat, k \in S PROVE k + 1 \in S
    <3>1. ASSUME k + 1 <= n PROVE f[k + 1] \in A
      <4>1. f[k] \in A /\ k + 1 \in 1..n /\ (k + 1) - 1 = k
        BY <2>2, <3>1
      <4>2. f[k + 1] = formats!Column(f[k], p)
        BY <1>6, <4>1
      <4> QED
        BY <1>0, <4>1, <4>2
    <3> QED
      BY <3>1
  <2>3. Nat \subseteq S
    <3> HIDE DEF S
    <3> QED
      BY <2>1, <2>2, Induction
  <2> QED
    BY <2>3
<1> QED
  BY <1>5, <1>6, <1>7, <1>8 DEF A

LEMMA FirstDifferences ==
    ASSUME NEW n \in Nat, NEW u, NEW f2 \in Int, NEW f3 \in Int,
           u[0] = 16384 * f2, \A k \in 1..n : u[k] = u[k - 1] + 16384 * f3
    PROVE  \A k \in 0..n : u[k] = 16384 * (f2 + k * f3)
<1> DEFINE Good(k) == u[k] = 16384 * (f2 + k * f3)
           S == {k \in Nat : k <= n => Good(k)}
<1>1. 0 \in S
  BY SMT
<1>2. ASSUME NEW k \in Nat, k \in S PROVE k + 1 \in S
  <2>1. ASSUME k + 1 <= n PROVE Good(k + 1)
    <3>1. PICK b \in Int : b = k * f3
      BY Product, SMT
    <3>2. (k + 1) * f3 = b + f3
      BY <3>1, Product, SMT
    <3>3. k + 1 \in 1..n /\ (k + 1) - 1 = k
      BY <2>1, SMT
    <3>4. u[k + 1] = 16384 * (f2 + b) + 16384 * f3
      BY <1>2, <2>1, <3>1, <3>3, SMT
    <3> QED
      BY <3>2, <3>4, SMT
  <2> HIDE DEF Good
  <2> QED
    BY <2>1, SMT
<1>3. Nat \subseteq S
  <2> HIDE DEF S
  <2> QED
    BY <1>1, <1>2, Induction, SMT
<1> QED
  BY <1>3, SMT

\* The polynomial of TablesPolynomial, in column c of row r
Poly(n, f0, f1, f2, f3) ==
    f0 + n * f1 + ((n * (n - 1)) \div 2) * f2 + ((n * (n - 1) * (n - 2)) \div 6) * f3
Sum(p, c, r) ==
    Poly(c, Poly(r, p.v * 512, p.vv * 4, p.vvv \div 64, p.b \div 2 ^ 14),
            Poly(r, p.h * 4, p.hv \div 64, p.d \div 2 ^ 14, 0),
            (p.hh + r * (p.c \div 256)) \div 64, p.a \div 2 ^ 14)

LEMMA PowersOfTwo ==
    /\ 2 ^ 14 = 16384 /\ 2 ^ 17 = 131072 /\ 2 ^ 18 = 262144 /\ 2 ^ 19 = 524288
    /\ 2 ^ 20 = 1048576 /\ 2 ^ 21 = 2097152 /\ 2 ^ 23 = 8388608 /\ 2 ^ 24 = 16777216
BY SMT

\* Parameters that lose nothing, as what they are multiples of
LEMMA ExactParameters ==
    ASSUME NEW p \in Parameters, formats!Exact(p)
    PROVE  /\ p.v \in Int /\ p.h \in Int /\ p.vv \in Int
           /\ p.vvv \div 64 \in Int /\ p.vvv = 64 * (p.vvv \div 64)
           /\ p.hv \div 64 \in Int /\ p.hv = 64 * (p.hv \div 64)
           /\ p.hh \div 64 \in Int /\ p.hh = 64 * (p.hh \div 64)
           /\ p.a \div 16384 \in Int /\ p.a = 16384 * (p.a \div 16384)
           /\ p.b \div 16384 \in Int /\ p.b = 16384 * (p.b \div 16384)
           /\ p.c \div 16384 \in Int /\ p.c = 16384 * (p.c \div 16384)
           /\ p.d \div 16384 \in Int /\ p.d = 16384 * (p.d \div 16384)
           /\ formats!Start(p).v = 512 * p.v
           /\ formats!Start(p).h = 256 * p.h /\ formats!Start(p).vv = 256 * p.vv
           /\ formats!Start(p).hh = 256 * p.hh /\ formats!Start(p).hv = 256 * p.hv
           /\ formats!Start(p).vvv = 256 * p.vvv
<1>1. /\ p.v \in Int /\ p.h \in Int /\ p.vv \in Int /\ p.hh \in Int /\ p.hv \in Int
      /\ p.vvv \in Int /\ p.a \in Int /\ p.b \in Int /\ p.c \in Int /\ p.d \in Int
  BY SMT DEF Parameters, formats!Coefficients
<1>2. /\ -262144 <= p.v /\ p.v <= 262143
      /\ -1048576 <= p.h /\ p.h <= 1048575 /\ -1048576 <= p.vv /\ p.vv <= 1048575
      /\ -8388608 <= p.hh /\ p.hh <= 8388607 /\ -8388608 <= p.hv /\ p.hv <= 8388607
      /\ -8388608 <= p.vvv /\ p.vvv <= 8388607
      /\ p.vvv % 64 = 0 /\ p.hv % 64 = 0 /\ p.hh % 64 = 0
      /\ p.a % 16384 = 0 /\ p.b % 16384 = 0 /\ p.c % 16384 = 0 /\ p.d % 16384 = 0
  <2>1. p.v \in -2 ^ 18..2 ^ 18 - 1
    BY SMT DEF formats!Exact
  <2>2. p.h \in -2 ^ 20..2 ^ 20 - 1 /\ p.vv \in -2 ^ 20..2 ^ 20 - 1
    BY SMT DEF formats!Exact
  <2>3. /\ p.hh \in -2 ^ 23..2 ^ 23 - 1 /\ p.hv \in -2 ^ 23..2 ^ 23 - 1
        /\ p.vvv \in -2 ^ 23..2 ^ 23 - 1
    BY SMT DEF formats!Exact
  <2>4. p.vvv % 64 = 0 /\ p.hv % 64 = 0 /\ p.hh % 64 = 0
    BY SMT DEF formats!Exact
  <2>5. p.a % 16384 = 0 /\ p.b % 16384 = 0 /\ p.c % 16384 = 0 /\ p.d % 16384 = 0
    BY PowersOfTwo, SMT DEF formats!Exact
  <2>7. -262144 <= p.v /\ p.v <= 262143
    BY <1>1, <2>1, SMT
  <2>8. -1048576 <= p.h /\ p.h <= 1048575 /\ -1048576 <= p.vv /\ p.vv <= 1048575
    BY <1>1, <2>2, SMT
  <2>9. /\ -8388608 <= p.hh /\ p.hh <= 8388607 /\ -8388608 <= p.hv /\ p.hv <= 8388607
        /\ -8388608 <= p.vvv /\ p.vvv <= 8388607
    BY <1>1, <2>3, SMT
  <2> QED
    BY <2>4, <2>5, <2>7, <2>8, <2>9, SMT
<1>3. \A x \in Int : -262144 <= x /\ x <= 262143 => formats!SignExtend(x, 19) = x
  BY PowersOfTwo, SMT DEF formats!SignExtend
<1>4. \A x \in Int : -1048576 <= x /\ x <= 1048575 => formats!SignExtend(x, 21) = x
  BY PowersOfTwo, SMT DEF formats!SignExtend
<1>5. \A x \in Int : -8388608 <= x /\ x <= 8388607 => formats!SignExtend(x, 24) = x
  BY PowersOfTwo, SMT DEF formats!SignExtend
<1>6. /\ formats!Start(p).v = 512 * p.v
      /\ formats!Start(p).h = 256 * p.h /\ formats!Start(p).vv = 256 * p.vv
      /\ formats!Start(p).hh = 256 * p.hh /\ formats!Start(p).hv = 256 * p.hv
      /\ formats!Start(p).vvv = 256 * p.vvv
  BY <1>1, <1>2, <1>3, <1>4, <1>5, SMT DEF formats!Start
<1>7. \A x \in Int : /\ x % 64 = 0 => x \div 64 \in Int /\ x = 64 * (x \div 64)
                     /\ x % 16384 = 0 => x \div 16384 \in Int /\ x = 16384 * (x \div 16384)
  BY SMT
<1> QED
  BY <1>1, <1>2, <1>6, <1>7, SMT

\* The differences at the start of a row
LEMMA RowStart ==
    ASSUME NEW p \in Parameters, formats!Exact(p), NEW r \in Nat
    PROVE  /\ formats!Rows(r, p) \in Differences
           /\ formats!Rows(r, p).v
                = 512 * p.v + r * (4 * p.vv) + T2(r) * (p.vvv \div 64) + T3(r) * (p.b \div 16384)
           /\ formats!Rows(r, p).h
                = 64 * (4 * p.h + r * (p.hv \div 64) + T2(r) * (p.d \div 16384))
           /\ formats!Rows(r, p).hh = 16384 * (p.hh \div 64 + r * (p.c \div 16384))
<1>1. PICK f : /\ f[0] = formats!Start(p)
               /\ \A k \in 1..r : f[k] = formats!Row(f[k - 1], p)
               /\ \A k \in 0..r : f[k] \in Differences
               /\ formats!Rows(r, p) = f[r]
  BY RowsOneByOne, SMT
<1>2. PICK x0 \in Int : x0 = p.v
  BY ExactParameters, SMT
<1>3. PICK x1 \in Int : x1 = p.vv
  BY ExactParameters, SMT
<1>4. PICK x2 \in Int : x2 = p.vvv \div 64 /\ p.vvv = 64 * x2
  BY ExactParameters, SMT
<1>5. PICK x3 \in Int : x3 = p.b \div 16384 /\ p.b = 16384 * x3
  BY ExactParameters, SMT
<1>6. PICK y1 \in Int : y1 = p.h
  BY ExactParameters, SMT
<1>7. PICK y2 \in Int : y2 = p.hv \div 64 /\ p.hv = 64 * y2
  BY ExactParameters, SMT
<1>8. PICK y3 \in Int : y3 = p.d \div 16384 /\ p.d = 16384 * y3
  BY ExactParameters, SMT
<1>9. PICK z2 \in Int : z2 = p.hh \div 64 /\ p.hh = 64 * z2
  BY ExactParameters, SMT
<1>10. PICK z3 \in Int : z3 = p.c \div 16384 /\ p.c = 16384 * z3
  BY ExactParameters, SMT
<1> DEFINE v == [k \in 0..r |-> f[k].v]
           vv == [k \in 0..r |-> f[k].vv]
           vvv == [k \in 0..r |-> f[k].vvv]
           h == [k \in 0..r |-> f[k].h]
           hv == [k \in 0..r |-> f[k].hv]
           hh == [k \in 0..r |-> f[k].hh]
<1>11. /\ v[0] = 512 * x0 /\ vv[0] = 64 * (4 * x1) /\ vvv[0] = 16384 * x2
       /\ h[0] = 64 * (4 * y1) /\ hv[0] = 16384 * y2 /\ hh[0] = 16384 * z2
  BY <1>1, <1>2, <1>3, <1>4, <1>6, <1>7, <1>9, ExactParameters, SMT
<1>12. ASSUME NEW k \in 1..r
       PROVE  /\ v[k] = v[k - 1] + vv[k - 1] \div 64
              /\ vv[k] = vv[k - 1] + vvv[k - 1] \div 256
              /\ vvv[k] = vvv[k - 1] + 16384 * x3
              /\ h[k] = h[k - 1] + hv[k - 1] \div 256
              /\ hv[k] = hv[k - 1] + 16384 * y3
              /\ hh[k] = hh[k - 1] + 16384 * z3
  <2>1. k \in 0..r /\ k - 1 \in 0..r
    BY SMT
  <2>2. f[k] = formats!Row(f[k - 1], p)
    BY <1>1, SMT
  <2> QED
    BY <1>5, <1>8, <1>10, <2>1, <2>2, SMT DEF formats!Row
<1> HIDE DEF v, vv, vvv, h, hv, hh
<1>13. \A k \in 0..r : vv[k] = 64 * (4 * x1 + k * x2 + T2(k) * x3)
  <2>1. PICK c1 \in Int : c1 = 4 * x1
    BY SMT
  <2>2. \A k \in 1..r : /\ vv[k] = vv[k - 1] + vvv[k - 1] \div 256
                         /\ vvv[k] = vvv[k - 1] + 16384 * x3
    BY <1>12, SMT
  <2>3. vv[0] = 64 * c1 /\ vvv[0] = 16384 * x2
    BY <1>11, <2>1, SMT
  <2>4. \A k \in 0..r : vv[k] = 64 * (c1 + k * x2 + T2(k) * x3)
    BY <2>2, <2>3, SecondDifferences, SMT
  <2> QED
    BY <2>1, <2>4, SMT
<1>14. v[r] = 512 * x0 + r * (4 * x1) + T2(r) * x2 + T3(r) * x3
  <2>1. PICK c1 \in Int : c1 = 4 * x1
    BY SMT
  <2>2. PICK c0 \in Int : c0 = 512 * x0
    BY SMT
  <2>3. \A k \in 0..r : v[k] = c0 + k * c1 + T2(k) * x2 + T3(k) * x3
    <3>1. v[0] = c0 /\ \A k \in 1..r : v[k] = v[k - 1] + vv[k - 1] \div 64
      BY <1>11, <1>12, <2>2, SMT
    <3>2. \A k \in 0..r : vv[k] = 64 * (c1 + k * x2 + T2(k) * x3)
      BY <1>13, <2>1, SMT
    <3> QED
      BY <3>1, <3>2, ThirdDifferences, SMTT(60)
  <2> QED
    BY <2>1, <2>2, <2>3, SMT
<1>15. h[r] = 64 * (4 * y1 + r * y2 + T2(r) * y3)
  <2>1. PICK c1 \in Int : c1 = 4 * y1
    BY SMT
  <2>2. \A k \in 0..r : h[k] = 64 * (c1 + k * y2 + T2(k) * y3)
    <3>1. h[0] = 64 * c1 /\ hv[0] = 16384 * y2
      BY <1>11, <2>1, SMT
    <3>2. \A k \in 1..r : /\ h[k] = h[k - 1] + hv[k - 1] \div 256
                           /\ hv[k] = hv[k - 1] + 16384 * y3
      BY <1>12, SMT
    <3> QED
      BY <3>1, <3>2, SecondDifferences, SMTT(60)
  <2> QED
    BY <2>1, <2>2, SMT
<1>16. hh[r] = 16384 * (z2 + r * z3)
  <2>1. hh[0] = 16384 * z2 /\ \A k \in 1..r : hh[k] = hh[k - 1] + 16384 * z3
    BY <1>11, <1>12, SMT
  <2>2. \A k \in 0..r : hh[k] = 16384 * (z2 + k * z3)
    BY <2>1, FirstDifferences, SMT
  <2> QED
    BY <2>2, SMT
<1>17. v[r] = f[r].v /\ h[r] = f[r].h /\ hh[r] = f[r].hh
  BY SMT DEF v, h, hh
<1> QED
  BY <1>1, <1>2, <1>3, <1>4, <1>5, <1>6, <1>7, <1>8, <1>9, <1>10, <1>14, <1>15, <1>16, <1>17, SMT

\* An entry of the table of differences, in any column of any row
LEMMA TableEntry ==
    ASSUME NEW p \in Parameters, formats!Exact(p), NEW c \in Nat, NEW r \in Nat
    PROVE  /\ formats!Columns(c, formats!Rows(r, p), p).v = Sum(p, c, r)
           /\ Sum(p, c, r) \in Int
<1>1. PICK b \in Differences :
        /\ b = formats!Rows(r, p)
        /\ b.v = 512 * p.v + r * (4 * p.vv) + T2(r) * (p.vvv \div 64)
                           + T3(r) * (p.b \div 16384)
        /\ b.h = 64 * (4 * p.h + r * (p.hv \div 64) + T2(r) * (p.d \div 16384))
        /\ b.hh = 16384 * (p.hh \div 64 + r * (p.c \div 16384))
  BY RowStart, SMT
<1>2. PICK f : /\ f[0] = b
               /\ \A k \in 1..c : f[k] = formats!Column(f[k - 1], p)
               /\ \A k \in 0..c : f[k] \in Differences
               /\ formats!Columns(c, b, p) = f[c]
  BY ColumnsOneByOne, SMT
<1>3. T2(r) \in Int /\ T3(r) \in Int
  BY Binomials, SMT
<1>4. PICK x3 \in Int : x3 = p.a \div 16384 /\ p.a = 16384 * x3
  BY ExactParameters, SMT
<1>5. PICK c0 \in Int : c0 = b.v
  BY SMT DEF Differences
<1>6. PICK c1 \in Int : c1 = 4 * p.h + r * (p.hv \div 64) + T2(r) * (p.d \div 16384)
  <2>1. PICK y1 \in Int, y2 \in Int, y3 \in Int :
          y1 = p.h /\ y2 = p.hv \div 64 /\ y3 = p.d \div 16384
    BY ExactParameters, SMT
  <2>2. r * y2 \in Int /\ T2(r) * y3 \in Int
    BY <1>3, Product, SMT
  <2> QED
    BY <2>1, <2>2, SMT
<1>7. PICK c2 \in Int : c2 = p.hh \div 64 + r * (p.c \div 16384)
  <2>1. PICK y1 \in Int, y2 \in Int : y1 = p.hh \div 64 /\ y2 = p.c \div 16384
    BY ExactParameters, SMT
  <2>2. r * y2 \in Int
    BY Product, SMT
  <2> QED
    BY <2>1, <2>2, SMT
<1> DEFINE v == [k \in 0..c |-> f[k].v]
           h == [k \in 0..c |-> f[k].h]
           hh == [k \in 0..c |-> f[k].hh]
<1>8. v[0] = c0 /\ h[0] = 64 * c1 /\ hh[0] = 16384 * c2
  BY <1>1, <1>2, <1>5, <1>6, <1>7, SMT
<1>9. ASSUME NEW k \in 1..c
      PROVE  /\ v[k] = v[k - 1] + h[k - 1] \div 64
             /\ h[k] = h[k - 1] + hh[k - 1] \div 256
             /\ hh[k] = hh[k - 1] + 16384 * x3
  <2>1. k \in 0..c /\ k - 1 \in 0..c
    BY SMT
  <2>2. PICK s \in Differences : s = f[k - 1]
    BY <1>2, <2>1, SMT
  <2>3. f[k] = formats!Column(s, p)
    BY <1>2, <2>2, SMT
  <2>4. /\ formats!Column(s, p).v = s.v + s.h \div 64
        /\ formats!Column(s, p).h = s.h + s.hh \div 256
        /\ formats!Column(s, p).hh = s.hh + p.a
    BY SMT DEF formats!Column, Differences
  <2> QED
    BY <1>4, <2>1, <2>2, <2>3, <2>4, SMT
<1>10. v[c] = f[c].v
  BY SMT
<1> HIDE DEF v, h, hh
<1>11. \A k \in 0..c : h[k] = 64 * (c1 + k * c2 + T2(k) * x3)
  <2>1. h[0] = 64 * c1 /\ hh[0] = 16384 * c2
    BY <1>8, SMT
  <2>2. \A k \in 1..c : h[k] = h[k - 1] + hh[k - 1] \div 256 /\ hh[k] = hh[k - 1] + 16384 * x3
    BY <1>9, SMT
  <2> QED
    BY <2>1, <2>2, SecondDifferences, SMTT(60)
<1>12. v[c] = c0 + c * c1 + T2(c) * c2 + T3(c) * x3
  <2>1. v[0] = c0 /\ \A k \in 1..c : v[k] = v[k - 1] + h[k - 1] \div 64
    BY <1>8, <1>9, SMT
  <2>2. \A k \in 0..c : v[k] = c0 + k * c1 + T2(k) * c2 + T3(k) * x3
    BY <1>11, <2>1, ThirdDifferences, SMTT(60)
  <2> QED
    BY <2>2, SMT
<1>13. c0 = Poly(r, p.v * 512, p.vv * 4, p.vvv \div 64, p.b \div 2 ^ 14)
  <2>1. p.v * 512 = 512 * p.v /\ p.vv * 4 = 4 * p.vv
    BY ExactParameters, SMT
  <2> QED
    BY <1>1, <1>5, <2>1, PowersOfTwo, SMT DEF Poly, T2, T3
<1>14. c1 = Poly(r, p.h * 4, p.hv \div 64, p.d \div 2 ^ 14, 0)
  <2>1. p.h * 4 = 4 * p.h
    BY ExactParameters, SMT
  <2>2. T3(r) * 0 = 0
    BY <1>3, SMT
  <2>3. Poly(r, p.h * 4, p.hv \div 64, p.d \div 2 ^ 14, 0)
          = 4 * p.h + r * (p.hv \div 64) + T2(r) * (p.d \div 16384) + T3(r) * 0
    BY <2>1, PowersOfTwo, SMT DEF Poly, T2, T3
  <2> QED
    BY <1>6, <2>2, <2>3, SMT
<1>15. c2 = (p.hh + r * (p.c \div 256)) \div 64
  <2>1. PICK y \in Int : y = p.hh \div 64 /\ p.hh = 64 * y
    BY ExactParameters, SMT
  <2>2. PICK z \in Int : z = p.c \div 16384 /\ p.c = 16384 * z
    BY ExactParameters, SMT
  <2>3. (16384 * z) \div 256 = 64 * z
    BY SMT
  <2>4. PICK e \in Int : e = r * z
    BY Product, SMT
  <2>5. r * (64 * z) = 64 * e
    BY <2>4, SMT
  <2>6. (64 * y + 64 * e) \div 64 = y + e
    BY SMT
  <2>7. p.c \div 256 = 64 * z
    BY <2>2, <2>3, SMT
  <2>8. r * (p.c \div 256) = 64 * e
    BY <2>5, <2>7
  <2>9. p.hh + r * (p.c \div 256) = 64 * y + 64 * e
    BY <2>1, <2>8
  <2>10. (p.hh + r * (p.c \div 256)) \div 64 = y + e
    BY <2>6, <2>9
  <2>11. c2 = y + r * z
    BY <1>7, <2>1, <2>2
  <2> QED
    BY <2>4, <2>10, <2>11
<1>16. Sum(p, c, r) = c0 + c * c1 + T2(c) * c2 + T3(c) * x3
  BY <1>4, <1>13, <1>14, <1>15, PowersOfTwo, SMT DEF Sum, Poly, T2, T3
<1>17. f[c].v \in Int
  BY <1>2, SMT DEF Differences
<1> QED
  BY <1>1, <1>2, <1>10, <1>12, <1>16, <1>17, SMT

LEMMA Position ==
    ASSUME NEW i \in formats!Pixels
    PROVE  formats!Col(i) \in Nat /\ formats!Line(i) \in Nat
<1>1. PICK n \in Nat : n = X_RES * Y_RES /\ formats!Pixels = 0..n - 1
  BY PixelsCounted
<1>2. i \in Nat /\ X_RES \in Nat /\ X_RES # 0
  BY <1>1, Resolution
<1>3. i % X_RES \in Nat /\ i \div X_RES \in Nat
  BY <1>2, SMT
<1> QED
  BY <1>3 DEF formats!Col, formats!Line

\* The table that is made of the differences
LEMMA DifferencesSum ==
    ASSUME job.format = "TABLES", job.raw \in Params,
           frame = formats!freenect_create_dxdy_tables(job.raw)
    PROVE  formats!TablesPolynomial
<1>1. PICK p \in Parameters : p = job.raw
  BY FormatsAssumption DEF formats!FormatsAssumption, Parameters
<1>2. ASSUME formats!Exact(p), NEW i \in formats!Pixels
      PROVE  frame[i] = Sum(p, formats!Col(i), formats!Line(i) + 1)
  <2>1. PICK c \in Nat, r \in Nat : c = formats!Col(i) /\ r = formats!Line(i) + 1
    BY Position, SMT
  <2>2. frame[i] = formats!Columns(c, formats!Rows(r, p), p).v
    BY <1>1, <2>1, SMT DEF formats!freenect_create_dxdy_tables
  <2> QED
    BY <1>2, <2>1, <2>2, TableEntry, SMT
<1> QED
  BY <1>1, <1>2, SMT DEF formats!TablesPolynomial, Sum, Poly

\* ... and the one that is made of that
LEMMA EntriesInPicture ==
    ASSUME job.format = "TABLE", job.raw \in Params,
           frame = formats!freenect_init_registration_table(
                     formats!freenect_create_dxdy_tables(job.raw),
                     [i \in formats!Pixels |-> 0])
    PROVE  formats!TablesPolynomial
<1>1. PICK p \in Parameters : p = job.raw
  BY FormatsAssumption DEF formats!FormatsAssumption, Parameters
<1>2. ASSUME formats!Exact(p), NEW i \in formats!Pixels
      PROVE  LET k == ((formats!Col(i) + 1) * 2 ^ 17
                         + Sum(p, formats!Col(i), formats!Line(i) + 1)) \div 512
             IN  frame[i].x = IF k \in 0..X_RES * formats!Scale - 1
                                /\ formats!Line(i) < Y_RES - 1
                              THEN k ELSE 2 * X_RES * formats!Scale
  <2>1. PICK c \in Nat, r \in Nat : c = formats!Col(i) /\ r = formats!Line(i) + 1
    BY Position, SMT
  <2>2. formats!freenect_create_dxdy_tables(p)[i] = formats!Columns(c, formats!Rows(r, p), p).v
    BY <2>1, SMT DEF formats!freenect_create_dxdy_tables
  <2>3. PICK s \in Int : s = Sum(p, c, r) /\ formats!freenect_create_dxdy_tables(p)[i] = s
    BY <1>2, <2>2, TableEntry, SMT
  <2>4. PICK x \in Int : x = (c + 1) * 131072 + s
    BY SMT
  <2>5. PICK y \in Int : y = r * 131072
    BY SMT
  <2>6. frame[i].x = IF x < 0 \/ y + 0 < 0 \/ x >= X_RES * 131072 \/ y + 0 >= Y_RES * 131072
                     THEN 2 * X_RES * formats!Scale ELSE x \div 512
    <3>1. [j \in formats!Pixels |-> 0][i] = 0
      BY SMT
    <3> QED
      BY <1>1, <2>1, <2>3, <2>4, <2>5, <3>1, PowersOfTwo, SMT
         DEF formats!freenect_init_registration_table
  <2>7. PICK k \in Int : k = x \div 512
    BY SMT
  <2>8. (x < 0 <=> k < 0) /\ (x >= X_RES * 131072 <=> k >= X_RES * 256)
    BY <2>7, Resolution, SMT
  <2>9. y + 0 >= 0 /\ (y + 0 >= Y_RES * 131072 <=> r >= Y_RES)
    BY <2>5, Resolution, SMT
  <2>10. k \in 0..X_RES * formats!Scale - 1 <=> ~(x < 0 \/ x >= X_RES * 131072)
    BY <2>8, Resolution, SMT DEF formats!Scale
  <2>11. formats!Line(i) < Y_RES - 1 <=> r < Y_RES
    BY <2>1, Resolution, Position, SMT
  <2>12. frame[i].x = IF k \in 0..X_RES * formats!Scale - 1 /\ formats!Line(i) < Y_RES - 1
                      THEN k ELSE 2 * X_RES * formats!Scale
    <3>1. r < Y_RES <=> ~(r >= Y_RES)
      BY Resolution, SMT
    <3> QED
      BY <2>6, <2>7, <2>9, <2>10, <2>11, <3>1, SMT
  <2>13. k = ((formats!Col(i) + 1) * 2 ^ 17 + Sum(p, formats!Col(i), formats!Line(i) + 1)) \div 512
    BY <2>1, <2>3, <2>4, <2>7, PowersOfTwo, SMT
  <2> QED
    BY <2>12, <2>13, SMT
<1> QED
  BY <1>1, <1>2, SMT DEF formats!TablesPolynomial, Sum, Poly

\* A job keeps what it was given, and its frame is what the step for it makes of that.
Registering ==
    part = "FrameFormats" =>
      /\ job.format \in {"DEPTH_REGISTERED", "DEPTH_MM", "MAPPED"} =>
           /\ job.reg \in Regs /\ job.raw \in Raws
           /\ job = [format |-> job.format, raw |-> job.raw, reg |-> job.reg]
      /\ job.format \in {"TABLES", "TABLE"} =>
           /\ job.raw \in Params
           /\ job = [format |-> job.format, raw |-> job.raw]
      /\ frame # <<>> =>
           /\ job.format = "DEPTH_REGISTERED" =>
                frame = formats!freenect_apply_registration(job.reg, job.raw)
           /\ job.format = "DEPTH_MM" =>
                frame = formats!freenect_apply_depth_to_mm(job.reg, job.raw)
           /\ job.format = "TABLES" => frame = formats!freenect_create_dxdy_tables(job.raw)
      /\ job.format = "MAPPED" =>
           frame = formats!freenect_map_rgb_to_depth(job.reg,
                     formats!freenect_apply_depth_to_mm(job.reg, job.raw),
                     [c \in formats!Pixels |-> c], formats!Black,
                     [i \in formats!Pixels |-> formats!Held])
      /\ job.format = "TABLE" =>
           frame = formats!freenect_init_registration_table(
                     formats!freenect_create_dxdy_tables(job.raw),
                     [i \in formats!Pixels |-> 0])

LEMMA RegisteringInit == MCInit => Registering
<1> SUFFICES ASSUME job \in formats!Jobs, frame = <<>> PROVE Registering
  BY DEF MCInit, formats!Init, Registering
<1>1. CASE job \in [format : {"DEPTH_11BIT", "DEPTH_10BIT", "VIDEO_IR_10BIT", "VIDEO_IR_8BIT"},
                    raw : Packed]
  BY <1>1 DEF Registering
<1>2. CASE job \in [format : {"VIDEO_RGB", "VIDEO_BAYER"}, raw : Bayers]
  BY <1>2 DEF Registering
<1>3. CASE job \in [format : {"VIDEO_YUV_RGB", "VIDEO_YUV_RAW"}, raw : Yuvs]
  BY <1>3 DEF Registering
<1>4. CASE job \in [format : {"DEPTH_REGISTERED", "DEPTH_MM"}, raw : Raws, reg : Regs]
  BY <1>4 DEF Registering
<1>5. CASE job \in [format : {"TABLES"}, raw : Params]
  BY <1>5 DEF Registering
<1>6. CASE job \in {[format |-> "ONI", crop |-> c, mirroring |-> m] :
                      c \in formats!Crops, m \in BOOLEAN}
  <2>1. job.format = "ONI"
    BY <1>6
  <2> QED
    BY <2>1 DEF Registering
<1> QED
  BY <1>1, <1>2, <1>3, <1>4, <1>5, <1>6 DEF formats!Jobs

LEMMA RegisteringStep == Registering /\ [MCNext]_allVars => Registering'
<1> SUFFICES ASSUME Registering, [MCNext]_allVars, part = "FrameFormats" PROVE Registering'
  BY DEF Registering, MCNext, allVars
<1>1. CASE formats!depth_process
  <2>1. job' = job /\ frame = <<>> /\ job.format \in formats!DepthFormats
    BY <1>1 DEF formats!depth_process
  <2>2. job.format = "DEPTH_REGISTERED" =>
          frame' = formats!freenect_apply_registration(job.reg, job.raw)
    BY <1>1 DEF formats!depth_process
  <2>3. job.format = "DEPTH_MM" =>
          frame' = formats!freenect_apply_depth_to_mm(job.reg, job.raw)
    BY <1>1 DEF formats!depth_process
  <2>4. job.format \notin {"MAPPED", "TABLES", "TABLE"}
    BY <2>1 DEF formats!DepthFormats
  <2> QED
    BY <2>1, <2>2, <2>3, <2>4 DEF Registering
<1>2. CASE formats!video_process
  <2>1. job' = job /\ job.format \in formats!VideoFormats
    BY <1>2 DEF formats!video_process
  <2>2. job.format \notin {"DEPTH_REGISTERED", "DEPTH_MM", "MAPPED", "TABLES", "TABLE"}
    BY <2>1 DEF formats!VideoFormats
  <2> QED
    BY <2>1, <2>2 DEF Registering
<1>3. CASE formats!MapColours
  <2>1. /\ job.format = "DEPTH_MM" /\ frame # <<>>
        /\ job' = [job EXCEPT !.format = "MAPPED"]
        /\ frame' = formats!freenect_map_rgb_to_depth(job.reg, frame,
                      [c \in formats!Pixels |-> c], formats!Black,
                      [i \in formats!Pixels |-> formats!Held])
    BY <1>3 DEF formats!MapColours
  <2>2. PICK raw \in Raws, reg \in Regs :
          job = [format |-> "DEPTH_MM", raw |-> raw, reg |-> reg]
    BY <2>1 DEF Registering
  <2>3. job' = [format |-> "MAPPED", raw |-> raw, reg |-> reg]
    BY <2>1, <2>2
  <2>4. frame = formats!freenect_apply_depth_to_mm(reg, raw)
    BY <2>1, <2>2 DEF Registering
  <2>5. frame' = formats!freenect_map_rgb_to_depth(reg,
                   formats!freenect_apply_depth_to_mm(reg, raw),
                   [c \in formats!Pixels |-> c], formats!Black,
                   [i \in formats!Pixels |-> formats!Held])
    BY <2>1, <2>2, <2>4
  <2> QED
    BY <2>3, <2>5 DEF Registering
<1>4. CASE formats!MakeTables
  <2>1. CASE /\ job.format = "TABLES"
             /\ frame' = formats!freenect_create_dxdy_tables(job.raw)
             /\ job' = job
    BY <2>1 DEF Registering
  <2>2. CASE /\ job.format = "TABLES" /\ frame # <<>>
             /\ job' = [job EXCEPT !.format = "TABLE"]
             /\ frame' = formats!freenect_init_registration_table(frame,
                           [i \in formats!Pixels |-> 0])
    <3>1. PICK raw \in Params : job = [format |-> "TABLES", raw |-> raw]
      BY <2>2 DEF Registering
    <3>2. job' = [format |-> "TABLE", raw |-> raw]
      BY <2>2, <3>1
    <3>3. frame = formats!freenect_create_dxdy_tables(raw)
      BY <2>2, <3>1 DEF Registering
    <3> QED
      BY <2>2, <3>2, <3>3 DEF Registering
  <2> QED
    BY <1>4, <2>1, <2>2 DEF formats!MakeTables
<1>5. CASE formats!buildFrame
  <2>1. job' = job /\ job.format = "ONI"
    BY <1>5 DEF formats!buildFrame
  <2> QED
    BY <2>1 DEF Registering
<1>6. CASE UNCHANGED allVars
  BY <1>6 DEF Registering, allVars, formatVars
<1> QED
  BY <1>1, <1>2, <1>3, <1>4, <1>5, <1>6 DEF MCNext, formats!Next

\* Whatever the size of the picture, the tables of the registration and the raw depths: a
\* registered picture has in each cell the nearest depth seen there and no depth where none
\* is, mapping the colours is the inverse of it, and the tables that
\* freenect_create_dxdy_tables makes by adding differences are the cubic polynomials.
THEOREM RegistrationIsExact == MCSpec => []RegistrationExact
<1>1. Registering => RegistrationExact
  <2> SUFFICES ASSUME Registering, part = "FrameFormats"
               PROVE  /\ formats!NearestWins /\ formats!MappingInverse
                      /\ formats!TablesPolynomial
    BY DEF RegistrationExact
  <2>1. formats!NearestWins
    <3>1. CASE job.format = "DEPTH_REGISTERED" /\ frame # <<>>
      BY <3>1, RegisteredWins DEF Registering
    <3> QED
      BY <3>1, Zenon DEF formats!NearestWins
  <2>2. formats!MappingInverse
    <3>1. CASE job.format = "MAPPED"
      BY <3>1, MappedInverse DEF Registering
    <3> QED
      BY <3>1 DEF formats!MappingInverse
  <2>3. formats!TablesPolynomial
    <3>1. CASE job.format = "TABLES" /\ frame # <<>>
      BY <3>1, DifferencesSum DEF Registering
    <3>2. CASE job.format = "TABLE"
      BY <3>2, EntriesInPicture DEF Registering
    <3> QED
      BY <3>1, <3>2 DEF formats!TablesPolynomial
  <2> QED
    BY <2>1, <2>2, <2>3
<1> QED
  BY <1>1, RegisteringInit, RegisteringStep, PTL DEF MCSpec
-----------------------------------------------------------------------------
\* A colour of YUV: the division per term drops less than one of each
Part(a) == formats!Trunc(a, 1000)

LEMMA DroppedFraction ==
    ASSUME NEW a \in Int
    PROVE  Part(a) \in Int /\ -1000 < 1000 * Part(a) - a /\ 1000 * Part(a) - a < 1000
<1>1. CASE a < 0
  <2>1. PICK t \in Int : t = (-a) \div 1000
    BY SMT
  <2>2. 1000 * t <= -a /\ -a < 1000 * t + 1000
    BY <2>1, SMT
  <2>3. Part(a) = -t
    BY <1>1, <2>1, SMT DEF formats!Trunc, Part
  <2> QED
    BY <2>2, <2>3, SMT
<1>2. CASE ~(a < 0)
  <2>1. PICK t \in Int : t = a \div 1000
    BY SMT
  <2>2. 1000 * t <= a /\ a < 1000 * t + 1000
    BY <2>1, SMT
  <2>3. Part(a) = t
    BY <1>2, <2>1, SMT DEF formats!Trunc, Part
  <2> QED
    BY <2>2, <2>3, SMT
<1> QED
  BY <1>1, <1>2, SMT

LEMMA CutOff ==
    ASSUME NEW by \in 2..3, NEW t \in Int, NEW exact \in Int,
           -1000 * by < 1000 * t - exact, 1000 * t - exact < 1000 * by
    PROVE  formats!Close(formats!Byte(t), exact, by) /\ formats!Byte(t) \in Int
<1>1. CASE t < 0
  BY <1>1, SMT DEF formats!Byte, formats!Close
<1>2. CASE t > 255
  BY <1>2, SMT DEF formats!Byte, formats!Close
<1>3. CASE ~(t < 0) /\ ~(t > 255)
  BY <1>3, SMT DEF formats!Byte, formats!Close
<1> QED
  BY <1>1, <1>2, <1>3, SMT

\* The colours of a pixel of brightness y
IsColour(r, g, b, y, u, v) ==
    LET luma == 1164 * (y - 16) IN
    /\ formats!Close(r, luma + 1596 * (v - 128), 2)
    /\ formats!Close(g, luma - 813 * (v - 128) - 391 * (u - 128), 3)
    /\ formats!Close(b, luma + 2018 * (u - 128), 2)

LEMMA OnePixel ==
    ASSUME NEW y \in Int, NEW u \in Int, NEW v \in Int
    PROVE  \E r \in Int, g \in Int, b \in Int :
             formats!Rgb(y, u, v) = <<r, g, b>> /\ IsColour(r, g, b, y, u, v)
<1>1. PICK e \in Int, e1 \in Int, e2 \in Int, e3 \in Int, e4 \in Int :
        /\ e = (y - 16) * 1164 /\ e1 = (v - 128) * 1596 /\ e2 = (v - 128) * 813
        /\ e3 = (u - 128) * 391 /\ e4 = (u - 128) * 2018
  BY SMT
<1>2. \A a \in Int : /\ Part(a) \in Int /\ -1000 < 1000 * Part(a) - a
                     /\ 1000 * Part(a) - a < 1000
  BY DroppedFraction, SMT
<1>3. PICK t \in Int : t = Part(e)
  BY <1>2, SMT
<1>4. PICK t1 \in Int : t1 = Part(e1)
  BY <1>2, SMT
<1>5. PICK t2 \in Int : t2 = Part(e2)
  BY <1>2, SMT
<1>6. PICK t3 \in Int : t3 = Part(e3)
  BY <1>2, SMT
<1>7. PICK t4 \in Int : t4 = Part(e4)
  BY <1>2, SMT
<1>8. /\ -1000 < 1000 * t - e /\ 1000 * t - e < 1000
      /\ -1000 < 1000 * t1 - e1 /\ 1000 * t1 - e1 < 1000
      /\ -1000 < 1000 * t2 - e2 /\ 1000 * t2 - e2 < 1000
      /\ -1000 < 1000 * t3 - e3 /\ 1000 * t3 - e3 < 1000
      /\ -1000 < 1000 * t4 - e4 /\ 1000 * t4 - e4 < 1000
  BY <1>2, <1>3, <1>4, <1>5, <1>6, <1>7, SMT
<1>9. formats!Rgb(y, u, v) = <<formats!Byte(t + t1), formats!Byte(t - t2 - t3),
                               formats!Byte(t + t4)>>
  BY <1>1, <1>3, <1>4, <1>5, <1>6, <1>7, SMT DEF formats!Rgb, Part
<1>10. PICK x1 \in Int, x2 \in Int, x3 \in Int :
        x1 = e + e1 /\ x2 = e - e2 - e3 /\ x3 = e + e4
  BY SMT
<1>11. PICK s1 \in Int, s2 \in Int, s3 \in Int : s1 = t + t1 /\ s2 = t - t2 - t3 /\ s3 = t + t4
  BY SMT
<1>12. /\ -1000 * 2 < 1000 * s1 - x1 /\ 1000 * s1 - x1 < 1000 * 2
       /\ -1000 * 3 < 1000 * s2 - x2 /\ 1000 * s2 - x2 < 1000 * 3
       /\ -1000 * 2 < 1000 * s3 - x3 /\ 1000 * s3 - x3 < 1000 * 2
  BY <1>8, <1>10, <1>11, SMT
<1>13. PICK two \in 2..3, three \in 2..3 : two = 2 /\ three = 3
  BY SMT
<1>14. formats!Close(formats!Byte(s1), x1, two) /\ formats!Byte(s1) \in Int
  BY <1>12, <1>13, CutOff, SMT
<1>15. formats!Close(formats!Byte(s2), x2, three) /\ formats!Byte(s2) \in Int
  BY <1>12, <1>13, CutOff, SMT
<1>16. formats!Close(formats!Byte(s3), x3, two) /\ formats!Byte(s3) \in Int
  BY <1>12, <1>13, CutOff, SMT
<1>17. /\ x1 = 1164 * (y - 16) + 1596 * (v - 128)
       /\ x2 = 1164 * (y - 16) - 813 * (v - 128) - 391 * (u - 128)
       /\ x3 = 1164 * (y - 16) + 2018 * (u - 128)
  BY <1>1, <1>10, SMT
<1>18. PICK r \in Int, g \in Int, b \in Int :
         r = formats!Byte(s1) /\ g = formats!Byte(s2) /\ b = formats!Byte(s3)
  BY <1>14, <1>15, <1>16, SMT
<1>19. IsColour(r, g, b, y, u, v)
  BY <1>13, <1>14, <1>15, <1>16, <1>17, <1>18, SMT DEF IsColour
<1>20. formats!Rgb(y, u, v) = <<r, g, b>>
  BY <1>9, <1>11, <1>18, SMT
<1> QED
  BY <1>19, <1>20

LEMMA SixColours ==
    ASSUME NEW a \in Int, NEW b \in Int, NEW c \in Int, NEW d \in Int, NEW e \in Int, NEW f \in Int
    PROVE  LET s == <<a, b, c>> \o <<d, e, f>>
           IN  s[1] = a /\ s[2] = b /\ s[3] = c /\ s[4] = d /\ s[5] = e /\ s[6] = f
<1>1. <<a, b, c>> \in Seq(Int) /\ <<d, e, f>> \in Seq(Int)
  OBVIOUS
<1>2. Len(<<a, b, c>>) = 3 /\ Len(<<d, e, f>>) = 3
  OBVIOUS
<1> QED
  BY <1>1, <1>2, ConcatProperties

LEMMA ColoursClose ==
    ASSUME job.format = "VIDEO_YUV_RGB" =>
             job.raw \in Yuvs /\ frame = formats!convert_uyvy_to_rgb(job.raw)
    PROVE  (job.format = "VIDEO_YUV_RGB") => formats!YuvClose
<1> SUFFICES ASSUME job.raw \in Yuvs, frame = formats!convert_uyvy_to_rgb(job.raw)
             PROVE  formats!YuvClose
  OBVIOUS
<1>1. PICK raw : raw = job.raw
  OBVIOUS
<1>2. raw \in (0..255) \X (0..255) \X (0..255) \X (0..255)
  BY <1>1, FormatsAssumption DEF formats!FormatsAssumption
<1>3. raw[1] \in 0..255 /\ raw[2] \in 0..255 /\ raw[3] \in 0..255 /\ raw[4] \in 0..255
  BY <1>2
<1>4. PICK u \in Int, y1 \in Int, v \in Int, y2 \in Int :
        u = raw[1] /\ y1 = raw[2] /\ v = raw[3] /\ y2 = raw[4]
  <2>1. raw[1] \in Int /\ raw[2] \in Int /\ raw[3] \in Int /\ raw[4] \in Int
    BY <1>3, SMT
  <2> QED
    BY <2>1
<1>5. PICK r1 \in Int, g1 \in Int, b1 \in Int :
        formats!Rgb(y1, u, v) = <<r1, g1, b1>> /\ IsColour(r1, g1, b1, y1, u, v)
  BY OnePixel
<1>6. PICK r2 \in Int, g2 \in Int, b2 \in Int :
        formats!Rgb(y2, u, v) = <<r2, g2, b2>> /\ IsColour(r2, g2, b2, y2, u, v)
  BY OnePixel
<1>7. frame = <<r1, g1, b1>> \o <<r2, g2, b2>>
  BY <1>1, <1>4, <1>5, <1>6 DEF formats!convert_uyvy_to_rgb
<1>8. /\ frame[1] = r1 /\ frame[2] = g1 /\ frame[3] = b1
      /\ frame[4] = r2 /\ frame[5] = g2 /\ frame[6] = b2
  BY <1>7, SixColours
<1>9. ASSUME NEW p \in 0..1
      PROVE  IsColour(frame[3 * p + 1], frame[3 * p + 2], frame[3 * p + 3],
                      raw[2 * p + 2], raw[1], raw[3])
  <2>1. CASE p = 0
    <3>1. 3 * p + 1 = 1 /\ 3 * p + 2 = 2 /\ 3 * p + 3 = 3 /\ 2 * p + 2 = 2
      BY <2>1, SMT
    <3> QED
      BY <1>4, <1>5, <1>8, <3>1
  <2>2. CASE p = 1
    <3>1. 3 * p + 1 = 4 /\ 3 * p + 2 = 5 /\ 3 * p + 3 = 6 /\ 2 * p + 2 = 4
      BY <2>2, SMT
    <3> QED
      BY <1>4, <1>6, <1>8, <3>1
  <2> QED
    BY <2>1, <2>2, SMT
<1> QED
  BY <1>1, <1>9, SMT DEF formats!YuvClose, IsColour

-----------------------------------------------------------------------------
\* Copying a part of the picture, pixel after pixel and row after row
OniCells == 0..X_RES * Y_RES
Copying == [at : Int, source : Int, data : [OniCells -> Int]]

CopyPixel(m, p, x) ==
    [at |-> p.at + (IF m THEN -1 ELSE 1), source |-> p.source + 1,
     data |-> [p.data EXCEPT ![p.at] = p.source]]

LEMMA CopyPixelKeeps ==
    ASSUME NEW m \in BOOLEAN, NEW p \in Copying
    PROVE  \A x : CopyPixel(m, p, x) \in Copying
<1>1. PICK a \in Int, s \in Int, d \in [OniCells -> Int] :
        a = p.at /\ s = p.source /\ d = p.data
  BY DEF Copying
<1>2. [d EXCEPT ![a] = s] \in [OniCells -> Int]
  OBVIOUS
<1>3. PICK e \in [OniCells -> Int] : e = [d EXCEPT ![a] = s]
  BY <1>2
<1>4. PICK b \in Int : b = a + (IF m THEN -1 ELSE 1)
  OBVIOUS
<1>5. \A x : CopyPixel(m, p, x) = [at |-> b, source |-> s + 1, data |-> e]
  BY <1>1, <1>3, <1>4 DEF CopyPixel
<1> QED
  BY <1>5 DEF Copying

PixelsCopied(m, st, n) ==
    formats!FoldLeft(LAMBDA p, x : CopyPixel(m, p, x), st, [x \in 1..n |-> x])

LEMMA PixelsOneByOne ==
    ASSUME NEW m \in BOOLEAN, NEW n \in Nat, NEW st \in Copying
    PROVE  \E f : /\ f[0] = st
                  /\ \A k \in 1..n : f[k] = CopyPixel(m, f[k - 1], k)
                  /\ PixelsCopied(m, st, n) = f[n]
<1>0. PICK q : q = [x \in 1..n |-> x]
  OBVIOUS
<1> DEFINE A == Copying
           Iter(f) == f = [s \in SUBSET (1..n) |->
                             IF s = {} THEN st
                             ELSE CopyPixel(m, f[s \ {Last(s)}], q[Last(s)])]
           G == [p \in A \X (1..n) |-> CopyPixel(m, p[1], q[p[2]])]
<1>1. PICK g : \A s \in SUBSET (1..n) :
        /\ s = {} => g[s] = st
        /\ s # {} => /\ g[s] = G[<<g[s \ {Last(s)}], Last(s)>>]
                     /\ g[s \ {Last(s)}] \in A /\ Last(s) \in 1..n
  <2>1. G \in [A \X (1..n) -> A]
    BY CopyPixelKeeps
  <2>2. PICK b \in A : b = st
    OBVIOUS
  <2> HIDE DEF G, A
  <2> QED
    BY <2>1, <2>2, FoldThere
<1>2. \E f : Iter(f)
  <2>1. \A s \in SUBSET (1..n) : s # {} =>
          g[s] = CopyPixel(m, g[s \ {Last(s)}], q[Last(s)])
    BY <1>1
  <2>2. Iter([s \in SUBSET (1..n) |-> g[s]])
    BY <1>1, <2>1
  <2> QED
    BY <2>2
<1> DEFINE h == CHOOSE f : Iter(f)
<1>3. Iter(h)
  <2> HIDE DEF Iter
  <2> QED
    BY <1>2
<1>4. PixelsCopied(m, st, n) = h[1..n]
  <2>1. formats!FoldLeft(LAMBDA p, x : CopyPixel(m, p, x), st, q) = h[1..n]
    <3>1. DOMAIN q = 1..n
      BY <1>0
    <3> QED
      BY <3>1, Zenon DEF formats!FoldLeft, formats!MapThenFoldSet, formats!Max, Last
  <2>2. PixelsCopied(m, st, n) = formats!FoldLeft(LAMBDA p, x : CopyPixel(m, p, x), st, q)
    BY <1>0, Zenon DEF PixelsCopied
  <2> QED
    BY <2>1, <2>2
<1> HIDE DEF h
<1> DEFINE f == [k \in 0..n |-> h[1..k]]
<1>5. f[0] = st
  BY <1>3, Beginnings
<1>6. ASSUME NEW k \in 1..n PROVE f[k] = CopyPixel(m, f[k - 1], k)
  <2>1. /\ 1..k \in SUBSET (1..n) /\ 1..k # {}
        /\ Last(1..k) = k /\ (1..k) \ {Last(1..k)} = 1..k - 1
    BY Beginnings
  <2>2. h[1..k] = CopyPixel(m, h[(1..k) \ {Last(1..k)}], q[Last(1..k)])
    BY <1>3, <2>1
  <2>3. q[k] = k
    BY <1>0
  <2>4. h[1..k] = CopyPixel(m, h[1..k - 1], k)
    BY <2>1, <2>2, <2>3
  <2> QED
    BY <2>4
<1>7. PixelsCopied(m, st, n) = f[n]
  BY <1>4
<1> HIDE DEF f
<1> QED
  BY <1>5, <1>6, <1>7

\* One row, from the cell s of the picture on, put where a is, to the right or to the left
LEMMA RowCopied ==
    ASSUME NEW m \in BOOLEAN, NEW n \in Nat, NEW st \in Copying
    PROVE  \E r \in Copying :
             /\ r = PixelsCopied(m, st, n)
             /\ r.at = st.at + (IF m THEN -n ELSE n)
             /\ r.source = st.source + n
             /\ \A i \in OniCells :
                  r.data[i] = IF m THEN IF i \in st.at - n + 1..st.at THEN st.source + st.at - i
                                        ELSE st.data[i]
                              ELSE IF i \in st.at..st.at + n - 1 THEN st.source + i - st.at
                                   ELSE st.data[i]
<1>1. PICK f : /\ f[0] = st
               /\ \A k \in 1..n : f[k] = CopyPixel(m, f[k - 1], k)
               /\ PixelsCopied(m, st, n) = f[n]
  BY PixelsOneByOne
<1>2. PICK a \in Int, s \in Int, d \in [OniCells -> Int] :
        a = st.at /\ s = st.source /\ d = st.data
  BY DEF Copying
<1> DEFINE Good(k) ==
      /\ f[k] \in Copying
      /\ f[k].at = a + (IF m THEN -k ELSE k)
      /\ f[k].source = s + k
      /\ \A i \in OniCells :
           f[k].data[i] = IF m THEN IF i \in a - k + 1..a THEN s + a - i ELSE d[i]
                          ELSE IF i \in a..a + k - 1 THEN s + i - a ELSE d[i]
    S == {k \in Nat : k <= n => Good(k)}
<1>3. 0 \in S
  <2>1. f[0].at = a /\ f[0].source = s /\ f[0].data = d /\ f[0] \in Copying
    BY <1>1, <1>2
  <2>2. a - 0 + 1..a = {} /\ a..a + 0 - 1 = {}
    OBVIOUS
  <2> QED
    BY <2>1, <2>2
<1>4. ASSUME NEW k \in Nat, k \in S PROVE k + 1 \in S
  <2> SUFFICES ASSUME k + 1 <= n PROVE Good(k + 1)
    OBVIOUS
  <2>1. Good(k)
    BY <1>4
  <2>2. PICK p \in Copying : p = f[k]
    BY <2>1
  <2>3. f[k + 1] = CopyPixel(m, p, k + 1)
    <3>1. k + 1 \in 1..n /\ k + 1 - 1 = k
      OBVIOUS
    <3> QED
      BY <1>1, <2>2, <3>1
  <2>4. /\ p.at = a + (IF m THEN -k ELSE k) /\ p.source = s + k
        /\ \A i \in OniCells :
             p.data[i] = IF m THEN IF i \in a - k + 1..a THEN s + a - i ELSE d[i]
                         ELSE IF i \in a..a + k - 1 THEN s + i - a ELSE d[i]
    BY <2>1, <2>2
  <2>5. f[k + 1] \in Copying
    BY <2>3, CopyPixelKeeps
  <2>6. /\ f[k + 1].at = p.at + (IF m THEN -1 ELSE 1) /\ f[k + 1].source = p.source + 1
        /\ f[k + 1].data = [p.data EXCEPT ![p.at] = p.source]
    BY <2>3 DEF CopyPixel
  <2>7. p.data \in [OniCells -> Int]
    BY <1>2 DEF Copying
  <2>8. ASSUME NEW i \in OniCells
        PROVE  f[k + 1].data[i] = IF i = p.at THEN p.source ELSE p.data[i]
    BY <2>6, <2>7
  <2>9. ASSUME NEW i \in OniCells
        PROVE  f[k + 1].data[i] = IF m THEN IF i \in a - (k + 1) + 1..a THEN s + a - i ELSE d[i]
                                  ELSE IF i \in a..a + (k + 1) - 1 THEN s + i - a ELSE d[i]
    <3>0. i \in Int
      BY Resolution DEF OniCells
    <3>1. CASE m
      <4>1. p.at = a - k /\ p.source = s + k
        BY <2>4, <3>1
      <4>2. f[k + 1].data[i] = IF i = a - k THEN s + k
                               ELSE IF i \in a - k + 1..a THEN s + a - i ELSE d[i]
        BY <2>4, <2>8, <3>1, <4>1
      <4> QED
        BY <3>0, <3>1, <4>2
    <3>2. CASE ~m
      <4>1. p.at = a + k /\ p.source = s + k
        BY <2>4, <3>2
      <4>2. f[k + 1].data[i] = IF i = a + k THEN s + k
                               ELSE IF i \in a..a + k - 1 THEN s + i - a ELSE d[i]
        BY <2>4, <2>8, <3>2, <4>1
      <4> QED
        BY <3>0, <3>2, <4>2
    <3> QED
      BY <3>1, <3>2
  <2>10. /\ f[k + 1].at = a + (IF m THEN -(k + 1) ELSE k + 1)
         /\ f[k + 1].source = s + (k + 1)
    BY <2>4, <2>6
  <2> QED
    BY <2>5, <2>9, <2>10
<1>5. Good(n)
  <2>1. n \in S
    <3> HIDE DEF S
    <3> QED
      BY <1>3, <1>4, Induction
  <2> QED
    BY <2>1
<1>6. PICK r \in Copying : r = f[n]
  BY <1>5
<1> QED
  BY <1>1, <1>2, <1>5, <1>6

\* The parts of the picture that OpenNI may ask for
LEMMA CropSizes ==
    ASSUME NEW c \in formats!Crops
    PROVE  /\ c.x \in Nat /\ c.y \in Nat
           /\ c.width \in Nat /\ c.width >= 1 /\ c.height \in Nat /\ c.height >= 1
           /\ c.x + c.width <= X_RES /\ c.y + c.height <= Y_RES
BY Resolution DEF formats!Crops

\* From one row of the frame on
CopyRow(c, m, st, y) ==
    LET r == PixelsCopied(m, st, c.width)
    IN  [r EXCEPT !.source = @ + (X_RES - c.width), !.at = @ + (IF m THEN 2 * c.width ELSE 0)]

CopyStart(c, m) ==
    [at |-> IF m THEN c.width ELSE 0, source |-> c.x + c.y * X_RES,
     data |-> [i \in OniCells |-> formats!Held]]

LEMMA RowStep ==
    ASSUME NEW c \in formats!Crops, NEW m \in BOOLEAN, NEW st \in Copying
    PROVE  \A y :
             /\ CopyRow(c, m, st, y) \in Copying
             /\ CopyRow(c, m, st, y).at = st.at + c.width
             /\ CopyRow(c, m, st, y).source = st.source + X_RES
             /\ \A i \in OniCells :
                  CopyRow(c, m, st, y).data[i]
                    = IF m THEN IF i \in st.at - c.width + 1..st.at THEN st.source + st.at - i
                                ELSE st.data[i]
                      ELSE IF i \in st.at..st.at + c.width - 1 THEN st.source + i - st.at
                           ELSE st.data[i]
<1>1. PICK w \in Nat : w = c.width
  BY CropSizes
<1>2. PICK r \in Copying :
        /\ r = PixelsCopied(m, st, w)
        /\ r.at = st.at + (IF m THEN -w ELSE w)
        /\ r.source = st.source + w
        /\ \A i \in OniCells :
             r.data[i] = IF m THEN IF i \in st.at - w + 1..st.at THEN st.source + st.at - i
                                   ELSE st.data[i]
                         ELSE IF i \in st.at..st.at + w - 1 THEN st.source + i - st.at
                              ELSE st.data[i]
  BY RowCopied
<1>3. PICK X \in Nat : X = X_RES
  BY Resolution
<1>4. ASSUME NEW y PROVE CopyRow(c, m, st, y)
                           = [r EXCEPT !.source = @ + (X - w),
                                       !.at = @ + (IF m THEN 2 * w ELSE 0)]
  BY <1>1, <1>2, <1>3 DEF CopyRow
<1>5. PICK n : n = [r EXCEPT !.source = @ + (X - w), !.at = @ + (IF m THEN 2 * w ELSE 0)]
  OBVIOUS
<1>6. /\ st.at \in Int /\ st.source \in Int /\ r.at \in Int /\ r.source \in Int
      /\ r = [at |-> r.at, source |-> r.source, data |-> r.data]
      /\ r.data \in [OniCells -> Int]
  BY DEF Copying
<1>7. n = [at |-> r.at + (IF m THEN 2 * w ELSE 0), source |-> r.source + (X - w),
           data |-> r.data]
  BY <1>5, <1>6
<1>8. n.at = r.at + (IF m THEN 2 * w ELSE 0) /\ n.source = r.source + (X - w)
      /\ n.data = r.data
  BY <1>7
<1>9. n.at = st.at + w /\ n.source = st.source + X
  BY <1>2, <1>6, <1>8
<1>10. n \in Copying
  BY <1>6, <1>7 DEF Copying
<1>11. \A y : CopyRow(c, m, st, y) = n
  BY <1>4, <1>5
<1>12. /\ n.at = st.at + c.width /\ n.source = st.source + X_RES
       /\ \A i \in OniCells :
            n.data[i] = IF m THEN IF i \in st.at - c.width + 1..st.at THEN st.source + st.at - i
                                  ELSE st.data[i]
                        ELSE IF i \in st.at..st.at + c.width - 1 THEN st.source + i - st.at
                             ELSE st.data[i]
  BY <1>1, <1>2, <1>3, <1>8, <1>9
<1> QED
  BY <1>10, <1>11, <1>12

FrameRows(c, m, st, n) ==
    formats!FoldLeft(LAMBDA p, y : CopyRow(c, m, p, y), st, [y \in 1..n |-> y])

LEMMA RowsCopied ==
    ASSUME NEW c \in formats!Crops, NEW m \in BOOLEAN, NEW n \in Nat, NEW st \in Copying
    PROVE  \E f : /\ f[0] = st
                  /\ \A k \in 1..n : f[k] = CopyRow(c, m, f[k - 1], k)
                  /\ FrameRows(c, m, st, n) = f[n]
<1>0. PICK q : q = [x \in 1..n |-> x]
  OBVIOUS
<1> DEFINE A == Copying
           Iter(f) == f = [s \in SUBSET (1..n) |->
                             IF s = {} THEN st
                             ELSE CopyRow(c, m, f[s \ {Last(s)}], q[Last(s)])]
           G == [p \in A \X (1..n) |-> CopyRow(c, m, p[1], q[p[2]])]
<1>1. PICK g : \A s \in SUBSET (1..n) :
        /\ s = {} => g[s] = st
        /\ s # {} => /\ g[s] = G[<<g[s \ {Last(s)}], Last(s)>>]
                     /\ g[s \ {Last(s)}] \in A /\ Last(s) \in 1..n
  <2>1. G \in [A \X (1..n) -> A]
    BY RowStep
  <2>2. PICK b \in A : b = st
    OBVIOUS
  <2> HIDE DEF G, A
  <2> QED
    BY <2>1, <2>2, FoldThere
<1>2. \E f : Iter(f)
  <2>1. \A s \in SUBSET (1..n) : s # {} =>
          g[s] = CopyRow(c, m, g[s \ {Last(s)}], q[Last(s)])
    BY <1>1
  <2>2. Iter([s \in SUBSET (1..n) |-> g[s]])
    BY <1>1, <2>1
  <2> QED
    BY <2>2
<1> DEFINE h == CHOOSE f : Iter(f)
<1>3. Iter(h)
  <2> HIDE DEF Iter
  <2> QED
    BY <1>2
<1>4. FrameRows(c, m, st, n) = h[1..n]
  <2>1. formats!FoldLeft(LAMBDA p, y : CopyRow(c, m, p, y), st, q) = h[1..n]
    <3>1. DOMAIN q = 1..n
      BY <1>0
    <3> QED
      BY <3>1, Zenon DEF formats!FoldLeft, formats!MapThenFoldSet, formats!Max, Last
  <2>2. FrameRows(c, m, st, n) = formats!FoldLeft(LAMBDA p, y : CopyRow(c, m, p, y), st, q)
    BY <1>0, Zenon DEF FrameRows
  <2> QED
    BY <2>1, <2>2
<1> HIDE DEF h
<1> DEFINE f == [k \in 0..n |-> h[1..k]]
<1>5. f[0] = st
  BY <1>3, Beginnings
<1>6. ASSUME NEW k \in 1..n PROVE f[k] = CopyRow(c, m, f[k - 1], k)
  <2>1. /\ 1..k \in SUBSET (1..n) /\ 1..k # {}
        /\ Last(1..k) = k /\ (1..k) \ {Last(1..k)} = 1..k - 1
    BY Beginnings
  <2>2. h[1..k] = CopyRow(c, m, h[(1..k) \ {Last(1..k)}], q[Last(1..k)])
    BY <1>3, <2>1
  <2>3. q[k] = k
    BY <1>0
  <2>4. h[1..k] = CopyRow(c, m, h[1..k - 1], k)
    BY <2>1, <2>2, <2>3
  <2> QED
    BY <2>4
<1>7. FrameRows(c, m, st, n) = f[n]
  BY <1>4
<1> HIDE DEF f
<1> QED
  BY <1>5, <1>6, <1>7

LEMMA FrameCopied ==
    ASSUME NEW c \in formats!Crops, NEW m \in BOOLEAN
    PROVE  formats!populateFrame(c, m) = FrameRows(c, m, CopyStart(c, m), c.height).data
BY Zenon DEF formats!populateFrame, formats!Copy, FrameRows, CopyRow, PixelsCopied, CopyPixel,
             CopyStart, OniCells

\* The places of a frame, row after row
LEMMA RowsApart ==
    ASSUME NEW w \in Nat, NEW y \in Nat, NEW z \in Nat, y < z
    PROVE  y * w + w <= z * w
<1>1. PICK d \in Nat : z = y + 1 + d
  <2>1. z - y - 1 \in Nat
    OBVIOUS
  <2> QED
    BY <2>1
<1>2. z * w = y * w + w + d * w /\ d * w \in Nat
  BY <1>1
<1> QED
  BY <1>2

LEMMA CropFits ==
    ASSUME NEW c \in formats!Crops, NEW y \in 0..c.height - 1
    PROVE  y * c.width + c.width <= X_RES * Y_RES
<1>1. PICK w \in Nat, h \in Nat, X \in Nat, Y \in Nat :
        /\ w = c.width /\ h = c.height /\ X = X_RES /\ Y = Y_RES
        /\ w <= X /\ h <= Y
  <2>1. c.x + c.width <= X_RES /\ c.x \in Nat /\ c.width \in Nat /\ X_RES \in Nat
    BY CropSizes, Resolution
  <2>2. c.y + c.height <= Y_RES /\ c.y \in Nat /\ c.height \in Nat /\ Y_RES \in Nat
    BY CropSizes, Resolution
  <2> QED
    BY <2>1, <2>2
<1>2. y \in Nat /\ y < Y
  BY <1>1
<1>3. y * w + w <= Y * w
  BY <1>2, RowsApart
<1>4. PICK e \in Nat : X = w + e
  <2>1. X - w \in Nat
    BY <1>1
  <2> QED
    BY <2>1
<1>5. X * Y = Y * w + e * Y /\ e * Y \in Nat /\ Y * w \in Nat
  BY <1>4
<1> QED
  BY <1>1, <1>3, <1>5

\* Where the cell in column x and row y of the part is put, and which it is
Place(c, m, x, y) == y * c.width + (IF m THEN c.width - x ELSE x)
CellAt(c, x, y) == (c.y + y) * X_RES + c.x + x

LEMMA PartCopied ==
    ASSUME NEW c \in formats!Crops, NEW m \in BOOLEAN
    PROVE  LET data == formats!populateFrame(c, m) IN
           /\ DOMAIN data = 0..X_RES * Y_RES
           /\ \A x \in 0..c.width - 1, y \in 0..c.height - 1 :
                data[Place(c, m, x, y)] = CellAt(c, x, y)
           /\ \A i \in DOMAIN data \ {Place(c, m, x, y) : x \in 0..c.width - 1,
                                                          y \in 0..c.height - 1} :
                data[i] = formats!Held
<1>1. PICK w \in Nat, h \in Nat, cx \in Nat, cy \in Nat :
        w = c.width /\ h = c.height /\ cx = c.x /\ cy = c.y /\ w >= 1
  BY CropSizes
<1>2. PICK X \in Nat, N \in Nat : X = X_RES /\ N = X_RES * Y_RES /\ OniCells = 0..N
  BY Resolution DEF OniCells
<1>3. PICK st \in Copying : /\ st = CopyStart(c, m)
                            /\ st.at = (IF m THEN w ELSE 0) /\ st.source = cx + cy * X
                            /\ \A i \in 0..N : st.data[i] = formats!Held
  <2>1. cy * X \in Int /\ [i \in OniCells |-> formats!Held] \in [OniCells -> Int]
    BY DEF formats!Held
  <2>2. PICK a \in Int, s \in Int, d \in [OniCells -> Int] :
          /\ a = (IF m THEN w ELSE 0) /\ s = cx + cy * X
          /\ d = [i \in OniCells |-> formats!Held]
    <3>1. (IF m THEN w ELSE 0) \in Int /\ cx + cy * X \in Int
      BY <2>1
    <3> QED
      BY <2>1, <3>1
  <2>3. CopyStart(c, m) = [at |-> a, source |-> s, data |-> d]
    BY <1>1, <1>2, <2>2 DEF CopyStart, OniCells
  <2>4. [at |-> a, source |-> s, data |-> d] \in Copying
    BY DEF Copying
  <2> QED
    BY <1>2, <2>2, <2>3, <2>4
<1>4. PICK f : /\ f[0] = st
               /\ \A k \in 1..h : f[k] = CopyRow(c, m, f[k - 1], k)
               /\ FrameRows(c, m, st, h) = f[h]
  BY RowsCopied
<1> DEFINE P(x, y) == y * w + (IF m THEN w - x ELSE x)
           Good(k) ==
             /\ f[k] \in Copying
             /\ f[k].at = k * w + (IF m THEN w ELSE 0)
             /\ f[k].source = cx + (cy + k) * X
             /\ \A x \in 0..w - 1, y \in 0..k - 1 : f[k].data[P(x, y)] = (cy + y) * X + cx + x
             /\ \A i \in 0..N : (\A x \in 0..w - 1, y \in 0..k - 1 : i # P(x, y))
                                  => f[k].data[i] = formats!Held
           S == {k \in Nat : k <= h => Good(k)}
<1>5. 0 \in S
  <2>1. 0 * w = 0 /\ 0..0 - 1 = {} /\ cy + 0 = cy
    OBVIOUS
  <2>2. f[0] = st
    BY <1>4
  <2>3. f[0] \in Copying /\ f[0].at = 0 * w + (IF m THEN w ELSE 0)
    BY <1>3, <2>1, <2>2
  <2>4. f[0].source = cx + (cy + 0) * X
    BY <1>3, <2>1, <2>2
  <2>5. \A i \in 0..N : f[0].data[i] = formats!Held
    BY <1>3, <2>2
  <2>6. Good(0)
    BY <2>1, <2>3, <2>4, <2>5
  <2> HIDE DEF Good
  <2> QED
    BY <2>6
<1>6. ASSUME NEW k \in Nat, k \in S PROVE k + 1 \in S
  <2> SUFFICES ASSUME k + 1 <= h PROVE Good(k + 1)
    OBVIOUS
  <2>1. Good(k)
    BY <1>6
  <2> HIDE DEF Good
  <2>2. PICK p \in Copying : p = f[k]
    BY <2>1 DEF Good
  <2>3. PICK n \in Copying : n = f[k + 1] /\ n = CopyRow(c, m, p, k + 1)
    <3>1. k + 1 \in 1..h /\ k + 1 - 1 = k
      OBVIOUS
    <3>2. f[k + 1] = CopyRow(c, m, p, k + 1)
      BY <1>4, <2>2, <3>1
    <3> QED
      BY <3>2, RowStep
  <2>4. /\ n.at = p.at + w /\ n.source = p.source + X
        /\ \A i \in 0..N :
             n.data[i] = IF m THEN IF i \in p.at - w + 1..p.at THEN p.source + p.at - i
                                   ELSE p.data[i]
                         ELSE IF i \in p.at..p.at + w - 1 THEN p.source + i - p.at
                              ELSE p.data[i]
    BY <1>1, <1>2, <2>3, RowStep
  <2>5. PICK b \in Nat, t \in Int :
          b = k * w /\ t = (cy + k) * X + cx /\ b + w <= N
    <3>1. k \in 0..c.height - 1
      BY <1>1
    <3>2. k * w + w <= N
      BY <1>1, <1>2, <3>1, CropFits
    <3>3. k * w \in Nat /\ (cy + k) * X \in Nat
      OBVIOUS
    <3> QED
      BY <3>2, <3>3
  <2>6. p.at = b + (IF m THEN w ELSE 0) /\ p.source = t
    <3>1. p.at = k * w + (IF m THEN w ELSE 0) /\ p.source = cx + (cy + k) * X
      BY <2>1, <2>2 DEF Good
    <3>2. (cy + k) * X \in Nat
      OBVIOUS
    <3> QED
      BY <2>5, <3>1, <3>2
  <2>7. (k + 1) * w = b + w /\ (cy + (k + 1)) * X = (cy + k) * X + X
    BY <2>5
  <2>8. n.at = (k + 1) * w + (IF m THEN w ELSE 0) /\ n.source = cx + (cy + (k + 1)) * X
    <3>1. (cy + k) * X \in Nat
      OBVIOUS
    <3> QED
      BY <2>4, <2>5, <2>6, <2>7, <3>1
  \* the rows before are not in the way
  <2>9. ASSUME NEW x \in 0..w - 1, NEW y \in 0..k - 1
        PROVE  /\ P(x, y) \in 0..N
               /\ m => P(x, y) <= p.at - w
               /\ ~m => P(x, y) < p.at
    <3>1. y \in Nat /\ y < k
      OBVIOUS
    <3>2. y * w + w <= k * w /\ y * w \in Nat
      BY <3>1, RowsApart
    <3> QED
      BY <2>5, <2>6, <3>2
  <2>10. ASSUME NEW x \in 0..w - 1, NEW y \in 0..k
         PROVE  n.data[P(x, y)] = (cy + y) * X + cx + x
    <3>1. CASE y \in 0..k - 1
      <4>1. PICK i \in 0..N : i = P(x, y)
        BY <2>9, <3>1
      <4>2. n.data[i] = p.data[i]
        <5>1. CASE m
          <6>1. i <= p.at - w
            BY <2>9, <3>1, <4>1, <5>1
          <6>2. i \notin p.at - w + 1..p.at
            BY <6>1, <2>6
          <6> QED
            BY <2>4, <5>1, <6>2
        <5>2. CASE ~m
          <6>1. i < p.at
            BY <2>9, <3>1, <4>1, <5>2
          <6>2. i \notin p.at..p.at + w - 1
            BY <6>1, <2>6
          <6> QED
            BY <2>4, <5>2, <6>2
        <5> QED
          BY <5>1, <5>2
      <4>3. p.data[P(x, y)] = (cy + y) * X + cx + x
        BY <2>1, <2>2, <3>1 DEF Good
      <4> QED
        BY <4>1, <4>2, <4>3
    <3>2. CASE y = k
      <4>1. PICK i \in 0..N : i = P(x, y) /\ i = b + (IF m THEN w - x ELSE x)
        BY <2>5, <3>2
      <4>2. n.data[i] = t + x
        <5>1. CASE m
          <6>1. p.at = b + w /\ i = b + w - x
            BY <2>6, <4>1, <5>1
          <6>2. i \in p.at - w + 1..p.at /\ p.source + p.at - i = t + x
            BY <2>6, <6>1
          <6> QED
            BY <2>4, <5>1, <6>2
        <5>2. CASE ~m
          <6>1. p.at = b /\ i = b + x
            BY <2>6, <4>1, <5>2
          <6>2. i \in p.at..p.at + w - 1 /\ p.source + i - p.at = t + x
            BY <2>6, <6>1
          <6> QED
            BY <2>4, <5>2, <6>2
        <5> QED
          BY <5>1, <5>2
      <4> QED
        BY <2>5, <3>2, <4>1, <4>2
    <3> QED
      BY <3>1, <3>2
  <2>11. ASSUME NEW i \in 0..N, \A x \in 0..w - 1, y \in 0..k : i # P(x, y)
         PROVE  n.data[i] = formats!Held
    <3>1. p.data[i] = formats!Held
      <4>1. \A x \in 0..w - 1, y \in 0..k - 1 : i # P(x, y)
        BY <2>11
      <4> QED
        BY <2>1, <2>2, <4>1 DEF Good
    <3>2. \A x \in 0..w - 1 : i # b + (IF m THEN w - x ELSE x)
      BY <2>5, <2>11
    <3>3. CASE m
      <4>1. i \notin b + 1..b + w
        <5> SUFFICES ASSUME i \in b + 1..b + w PROVE FALSE
          OBVIOUS
        <5>1. b + w - i \in 0..w - 1 /\ i = b + (w - (b + w - i))
          OBVIOUS
        <5> QED
          BY <3>2, <3>3, <5>1
      <4>2. p.at = b + w
        BY <2>6, <3>3
      <4>3. i \notin p.at - w + 1..p.at
        BY <4>1, <4>2
      <4> QED
        BY <2>4, <3>1, <3>3, <4>3
    <3>4. CASE ~m
      <4>1. i \notin b..b + w - 1
        <5> SUFFICES ASSUME i \in b..b + w - 1 PROVE FALSE
          OBVIOUS
        <5>1. i - b \in 0..w - 1 /\ i = b + (i - b)
          OBVIOUS
        <5> QED
          BY <3>2, <3>4, <5>1
      <4>2. p.at = b
        BY <2>6, <3>4
      <4>3. i \notin p.at..p.at + w - 1
        BY <4>1, <4>2
      <4> QED
        BY <2>4, <3>1, <3>4, <4>3
    <3> QED
      BY <3>3, <3>4
  <2>12. k = k + 1 - 1
    OBVIOUS
  <2> QED
    BY <2>3, <2>8, <2>10, <2>11, <2>12 DEF Good
<1>7. Good(h)
  <2>1. h \in S
    <3> HIDE DEF S
    <3> QED
      BY <1>5, <1>6, Induction
  <2>2. h \in Nat /\ h <= h
    OBVIOUS
  <2> HIDE DEF Good
  <2> QED
    BY <2>1, <2>2
<1>8. formats!populateFrame(c, m) = f[h].data
  BY <1>1, <1>3, <1>4, FrameCopied
<1>9. DOMAIN f[h].data = 0..N
  <2>1. f[h].data \in [0..N -> Int]
    BY <1>2, <1>7 DEF Copying
  <2> QED
    BY <2>1
<1>10. \A x, y : Place(c, m, x, y) = P(x, y) /\ CellAt(c, x, y) = (cy + y) * X + cx + x
  BY <1>1, <1>2 DEF Place, CellAt
<1>11. \A x \in 0..w - 1, y \in 0..h - 1 : f[h].data[P(x, y)] = (cy + y) * X + cx + x
  BY <1>7
<1>12. \A i \in 0..N : (\A x \in 0..w - 1, y \in 0..h - 1 : i # P(x, y))
                         => f[h].data[i] = formats!Held
  BY <1>7
<1> HIDE DEF P
<1> DEFINE W == 0..c.width - 1
           H == 0..c.height - 1
<1>13. \A i \in 0..N : (\A x \in W, y \in H : i # Place(c, m, x, y))
                         => f[h].data[i] = formats!Held
  BY <1>1, <1>10, <1>12
<1>14. \A x \in 0..w - 1, y \in 0..h - 1 : f[h].data[Place(c, m, x, y)] = CellAt(c, x, y)
  BY <1>10, <1>11
<1>16. PICK data : data = f[h].data
  OBVIOUS
<1>17. /\ DOMAIN data = 0..X_RES * Y_RES
       /\ \A x \in 0..c.width - 1, y \in 0..c.height - 1 :
            data[Place(c, m, x, y)] = CellAt(c, x, y)
       /\ \A i \in DOMAIN data \ {Place(c, m, x, y) : x \in 0..c.width - 1,
                                                      y \in 0..c.height - 1} :
            data[i] = formats!Held
  <2>1. DOMAIN data = 0..N
    BY <1>9, <1>16
  <2>2. DOMAIN data = 0..X_RES * Y_RES
    BY <1>2, <2>1
  <2>3. 0..c.width - 1 = 0..w - 1 /\ 0..c.height - 1 = 0..h - 1
    BY <1>1
  <2>4. \A x \in 0..c.width - 1, y \in 0..c.height - 1 :
          data[Place(c, m, x, y)] = CellAt(c, x, y)
    BY <1>14, <1>16, <2>3
  <2>6. \A i \in DOMAIN data \ {Place(c, m, x, y) : x \in 0..c.width - 1,
                                                  y \in 0..c.height - 1} :
          data[i] = formats!Held
    <3> HIDE DEF W, H
    <3> SUFFICES ASSUME NEW i \in 0..N,
                        i \notin {Place(c, m, x, y) : x \in W, y \in H}
                 PROVE  data[i] = formats!Held
      BY <2>1 DEF W, H
    <3> QED
      BY <1>13, <1>16
  <2> QED
    BY <2>2, <2>4, <2>6
<1> QED
  BY <1>8, <1>16, <1>17

LEMMA CopiedInPlace ==
    ASSUME job.format = "ONI" =>
             /\ job.crop \in formats!Crops /\ job.mirroring \in BOOLEAN
             /\ frame = formats!populateFrame(job.crop, job.mirroring)
    PROVE  (job.format = "ONI") => formats!CroppedInPlace
<1> SUFFICES ASSUME job.crop \in formats!Crops, job.mirroring \in BOOLEAN,
                    frame = formats!populateFrame(job.crop, job.mirroring)
             PROVE  formats!CroppedInPlace
  OBVIOUS
<1> QED
  BY PartCopied DEF formats!CroppedInPlace, Place, CellAt

-----------------------------------------------------------------------------
\* The bytes of a packed frame, and its bits
Octets == 0..255
BitIn(x, j) == (x \div 2 ^ (7 - j)) % 2
BitOf(raw, n) == BitIn(raw[(n \div 8) + 1], n % 8)

\* The uppermost j bits of a byte
Top(x, j) == x \div 2 ^ (8 - j)

LEMMA SmallPowers ==
    /\ 2 ^ 0 = 1 /\ 2 ^ 1 = 2 /\ 2 ^ 2 = 4 /\ 2 ^ 3 = 8 /\ 2 ^ 4 = 16 /\ 2 ^ 5 = 32 /\ 2 ^ 6 = 64
    /\ 2 ^ 7 = 128 /\ 2 ^ 8 = 256
BY SMT

LEMMA LargePowers == 2 ^ 10 = 1024 /\ 2 ^ 11 = 2048 /\ 2 ^ 22 = 4194304
BY SMT

LEMMA Doubled ==
    ASSUME NEW i \in 0..7
    PROVE  2 ^ (i + 1) = 2 * 2 ^ i /\ 2 ^ i \in Nat
<1>1. CASE i = 0
  BY <1>1, SmallPowers, SMT
<1>2. CASE i = 1
  BY <1>2, SmallPowers, SMT
<1>3. CASE i = 2
  BY <1>3, SmallPowers, SMT
<1>4. CASE i = 3
  BY <1>4, SmallPowers, SMT
<1>5. CASE i = 4
  BY <1>5, SmallPowers, SMT
<1>6. CASE i = 5
  BY <1>6, SmallPowers, SMT
<1>7. CASE i = 6
  BY <1>7, SmallPowers, SMT
<1>8. CASE i = 7
  BY <1>8, SmallPowers, SMT
<1> QED
  BY <1>1, <1>2, <1>3, <1>4, <1>5, <1>6, <1>7, <1>8

\* One bit more of the top
LEMMA NextBit ==
    ASSUME NEW x \in Octets, NEW j \in 0..7
    PROVE  /\ Top(x, j + 1) = 2 * Top(x, j) + BitIn(x, j)
           /\ Top(x, j) \in Nat /\ Top(x, j + 1) \in Nat /\ BitIn(x, j) \in 0..1
<1>1. PICK i \in 0..7 : i = 7 - j
  OBVIOUS
<1>2. PICK p \in Nat : p = 2 ^ i /\ 2 ^ (i + 1) = 2 * p
  BY Doubled
<1>3. p > 0
  <2>1. CASE i = 0
    BY <1>2, <2>1, SmallPowers, SMT
  <2>2. CASE i = 1
    BY <1>2, <2>2, SmallPowers, SMT
  <2>3. CASE i = 2
    BY <1>2, <2>3, SmallPowers, SMT
  <2>4. CASE i = 3
    BY <1>2, <2>4, SmallPowers, SMT
  <2>5. CASE i = 4
    BY <1>2, <2>5, SmallPowers, SMT
  <2>6. CASE i = 5
    BY <1>2, <2>6, SmallPowers, SMT
  <2>7. CASE i = 6
    BY <1>2, <2>7, SmallPowers, SMT
  <2>8. CASE i = 7
    BY <1>2, <2>8, SmallPowers, SMT
  <2> QED
    BY <2>1, <2>2, <2>3, <2>4, <2>5, <2>6, <2>7, <2>8
<1>4. PICK q \in Nat : q = x \div p
  BY <1>3 DEF Octets
<1>5. PICK h \in Nat : h = x \div (2 * p)
  BY <1>3 DEF Octets
<1>6. h = q \div 2
  BY <1>3, <1>4, <1>5, SMTT(60) DEF Octets
<1>7. Top(x, j + 1) = q /\ Top(x, j) = h
  <2>1. 8 - (j + 1) = i /\ 8 - j = i + 1
    BY <1>1
  <2> QED
    BY <1>2, <1>4, <1>5, <2>1 DEF Top
<1>8. BitIn(x, j) = q % 2
  BY <1>1, <1>2, <1>4 DEF BitIn
<1>9. q = 2 * h + (q % 2) /\ q % 2 \in 0..1
  BY <1>6
<1> QED
  BY <1>7, <1>8, <1>9

\* A number that takes the bits of a byte from place o on
TakesBits(f, b, x, o, l) ==
    /\ x \in Octets /\ o \in 0..7 /\ l \in 0..8 /\ b \in Nat /\ o + l <= 8
    /\ f[b] \in Int /\ \A i \in 1..l : f[b + i] = 2 * f[b + i - 1] + BitIn(x, o + i - 1)
BitsTaken(f, b, x, o, l) == f[b + l] = 2 ^ l * (f[b] - Top(x, o)) + Top(x, o + l)

LEMMA BitsOfByte == \A f, b, x, o, l : TakesBits(f, b, x, o, l) => BitsTaken(f, b, x, o, l)
<1> SUFFICES ASSUME NEW f, NEW b, NEW x, NEW o, NEW l, TakesBits(f, b, x, o, l)
             PROVE  BitsTaken(f, b, x, o, l)
  OBVIOUS
<1>0. /\ x \in Octets /\ o \in 0..7 /\ l \in 0..8 /\ b \in Nat /\ o + l <= 8
      /\ f[b] \in Int /\ \A i \in 1..l : f[b + i] = 2 * f[b + i - 1] + BitIn(x, o + i - 1)
  BY DEF TakesBits
<1> USE <1>0
<1>1. PICK t \in Int : t = f[b] - Top(x, o)
  <2>1. Top(x, o) \in Nat
    BY NextBit
  <2> QED
    BY <2>1
<1> DEFINE Good(i) == f[b + i] = 2 ^ i * t + Top(x, o + i) /\ 2 ^ i \in Nat
           S == {i \in Nat : i <= l => Good(i)}
<1>2. 0 \in S
  <2>1. 2 ^ 0 = 1 /\ b + 0 = b /\ o + 0 = o
    BY SmallPowers, SMT
  <2>2. Top(x, o) \in Nat
    BY NextBit
  <2>3. Top(x, o + 0) = Top(x, o) /\ f[b + 0] = f[b]
    BY <2>1
  <2>4. f[b] = 1 * t + Top(x, o)
    BY <1>1, <2>2
  <2>5. Good(0)
    BY <2>1, <2>3, <2>4
  <2> QED
    BY <2>5
<1>3. ASSUME NEW i \in Nat, i \in S PROVE i + 1 \in S
  <2> SUFFICES ASSUME i + 1 <= l PROVE Good(i + 1)
    OBVIOUS
  <2>1. f[b + i] = 2 ^ i * t + Top(x, o + i)
    BY <1>3
  <2>2. PICK p \in Nat : p = 2 ^ i /\ 2 ^ (i + 1) = 2 * p
    <3>1. i \in 0..7
      OBVIOUS
    <3> QED
      BY <3>1, Doubled
  <2>3. PICK j \in 0..7 : j = o + i
    OBVIOUS
  <2>4. PICK u \in Nat, v \in Nat, w \in 0..1 :
          u = Top(x, j) /\ v = Top(x, j + 1) /\ w = BitIn(x, j) /\ v = 2 * u + w
    BY NextBit
  <2>5. f[b + (i + 1)] = 2 * f[b + i] + w
    <3>1. i + 1 \in 1..l /\ b + (i + 1) - 1 = b + i /\ o + (i + 1) - 1 = j
      BY <2>3
    <3> QED
      BY <2>4, <3>1
  <2>6. f[b + (i + 1)] = 2 * (p * t + u) + w
    BY <2>1, <2>2, <2>3, <2>4, <2>5
  <2>7. 2 * (p * t + u) + w = (2 * p) * t + v
    BY <2>4
  <2>8. Top(x, o + (i + 1)) = v
    <3>1. o + (i + 1) = j + 1
      BY <2>3
    <3> QED
      BY <2>4, <3>1
  <2>9. f[b + (i + 1)] = 2 ^ (i + 1) * t + Top(x, o + (i + 1))
    BY <2>2, <2>6, <2>7, <2>8
  <2>10. 2 ^ (i + 1) \in Nat
    BY <2>2
  <2> QED
    BY <2>9, <2>10
<1>4. Good(l)
  <2>1. l \in Nat
    OBVIOUS
  <2>2. l \in S
    <3> HIDE DEF S
    <3> QED
      BY <1>2, <1>3, <2>1, Induction
  <2> QED
    BY <2>1, <2>2
<1> QED
  BY <1>1, <1>4 DEF BitsTaken

\* The k-th element, taken bit by bit from bit s on
LEMMA ElementByBits ==
    ASSUME NEW raw \in Seq(Octets), NEW w \in Nat, NEW k \in Nat \ {0},
           \A b \in 1..w : BitOf(raw, (k - 1) * w + b - 1) \in 0..1
    PROVE  \E f : /\ f[0] = 0
                  /\ \A b \in 1..w : f[b] = 2 * f[b - 1] + BitOf(raw, (k - 1) * w + b - 1)
                  /\ \A b \in 0..w : f[b] \in Int
                  /\ formats!Element(raw, w, k) = f[w]
<1>0. PICK q : q = [b \in 1..w |-> (k - 1) * w + b - 1]
  OBVIOUS
<1> DEFINE A == Int
           Iter(f) == f = [s \in SUBSET (1..w) |->
                             IF s = {} THEN 0
                             ELSE 2 * f[s \ {Last(s)}] + BitOf(raw, q[Last(s)])]
           G == [p \in A \X (1..w) |-> 2 * p[1] + BitOf(raw, q[p[2]])]
<1>1. PICK g : \A s \in SUBSET (1..w) :
        /\ s = {} => g[s] = 0
        /\ s # {} => /\ g[s] = G[<<g[s \ {Last(s)}], Last(s)>>]
                     /\ g[s \ {Last(s)}] \in A /\ Last(s) \in 1..w
  <2>1. \A i \in 1..w : BitOf(raw, q[i]) \in Int
    <3>1. \A i \in 1..w : q[i] = (k - 1) * w + i - 1
      BY <1>0
    <3> QED
      BY <3>1
  <2>2. G \in [A \X (1..w) -> A]
    BY <2>1
  <2>3. PICK b \in A : b = 0
    OBVIOUS
  <2> HIDE DEF G, A
  <2> QED
    BY <2>2, <2>3, FoldThere
<1>2. \E f : Iter(f)
  <2>1. \A s \in SUBSET (1..w) : s # {} =>
          g[s] = 2 * g[s \ {Last(s)}] + BitOf(raw, q[Last(s)])
    BY <1>1
  <2>2. Iter([s \in SUBSET (1..w) |-> g[s]])
    BY <1>1, <2>1
  <2> QED
    BY <2>2
<1> DEFINE h == CHOOSE f : Iter(f)
<1>3. Iter(h)
  <2> HIDE DEF Iter
  <2> QED
    BY <1>2
<1>4. formats!Element(raw, w, k) = h[1..w]
  <2>1. formats!FoldLeft(LAMBDA v, n : 2 * v + BitOf(raw, n), 0, q) = h[1..w]
    <3>1. DOMAIN q = 1..w
      BY <1>0
    <3> QED
      BY <3>1, Zenon DEF formats!FoldLeft, formats!MapThenFoldSet, formats!Max, Last
  <2>2. formats!Element(raw, w, k) = formats!FoldLeft(LAMBDA v, n : 2 * v + BitOf(raw, n), 0, q)
    BY <1>0, Zenon DEF formats!Element, BitOf, BitIn
  <2> QED
    BY <2>1, <2>2
<1> HIDE DEF h
<1> DEFINE f == [b \in 0..w |-> h[1..b]]
<1>5. f[0] = 0
  BY <1>3, Beginnings
<1>6. ASSUME NEW b \in 1..w
      PROVE  f[b] = 2 * f[b - 1] + BitOf(raw, (k - 1) * w + b - 1)
  <2>1. /\ 1..b \in SUBSET (1..w) /\ 1..b # {}
        /\ Last(1..b) = b /\ (1..b) \ {Last(1..b)} = 1..b - 1
    BY Beginnings
  <2>2. h[1..b] = 2 * h[(1..b) \ {Last(1..b)}] + BitOf(raw, q[Last(1..b)])
    BY <1>3, <2>1
  <2>3. q[b] = (k - 1) * w + b - 1
    BY <1>0
  <2>4. h[1..b] = 2 * h[1..b - 1] + BitOf(raw, (k - 1) * w + b - 1)
    BY <2>1, <2>2, <2>3
  <2> QED
    BY <2>4
<1>7. formats!Element(raw, w, k) = f[w]
  BY <1>4
<1> HIDE DEF f
<1>8. \A b \in 0..w : f[b] \in Int
  <2> DEFINE S == {b \in Nat : b <= w => f[b] \in Int}
  <2>1. 0 \in S
    BY <1>5
  <2>2. ASSUME NEW b \in Nat, b \in S PROVE b + 1 \in S
    <3> SUFFICES ASSUME b + 1 <= w PROVE f[b + 1] \in Int
      OBVIOUS
    <3>1. b + 1 \in 1..w /\ b + 1 - 1 = b /\ f[b] \in Int
      BY <2>2
    <3>2. BitOf(raw, (k - 1) * w + (b + 1) - 1) \in 0..1
      BY <3>1
    <3>3. f[b + 1] = 2 * f[b] + BitOf(raw, (k - 1) * w + (b + 1) - 1)
      BY <1>6, <3>1
    <3> QED
      BY <3>1, <3>2, <3>3
  <2>3. Nat \subseteq S
    <3> HIDE DEF S
    <3> QED
      BY <2>1, <2>2, Induction
  <2> QED
    BY <2>3
<1> QED
  BY <1>5, <1>6, <1>7, <1>8

\* All bits of a byte are the byte, and none are 0.
LEMMA WholeByte ==
    ASSUME NEW x \in Octets
    PROVE  Top(x, 8) = x /\ Top(x, 0) = 0
<1>1. 8 - 8 = 0 /\ 8 - 0 = 8
  BY SMT
<1>2. Top(x, 8) = x \div 1 /\ Top(x, 0) = x \div 256
  BY <1>1, SmallPowers, SMT DEF Top
<1> QED
  BY <1>2, SMT DEF Octets

\* The bits from place o of the j-th byte on
LEMMA BitsFrom ==
    ASSUME NEW raw \in Seq(Octets), NEW j \in Nat \ {0}, NEW o \in Nat,
           j + o \div 8 <= Len(raw)
    PROVE  /\ BitOf(raw, 8 * (j - 1) + o) = BitIn(raw[j + o \div 8], o % 8)
           /\ BitOf(raw, 8 * (j - 1) + o) \in 0..1
<1>1. PICK i \in Nat, l \in 0..7 : i = o \div 8 /\ l = o % 8
  BY SMT
<1>2. (8 * (j - 1) + o) \div 8 = j - 1 + i /\ (8 * (j - 1) + o) % 8 = l
  BY <1>1, SMT
<1>3. BitOf(raw, 8 * (j - 1) + o) = BitIn(raw[j + i], l)
  <2>1. (j - 1 + i) + 1 = j + i
    BY SMT
  <2> QED
    BY <1>2, <2>1 DEF BitOf
<1>4. raw[j + i] \in Octets
  <2>1. j + i \in 1..Len(raw)
    BY <1>1, SMT
  <2> QED
    BY <2>1, ElementOfSeq
<1>5. BitIn(raw[j + i], l) \in 0..1
  BY <1>4, NextBit
<1> QED
  BY <1>1, <1>3, <1>5

\* An element that is in two bytes
LEMMA InTwoBytes ==
    ASSUME NEW raw \in Seq(Octets), NEW w \in 8..16, NEW k \in Nat \ {0},
           NEW j \in Nat \ {0}, NEW o \in 0..7,
           (k - 1) * w = 8 * (j - 1) + o, j + 1 <= Len(raw), o + w <= 16
    PROVE  formats!Element(raw, w, k)
             = 2 ^ (o + w - 8) * (raw[j] - 2 ^ (8 - o) * Top(raw[j], o))
                 + Top(raw[j + 1], o + w - 8)
<1>1. PICK x \in Octets, y \in Octets : x = raw[j] /\ y = raw[j + 1]
  <2>1. j \in 1..Len(raw) /\ j + 1 \in 1..Len(raw)
    BY SMT
  <2>2. raw[j] \in Octets /\ raw[j + 1] \in Octets
    BY <2>1, ElementOfSeq
  <2> QED
    BY <2>2
<1>2. ASSUME NEW b \in 1..w
      PROVE  /\ b <= 8 - o => BitOf(raw, (k - 1) * w + b - 1) = BitIn(x, o + b - 1)
             /\ b > 8 - o => BitOf(raw, (k - 1) * w + b - 1) = BitIn(y, o + b - 9)
             /\ BitOf(raw, (k - 1) * w + b - 1) \in 0..1
  <2>1. PICK n \in Nat : n = o + b - 1 /\ n < 16
    BY SMT
  <2>2. (k - 1) * w + b - 1 = 8 * (j - 1) + n
    BY <2>1, SMT
  <2>3. CASE b <= 8 - o
    <3>1. n \div 8 = 0 /\ n % 8 = n
      <4>1. n < 8
        BY <2>1, <2>3
      <4> QED
        BY <4>1, SMT
    <3>2. j + n \div 8 <= Len(raw) /\ j + n \div 8 = j
      BY <3>1, SMT
    <3>3. BitOf(raw, 8 * (j - 1) + n) = BitIn(x, n) /\ BitOf(raw, 8 * (j - 1) + n) \in 0..1
      BY <1>1, <3>1, <3>2, BitsFrom
    <3> QED
      BY <2>1, <2>2, <2>3, <3>3
  <2>4. CASE b > 8 - o
    <3>1. n \div 8 = 1 /\ n % 8 = o + b - 9
      <4>1. PICK e \in 0..7 : n = 8 + e /\ e = o + b - 9
        <5>1. o + b - 9 \in 0..7
          BY <2>1, <2>4
        <5> QED
          BY <2>1, <5>1
      <4>2. (8 + e) \div 8 = 1 /\ (8 + e) % 8 = e
        BY SMT
      <4> QED
        BY <4>1, <4>2
    <3>2. j + n \div 8 <= Len(raw) /\ j + n \div 8 = j + 1
      BY <3>1, SMT
    <3>3. /\ BitOf(raw, 8 * (j - 1) + n) = BitIn(y, o + b - 9)
          /\ BitOf(raw, 8 * (j - 1) + n) \in 0..1
      BY <1>1, <3>1, <3>2, BitsFrom
    <3> QED
      BY <2>2, <2>4, <3>3
  <2> QED
    BY <2>3, <2>4, SMT
<1>3. PICK f : /\ f[0] = 0
               /\ \A b \in 1..w : f[b] = 2 * f[b - 1] + BitOf(raw, (k - 1) * w + b - 1)
               /\ \A b \in 0..w : f[b] \in Int
               /\ formats!Element(raw, w, k) = f[w]
  <2>1. w \in Nat
    BY SMT
  <2> QED
    BY <1>2, <2>1, ElementByBits
<1>4. PICK l \in 0..8, m \in 0..8 : l = 8 - o /\ m = o + w - 8 /\ l + m = w
  BY SMT
<1>5. f[l] = 2 ^ l * (f[0] - Top(x, o)) + Top(x, 8)
  <2>1. \A i \in 1..l : f[0 + i] = 2 * f[0 + i - 1] + BitIn(x, o + i - 1)
    <3> SUFFICES ASSUME NEW i \in 1..l PROVE f[0 + i] = 2 * f[0 + i - 1] + BitIn(x, o + i - 1)
      OBVIOUS
    <3>1. i \in 1..w /\ i <= 8 - o /\ 0 + i = i
      BY <1>4, SMT
    <3> QED
      BY <1>2, <1>3, <3>1
  <2>2. PICK z \in Nat : z = 0
    OBVIOUS
  <2>3. o + l <= 8 /\ o + l = 8 /\ z + l = l
    BY <1>4, <2>2, SMT
  <2>5. x \in Octets /\ o \in 0..7 /\ l \in 0..8 /\ z \in Nat
    BY <1>1, <1>4, <2>2
  <2>6. o + l <= 8
    BY <2>3
  <2>7. f[z + l] = 2 ^ l * (f[z] - Top(x, o)) + Top(x, o + l)
    <3>1. TakesBits(f, z, x, o, l)
      BY <1>3, <2>1, <2>2, <2>5, <2>6 DEF TakesBits
    <3>2. BitsTaken(f, z, x, o, l)
      BY <3>1, BitsOfByte
    <3> QED
      BY <3>2 DEF BitsTaken
  <2> QED
    BY <2>2, <2>3, <2>7
<1>6. f[l + m] = 2 ^ m * (f[l] - Top(y, 0)) + Top(y, m)
  <2>1. \A i \in 1..m : f[l + i] = 2 * f[l + i - 1] + BitIn(y, 0 + i - 1)
    <3> SUFFICES ASSUME NEW i \in 1..m PROVE f[l + i] = 2 * f[l + i - 1] + BitIn(y, 0 + i - 1)
      OBVIOUS
    <3>1. PICK b \in 1..w : b = l + i
      BY <1>4, SMT
    <3>2. b > 8 - o /\ o + b - 9 = 0 + i - 1
      BY <1>4, <3>1, SMT
    <3>3. f[b] = 2 * f[b - 1] + BitIn(y, o + b - 9)
      BY <1>2, <1>3, <3>2
    <3> QED
      BY <3>1, <3>2, <3>3
  <2>2. PICK z \in 0..7 : z = 0
    BY SMT
  <2>3. z + m <= 8 /\ z + m = m /\ l \in Nat /\ l \in 0..w
    BY <1>4, <2>2, SMT
  <2>5. y \in Octets /\ z \in 0..7 /\ m \in 0..8 /\ l \in Nat
    BY <1>1, <1>4, <2>2, <2>3
  <2>6. z + m <= 8
    BY <2>3
  <2>7. f[l + m] = 2 ^ m * (f[l] - Top(y, z)) + Top(y, z + m)
    <3>1. TakesBits(f, l, y, z, m)
      BY <1>3, <2>1, <2>2, <2>3, <2>5, <2>6 DEF TakesBits
    <3>2. BitsTaken(f, l, y, z, m)
      BY <3>1, BitsOfByte
    <3> QED
      BY <3>2 DEF BitsTaken
  <2> QED
    BY <2>2, <2>3, <2>7
<1>7. Top(x, 8) = x /\ Top(y, 0) = 0
  BY WholeByte
<1>8. f[l] = x - 2 ^ l * Top(x, o)
  <2>1. PICK p \in Int, t \in Int : p = 2 ^ l /\ t = Top(x, o)
    <3>1. 2 ^ l \in Int
      <4>1. CASE l = 8
        BY <4>1, SmallPowers, SMT
      <4>2. CASE l # 8
        <5>1. l \in 0..7
          BY <4>2, SMT
        <5> QED
          BY <5>1, Doubled
      <4> QED
        BY <4>1, <4>2
    <3>2. Top(x, o) \in Nat
      BY NextBit
    <3> QED
      BY <3>1, <3>2
  <2>2. p * (0 - t) + x = x - p * t
    BY <2>1, SMT DEF Octets
  <2> QED
    BY <1>3, <1>5, <1>7, <2>1, <2>2
<1>9. f[l] - 0 = f[l]
  <2>1. l \in 0..w
    BY <1>4, SMT
  <2>2. f[l] \in Int
    BY <1>3, <2>1
  <2> QED
    BY <2>2
<1>10. f[w] = 2 ^ m * f[l] + Top(y, m)
  BY <1>4, <1>6, <1>7, <1>9
<1> QED
  BY <1>1, <1>3, <1>4, <1>8, <1>10

\* ... and one that is in three
LEMMA InThreeBytes ==
    ASSUME NEW raw \in Seq(Octets), NEW w \in 9..16, NEW k \in Nat \ {0},
           NEW j \in Nat \ {0}, NEW o \in 0..7,
           (k - 1) * w = 8 * (j - 1) + o, j + 2 <= Len(raw), o + w >= 17
    PROVE  formats!Element(raw, w, k)
             = 2 ^ (o + w - 16) * (256 * (raw[j] - 2 ^ (8 - o) * Top(raw[j], o)) + raw[j + 1])
                 + Top(raw[j + 2], o + w - 16)
<1>1. PICK x \in Octets, u \in Octets, y \in Octets :
        x = raw[j] /\ u = raw[j + 1] /\ y = raw[j + 2]
  <2>1. j \in 1..Len(raw) /\ j + 1 \in 1..Len(raw) /\ j + 2 \in 1..Len(raw)
    BY SMT
  <2>2. raw[j] \in Octets /\ raw[j + 1] \in Octets /\ raw[j + 2] \in Octets
    BY <2>1, ElementOfSeq
  <2> QED
    BY <2>2
<1>2. ASSUME NEW b \in 1..w
      PROVE  /\ b <= 8 - o => BitOf(raw, (k - 1) * w + b - 1) = BitIn(x, o + b - 1)
             /\ b > 8 - o /\ b <= 16 - o =>
                  BitOf(raw, (k - 1) * w + b - 1) = BitIn(u, o + b - 9)
             /\ b > 16 - o => BitOf(raw, (k - 1) * w + b - 1) = BitIn(y, o + b - 17)
             /\ BitOf(raw, (k - 1) * w + b - 1) \in 0..1
  <2>1. PICK n \in Nat : n = o + b - 1 /\ n < 24
    BY SMT
  <2>2. (k - 1) * w + b - 1 = 8 * (j - 1) + n
    BY <2>1, SMT
  <2>3. CASE b <= 8 - o
    <3>1. n \div 8 = 0 /\ n % 8 = n
      <4>1. n < 8
        BY <2>1, <2>3
      <4> QED
        BY <4>1, SMT
    <3>2. j + n \div 8 <= Len(raw) /\ j + n \div 8 = j
      BY <3>1, SMT
    <3>3. BitOf(raw, 8 * (j - 1) + n) = BitIn(x, n) /\ BitOf(raw, 8 * (j - 1) + n) \in 0..1
      BY <1>1, <3>1, <3>2, BitsFrom
    <3> QED
      BY <2>1, <2>2, <2>3, <3>3
  <2>4. CASE b > 8 - o /\ b <= 16 - o
    <3>1. n \div 8 = 1 /\ n % 8 = o + b - 9
      <4>1. PICK e \in 0..7 : n = 8 + e /\ e = o + b - 9
        <5>1. o + b - 9 \in 0..7
          BY <2>1, <2>4
        <5> QED
          BY <2>1, <5>1
      <4>2. (8 + e) \div 8 = 1 /\ (8 + e) % 8 = e
        BY SMT
      <4> QED
        BY <4>1, <4>2
    <3>2. j + n \div 8 <= Len(raw) /\ j + n \div 8 = j + 1
      BY <3>1, SMT
    <3>3. /\ BitOf(raw, 8 * (j - 1) + n) = BitIn(u, o + b - 9)
          /\ BitOf(raw, 8 * (j - 1) + n) \in 0..1
      BY <1>1, <3>1, <3>2, BitsFrom
    <3> QED
      BY <2>2, <2>4, <3>3
  <2>5. CASE b > 16 - o
    <3>1. n \div 8 = 2 /\ n % 8 = o + b - 17
      <4>1. PICK e \in 0..7 : n = 16 + e /\ e = o + b - 17
        <5>1. o + b - 17 \in 0..7
          BY <2>1, <2>5
        <5> QED
          BY <2>1, <5>1
      <4>2. (16 + e) \div 8 = 2 /\ (16 + e) % 8 = e
        BY SMT
      <4> QED
        BY <4>1, <4>2
    <3>2. j + n \div 8 <= Len(raw) /\ j + n \div 8 = j + 2
      BY <3>1, SMT
    <3>3. /\ BitOf(raw, 8 * (j - 1) + n) = BitIn(y, o + b - 17)
          /\ BitOf(raw, 8 * (j - 1) + n) \in 0..1
      BY <1>1, <3>1, <3>2, BitsFrom
    <3> QED
      BY <2>2, <2>5, <3>3
  <2> QED
    BY <2>3, <2>4, <2>5, SMT
<1>3. PICK f : /\ f[0] = 0
               /\ \A b \in 1..w : f[b] = 2 * f[b - 1] + BitOf(raw, (k - 1) * w + b - 1)
               /\ \A b \in 0..w : f[b] \in Int
               /\ formats!Element(raw, w, k) = f[w]
  <2>1. w \in Nat
    BY SMT
  <2> QED
    BY <1>2, <2>1, ElementByBits
<1>4. PICK l \in 0..8, e \in 0..8, m \in 0..8 :
        l = 8 - o /\ e = 8 /\ m = o + w - 16 /\ l + e + m = w
  BY SMT
<1>6. f[l] = 2 ^ l * (f[0] - Top(x, o)) + Top(x, 8)
  <2>1. \A i \in 1..l : f[0 + i] = 2 * f[0 + i - 1] + BitIn(x, o + i - 1)
    <3> SUFFICES ASSUME NEW i \in 1..l PROVE f[0 + i] = 2 * f[0 + i - 1] + BitIn(x, o + i - 1)
      OBVIOUS
    <3>1. i \in 1..w /\ i <= 8 - o /\ 0 + i = i
      BY <1>4, SMT
    <3> QED
      BY <1>2, <1>3, <3>1
  <2>2. PICK z \in Nat : z = 0
    OBVIOUS
  <2>3. o + l <= 8 /\ o + l = 8 /\ z + l = l
    BY <1>4, <2>2, SMT
  <2>5. x \in Octets /\ o \in 0..7 /\ l \in 0..8 /\ z \in Nat
    BY <1>1, <1>4, <2>2
  <2>6. o + l <= 8
    BY <2>3
  <2>7. f[z + l] = 2 ^ l * (f[z] - Top(x, o)) + Top(x, o + l)
    <3>1. TakesBits(f, z, x, o, l)
      BY <1>3, <2>1, <2>2, <2>5, <2>6 DEF TakesBits
    <3>2. BitsTaken(f, z, x, o, l)
      BY <3>1, BitsOfByte
    <3> QED
      BY <3>2 DEF BitsTaken
  <2> QED
    BY <2>2, <2>3, <2>7
<1>5. PICK d \in Nat : d = l + e /\ d = 16 - o
  BY <1>4, SMT
<1>7. f[l + e] = 2 ^ 8 * (f[l] - Top(u, 0)) + Top(u, 8)
  <2>1. \A i \in 1..e : f[l + i] = 2 * f[l + i - 1] + BitIn(u, 0 + i - 1)
    <3> SUFFICES ASSUME NEW i \in 1..e PROVE f[l + i] = 2 * f[l + i - 1] + BitIn(u, 0 + i - 1)
      OBVIOUS
    <3>1. PICK b \in 1..w : b = l + i
      BY <1>4, SMT
    <3>2. b > 8 - o /\ b <= 16 - o /\ o + b - 9 = 0 + i - 1
      BY <1>4, <3>1, SMT
    <3>3. f[b] = 2 * f[b - 1] + BitIn(u, o + b - 9)
      BY <1>2, <1>3, <3>2
    <3> QED
      BY <3>1, <3>2, <3>3
  <2>2. PICK z \in 0..7 : z = 0
    BY SMT
  <2>3. z + e <= 8 /\ z + e = e /\ l \in Nat /\ l \in 0..w
    BY <1>4, <2>2, SMT
  <2>5. u \in Octets /\ z \in 0..7 /\ e \in 0..8 /\ l \in Nat
    BY <1>1, <1>4, <2>2, <2>3
  <2>6. z + e <= 8
    BY <2>3
  <2>7. f[l + e] = 2 ^ e * (f[l] - Top(u, z)) + Top(u, z + e)
    <3>1. TakesBits(f, l, u, z, e)
      BY <1>3, <2>1, <2>2, <2>3, <2>5, <2>6 DEF TakesBits
    <3>2. BitsTaken(f, l, u, z, e)
      BY <3>1, BitsOfByte
    <3> QED
      BY <3>2 DEF BitsTaken
  <2> QED
    BY <1>4, <2>2, <2>3, <2>7
<1>8. f[d + m] = 2 ^ m * (f[d] - Top(y, 0)) + Top(y, m)
  <2>1. \A i \in 1..m : f[d + i] = 2 * f[d + i - 1] + BitIn(y, 0 + i - 1)
    <3> SUFFICES ASSUME NEW i \in 1..m PROVE f[d + i] = 2 * f[d + i - 1] + BitIn(y, 0 + i - 1)
      OBVIOUS
    <3>1. PICK b \in 1..w : b = d + i
      BY <1>4, <1>5, SMT
    <3>2. b > 16 - o /\ o + b - 17 = 0 + i - 1
      BY <1>4, <1>5, <3>1, SMT
    <3>3. f[b] = 2 * f[b - 1] + BitIn(y, o + b - 17)
      BY <1>2, <1>3, <3>2
    <3> QED
      BY <3>1, <3>2, <3>3
  <2>2. PICK z \in 0..7 : z = 0
    BY SMT
  <2>3. z + m <= 8 /\ z + m = m /\ d \in Nat /\ d \in 0..w
    BY <1>4, <1>5, <2>2, SMT
  <2>5. y \in Octets /\ z \in 0..7 /\ m \in 0..8 /\ d \in Nat
    BY <1>1, <1>4, <1>5, <2>2, <2>3
  <2>6. z + m <= 8
    BY <2>3
  <2>7. f[d + m] = 2 ^ m * (f[d] - Top(y, z)) + Top(y, z + m)
    <3>1. TakesBits(f, d, y, z, m)
      BY <1>3, <2>1, <2>2, <2>3, <2>5, <2>6 DEF TakesBits
    <3>2. BitsTaken(f, d, y, z, m)
      BY <3>1, BitsOfByte
    <3> QED
      BY <3>2 DEF BitsTaken
  <2> QED
    BY <2>2, <2>3, <2>7
<1>9. Top(x, 8) = x /\ Top(u, 0) = 0 /\ Top(u, 8) = u /\ Top(y, 0) = 0
  BY WholeByte
<1>10. f[l] = x - 2 ^ l * Top(x, o)
  <2>1. PICK p \in Int, t \in Int : p = 2 ^ l /\ t = Top(x, o)
    <3>1. 2 ^ l \in Int
      <4>1. CASE l = 8
        BY <4>1, SmallPowers, SMT
      <4>2. CASE l # 8
        <5>1. l \in 0..7
          BY <4>2, SMT
        <5> QED
          BY <5>1, Doubled
      <4> QED
        BY <4>1, <4>2
    <3>2. Top(x, o) \in Nat
      BY NextBit
    <3> QED
      BY <3>1, <3>2
  <2>2. p * (0 - t) + x = x - p * t
    BY <2>1, SMT DEF Octets
  <2> QED
    BY <1>3, <1>6, <1>9, <2>1, <2>2
<1>11. f[l] \in Int /\ f[d] \in Int
  <2>1. l \in 0..w /\ d \in 0..w
    BY <1>4, <1>5, SMT
  <2> QED
    BY <1>3, <2>1
<1>12. f[d] = 256 * f[l] + u
  BY <1>5, <1>7, <1>9, <1>11, SmallPowers, SMT
<1>13. f[d] - 0 = f[d] /\ d + m = w
  BY <1>4, <1>5, <1>11, SMT
<1>14. f[w] = 2 ^ m * f[d] + Top(y, m)
  BY <1>8, <1>9, <1>13
<1> QED
  BY <1>1, <1>3, <1>4, <1>10, <1>12, <1>14

\* The uppermost bits of a byte, one number of them after another
LEMMA Tops ==
    ASSUME NEW x \in Octets
    PROVE  /\ Top(x, 0) = 0 /\ Top(x, 1) = x \div 128 /\ Top(x, 2) = x \div 64
           /\ Top(x, 3) = x \div 32 /\ Top(x, 4) = x \div 16 /\ Top(x, 5) = x \div 8
           /\ Top(x, 6) = x \div 4 /\ Top(x, 7) = x \div 2 /\ Top(x, 8) = x
<1>1. /\ 8 - 1 = 7 /\ 8 - 2 = 6 /\ 8 - 3 = 5 /\ 8 - 4 = 4 /\ 8 - 5 = 3 /\ 8 - 6 = 2 /\ 8 - 7 = 1
  BY SMT
<1>2. /\ Top(x, 1) = x \div 128 /\ Top(x, 2) = x \div 64
      /\ Top(x, 3) = x \div 32 /\ Top(x, 4) = x \div 16 /\ Top(x, 5) = x \div 8
      /\ Top(x, 6) = x \div 4 /\ Top(x, 7) = x \div 2
  BY <1>1, SmallPowers, SMT DEF Top
<1> QED
  BY <1>2, WholeByte

\* The elements of eleven bits as the shifts of the code have them, and as their bytes
Shifted1(x0, x1) == x0 * 8 + (x1 \div 32)
Taken1(x0, x1) == 8 * (x0 - 256 * 0) + (x1 \div 32)
Shifted2(x0, x1) == (x0 * 64 + (x1 \div 4)) % 2048
Taken2(x0, x1) == 64 * (x0 - 32 * (x0 \div 32)) + (x1 \div 4)
Shifted3(x0, x1, x2) == (x0 * 512 + x1 * 2 + (x2 \div 128)) % 2048
Taken3(x0, x1, x2) == 2 * (256 * (x0 - 4 * (x0 \div 4)) + x1) + (x2 \div 128)
Shifted4(x0, x1) == (x0 * 16 + (x1 \div 16)) % 2048
Taken4(x0, x1) == 16 * (x0 - 128 * (x0 \div 128)) + (x1 \div 16)
Shifted5(x0, x1) == (x0 * 128 + (x1 \div 2)) % 2048
Taken5(x0, x1) == 128 * (x0 - 16 * (x0 \div 16)) + (x1 \div 2)
Shifted6(x0, x1, x2) == (x0 * 1024 + x1 * 4 + (x2 \div 64)) % 2048
Taken6(x0, x1, x2) == 4 * (256 * (x0 - 2 * (x0 \div 2)) + x1) + (x2 \div 64)
Shifted7(x0, x1) == (x0 * 32 + (x1 \div 8)) % 2048
Taken7(x0, x1) == 32 * (x0 - 64 * (x0 \div 64)) + (x1 \div 8)
Shifted8(x0, x1) == (x0 * 256 + x1) % 2048
Taken8(x0, x1) == 256 * (x0 - 8 * (x0 \div 8)) + x1

LEMMA SameElement1 == \A x0 \in Octets, x1 \in Octets : Shifted1(x0, x1) = Taken1(x0, x1)
BY SMTT(60) DEF Octets, Shifted1, Taken1

LEMMA SameElement2 == \A x0 \in Octets, x1 \in Octets : Shifted2(x0, x1) = Taken2(x0, x1)
BY SMTT(60) DEF Octets, Shifted2, Taken2

LEMMA SameElement3 ==
    \A x0 \in Octets, x1 \in Octets, x2 \in Octets :
      Shifted3(x0, x1, x2) = Taken3(x0, x1, x2)
BY SMTT(60) DEF Octets, Shifted3, Taken3

LEMMA SameElement4 == \A x0 \in Octets, x1 \in Octets : Shifted4(x0, x1) = Taken4(x0, x1)
BY SMTT(60) DEF Octets, Shifted4, Taken4

LEMMA SameElement5 == \A x0 \in Octets, x1 \in Octets : Shifted5(x0, x1) = Taken5(x0, x1)
BY SMTT(60) DEF Octets, Shifted5, Taken5

LEMMA SameElement6 ==
    \A x0 \in Octets, x1 \in Octets, x2 \in Octets :
      Shifted6(x0, x1, x2) = Taken6(x0, x1, x2)
BY SMTT(60) DEF Octets, Shifted6, Taken6

LEMMA SameElement7 == \A x0 \in Octets, x1 \in Octets : Shifted7(x0, x1) = Taken7(x0, x1)
BY SMTT(60) DEF Octets, Shifted7, Taken7

LEMMA SameElement8 == \A x0 \in Octets, x1 \in Octets : Shifted8(x0, x1) = Taken8(x0, x1)
BY SMTT(60) DEF Octets, Shifted8, Taken8

LEMMA FirstBytes ==
    ASSUME NEW raw \in Seq(Octets), Len(raw) >= 11
    PROVE  /\ raw[1] \in Octets /\ raw[2] \in Octets /\ raw[3] \in Octets /\ raw[4] \in Octets
           /\ raw[5] \in Octets /\ raw[6] \in Octets /\ raw[7] \in Octets /\ raw[8] \in Octets
           /\ raw[9] \in Octets /\ raw[10] \in Octets /\ raw[11] \in Octets
<1>1. \A j \in 1..11 : raw[j] \in Octets
  <2> SUFFICES ASSUME NEW j \in 1..11 PROVE raw[j] \in Octets
    OBVIOUS
  <2>1. j \in 1..Len(raw)
    OBVIOUS
  <2> QED
    BY <2>1, ElementOfSeq
<1> QED
  BY <1>1

LEMMA Eleven1 ==
    ASSUME NEW raw \in Seq(Octets), Len(raw) >= 11
    PROVE  formats!Element(raw, 11, 1) = Shifted1(raw[1], raw[2])
<1>0. PICK x0 \in Octets, x1 \in Octets :
        x0 = raw[1] /\ x1 = raw[2]
  BY FirstBytes
<1>1. 11 \in 8..16 /\ 1 \in Nat \ {0} /\ 1 \in Nat \ {0} /\ 0 \in 0..7
  BY SMT
<1>2. (1 - 1) * 11 = 8 * (1 - 1) + 0 /\ 1 + 1 <= Len(raw) /\ 0 + 11 <= 16
  BY SMT
<1>3. formats!Element(raw, 11, 1)
        = 2 ^ (0 + 11 - 8) * (raw[1] - 2 ^ (8 - 0) * Top(raw[1], 0))
            + Top(raw[1 + 1], 0 + 11 - 8)
  BY <1>1, <1>2, InTwoBytes
<1>4. 0 + 11 - 8 = 3 /\ 8 - 0 = 8 /\ 1 + 1 = 2
  BY SMT
<1>5. formats!Element(raw, 11, 1) = 2 ^ 3 * (x0 - 2 ^ 8 * Top(x0, 0)) + Top(x1, 3)
  BY <1>0, <1>3, <1>4, Zenon
<1>6. formats!Element(raw, 11, 1) = 8 * (x0 - 256 * 0) + (x1 \div 32)
  <2>1. 2 ^ 3 = 8 /\ 2 ^ 8 = 256
    BY SmallPowers
  <2>2. Top(x0, 0) = 0 /\ Top(x1, 3) = (x1 \div 32)
    BY Tops
  <2> QED
    BY <1>5, <2>1, <2>2
<1>7. formats!Element(raw, 11, 1) = Taken1(x0, x1)
  BY <1>6, SMT DEF Taken1
<1> QED
  BY <1>0, <1>7, SameElement1

LEMMA Eleven2 ==
    ASSUME NEW raw \in Seq(Octets), Len(raw) >= 11
    PROVE  formats!Element(raw, 11, 2) = Shifted2(raw[2], raw[3])
<1>0. PICK x0 \in Octets, x1 \in Octets :
        x0 = raw[2] /\ x1 = raw[3]
  BY FirstBytes
<1>1. 11 \in 8..16 /\ 2 \in Nat \ {0} /\ 2 \in Nat \ {0} /\ 3 \in 0..7
  BY SMT
<1>2. (2 - 1) * 11 = 8 * (2 - 1) + 3 /\ 2 + 1 <= Len(raw) /\ 3 + 11 <= 16
  BY SMT
<1>3. formats!Element(raw, 11, 2)
        = 2 ^ (3 + 11 - 8) * (raw[2] - 2 ^ (8 - 3) * Top(raw[2], 3))
            + Top(raw[2 + 1], 3 + 11 - 8)
  BY <1>1, <1>2, InTwoBytes
<1>4. 3 + 11 - 8 = 6 /\ 8 - 3 = 5 /\ 2 + 1 = 3
  BY SMT
<1>5. formats!Element(raw, 11, 2) = 2 ^ 6 * (x0 - 2 ^ 5 * Top(x0, 3)) + Top(x1, 6)
  BY <1>0, <1>3, <1>4, Zenon
<1>6. formats!Element(raw, 11, 2) = 64 * (x0 - 32 * (x0 \div 32)) + (x1 \div 4)
  <2>1. 2 ^ 6 = 64 /\ 2 ^ 5 = 32
    BY SmallPowers
  <2>2. Top(x0, 3) = (x0 \div 32) /\ Top(x1, 6) = (x1 \div 4)
    BY Tops
  <2> QED
    BY <1>5, <2>1, <2>2
<1>7. formats!Element(raw, 11, 2) = Taken2(x0, x1)
  BY <1>6, SMT DEF Taken2
<1> QED
  BY <1>0, <1>7, SameElement2

LEMMA Eleven3 ==
    ASSUME NEW raw \in Seq(Octets), Len(raw) >= 11
    PROVE  formats!Element(raw, 11, 3) = Shifted3(raw[3], raw[4], raw[5])
<1>0. PICK x0 \in Octets, x1 \in Octets, x2 \in Octets :
        x0 = raw[3] /\ x1 = raw[4] /\ x2 = raw[5]
  BY FirstBytes
<1>1. 11 \in 9..16 /\ 3 \in Nat \ {0} /\ 3 \in Nat \ {0} /\ 6 \in 0..7
  BY SMT
<1>2. (3 - 1) * 11 = 8 * (3 - 1) + 6 /\ 3 + 2 <= Len(raw) /\ 6 + 11 >= 17
  BY SMT
<1>3. formats!Element(raw, 11, 3)
        = 2 ^ (6 + 11 - 16) * (256 * (raw[3] - 2 ^ (8 - 6) * Top(raw[3], 6)) + raw[3 + 1])
            + Top(raw[3 + 2], 6 + 11 - 16)
  BY <1>1, <1>2, InThreeBytes
<1>4. 6 + 11 - 16 = 1 /\ 8 - 6 = 2 /\ 3 + 1 = 4 /\ 3 + 2 = 5
  BY SMT
<1>5. formats!Element(raw, 11, 3) = 2 ^ 1 * (256 * (x0 - 2 ^ 2 * Top(x0, 6)) + x1) + Top(x2, 1)
  BY <1>0, <1>3, <1>4, Zenon
<1>6. formats!Element(raw, 11, 3) = 2 * (256 * (x0 - 4 * (x0 \div 4)) + x1) + (x2 \div 128)
  <2>1. 2 ^ 1 = 2 /\ 2 ^ 2 = 4
    BY SmallPowers
  <2>2. Top(x0, 6) = (x0 \div 4) /\ Top(x2, 1) = (x2 \div 128)
    BY Tops
  <2> QED
    BY <1>5, <2>1, <2>2
<1>7. formats!Element(raw, 11, 3) = Taken3(x0, x1, x2)
  BY <1>6, SMT DEF Taken3
<1>8. Shifted3(x0, x1, x2) = Taken3(x0, x1, x2)
  BY <1>0, SameElement3
<1>9. Shifted3(raw[3], raw[4], raw[5]) = Shifted3(x0, x1, x2)
  BY <1>0, Zenon
<1> QED
  BY <1>7, <1>8, <1>9

LEMMA Eleven4 ==
    ASSUME NEW raw \in Seq(Octets), Len(raw) >= 11
    PROVE  formats!Element(raw, 11, 4) = Shifted4(raw[5], raw[6])
<1>0. PICK x0 \in Octets, x1 \in Octets :
        x0 = raw[5] /\ x1 = raw[6]
  BY FirstBytes
<1>1. 11 \in 8..16 /\ 4 \in Nat \ {0} /\ 5 \in Nat \ {0} /\ 1 \in 0..7
  BY SMT
<1>2. (4 - 1) * 11 = 8 * (5 - 1) + 1 /\ 5 + 1 <= Len(raw) /\ 1 + 11 <= 16
  BY SMT
<1>3. formats!Element(raw, 11, 4)
        = 2 ^ (1 + 11 - 8) * (raw[5] - 2 ^ (8 - 1) * Top(raw[5], 1))
            + Top(raw[5 + 1], 1 + 11 - 8)
  BY <1>1, <1>2, InTwoBytes
<1>4. 1 + 11 - 8 = 4 /\ 8 - 1 = 7 /\ 5 + 1 = 6
  BY SMT
<1>5. formats!Element(raw, 11, 4) = 2 ^ 4 * (x0 - 2 ^ 7 * Top(x0, 1)) + Top(x1, 4)
  BY <1>0, <1>3, <1>4, Zenon
<1>6. formats!Element(raw, 11, 4) = 16 * (x0 - 128 * (x0 \div 128)) + (x1 \div 16)
  <2>1. 2 ^ 4 = 16 /\ 2 ^ 7 = 128
    BY SmallPowers
  <2>2. Top(x0, 1) = (x0 \div 128) /\ Top(x1, 4) = (x1 \div 16)
    BY Tops
  <2> QED
    BY <1>5, <2>1, <2>2
<1>7. formats!Element(raw, 11, 4) = Taken4(x0, x1)
  BY <1>6, SMT DEF Taken4
<1> QED
  BY <1>0, <1>7, SameElement4

LEMMA Eleven5 ==
    ASSUME NEW raw \in Seq(Octets), Len(raw) >= 11
    PROVE  formats!Element(raw, 11, 5) = Shifted5(raw[6], raw[7])
<1>0. PICK x0 \in Octets, x1 \in Octets :
        x0 = raw[6] /\ x1 = raw[7]
  BY FirstBytes
<1>1. 11 \in 8..16 /\ 5 \in Nat \ {0} /\ 6 \in Nat \ {0} /\ 4 \in 0..7
  BY SMT
<1>2. (5 - 1) * 11 = 8 * (6 - 1) + 4 /\ 6 + 1 <= Len(raw) /\ 4 + 11 <= 16
  BY SMT
<1>3. formats!Element(raw, 11, 5)
        = 2 ^ (4 + 11 - 8) * (raw[6] - 2 ^ (8 - 4) * Top(raw[6], 4))
            + Top(raw[6 + 1], 4 + 11 - 8)
  BY <1>1, <1>2, InTwoBytes
<1>4. 4 + 11 - 8 = 7 /\ 8 - 4 = 4 /\ 6 + 1 = 7
  BY SMT
<1>5. formats!Element(raw, 11, 5) = 2 ^ 7 * (x0 - 2 ^ 4 * Top(x0, 4)) + Top(x1, 7)
  BY <1>0, <1>3, <1>4, Zenon
<1>6. formats!Element(raw, 11, 5) = 128 * (x0 - 16 * (x0 \div 16)) + (x1 \div 2)
  <2>1. 2 ^ 7 = 128 /\ 2 ^ 4 = 16
    BY SmallPowers
  <2>2. Top(x0, 4) = (x0 \div 16) /\ Top(x1, 7) = (x1 \div 2)
    BY Tops
  <2> QED
    BY <1>5, <2>1, <2>2
<1>7. formats!Element(raw, 11, 5) = Taken5(x0, x1)
  BY <1>6, SMT DEF Taken5
<1> QED
  BY <1>0, <1>7, SameElement5

LEMMA Eleven6 ==
    ASSUME NEW raw \in Seq(Octets), Len(raw) >= 11
    PROVE  formats!Element(raw, 11, 6) = Shifted6(raw[7], raw[8], raw[9])
<1>0. PICK x0 \in Octets, x1 \in Octets, x2 \in Octets :
        x0 = raw[7] /\ x1 = raw[8] /\ x2 = raw[9]
  BY FirstBytes
<1>1. 11 \in 9..16 /\ 6 \in Nat \ {0} /\ 7 \in Nat \ {0} /\ 7 \in 0..7
  BY SMT
<1>2. (6 - 1) * 11 = 8 * (7 - 1) + 7 /\ 7 + 2 <= Len(raw) /\ 7 + 11 >= 17
  BY SMT
<1>3. formats!Element(raw, 11, 6)
        = 2 ^ (7 + 11 - 16) * (256 * (raw[7] - 2 ^ (8 - 7) * Top(raw[7], 7)) + raw[7 + 1])
            + Top(raw[7 + 2], 7 + 11 - 16)
  BY <1>1, <1>2, InThreeBytes
<1>4. 7 + 11 - 16 = 2 /\ 8 - 7 = 1 /\ 7 + 1 = 8 /\ 7 + 2 = 9
  BY SMT
<1>5. formats!Element(raw, 11, 6) = 2 ^ 2 * (256 * (x0 - 2 ^ 1 * Top(x0, 7)) + x1) + Top(x2, 2)
  BY <1>0, <1>3, <1>4, Zenon
<1>6. formats!Element(raw, 11, 6) = 4 * (256 * (x0 - 2 * (x0 \div 2)) + x1) + (x2 \div 64)
  <2>1. 2 ^ 2 = 4 /\ 2 ^ 1 = 2
    BY SmallPowers
  <2>2. Top(x0, 7) = (x0 \div 2) /\ Top(x2, 2) = (x2 \div 64)
    BY Tops
  <2> QED
    BY <1>5, <2>1, <2>2
<1>7. formats!Element(raw, 11, 6) = Taken6(x0, x1, x2)
  BY <1>6, SMT DEF Taken6
<1> QED
  BY <1>0, <1>7, SameElement6

LEMMA Eleven7 ==
    ASSUME NEW raw \in Seq(Octets), Len(raw) >= 11
    PROVE  formats!Element(raw, 11, 7) = Shifted7(raw[9], raw[10])
<1>0. PICK x0 \in Octets, x1 \in Octets :
        x0 = raw[9] /\ x1 = raw[10]
  BY FirstBytes
<1>1. 11 \in 8..16 /\ 7 \in Nat \ {0} /\ 9 \in Nat \ {0} /\ 2 \in 0..7
  BY SMT
<1>2. (7 - 1) * 11 = 8 * (9 - 1) + 2 /\ 9 + 1 <= Len(raw) /\ 2 + 11 <= 16
  BY SMT
<1>3. formats!Element(raw, 11, 7)
        = 2 ^ (2 + 11 - 8) * (raw[9] - 2 ^ (8 - 2) * Top(raw[9], 2))
            + Top(raw[9 + 1], 2 + 11 - 8)
  BY <1>1, <1>2, InTwoBytes
<1>4. 2 + 11 - 8 = 5 /\ 8 - 2 = 6 /\ 9 + 1 = 10
  BY SMT
<1>5. formats!Element(raw, 11, 7) = 2 ^ 5 * (x0 - 2 ^ 6 * Top(x0, 2)) + Top(x1, 5)
  BY <1>0, <1>3, <1>4, Zenon
<1>6. formats!Element(raw, 11, 7) = 32 * (x0 - 64 * (x0 \div 64)) + (x1 \div 8)
  <2>1. 2 ^ 5 = 32 /\ 2 ^ 6 = 64
    BY SmallPowers
  <2>2. Top(x0, 2) = (x0 \div 64) /\ Top(x1, 5) = (x1 \div 8)
    BY Tops
  <2> QED
    BY <1>5, <2>1, <2>2
<1>7. formats!Element(raw, 11, 7) = Taken7(x0, x1)
  BY <1>6, SMT DEF Taken7
<1> QED
  BY <1>0, <1>7, SameElement7

LEMMA Eleven8 ==
    ASSUME NEW raw \in Seq(Octets), Len(raw) >= 11
    PROVE  formats!Element(raw, 11, 8) = Shifted8(raw[10], raw[11])
<1>0. PICK x0 \in Octets, x1 \in Octets :
        x0 = raw[10] /\ x1 = raw[11]
  BY FirstBytes
<1>1. 11 \in 8..16 /\ 8 \in Nat \ {0} /\ 10 \in Nat \ {0} /\ 5 \in 0..7
  BY SMT
<1>2. (8 - 1) * 11 = 8 * (10 - 1) + 5 /\ 10 + 1 <= Len(raw) /\ 5 + 11 <= 16
  BY SMT
<1>3. formats!Element(raw, 11, 8)
        = 2 ^ (5 + 11 - 8) * (raw[10] - 2 ^ (8 - 5) * Top(raw[10], 5))
            + Top(raw[10 + 1], 5 + 11 - 8)
  BY <1>1, <1>2, InTwoBytes
<1>4. 5 + 11 - 8 = 8 /\ 8 - 5 = 3 /\ 10 + 1 = 11
  BY SMT
<1>5. formats!Element(raw, 11, 8) = 2 ^ 8 * (x0 - 2 ^ 3 * Top(x0, 5)) + Top(x1, 8)
  BY <1>0, <1>3, <1>4, Zenon
<1>6. formats!Element(raw, 11, 8) = 256 * (x0 - 8 * (x0 \div 8)) + x1
  <2>1. 2 ^ 8 = 256 /\ 2 ^ 3 = 8
    BY SmallPowers
  <2>2. Top(x0, 5) = (x0 \div 8) /\ Top(x1, 8) = x1
    BY Tops
  <2> QED
    BY <1>5, <2>1, <2>2
<1>7. formats!Element(raw, 11, 8) = Taken8(x0, x1)
  BY <1>6, SMT DEF Taken8
<1> QED
  BY <1>0, <1>7, SameElement8

\* The unrolled unpacking of eleven bits
LEMMA UnpackedElevens ==
    ASSUME NEW raw \in Seq(Octets), Len(raw) >= 11
    PROVE  \A k \in 1..8 : formats!unpack_8_pixels(raw)[k] = formats!Element(raw, 11, k)
<1>4. PICK u : u = formats!unpack_8_pixels(raw)
  OBVIOUS
<1>5. /\ u[1] = Shifted1(raw[1], raw[2])
      /\ u[2] = Shifted2(raw[2], raw[3])
      /\ u[3] = Shifted3(raw[3], raw[4], raw[5])
      /\ u[4] = Shifted4(raw[5], raw[6])
      /\ u[5] = Shifted5(raw[6], raw[7])
      /\ u[6] = Shifted6(raw[7], raw[8], raw[9])
      /\ u[7] = Shifted7(raw[9], raw[10])
      /\ u[8] = Shifted8(raw[10], raw[11])
  BY <1>4, Zenon DEF formats!unpack_8_pixels, Shifted1, Shifted2, Shifted3, Shifted4,
     Shifted5, Shifted6, Shifted7, Shifted8
<1>6. u[1] = formats!Element(raw, 11, 1)
  BY <1>5, Eleven1
<1>7. u[2] = formats!Element(raw, 11, 2)
  BY <1>5, Eleven2
<1>8. u[3] = formats!Element(raw, 11, 3)
  BY <1>5, Eleven3
<1>9. u[4] = formats!Element(raw, 11, 4)
  BY <1>5, Eleven4
<1>10. u[5] = formats!Element(raw, 11, 5)
  BY <1>5, Eleven5
<1>11. u[6] = formats!Element(raw, 11, 6)
  BY <1>5, Eleven6
<1>12. u[7] = formats!Element(raw, 11, 7)
  BY <1>5, Eleven7
<1>13. u[8] = formats!Element(raw, 11, 8)
  BY <1>5, Eleven8
<1> QED
  <2> SUFFICES ASSUME NEW k \in 1..8 PROVE u[k] = formats!Element(raw, 11, k)
    BY <1>4
  <2>1. k = 1 \/ k = 2 \/ k = 3 \/ k = 4 \/ k = 5 \/ k = 6 \/ k = 7 \/ k = 8
    BY SMT
  <2> QED
    BY <2>1, <1>6, <1>7, <1>8, <1>9, <1>10, <1>11, <1>12, <1>13

-----------------------------------------------------------------------------
\* The shift register of a packed frame: 22 bits, a byte more at a time
ShiftRegister == {b \in Nat : b < 4194304}
Shift(b, y) == (b * 256 + y) % 2 ^ 22

\* A byte more leaves the lower 14 bits, q is lost.
Upper == 0..255
Lower == 0..16383
Parted(b, y, q, m) == b = 16384 * q + m /\ Shift(b, y) = 256 * m + y

LEMMA RegisterApart ==
    ASSUME NEW b \in ShiftRegister, NEW y \in Octets
    PROVE  \E q \in Upper, m \in Lower : Parted(b, y, q, m)
<1>0. b \in Nat /\ b < 4194304
  BY SMTT(30) DEF ShiftRegister
<1>1. b \div 16384 \in Upper /\ b - 16384 * (b \div 16384) \in Lower
  BY <1>0, SMTT(60) DEF Upper, Lower
<1> DEFINE q == b \div 16384
           m == b - 16384 * q
<1>2. q \in Upper /\ m \in Lower
  BY <1>1, SMT
<1>3. b = 16384 * q + m
  BY <1>0, <1>2, SMT DEF Upper, Lower
<1> HIDE DEF q, m
<1>4. 256 * m + y \in Nat /\ 256 * m + y < 4194304
  BY <1>2, SMTT(30) DEF Lower, Octets
<1>5. b * 256 + y = 4194304 * q + (256 * m + y)
  BY <1>0, <1>2, <1>3, SMT DEF Upper, Lower, Octets
<1>6. (4194304 * q + (256 * m + y)) % 4194304 = 256 * m + y
  BY <1>2, <1>4, SMTT(60) DEF Upper, Lower
<1>7. Parted(b, y, q, m)
  BY <1>3, <1>5, <1>6, LargePowers, SMT DEF Parted, Shift
<1> QED
  BY <1>2, <1>7, Zenon

LEMMA ShiftIn == \A b \in ShiftRegister, y \in Octets : Shift(b, y) \in ShiftRegister
<1> SUFFICES ASSUME NEW b \in ShiftRegister, NEW y \in Octets PROVE Shift(b, y) \in ShiftRegister
  OBVIOUS
<1>1. PICK q \in Upper, m \in Lower : Parted(b, y, q, m)
  BY RegisterApart, Zenon
<1> QED
  BY <1>1, SMT DEF ShiftRegister, Parted, Upper, Lower, Octets

\* The end of a register that ends as a byte x does, and what is taken when the byte y has
\* been taken in
EndsAs(b, m, q, x, p) == b = 16384 * q + m /\ b % p = x % p
Eight(m, x, y) ==
    /\ ((256 * m + y) \div 64) % 1024 = 4 * (x - 256 * (x \div 256)) + (y \div 64)
    /\ (256 * m + y) % 64 = y % 64
Six(m, x, y) ==
    /\ ((256 * m + y) \div 16) % 1024 = 16 * (x - 64 * (x \div 64)) + (y \div 16)
    /\ (256 * m + y) % 16 = y % 16
Four(m, x, y) ==
    /\ ((256 * m + y) \div 4) % 1024 = 64 * (x - 16 * (x \div 16)) + (y \div 4)
    /\ (256 * m + y) % 4 = y % 4
Two(m, x, y) == (256 * m + y) % 1024 = 256 * (x - 4 * (x \div 4)) + y

LEMMA EightKept ==
    \A b \in Nat, m \in Lower, q \in Upper, x \in Octets, y \in Octets :
      EndsAs(b, m, q, x, 256) => Eight(m, x, y)
<1> SUFFICES ASSUME NEW b \in Nat, NEW m \in Lower, NEW q \in Upper, NEW x \in Octets,
                    NEW y \in Octets, EndsAs(b, m, q, x, 256)
             PROVE  Eight(m, x, y)
  OBVIOUS
<1>0. m \in Nat
  BY SMT DEF Lower
<1>1. PICK k \in Nat, s \in 0..255 : m = 256 * k + s
  <2>1. m \div 256 \in Nat /\ m % 256 \in 0..255 /\ m = 256 * (m \div 256) + (m % 256)
    BY <1>0, SMT
  <2> QED
    BY <2>1
<1>2. PICK j \in Nat : x = 256 * j + s /\ j = x \div 256
  <2>1. b = 256 * (64 * q + k) + s /\ 64 * q + k \in Nat
    BY <1>1, SMT DEF EndsAs, Upper
  <2>2. b % 256 = s
    BY <2>1, SMT
  <2> QED
    BY <2>2, SMT DEF EndsAs, Octets
<1>3. PICK h \in Nat, l \in 0..63 : y = 64 * h + l /\ h < 4
  <2>1. y \div 64 \in Nat /\ y \div 64 < 4 /\ y % 64 \in 0..63
    BY SMT DEF Octets
  <2>2. y = 64 * (y \div 64) + (y % 64)
    BY SMT DEF Octets
  <2> QED
    BY <2>1, <2>2
<1>4. 256 * m + y = 64 * (1024 * k + 4 * s + h) + l
  BY <1>1, <1>3, SMT
<1>5. (256 * m + y) \div 64 = 1024 * k + 4 * s + h /\ (256 * m + y) % 64 = l
  BY <1>1, <1>3, <1>4, SMT
<1>6. y \div 64 = h /\ y % 64 = l
  BY <1>3, SMT
<1>7. (1024 * k + 4 * s + h) % 1024 = 4 * s + h
  BY <1>1, <1>3, SMT
<1> QED
  BY <1>2, <1>5, <1>6, <1>7, SMT DEF Eight

LEMMA SixKept ==
    \A b \in Nat, m \in Lower, q \in Upper, x \in Octets, y \in Octets :
      EndsAs(b, m, q, x, 64) => Six(m, x, y)
<1> SUFFICES ASSUME NEW b \in Nat, NEW m \in Lower, NEW q \in Upper, NEW x \in Octets,
                    NEW y \in Octets, EndsAs(b, m, q, x, 64)
             PROVE  Six(m, x, y)
  OBVIOUS
<1>0. m \in Nat
  BY SMT DEF Lower
<1>1. PICK k \in Nat, s \in 0..63 : m = 64 * k + s
  <2>1. m \div 64 \in Nat /\ m % 64 \in 0..63 /\ m = 64 * (m \div 64) + (m % 64)
    BY <1>0, SMT
  <2> QED
    BY <2>1
<1>2. PICK j \in Nat : x = 64 * j + s /\ j = x \div 64
  <2>1. b = 64 * (256 * q + k) + s /\ 256 * q + k \in Nat
    BY <1>1, SMT DEF EndsAs, Upper
  <2>2. b % 64 = s
    BY <2>1, SMT
  <2> QED
    BY <2>2, SMT DEF EndsAs, Octets
<1>3. PICK h \in Nat, l \in 0..15 : y = 16 * h + l /\ h < 16
  <2>1. y \div 16 \in Nat /\ y \div 16 < 16 /\ y % 16 \in 0..15
    BY SMT DEF Octets
  <2>2. y = 16 * (y \div 16) + (y % 16)
    BY SMT DEF Octets
  <2> QED
    BY <2>1, <2>2
<1>4. 256 * m + y = 16 * (1024 * k + 16 * s + h) + l
  BY <1>1, <1>3, SMT
<1>5. (256 * m + y) \div 16 = 1024 * k + 16 * s + h /\ (256 * m + y) % 16 = l
  BY <1>1, <1>3, <1>4, SMT
<1>6. y \div 16 = h /\ y % 16 = l
  BY <1>3, SMT
<1>7. (1024 * k + 16 * s + h) % 1024 = 16 * s + h
  BY <1>1, <1>3, SMT
<1> QED
  BY <1>2, <1>5, <1>6, <1>7, SMT DEF Six

LEMMA FourKept ==
    \A b \in Nat, m \in Lower, q \in Upper, x \in Octets, y \in Octets :
      EndsAs(b, m, q, x, 16) => Four(m, x, y)
<1> SUFFICES ASSUME NEW b \in Nat, NEW m \in Lower, NEW q \in Upper, NEW x \in Octets,
                    NEW y \in Octets, EndsAs(b, m, q, x, 16)
             PROVE  Four(m, x, y)
  OBVIOUS
<1>0. m \in Nat
  BY SMT DEF Lower
<1>1. PICK k \in Nat, s \in 0..15 : m = 16 * k + s
  <2>1. m \div 16 \in Nat /\ m % 16 \in 0..15 /\ m = 16 * (m \div 16) + (m % 16)
    BY <1>0, SMT
  <2> QED
    BY <2>1
<1>2. PICK j \in Nat : x = 16 * j + s /\ j = x \div 16
  <2>1. b = 16 * (1024 * q + k) + s /\ 1024 * q + k \in Nat
    BY <1>1, SMT DEF EndsAs, Upper
  <2>2. b % 16 = s
    BY <2>1, SMT
  <2> QED
    BY <2>2, SMT DEF EndsAs, Octets
<1>3. PICK h \in Nat, l \in 0..3 : y = 4 * h + l /\ h < 64
  <2>1. y \div 4 \in Nat /\ y \div 4 < 64 /\ y % 4 \in 0..3
    BY SMT DEF Octets
  <2>2. y = 4 * (y \div 4) + (y % 4)
    BY SMT DEF Octets
  <2> QED
    BY <2>1, <2>2
<1>4. 256 * m + y = 4 * (1024 * k + 64 * s + h) + l
  BY <1>1, <1>3, SMT
<1>5. (256 * m + y) \div 4 = 1024 * k + 64 * s + h /\ (256 * m + y) % 4 = l
  BY <1>1, <1>3, <1>4, SMT
<1>6. y \div 4 = h /\ y % 4 = l
  BY <1>3, SMT
<1>7. (1024 * k + 64 * s + h) % 1024 = 64 * s + h
  BY <1>1, <1>3, SMT
<1> QED
  BY <1>2, <1>5, <1>6, <1>7, SMT DEF Four

LEMMA TwoKept ==
    \A b \in Nat, m \in Lower, q \in Upper, x \in Octets, y \in Octets :
      EndsAs(b, m, q, x, 4) => Two(m, x, y)
<1> SUFFICES ASSUME NEW b \in Nat, NEW m \in Lower, NEW q \in Upper, NEW x \in Octets,
                    NEW y \in Octets, EndsAs(b, m, q, x, 4)
             PROVE  Two(m, x, y)
  OBVIOUS
<1>0. m \in Nat
  BY SMT DEF Lower
<1>1. PICK k \in Nat, s \in 0..3 : m = 4 * k + s
  <2>1. m \div 4 \in Nat /\ m % 4 \in 0..3 /\ m = 4 * (m \div 4) + (m % 4)
    BY <1>0, SMT
  <2> QED
    BY <2>1
<1>2. PICK j \in Nat : x = 4 * j + s /\ j = x \div 4
  <2>1. b = 4 * (4096 * q + k) + s /\ 4096 * q + k \in Nat
    BY <1>1, SMT DEF EndsAs, Upper
  <2>2. b % 4 = s
    BY <2>1, SMT
  <2> QED
    BY <2>2, SMT DEF EndsAs, Octets
<1>3. 256 * m + y = 1024 * k + (256 * s + y) /\ 256 * s + y \in 0..1023
  BY <1>1, SMT DEF Octets
<1>4. (256 * m + y) % 1024 = 256 * s + y
  BY <1>1, <1>3, SMT
<1> QED
  BY <1>2, <1>4, SMT DEF Two

\* The upper eight of ten bits
LEMMA UpperEight ==
    ASSUME NEW s \in Nat, s < 4194304
    PROVE  /\ (s \div 256) % 256 = ((s \div 64) % 1024) \div 4
           /\ (s \div 64) % 256 = ((s \div 16) % 1024) \div 4
           /\ (s \div 16) % 256 = ((s \div 4) % 1024) \div 4
           /\ (s \div 4) % 256 = (s % 1024) \div 4
BY SMTT(60)

\* What the code keeps of the register when the element ends `bits' bits before its end,
\* and what is kept of an element of ten bits
Looked(s, bits, kept) == (s \div 2 ^ (bits + 10 - kept)) % 2 ^ kept
Cut(e, kept) == IF kept = 10 THEN e ELSE e \div 4
Tenth(s, bits) == (s \div 2 ^ bits) % 1024

LEMMA LookedIsCut ==
    ASSUME NEW s \in ShiftRegister, NEW bits \in {0, 2, 4, 6}, NEW kept \in {8, 10}
    PROVE  Looked(s, bits, kept) = Cut(Tenth(s, bits), kept)
<1>0. s \in Nat /\ s < 4194304
  BY SMT DEF ShiftRegister
<1>1. CASE kept = 10
  <2>1. bits + 10 - kept = bits
    BY <1>1, SMT
  <2> QED
    BY <1>1, <2>1, LargePowers, SMT DEF Looked, Cut, Tenth
<1>2. CASE kept = 8
  <2>1. bits + 10 - kept = bits + 2 /\ 2 ^ kept = 256
    BY <1>2, SmallPowers, SMT
  <2>2. Looked(s, bits, kept) = (s \div 2 ^ (bits + 2)) % 256
    BY <2>1, SMT DEF Looked
  <2>3. Cut(Tenth(s, bits), kept) = ((s \div 2 ^ bits) % 1024) \div 4
    BY <1>2, SMT DEF Cut, Tenth
  <2>4. CASE bits = 0
    <3>1. bits + 2 = 2 /\ s \div 1 = s
      BY <1>0, <2>4, SMT
    <3> QED
      BY <1>0, <2>2, <2>3, <2>4, <3>1, SmallPowers, UpperEight, SMT
  <2>5. CASE bits = 2
    <3>1. bits + 2 = 4
      BY <2>5, SMT
    <3> QED
      BY <1>0, <2>2, <2>3, <2>5, <3>1, SmallPowers, UpperEight, SMT
  <2>6. CASE bits = 4
    <3>1. bits + 2 = 6
      BY <2>6, SMT
    <3> QED
      BY <1>0, <2>2, <2>3, <2>6, <3>1, SmallPowers, UpperEight, SMT
  <2>7. CASE bits = 6
    <3>1. bits + 2 = 8
      BY <2>7, SMT
    <3> QED
      BY <1>0, <2>2, <2>3, <2>7, <3>1, SmallPowers, UpperEight, SMT
  <2> QED
    BY <2>4, <2>5, <2>6, <2>7, SMT
<1> QED
  BY <1>1, <1>2, SMT

\* The element in two bytes, from bit o of the first one on
InBytes(x, y, o) == 2 ^ (o + 2) * (x - 2 ^ (8 - o) * Top(x, o)) + Top(y, o + 2)
SameEnd(b, x, bits) == b % 2 ^ bits = x % 2 ^ bits

LEMMA InBytes0 ==
    ASSUME NEW x \in Octets, NEW y \in Octets
    PROVE  InBytes(x, y, 0) = 4 * x + (y \div 64)
<1>1. 0 + 2 = 2 /\ 8 - 0 = 8
  BY SMT
<1>2. InBytes(x, y, 0) = 2 ^ 2 * (x - 2 ^ 8 * Top(x, 0)) + Top(y, 2)
  BY <1>1, Zenon DEF InBytes
<1>3. 2 ^ 2 = 4 /\ 2 ^ 8 = 256 /\ Top(x, 0) = 0 /\ Top(y, 2) = (y \div 64)
  BY SmallPowers, Tops
<1> QED
  BY <1>2, <1>3, SMT DEF Octets

LEMMA InBytes2 ==
    ASSUME NEW x \in Octets, NEW y \in Octets
    PROVE  InBytes(x, y, 2) = 16 * (x - 64 * (x \div 64)) + (y \div 16)
<1>1. 2 + 2 = 4 /\ 8 - 2 = 6
  BY SMT
<1>2. InBytes(x, y, 2) = 2 ^ 4 * (x - 2 ^ 6 * Top(x, 2)) + Top(y, 4)
  BY <1>1, Zenon DEF InBytes
<1>3. 2 ^ 4 = 16 /\ 2 ^ 6 = 64 /\ Top(x, 2) = (x \div 64) /\ Top(y, 4) = (y \div 16)
  BY SmallPowers, Tops
<1> QED
  BY <1>2, <1>3, Zenon

LEMMA InBytes4 ==
    ASSUME NEW x \in Octets, NEW y \in Octets
    PROVE  InBytes(x, y, 4) = 64 * (x - 16 * (x \div 16)) + (y \div 4)
<1>1. 4 + 2 = 6 /\ 8 - 4 = 4
  BY SMT
<1>2. InBytes(x, y, 4) = 2 ^ 6 * (x - 2 ^ 4 * Top(x, 4)) + Top(y, 6)
  BY <1>1, Zenon DEF InBytes
<1>3. 2 ^ 6 = 64 /\ 2 ^ 4 = 16 /\ Top(x, 4) = (x \div 16) /\ Top(y, 6) = (y \div 4)
  BY SmallPowers, Tops
<1> QED
  BY <1>2, <1>3, Zenon

LEMMA InBytes6 ==
    ASSUME NEW x \in Octets, NEW y \in Octets
    PROVE  InBytes(x, y, 6) = 256 * (x - 4 * (x \div 4)) + y
<1>1. 6 + 2 = 8 /\ 8 - 6 = 2
  BY SMT
<1>2. InBytes(x, y, 6) = 2 ^ 8 * (x - 2 ^ 2 * Top(x, 6)) + Top(y, 8)
  BY <1>1, Zenon DEF InBytes
<1>3. 2 ^ 8 = 256 /\ 2 ^ 2 = 4 /\ Top(x, 6) = (x \div 4) /\ Top(y, 8) = y
  BY SmallPowers, Tops
<1> QED
  BY <1>2, <1>3, Zenon

LEMMA OneByteMore ==
    ASSUME NEW b \in ShiftRegister, NEW x \in Octets, NEW y \in Octets, NEW bits \in {2, 4, 6},
           SameEnd(b, x, bits)
    PROVE  /\ Tenth(Shift(b, y), bits - 2) = InBytes(x, y, 8 - bits)
           /\ SameEnd(Shift(b, y), y, bits - 2)
<1>1. PICK q \in Upper, m \in Lower : Parted(b, y, q, m)
  BY RegisterApart, Zenon
<1>2. /\ q \in Octets /\ m \in 0..16383 /\ b = 16384 * q + m /\ Shift(b, y) = 256 * m + y
      /\ b \in Nat
  BY <1>1, SMT DEF Upper, Lower, Parted, ShiftRegister, Octets
<1>21. b \in Nat
  BY <1>2
<1>3. CASE bits = 2
  <2>1. bits - 2 = 0 /\ 8 - bits = 6
    BY <1>3, SMT
  <2>2. b % 4 = x % 4
    BY <1>3, SmallPowers, SMT DEF SameEnd
  <2>3. InBytes(x, y, 8 - bits) = 256 * (x - 4 * (x \div 4)) + y
    <3>1. InBytes(x, y, 8 - bits) = InBytes(x, y, 6)
      BY <2>1
    <3>2. InBytes(x, y, 6) = 256 * (x - 4 * (x \div 4)) + y
      BY InBytes6
    <3> QED
      BY <3>1, <3>2
  <2>4. (256 * m + y) % 1024 = 256 * (x - 4 * (x \div 4)) + y
    <3>1. EndsAs(b, m, q, x, 4)
      BY <1>2, <2>2 DEF EndsAs
    <3>2. Two(m, x, y)
      BY <1>1, <1>21, <3>1, TwoKept
    <3> QED
      BY <3>2 DEF Two
  <2>5. Tenth(Shift(b, y), bits - 2) = (256 * m + y) % 1024
    <3>1. (256 * m + y) \div 1 = 256 * m + y
      BY <1>2, SMT DEF Octets
    <3>2. Tenth(Shift(b, y), 0) = (Shift(b, y) \div 2 ^ 0) % 1024
      BY Zenon DEF Tenth
    <3>3. Tenth(Shift(b, y), bits - 2) = Tenth(Shift(b, y), 0)
      BY <2>1
    <3>4. Tenth(Shift(b, y), 0) = ((256 * m + y) \div 1) % 1024
      BY <1>2, <3>2, SmallPowers, SMT
    <3> QED
      BY <3>1, <3>3, <3>4, SMT
  <2>6. SameEnd(Shift(b, y), y, bits - 2)
    BY <1>2, <2>1, SmallPowers, SMTT(30) DEF SameEnd, Octets
  <2> QED
    BY <2>3, <2>4, <2>5, <2>6, SMT
<1>4. CASE bits = 4
  <2>1. bits - 2 = 2 /\ 8 - bits = 4
    BY <1>4, SMT
  <2>2. b % 16 = x % 16
    BY <1>4, SmallPowers, SMT DEF SameEnd
  <2>3. InBytes(x, y, 8 - bits) = 64 * (x - 16 * (x \div 16)) + (y \div 4)
    BY <2>1, InBytes4
  <2>4. /\ ((256 * m + y) \div 4) % 1024 = 64 * (x - 16 * (x \div 16)) + (y \div 4)
        /\ (256 * m + y) % 4 = y % 4
    <3>1. EndsAs(b, m, q, x, 16)
      BY <1>2, <2>2 DEF EndsAs
    <3>2. Four(m, x, y)
      BY <1>1, <1>21, <3>1, FourKept
    <3> QED
      BY <3>2 DEF Four
  <2>5. Tenth(Shift(b, y), bits - 2) = ((256 * m + y) \div 4) % 1024
    BY <1>2, <2>1, SmallPowers, SMT DEF Tenth
  <2>6. SameEnd(Shift(b, y), y, bits - 2)
    BY <1>2, <2>1, <2>4, SmallPowers, SMT DEF SameEnd
  <2> QED
    BY <2>3, <2>4, <2>5, <2>6, SMT
<1>5. CASE bits = 6
  <2>1. bits - 2 = 4 /\ 8 - bits = 2
    BY <1>5, SMT
  <2>2. b % 64 = x % 64
    BY <1>5, SmallPowers, SMT DEF SameEnd
  <2>3. InBytes(x, y, 8 - bits) = 16 * (x - 64 * (x \div 64)) + (y \div 16)
    BY <2>1, InBytes2
  <2>4. /\ ((256 * m + y) \div 16) % 1024 = 16 * (x - 64 * (x \div 64)) + (y \div 16)
        /\ (256 * m + y) % 16 = y % 16
    <3>1. EndsAs(b, m, q, x, 64)
      BY <1>2, <2>2 DEF EndsAs
    <3>2. Six(m, x, y)
      BY <1>1, <1>21, <3>1, SixKept
    <3> QED
      BY <3>2 DEF Six
  <2>5. Tenth(Shift(b, y), bits - 2) = ((256 * m + y) \div 16) % 1024
    BY <1>2, <2>1, SmallPowers, SMT DEF Tenth
  <2>6. SameEnd(Shift(b, y), y, bits - 2)
    BY <1>2, <2>1, <2>4, SmallPowers, SMT DEF SameEnd
  <2> QED
    BY <2>3, <2>4, <2>5, <2>6, SMT
<1> QED
  BY <1>3, <1>4, <1>5, SMT

LEMMA TwoBytesMore ==
    ASSUME NEW b \in ShiftRegister, NEW x \in Octets, NEW y \in Octets
    PROVE  /\ Tenth(Shift(Shift(b, x), y), 6) = InBytes(x, y, 0)
           /\ SameEnd(Shift(Shift(b, x), y), y, 6)
<1>1. PICK q \in Upper, m \in Lower : Parted(b, x, q, m)
  BY RegisterApart, Zenon
<1>2. PICK c \in ShiftRegister : c = Shift(b, x)
  BY ShiftIn, Zenon
<1>3. c % 256 = x % 256 /\ x \div 256 = 0
  BY <1>1, <1>2, SMTT(30) DEF Upper, Lower, Parted, Octets
<1>4. PICK u \in Upper, v \in Lower : Parted(c, y, u, v)
  BY RegisterApart, Zenon
<1>5. /\ u \in Octets /\ v \in 0..16383 /\ c = 16384 * u + v /\ Shift(c, y) = 256 * v + y
      /\ c \in Nat
  BY <1>4, SMT DEF Upper, Lower, Parted, ShiftRegister, Octets
<1>6. /\ ((256 * v + y) \div 64) % 1024 = 4 * x + (y \div 64)
      /\ (256 * v + y) % 64 = y % 64
  <2>1. EndsAs(c, v, u, x, 256)
    BY <1>3, <1>5 DEF EndsAs
  <2>2. Eight(v, x, y)
    BY <1>4, <1>5, <2>1, EightKept
  <2> QED
    BY <1>3, <2>2, SMT DEF Eight, Octets
<1>7. InBytes(x, y, 0) = 4 * x + (y \div 64)
  BY InBytes0
<1>8. Tenth(Shift(c, y), 6) = ((256 * v + y) \div 64) % 1024
  BY <1>5, SmallPowers, SMT DEF Tenth
<1>9. SameEnd(Shift(c, y), y, 6)
  BY <1>5, <1>6, SmallPowers, SMT DEF SameEnd
<1> QED
  BY <1>2, <1>6, <1>7, <1>8, <1>9, SMT

\* The bytes that are taken in, one after another
LEMMA BytesShifted ==
    ASSUME NEW b \in ShiftRegister, NEW q \in Seq(Octets)
    PROVE  \E f : /\ f[0] = b
                  /\ \A i \in 1..Len(q) : f[i] = Shift(f[i - 1], q[i])
                  /\ formats!FoldLeft(LAMBDA v, byte : (v * 256 + byte) % 2 ^ 22, b, q) = f[Len(q)]
<1>0. PICK n \in Nat : n = Len(q)
  BY LenProperties
<1>1. \A i \in 1..n : q[i] \in Octets
  BY <1>0, ElementOfSeq
<1> DEFINE A == ShiftRegister
           Iter(f) == f = [s \in SUBSET (1..n) |->
                             IF s = {} THEN b
                             ELSE (f[s \ {Last(s)}] * 256 + q[Last(s)]) % 2 ^ 22]
           G == [p \in A \X (1..n) |-> Shift(p[1], q[p[2]])]
<1>2. PICK g : \A s \in SUBSET (1..n) :
        /\ s = {} => g[s] = b
        /\ s # {} => /\ g[s] = G[<<g[s \ {Last(s)}], Last(s)>>]
                     /\ g[s \ {Last(s)}] \in A /\ Last(s) \in 1..n
  <2>1. G \in [A \X (1..n) -> A]
    <3>1. \A v \in ShiftRegister, i \in 1..n : Shift(v, q[i]) \in ShiftRegister
      BY <1>1, ShiftIn, Zenon
    <3> QED
      BY <3>1
  <2>2. b \in A
    OBVIOUS
  <2> HIDE DEF G, A
  <2> QED
    BY <2>1, <2>2, FoldThere
<1>3. \E f : Iter(f)
  <2>1. \A s \in SUBSET (1..n) : s # {} => g[s] = Shift(g[s \ {Last(s)}], q[Last(s)])
    BY <1>2, Zenon
  <2>2. \A s \in SUBSET (1..n) : s # {} => g[s] = (g[s \ {Last(s)}] * 256 + q[Last(s)]) % 2 ^ 22
    BY <2>1, Zenon DEF Shift
  <2>3. Iter([s \in SUBSET (1..n) |-> g[s]])
    BY <1>2, <2>2, Zenon
  <2> QED
    BY <2>3
<1> DEFINE h == CHOOSE f : Iter(f)
<1>4. Iter(h)
  <2> HIDE DEF Iter
  <2> QED
    BY <1>3
<1>5. formats!FoldLeft(LAMBDA v, byte : (v * 256 + byte) % 2 ^ 22, b, q) = h[1..n]
  <2>1. DOMAIN q = 1..n
    BY <1>0, LenProperties
  <2> QED
    BY <2>1, Zenon DEF formats!FoldLeft, formats!MapThenFoldSet, formats!Max, Last
<1> HIDE DEF h
<1> DEFINE f == [i \in 0..n |-> h[1..i]]
<1>6. f[0] = b
  BY <1>4, Beginnings
<1>7. ASSUME NEW i \in 1..n
      PROVE  f[i] = Shift(f[i - 1], q[i])
  <2>1. /\ 1..i \in SUBSET (1..n) /\ 1..i # {}
        /\ Last(1..i) = i /\ (1..i) \ {Last(1..i)} = 1..i - 1
    BY Beginnings
  <2>2. h[1..i] = (h[(1..i) \ {Last(1..i)}] * 256 + q[Last(1..i)]) % 2 ^ 22
    BY <1>4, <2>1
  <2>3. h[1..i] = Shift(h[1..i - 1], q[i])
    BY <2>1, <2>2, Zenon DEF Shift
  <2> QED
    BY <2>3
<1>8. f[n] = h[1..n]
  OBVIOUS
<1> HIDE DEF f
<1> QED
  BY <1>0, <1>5, <1>6, <1>7, <1>8

Refilled(b, raw, at, need) ==
    formats!FoldLeft(LAMBDA v, byte : (v * 256 + byte) % 2 ^ 22, b, SubSeq(raw, at + 1, at + need))

LEMMA OneRefilled ==
    ASSUME NEW b \in ShiftRegister, NEW raw \in Seq(Octets), NEW at \in Nat, at + 1 <= Len(raw)
    PROVE  Refilled(b, raw, at, 1) = Shift(b, raw[at + 1])
<1>1. PICK q \in Seq(Octets) : /\ q = SubSeq(raw, at + 1, at + 1)
                               /\ Len(q) = 1 /\ q[1] = raw[at + 1]
  <2>1. at + 1 \in Int /\ at + 1 \in Int /\ \A i \in at + 1..at + 1 : raw[i] \in Octets
    <3> SUFFICES ASSUME NEW i \in at + 1..at + 1 PROVE raw[i] \in Octets
      OBVIOUS
    <3>1. i \in 1..Len(raw)
      OBVIOUS
    <3> QED
      BY <3>1, ElementOfSeq
  <2>2. /\ SubSeq(raw, at + 1, at + 1) \in Seq(Octets)
        /\ Len(SubSeq(raw, at + 1, at + 1)) = IF at + 1 <= at + 1 THEN at + 1 - (at + 1) + 1 ELSE 0
        /\ \A i \in 1..at + 1 - (at + 1) + 1 : SubSeq(raw, at + 1, at + 1)[i] = raw[at + 1 + i - 1]
    BY <2>1, SubSeqProperties
  <2>3. /\ 1 \in 1..at + 1 - (at + 1) + 1 /\ at + 1 + 1 - 1 = at + 1
        /\ at + 1 <= at + 1 /\ at + 1 - (at + 1) + 1 = 1
    OBVIOUS
  <2>4. /\ Len(SubSeq(raw, at + 1, at + 1)) = 1
        /\ SubSeq(raw, at + 1, at + 1)[1] = raw[at + 1]
    BY <2>2, <2>3, Zenon
  <2> QED
    BY <2>2, <2>4
<1>2. PICK f : /\ f[0] = b
               /\ \A i \in 1..Len(q) : f[i] = Shift(f[i - 1], q[i])
               /\ formats!FoldLeft(LAMBDA v, byte : (v * 256 + byte) % 2 ^ 22, b, q) = f[Len(q)]
  BY BytesShifted
<1>3. f[1] = Shift(f[0], q[1])
  <2>1. 1 \in 1..Len(q) /\ 1 - 1 = 0
    BY <1>1
  <2> QED
    BY <1>2, <2>1
<1>4. Refilled(b, raw, at, 1) = f[1]
  BY <1>1, <1>2, Zenon DEF Refilled
<1> QED
  BY <1>1, <1>2, <1>3, <1>4

LEMMA TwoRefilled ==
    ASSUME NEW b \in ShiftRegister, NEW raw \in Seq(Octets), NEW at \in Nat, at + 2 <= Len(raw)
    PROVE  Refilled(b, raw, at, 2) = Shift(Shift(b, raw[at + 1]), raw[at + 2])
<1>1. PICK q \in Seq(Octets) : /\ q = SubSeq(raw, at + 1, at + 2) /\ Len(q) = 2
                               /\ q[1] = raw[at + 1] /\ q[2] = raw[at + 2]
  <2>1. at + 1 \in Int /\ at + 2 \in Int /\ \A i \in at + 1..at + 2 : raw[i] \in Octets
    <3> SUFFICES ASSUME NEW i \in at + 1..at + 2 PROVE raw[i] \in Octets
      OBVIOUS
    <3>1. i \in 1..Len(raw)
      OBVIOUS
    <3> QED
      BY <3>1, ElementOfSeq
  <2>2. /\ SubSeq(raw, at + 1, at + 2) \in Seq(Octets)
        /\ Len(SubSeq(raw, at + 1, at + 2)) = IF at + 1 <= at + 2 THEN at + 2 - (at + 1) + 1 ELSE 0
        /\ \A i \in 1..at + 2 - (at + 1) + 1 : SubSeq(raw, at + 1, at + 2)[i] = raw[at + 1 + i - 1]
    BY <2>1, SubSeqProperties
  <2>3. 1 \in 1..at + 2 - (at + 1) + 1 /\ 2 \in 1..at + 2 - (at + 1) + 1
        /\ at + 1 + 1 - 1 = at + 1 /\ at + 1 + 2 - 1 = at + 2
    OBVIOUS
  <2>4. /\ Len(SubSeq(raw, at + 1, at + 2)) = 2
        /\ SubSeq(raw, at + 1, at + 2)[1] = raw[at + 1]
        /\ SubSeq(raw, at + 1, at + 2)[2] = raw[at + 2]
    BY <2>2, <2>3
  <2> QED
    BY <2>2, <2>4
<1>2. PICK f : /\ f[0] = b
               /\ \A i \in 1..Len(q) : f[i] = Shift(f[i - 1], q[i])
               /\ formats!FoldLeft(LAMBDA v, byte : (v * 256 + byte) % 2 ^ 22, b, q) = f[Len(q)]
  BY BytesShifted
<1>3. f[1] = Shift(f[0], q[1]) /\ f[2] = Shift(f[1], q[2])
  <2>1. 1 \in 1..Len(q) /\ 1 - 1 = 0 /\ 2 \in 1..Len(q) /\ 2 - 1 = 1
    BY <1>1
  <2> QED
    BY <1>2, <2>1
<1>4. Refilled(b, raw, at, 2) = f[2]
  BY <1>1, <1>2, Zenon DEF Refilled
<1> QED
  BY <1>1, <1>2, <1>3, <1>4

\* What is known while a packed frame is taken apart: an element ends `bitsIn' bits before
\* the end of a byte, which the register ends as.
Packing == [buffer : ShiftRegister, bitsIn : {0, 2, 4, 6}, at : Nat, dest : Seq(Int)]
Filled(raw, kept) ==
    {st \in Packing :
       /\ 8 * st.at = 10 * Len(st.dest) + st.bitsIn
       /\ st.at <= Len(raw)
       /\ st.bitsIn # 0 => SameEnd(st.buffer, raw[st.at], st.bitsIn)
       /\ \A i \in 1..Len(st.dest) : st.dest[i] = Cut(formats!Element(raw, 10, i), kept)}
Pack(raw, kept, st) ==
    LET r == formats!Refill(st, 10, raw)
    IN  [r EXCEPT !.dest =
           Append(@, (r.buffer \div 2 ^ (r.bitsIn + 10 - kept)) % 2 ^ kept)]

\* n elements of ten bits are in the frame.
Fits(raw, n) == 10 * n <= 8 * Len(raw)

LEMMA RefillIs ==
    ASSUME NEW raw \in Seq(Octets), NEW st \in Packing, NEW need \in 1..2,
           need = (10 - st.bitsIn + 7) \div 8
    PROVE  formats!Refill(st, 10, raw)
             = [buffer |-> Refilled(st.buffer, raw, st.at, need),
                bitsIn |-> st.bitsIn + 8 * need - 10, at |-> st.at + need, dest |-> st.dest]
<1>1. formats!Refill(st, 10, raw)
        = [st EXCEPT !.buffer = Refilled(st.buffer, raw, st.at, need),
                     !.bitsIn = @ + 8 * need - 10, !.at = @ + need]
  BY Zenon DEF formats!Refill, Refilled
<1>2. PICK b \in ShiftRegister : b = st.buffer
  BY DEF Packing
<1>3. PICK e : e = Refilled(st.buffer, raw, st.at, need)
  OBVIOUS
<1>4. PICK n : n = [st EXCEPT !.buffer = e, !.bitsIn = @ + 8 * need - 10, !.at = @ + need]
  OBVIOUS
<1>5. /\ st = [buffer |-> st.buffer, bitsIn |-> st.bitsIn, at |-> st.at, dest |-> st.dest]
      /\ st.bitsIn \in Int /\ st.at \in Int
  BY DEF Packing
<1>6. n = [buffer |-> e, bitsIn |-> st.bitsIn + 8 * need - 10, at |-> st.at + need,
           dest |-> st.dest]
  BY <1>4, <1>5
<1> QED
  BY <1>1, <1>3, <1>4, <1>6

\* An element has been taken: what it is, and what the register ends as
LEMMA NextTaken ==
    ASSUME NEW raw \in Seq(Octets), NEW kept \in {8, 10}, NEW st \in Filled(raw, kept),
           Fits(raw, Len(st.dest) + 1)
    PROVE  \E n \in Packing :
             /\ n = Pack(raw, kept, st)
             /\ 8 * n.at = 10 * (Len(st.dest) + 1) + n.bitsIn /\ n.at <= Len(raw)
             /\ n.bitsIn # 0 => SameEnd(n.buffer, raw[n.at], n.bitsIn)
             /\ n.dest = Append(st.dest,
                                Cut(formats!Element(raw, 10, Len(st.dest) + 1), kept))
<1>1. PICK b \in ShiftRegister, bits \in {0, 2, 4, 6}, at \in Nat, d \in Seq(Int) :
        b = st.buffer /\ bits = st.bitsIn /\ at = st.at /\ d = st.dest
  BY DEF Filled, Packing
<1>2. PICK k \in Nat : k = Len(d)
  BY LenProperties
<1>3. PICK l \in Nat : l = Len(raw)
  BY LenProperties
<1>4. 8 * at = 10 * k + bits /\ at <= l /\ (bits # 0 => SameEnd(b, raw[at], bits))
  BY <1>1, <1>2, <1>3 DEF Filled
<1>5. 10 * (k + 1) <= 8 * l
  BY <1>1, <1>2, <1>3 DEF Fits
<1>6. st \in Packing
  BY DEF Filled
\* The number of bytes
<1>7. PICK need \in 1..2 : /\ need = (10 - bits + 7) \div 8
                           /\ need = IF bits = 0 THEN 2 ELSE 1
  <2>1. CASE bits = 0
    BY <2>1, SMT
  <2>2. CASE bits = 2
    BY <2>2, SMT
  <2>3. CASE bits = 4
    BY <2>3, SMT
  <2>4. CASE bits = 6
    BY <2>4, SMT
  <2> QED
    BY <2>1, <2>2, <2>3, <2>4, SMT
<1>8. PICK end \in {0, 2, 4, 6} :
        end = bits + 8 * need - 10 /\ end = IF bits = 0 THEN 6 ELSE bits - 2
  BY <1>7, SMT
<1>9. at + need <= l
  <2>1. CASE bits = 0
    BY <1>4, <1>5, <1>7, <2>1, SMT
  <2>2. CASE bits # 0
    BY <1>4, <1>5, <1>7, <2>2, SMT
  <2> QED
    BY <2>1, <2>2
<1>10. PICK s \in ShiftRegister :
         /\ s = Refilled(b, raw, at, need)
         /\ Tenth(s, end) = formats!Element(raw, 10, k + 1)
         /\ SameEnd(s, raw[at + need], end)
  <2>0. 10 \in 8..16 /\ k + 1 \in Nat \ {0} /\ k + 1 - 1 = k
    BY SMT
  <2>1. CASE bits = 0
    <3>1. need = 2 /\ end = 6 /\ at + 2 <= Len(raw)
      BY <1>3, <1>7, <1>8, <1>9, <2>1, SMT
    <3>2. at + 1 \in 1..Len(raw) /\ at + 2 \in 1..Len(raw)
      BY <3>1
    <3>3. PICK x \in Octets, y \in Octets : x = raw[at + 1] /\ y = raw[at + 2]
      BY <3>2, ElementOfSeq
    <3>4. PICK c \in ShiftRegister : c = Shift(b, x)
      BY ShiftIn, Zenon
    <3>5. PICK s \in ShiftRegister : s = Shift(c, y)
      BY ShiftIn, Zenon
    <3>6. s = Refilled(b, raw, at, need)
      BY <3>1, <3>3, <3>4, <3>5, TwoRefilled
    <3>7. Tenth(s, 6) = InBytes(x, y, 0) /\ SameEnd(s, y, 6)
      BY <3>4, <3>5, TwoBytesMore
    <3>8. PICK j \in Nat \ {0} : j = at + 1 /\ j + 1 = at + 2
      BY SMT
    <3>9. (k + 1 - 1) * 10 = 8 * (j - 1) + 0 /\ j + 1 <= Len(raw) /\ 0 + 10 <= 16 /\ 0 \in 0..7
      BY <1>4, <2>1, <3>1, <3>8, SMT
    <3>10. formats!Element(raw, 10, k + 1)
             = 2 ^ (0 + 10 - 8) * (raw[j] - 2 ^ (8 - 0) * Top(raw[j], 0))
                 + Top(raw[j + 1], 0 + 10 - 8)
      BY <2>0, <3>9, InTwoBytes
    <3>11. 0 + 10 - 8 = 0 + 2
      BY SMT
    <3>12. formats!Element(raw, 10, k + 1) = InBytes(x, y, 0)
      BY <3>3, <3>8, <3>10, <3>11, Zenon DEF InBytes
    <3> QED
      BY <3>1, <3>3, <3>6, <3>7, <3>12
  <2>2. CASE bits # 0
    <3>1. need = 1 /\ end = bits - 2 /\ at + 1 <= Len(raw) /\ bits \in {2, 4, 6}
      BY <1>3, <1>7, <1>8, <1>9, <2>2, SMT
    <3>2. at \in Nat \ {0}
      BY <1>4, <3>1, SMT
    <3>3. at \in 1..Len(raw) /\ at + 1 \in 1..Len(raw)
      BY <3>1, <3>2
    <3>4. PICK x \in Octets, y \in Octets : x = raw[at] /\ y = raw[at + 1]
      BY <3>3, ElementOfSeq
    <3>5. PICK s \in ShiftRegister : s = Shift(b, y)
      BY ShiftIn, Zenon
    <3>6. s = Refilled(b, raw, at, need)
      BY <3>1, <3>4, <3>5, OneRefilled
    <3>7. Tenth(s, bits - 2) = InBytes(x, y, 8 - bits) /\ SameEnd(s, y, bits - 2)
      <4>1. SameEnd(b, x, bits)
        BY <1>4, <2>2, <3>4
      <4> QED
        BY <3>1, <3>5, <4>1, OneByteMore
    <3>8. PICK o \in 0..7 : o = 8 - bits
      BY <3>1, SMT
    <3>9. PICK j \in Nat \ {0} : j = at
      BY <3>2
    <3>91. PICK e \in Nat \ {0}, w \in 8..16 : e = k + 1 /\ w = 10
      BY SMT
    <3>92. (e - 1) * w = 8 * (j - 1) + o /\ j + 1 <= Len(raw) /\ o + w <= 16
      BY <1>4, <3>1, <3>8, <3>9, <3>91, SMT
    <3>93. formats!Element(raw, w, e)
             = 2 ^ (o + w - 8) * (raw[j] - 2 ^ (8 - o) * Top(raw[j], o))
                 + Top(raw[j + 1], o + w - 8)
      BY <3>92, InTwoBytes, ZenonT(30)
    <3>10. formats!Element(raw, 10, k + 1)
             = 2 ^ (o + 10 - 8) * (raw[j] - 2 ^ (8 - o) * Top(raw[j], o))
                 + Top(raw[j + 1], o + 10 - 8)
      BY <3>91, <3>93
    <3>11. o + 10 - 8 = o + 2
      BY SMT
    <3>12. formats!Element(raw, 10, k + 1) = InBytes(x, y, o)
      BY <3>4, <3>9, <3>10, <3>11, Zenon DEF InBytes
    <3> QED
      BY <3>1, <3>4, <3>5, <3>6, <3>7, <3>8, <3>12
  <2> QED
    BY <2>1, <2>2
<1>11. PICK e : e = Cut(formats!Element(raw, 10, k + 1), kept) /\ e = Looked(s, end, kept)
  BY <1>10, LookedIsCut
<1>12. e \in Int
  BY <1>11, SMT DEF Looked, ShiftRegister
<1>13. PICK r : r = formats!Refill(st, 10, raw)
  OBVIOUS
<1>14. r = [buffer |-> s, bitsIn |-> end, at |-> at + need, dest |-> d]
  BY <1>1, <1>6, <1>7, <1>8, <1>10, <1>13, RefillIs
<1>15. Pack(raw, kept, st) = [buffer |-> s, bitsIn |-> end, at |-> at + need, dest |-> Append(d, e)]
  <2>1. Pack(raw, kept, st)
          = [r EXCEPT !.dest =
               Append(r.dest, (r.buffer \div 2 ^ (r.bitsIn + 10 - kept)) % 2 ^ kept)]
    BY <1>13, Zenon DEF Pack
  <2>2. r.buffer = s /\ r.bitsIn = end /\ r.dest = d
    BY <1>14
  <2>3. (s \div 2 ^ (end + 10 - kept)) % 2 ^ kept = e
    BY <1>11, Zenon DEF Looked
  <2>4. Pack(raw, kept, st) = [r EXCEPT !.dest = Append(d, e)]
    BY <2>1, <2>2, <2>3, Zenon
  <2>5. PICK a : a = Append(d, e)
    OBVIOUS
  <2>6. [r EXCEPT !.dest = a] = [buffer |-> s, bitsIn |-> end, at |-> at + need, dest |-> a]
    BY <1>14
  <2> QED
    BY <2>4, <2>5, <2>6
<1>16. PICK n : n = Pack(raw, kept, st)
  OBVIOUS
<1>17. Append(d, e) \in Seq(Int)
  BY <1>12, AppendProperties
<1>18. n \in Packing
  BY <1>15, <1>16, <1>17 DEF Packing
<1>19. n.buffer = s /\ n.bitsIn = end /\ n.at = at + need /\ n.dest = Append(d, e)
  BY <1>15, <1>16
<1>20. 8 * n.at = 10 * (k + 1) + n.bitsIn
  BY <1>4, <1>7, <1>8, <1>19, SMT
<1> QED
  BY <1>1, <1>2, <1>3, <1>9, <1>10, <1>11, <1>16, <1>18, <1>19, <1>20

LEMMA PackKeeps ==
    ASSUME NEW raw \in Seq(Octets), NEW kept \in {8, 10}, NEW st \in Filled(raw, kept),
           Fits(raw, Len(st.dest) + 1)
    PROVE  /\ Pack(raw, kept, st) \in Filled(raw, kept)
           /\ Len(Pack(raw, kept, st).dest) = Len(st.dest) + 1
<1>1. PICK n \in Packing :
        /\ n = Pack(raw, kept, st)
        /\ 8 * n.at = 10 * (Len(st.dest) + 1) + n.bitsIn /\ n.at <= Len(raw)
        /\ n.bitsIn # 0 => SameEnd(n.buffer, raw[n.at], n.bitsIn)
        /\ n.dest = Append(st.dest, Cut(formats!Element(raw, 10, Len(st.dest) + 1), kept))
  BY NextTaken
<1>2. PICK e : e = Cut(formats!Element(raw, 10, Len(st.dest) + 1), kept)
  OBVIOUS
<1>3. st.dest \in Seq(Int) /\ n.dest \in Seq(Int) /\ n.dest = Append(st.dest, e)
  BY <1>1, <1>2 DEF Filled, Packing
<1>4. PICK d \in Seq(Int), k \in Nat : d = st.dest /\ k = Len(d)
  BY <1>3, LenProperties
<1>5. Len(n.dest) = k + 1 /\ n.dest[k + 1] = e /\ \A i \in 1..k : n.dest[i] = d[i]
  BY <1>3, <1>4, SMT
<1>6. ASSUME NEW i \in 1..k + 1
      PROVE  n.dest[i] = Cut(formats!Element(raw, 10, i), kept)
  <2>1. CASE i = k + 1
    BY <1>2, <1>4, <1>5, <2>1
  <2>2. CASE i # k + 1
    <3>1. i \in 1..k
      BY <2>2
    <3>2. d[i] = Cut(formats!Element(raw, 10, i), kept)
      BY <1>4, <3>1 DEF Filled
    <3> QED
      BY <1>5, <3>1, <3>2
  <2> QED
    BY <2>1, <2>2
<1>7. n \in Filled(raw, kept)
  BY <1>1, <1>4, <1>5, <1>6 DEF Filled
<1> QED
  BY <1>1, <1>4, <1>5, <1>7

PackStart == [buffer |-> 0, bitsIn |-> 0, at |-> 0, dest |-> <<>>]

LEMMA StartFilled ==
    ASSUME NEW raw \in Seq(Octets), NEW kept \in {8, 10}
    PROVE  PackStart \in Filled(raw, kept) /\ Len(PackStart.dest) = 0
<1>1. PackStart \in Packing
  BY SMT DEF PackStart, Packing, ShiftRegister
<1>2. /\ PackStart.dest = <<>> /\ Len(PackStart.dest) = 0
      /\ PackStart.at = 0 /\ PackStart.bitsIn = 0
  BY DEF PackStart
<1>3. Len(raw) \in Nat
  BY LenProperties
<1> QED
  BY <1>1, <1>2, <1>3 DEF Filled

Packed10(raw, kept, n) ==
    formats!FoldLeft(LAMBDA st, k : Pack(raw, kept, st), PackStart, [k \in 1..n |-> k])

\* A packed frame, element after element
LEMMA PackedOneByOne ==
    ASSUME NEW raw \in Seq(Octets), NEW kept \in {8, 10}, NEW n \in Nat,
           Fits(raw, n)
    PROVE  /\ Packed10(raw, kept, n) \in Filled(raw, kept)
           /\ Len(Packed10(raw, kept, n).dest) = n
<1>0. PICK q : q = [k \in 1..n |-> k]
  OBVIOUS
<1>01. PICK A : A = Filled(raw, kept)
  OBVIOUS
<1>1. PICK b \in A : b = PackStart /\ Len(b.dest) = 0
  BY <1>01, StartFilled
<1>11. PICK G \in [A \X (1..n) -> A] :
         \A v \in A, i \in 1..n :
           G[<<v, i>>] = IF Pack(raw, kept, v) \in A THEN Pack(raw, kept, v) ELSE b
  <2>1. \A v \in A : (IF Pack(raw, kept, v) \in A THEN Pack(raw, kept, v) ELSE b) \in A
    BY <1>1
  <2> DEFINE H == [p \in A \X (1..n) |->
                     IF Pack(raw, kept, p[1]) \in A THEN Pack(raw, kept, p[1]) ELSE b]
  <2>2. H \in [A \X (1..n) -> A]
    BY <2>1
  <2>3. \A v \in A, i \in 1..n :
          H[<<v, i>>] = IF Pack(raw, kept, v) \in A THEN Pack(raw, kept, v) ELSE b
    OBVIOUS
  <2> QED
    BY <2>2, <2>3
<1> DEFINE Iter(f) == f = [s \in SUBSET (1..n) |->
                             IF s = {} THEN b ELSE Pack(raw, kept, f[s \ {Last(s)}])]
<1>2. PICK g : \A s \in SUBSET (1..n) :
        /\ s = {} => g[s] = b
        /\ s # {} => /\ g[s] = G[<<g[s \ {Last(s)}], Last(s)>>]
                     /\ g[s \ {Last(s)}] \in A /\ Last(s) \in 1..n
  <2>1. b \in A /\ G \in [A \X (1..n) -> A]
    BY <1>1, <1>11
  <2> QED
    BY <2>1, FoldThere
<1>3. \A s \in SUBSET (1..n) : s # {} =>
        /\ g[s] = IF Pack(raw, kept, g[s \ {Last(s)}]) \in A
                  THEN Pack(raw, kept, g[s \ {Last(s)}]) ELSE b
        /\ g[s \ {Last(s)}] \in A /\ Last(s) \in 1..n
  BY <1>2, <1>11
\* No beginning of the elements is longer than its last one.
<1>4. \A i \in Nat : i <= n => \A s \in SUBSET (1..i) : s \in SUBSET (1..n) => Len(g[s].dest) <= i
  <2> DEFINE S == {i \in Nat : i <= n =>
                     \A s \in SUBSET (1..i) : s \in SUBSET (1..n) => Len(g[s].dest) <= i}
  <2>1. 0 \in S
    <3> SUFFICES ASSUME NEW s \in SUBSET (1..0), s \in SUBSET (1..n)
                 PROVE  Len(g[s].dest) <= 0
      OBVIOUS
    <3>1. s = {}
      OBVIOUS
    <3>2. g[s] = b
      BY <1>2, <3>1
    <3> QED
      BY <1>1, <3>2
  <2>2. ASSUME NEW i \in Nat, i \in S PROVE i + 1 \in S
    <3> SUFFICES ASSUME i + 1 <= n, NEW s \in SUBSET (1..i + 1), s \in SUBSET (1..n)
                 PROVE  Len(g[s].dest) <= i + 1
      OBVIOUS
    <3>1. CASE s = {}
      <4>1. g[s] = b
        BY <1>2, <3>1
      <4> QED
        BY <1>1, <4>1
    <3>2. CASE s # {}
      <4>1. Last(s) \in s /\ \A y \in s : Last(s) >= y
        BY <3>2, LastIn
      <4>2. PICK t \in SUBSET (1..i) : t = s \ {Last(s)} /\ t \in SUBSET (1..n)
        <5>1. ASSUME NEW y \in s \ {Last(s)} PROVE y \in 1..i
          <6>1. y \in 1..i + 1 /\ Last(s) \in 1..i + 1 /\ Last(s) >= y /\ y # Last(s)
            BY <4>1
          <6> QED
            BY <6>1
        <5>2. s \ {Last(s)} \in SUBSET (1..i) /\ s \ {Last(s)} \in SUBSET (1..n)
          BY <5>1
        <5> QED
          BY <5>2
      <4>3. Len(g[t].dest) <= i
        <5>1. i <= n
          OBVIOUS
        <5> QED
          BY <2>2, <4>2, <5>1
      <4>4. g[t] \in Filled(raw, kept)
        BY <1>01, <1>3, <3>2, <4>2
      <4>5. Len(g[t].dest) \in Nat
        BY <4>4, LenProperties DEF Filled, Packing
      <4>6. Len(g[t].dest) < n
        BY <4>3, <4>5
      <4>61. Fits(raw, Len(g[t].dest) + 1)
        BY <4>5, <4>6, LenProperties DEF Fits
      <4>7. Pack(raw, kept, g[t]) \in A /\ Len(Pack(raw, kept, g[t]).dest) = Len(g[t].dest) + 1
        BY <1>01, <4>4, <4>61, PackKeeps
      <4>8. g[s] = Pack(raw, kept, g[t])
        BY <1>3, <3>2, <4>2, <4>7
      <4> QED
        BY <4>3, <4>5, <4>7, <4>8
    <3> QED
      BY <3>1, <3>2
  <2>3. Nat \subseteq S
    <3> HIDE DEF S
    <3> QED
      BY <2>1, <2>2, Induction
  <2> QED
    BY <2>3
<1>5. ASSUME NEW s \in SUBSET (1..n), s # {}
      PROVE  g[s] = Pack(raw, kept, g[s \ {Last(s)}])
  <2>1. Last(s) \in s /\ \A y \in s : Last(s) >= y
    BY <1>5, LastIn
  <2>2. PICK i \in Nat : i = Last(s) - 1 /\ i < n
    <3>1. Last(s) \in 1..n
      BY <2>1
    <3> QED
      BY <3>1
  <2>3. s \ {Last(s)} \in SUBSET (1..i) /\ s \ {Last(s)} \in SUBSET (1..n)
    <3>1. ASSUME NEW y \in s \ {Last(s)} PROVE y \in 1..i
      <4>1. y \in 1..n /\ Last(s) \in 1..n /\ Last(s) >= y /\ y # Last(s)
        BY <2>1
      <4> QED
        BY <2>2, <4>1
    <3> QED
      BY <3>1
  <2>4. Len(g[s \ {Last(s)}].dest) <= i
    BY <1>4, <2>2, <2>3
  <2>5. g[s \ {Last(s)}] \in Filled(raw, kept)
    BY <1>01, <1>3, <1>5
  <2>6. Len(g[s \ {Last(s)}].dest) \in Nat
    BY <2>5, LenProperties DEF Filled, Packing
  <2>7. Len(g[s \ {Last(s)}].dest) < n
    BY <2>2, <2>4, <2>6
  <2>71. Fits(raw, Len(g[s \ {Last(s)}].dest) + 1)
    BY <2>6, <2>7, LenProperties DEF Fits
  <2>8. Pack(raw, kept, g[s \ {Last(s)}]) \in A
    BY <1>01, <2>5, <2>71, PackKeeps
  <2> QED
    BY <1>3, <1>5, <2>8
<1>6. \E f : Iter(f)
  <2>1. Iter([s \in SUBSET (1..n) |-> g[s]])
    BY <1>2, <1>5, Zenon
  <2> QED
    BY <2>1
<1> DEFINE h == CHOOSE f : Iter(f)
<1>7. Iter(h)
  <2> HIDE DEF Iter
  <2> QED
    BY <1>6
<1>8. Packed10(raw, kept, n) = h[1..n]
  <2>1. formats!FoldLeft(LAMBDA st, k : Pack(raw, kept, st), b, q) = h[1..n]
    <3>1. DOMAIN q = 1..n
      BY <1>0
    <3> QED
      BY <3>1, Zenon DEF formats!FoldLeft, formats!MapThenFoldSet, formats!Max, Last
  <2>2. Packed10(raw, kept, n) = formats!FoldLeft(LAMBDA st, k : Pack(raw, kept, st), b, q)
    BY <1>0, <1>1, Zenon DEF Packed10
  <2> QED
    BY <2>1, <2>2
<1> HIDE DEF h
<1> DEFINE Good(i) == h[1..i] \in Filled(raw, kept) /\ Len(h[1..i].dest) = i
           S == {i \in Nat : i <= n => Good(i)}
<1>9. 0 \in S
  <2>1. h[1..0] = b
    BY <1>7, Beginnings
  <2> QED
    BY <1>01, <1>1, <2>1
<1>10. ASSUME NEW i \in Nat, i \in S PROVE i + 1 \in S
  <2> SUFFICES ASSUME i + 1 <= n PROVE Good(i + 1)
    OBVIOUS
  <2>1. i + 1 \in 1..n /\ i + 1 - 1 = i
    OBVIOUS
  <2>2. /\ 1..i + 1 \in SUBSET (1..n) /\ 1..i + 1 # {}
        /\ Last(1..i + 1) = i + 1 /\ (1..i + 1) \ {Last(1..i + 1)} = 1..i
    <3>1. PICK e \in 1..n : e = i + 1 /\ e - 1 = i
      BY <2>1
    <3>2. /\ 1..e \in SUBSET (1..n) /\ 1..e # {}
          /\ Last(1..e) = e /\ (1..e) \ {Last(1..e)} = 1..e - 1
      BY Beginnings
    <3> QED
      BY <3>1, <3>2
  <2>3. h[1..i + 1] = Pack(raw, kept, h[1..i])
    BY <1>7, <2>2
  <2>4. h[1..i] \in Filled(raw, kept) /\ Len(h[1..i].dest) = i
    BY <1>10
  <2>5. Fits(raw, Len(h[1..i].dest) + 1)
    <3>1. Fits(raw, i + 1)
      BY LenProperties DEF Fits
    <3> QED
      BY <2>4, <3>1
  <2>6. PICK st \in Filled(raw, kept) : st = h[1..i]
    BY <2>4
  <2>7. Fits(raw, Len(st.dest) + 1)
    BY <2>5, <2>6
  <2>8. /\ Pack(raw, kept, st) \in Filled(raw, kept)
        /\ Len(Pack(raw, kept, st).dest) = Len(st.dest) + 1
    BY <2>7, PackKeeps
  <2> QED
    BY <2>3, <2>4, <2>6, <2>8
<1>12. Good(n)
  <2>1. n \in S
    <3> HIDE DEF S
    <3> QED
      BY <1>9, <1>10, Induction
  <2> QED
    BY <2>1
<1> QED
  BY <1>8, <1>12

\* The elements of ten bits
LEMMA TensTaken ==
    ASSUME NEW raw \in Seq(Octets), NEW kept \in {8, 10}, NEW n \in Nat,
           Fits(raw, n)
    PROVE  /\ formats!ConvertPacked(raw, 10, kept, n) \in Seq(Int)
           /\ Len(formats!ConvertPacked(raw, 10, kept, n)) = n
           /\ \A i \in 1..n : formats!ConvertPacked(raw, 10, kept, n)[i]
                                = Cut(formats!Element(raw, 10, i), kept)
<1>1. formats!ConvertPacked(raw, 10, kept, n) = Packed10(raw, kept, n).dest
  BY Zenon DEF formats!ConvertPacked, Packed10, Pack, PackStart
<1>2. PICK st \in Filled(raw, kept) : st = Packed10(raw, kept, n) /\ Len(st.dest) = n
  BY PackedOneByOne
<1> QED
  BY <1>1, <1>2 DEF Filled, Packing

-----------------------------------------------------------------------------
\* One line of a Bayer picture, pixel after pixel
Triple == [prev : Nat, cur : Nat, next : Nat]
BayerState == [h : Triple, v : Triple, dst : Seq(Nat)]

OfPair(raw, y, x) ==
    (raw[formats!PrevLine(y) * Width + x] + raw[formats!NextLine(y) * Width + x]) \div 2
Full(r, x, next) == [r EXCEPT !.next = IF x < Width - 1 THEN next ELSE r.prev]
NextTriple(r) == [prev |-> r.cur, cur |-> r.next, next |-> 0]
BayerStep(raw, y, st, x) ==
    [h |-> NextTriple(Full(st.h, x, raw[y * Width + (x + 1)])),
     v |-> NextTriple(Full(st.v, x, OfPair(raw, y, x + 1))),
     dst |-> st.dst \o formats!Colour(x, y, Full(st.h, x, raw[y * Width + (x + 1)]),
                                      Full(st.v, x, OfPair(raw, y, x + 1)))]
BayerStart(raw, y) ==
    [h |-> [prev |-> raw[y * Width + 1], cur |-> raw[y * Width + 0], next |-> 0],
     v |-> [prev |-> OfPair(raw, y, 1), cur |-> OfPair(raw, y, 0), next |-> 0], dst |-> <<>>]

LineOf(raw, y) ==
    formats!FoldLeft(LAMBDA st, x : BayerStep(raw, y, st, x), BayerStart(raw, y),
                     [k \in 1..Width |-> k - 1])

LEMMA LineOfPixels ==
    ASSUME NEW raw, NEW y
    PROVE  formats!BayerLine(raw, y) = LineOf(raw, y).dst
BY Zenon DEF formats!BayerLine, LineOf, BayerStep, BayerStart, Full, NextTriple, OfPair

LEMMA PictureSize == Width \in Nat /\ Width >= 2 /\ Height \in Nat /\ Height >= 2
BY FormatsAssumption DEF formats!FormatsAssumption

LEMMA MirrorIn ==
    ASSUME NEW n \in Nat, n >= 2, NEW i \in -1..n
    PROVE  /\ formats!Mirror(i, n) \in 0..n - 1 /\ formats!Mirror(i, n) % 2 = i % 2
           /\ i \in 0..n - 1 => formats!Mirror(i, n) = i
<1>1. CASE i = -1
  <2>1. formats!Mirror(i, n) = 1
    BY <1>1 DEF formats!Mirror
  <2>2. i % 2 = 1 /\ 1 % 2 = 1
    <3>1. i + 1 = 0
      BY <1>1
    <3> HIDE <1>1
    <3> QED
      BY <3>1, SMT
  <2> QED
    BY <1>1, <2>1, <2>2
<1>2. CASE i = n
  <2>1. formats!Mirror(i, n) = n - 2
    BY <1>2 DEF formats!Mirror
  <2>2. (n - 2) % 2 = n % 2
    BY SMT
  <2> QED
    BY <1>2, <2>1, <2>2
<1>3. CASE i # -1 /\ i # n
  BY <1>3 DEF formats!Mirror
<1> QED
  BY <1>1, <1>2, <1>3

LEMMA LinesBeside ==
    ASSUME NEW y \in 0..Height - 1
    PROVE  /\ formats!PrevLine(y) = formats!Mirror(y - 1, Height)
           /\ formats!NextLine(y) = formats!Mirror(y + 1, Height)
           /\ formats!PrevLine(y) \in 0..Height - 1 /\ formats!NextLine(y) \in 0..Height - 1
BY PictureSize DEF formats!PrevLine, formats!NextLine, formats!Mirror

\* The cells of a Bayer picture
BayerCells == 0..Width * Height - 1

LEMMA CellMeasured ==
    ASSUME NEW raw \in [BayerCells -> Nat], NEW y \in 0..Height - 1, NEW x \in 0..Width - 1
    PROVE  raw[y * Width + x] \in Nat
<1>1. PICK w \in Nat, h \in Nat : w = Width /\ h = Height
  BY PictureSize
<1>2. y * w + x \in Nat /\ y * w + x <= w * h - 1
  <2>1. y \in 0..h - 1 /\ x \in 0..w - 1
    BY <1>1
  <2> QED
    BY <2>1, RowsOfCells
<1>3. PICK i \in Nat : i = y * w + x
  BY <1>2
<1>4. w * h \in Nat
  BY <1>1
<1>5. i \in 0..w * h - 1
  <2>1. PICK p \in Nat : p = w * h
    BY <1>4
  <2> QED
    BY <1>2, <1>3, <2>1
<1>6. y * Width + x \in BayerCells
  BY <1>1, <1>3, <1>5, Zenon DEF BayerCells
<1> QED
  BY <1>6

LEMMA PairMeasured ==
    ASSUME NEW raw \in [BayerCells -> Nat], NEW y \in 0..Height - 1, NEW x \in 0..Width - 1
    PROVE  OfPair(raw, y, x) \in Nat
<1>1. PICK p \in 0..Height - 1, n \in 0..Height - 1 :
        p = formats!PrevLine(y) /\ n = formats!NextLine(y)
  BY LinesBeside
<1>2. PICK a \in Nat, b \in Nat : a = raw[p * Width + x] /\ b = raw[n * Width + x]
  BY CellMeasured
<1>3. OfPair(raw, y, x) = (a + b) \div 2
  BY <1>1, <1>2 DEF OfPair
<1> QED
  BY <1>3, SMT

\* A pixel's colours
Colours(x, y, h, v) ==
    LET hSum == (h.prev + h.next) \div 2
        cross == (hSum + v.cur) \div 2
        corners == (v.prev + v.next) \div 2
    IN  IF y % 2 = 0 THEN IF x % 2 = 0 THEN <<hSum, h.cur, v.cur>>
                          ELSE <<h.cur, cross, corners>>
        ELSE IF x % 2 = 0 THEN <<corners, cross, h.cur>>
             ELSE <<v.cur, h.cur, hSum>>

LEMMA ColourIs ==
    ASSUME NEW x \in Nat, NEW y \in Nat, NEW h \in Triple, NEW v \in Triple
    PROVE  /\ formats!Colour(x, y, h, v) = Colours(x, y, h, v)
           /\ formats!Colour(x, y, h, v) \in Seq(Nat) /\ Len(formats!Colour(x, y, h, v)) = 3
<1>0. PICK hp \in Nat, hc \in Nat, hn \in Nat, vp \in Nat, vc \in Nat, vn \in Nat :
        /\ hp = h.prev /\ hc = h.cur /\ hn = h.next
        /\ vp = v.prev /\ vc = v.cur /\ vn = v.next
  BY DEF Triple
<1>1. PICK a \in Nat, e \in Nat : a = (h.prev + h.next) \div 2 /\ e = (v.prev + v.next) \div 2
  BY <1>0, SMT
<1>2. PICK f \in Nat : f = (((h.prev + h.next) \div 2) + v.cur) \div 2
  BY <1>0, <1>1, SMT
<1>3. CASE y % 2 = 0 /\ x % 2 = 0
  <2>1. formats!Colour(x, y, h, v) = <<a, hc, vc>> /\ Colours(x, y, h, v) = <<a, hc, vc>>
    BY <1>0, <1>1, <1>2, <1>3 DEF formats!Colour, Colours
  <2> QED
    BY <2>1
<1>4. CASE y % 2 = 0 /\ x % 2 = 1
  <2>1. formats!Colour(x, y, h, v) = <<hc, f, e>> /\ Colours(x, y, h, v) = <<hc, f, e>>
    BY <1>0, <1>1, <1>2, <1>4 DEF formats!Colour, Colours
  <2> QED
    BY <2>1
<1>5. CASE y % 2 = 1 /\ x % 2 = 0
  <2>1. formats!Colour(x, y, h, v) = <<e, f, hc>> /\ Colours(x, y, h, v) = <<e, f, hc>>
    BY <1>0, <1>1, <1>2, <1>5 DEF formats!Colour, Colours
  <2> QED
    BY <2>1
<1>6. CASE y % 2 = 1 /\ x % 2 = 1
  <2>1. formats!Colour(x, y, h, v) = <<vc, hc, a>> /\ Colours(x, y, h, v) = <<vc, hc, a>>
    BY <1>0, <1>1, <1>2, <1>6 DEF formats!Colour, Colours
  <2> QED
    BY <2>1
<1> QED
  BY <1>3, <1>4, <1>5, <1>6, SMT

\* The neighbours of a pixel in its line, and the means of the lines beside it
Hor(raw, y, x) ==
    [prev |-> raw[y * Width + formats!Mirror(x - 1, Width)], cur |-> raw[y * Width + x],
     next |-> raw[y * Width + formats!Mirror(x + 1, Width)]]
Ver(raw, y, x) ==
    [prev |-> OfPair(raw, y, formats!Mirror(x - 1, Width)), cur |-> OfPair(raw, y, x),
     next |-> OfPair(raw, y, formats!Mirror(x + 1, Width))]
Pixel(raw, y, x) == formats!Colour(x, y, Hor(raw, y, x), Ver(raw, y, x))

LEMMA NeighboursMeasured ==
    ASSUME NEW raw \in [BayerCells -> Nat], NEW y \in 0..Height - 1, NEW x \in 0..Width - 1
    PROVE  Hor(raw, y, x) \in Triple /\ Ver(raw, y, x) \in Triple
<1>1. PICK p \in 0..Width - 1, n \in 0..Width - 1 :
        p = formats!Mirror(x - 1, Width) /\ n = formats!Mirror(x + 1, Width)
  <2>1. x - 1 \in -1..Width /\ x + 1 \in -1..Width
    BY PictureSize
  <2> QED
    BY <2>1, MirrorIn, PictureSize
<1>2. /\ raw[y * Width + p] \in Nat /\ raw[y * Width + x] \in Nat /\ raw[y * Width + n] \in Nat
      /\ OfPair(raw, y, p) \in Nat /\ OfPair(raw, y, x) \in Nat /\ OfPair(raw, y, n) \in Nat
  BY CellMeasured, PairMeasured
<1> QED
  BY <1>1, <1>2 DEF Hor, Ver, Triple

\* The registers before the k-th pixel, and what has been written
Scanned(raw, y, k) ==
    {st \in BayerState :
       /\ k < Width =>
            /\ st.h.prev = Hor(raw, y, k).prev /\ st.h.cur = Hor(raw, y, k).cur
            /\ st.v.prev = Ver(raw, y, k).prev /\ st.v.cur = Ver(raw, y, k).cur
       /\ Len(st.dst) = 3 * k
       /\ \A x \in 0..k - 1, c \in 1..3 : st.dst[3 * x + c] = Pixel(raw, y, x)[c]}

LEMMA FullIs ==
    ASSUME NEW r \in Triple, NEW x \in 0..Width - 1, NEW next \in Nat
    PROVE  Full(r, x, next) = [prev |-> r.prev, cur |-> r.cur,
                               next |-> IF x < Width - 1 THEN next ELSE r.prev]
<1>1. r = [prev |-> r.prev, cur |-> r.cur, next |-> r.next]
  BY DEF Triple
<1>2. PICK e : e = IF x < Width - 1 THEN next ELSE r.prev
  OBVIOUS
<1>3. Full(r, x, next) = [r EXCEPT !.next = e]
  BY <1>2, Zenon DEF Full
<1>4. [r EXCEPT !.next = e] = [prev |-> r.prev, cur |-> r.cur, next |-> e]
  BY <1>1
<1> QED
  BY <1>2, <1>3, <1>4

LEMMA FullAtEnd ==
    ASSUME NEW r \in Triple, NEW x, x = Width - 1
    PROVE  \A next : Full(r, x, next) = [prev |-> r.prev, cur |-> r.cur, next |-> r.prev]
<1>1. r = [prev |-> r.prev, cur |-> r.cur, next |-> r.next]
  BY DEF Triple
<1>2. ~(x < Width - 1)
  BY PictureSize
<1>3. ASSUME NEW next PROVE Full(r, x, next) = [r EXCEPT !.next = r.prev]
  BY <1>2, Zenon DEF Full
<1>4. [r EXCEPT !.next = r.prev] = [prev |-> r.prev, cur |-> r.cur, next |-> r.prev]
  BY <1>1
<1> QED
  BY <1>3, <1>4

LEMMA FullTriple ==
    ASSUME NEW raw \in [BayerCells -> Nat], NEW y \in 0..Height - 1, NEW x \in 0..Width - 1,
           NEW st \in BayerState
    PROVE  /\ Full(st.h, x, raw[y * Width + (x + 1)]) \in Triple
           /\ Full(st.v, x, OfPair(raw, y, x + 1)) \in Triple
<1>1. st.h \in Triple /\ st.v \in Triple
  BY DEF BayerState
<1>2. CASE x < Width - 1
  <2>1. x + 1 \in 0..Width - 1
    BY <1>2, PictureSize
  <2>2. raw[y * Width + (x + 1)] \in Nat /\ OfPair(raw, y, x + 1) \in Nat
    BY <2>1, CellMeasured, PairMeasured
  <2>3. /\ Full(st.h, x, raw[y * Width + (x + 1)])
             = [prev |-> st.h.prev, cur |-> st.h.cur, next |-> raw[y * Width + (x + 1)]]
        /\ Full(st.v, x, OfPair(raw, y, x + 1))
             = [prev |-> st.v.prev, cur |-> st.v.cur, next |-> OfPair(raw, y, x + 1)]
    BY <1>1, <1>2, <2>2, FullIs
  <2> QED
    BY <1>1, <2>2, <2>3 DEF Triple
<1>3. CASE ~(x < Width - 1)
  <2>1. x = Width - 1
    BY <1>3, PictureSize
  <2>2. /\ Full(st.h, x, raw[y * Width + (x + 1)])
             = [prev |-> st.h.prev, cur |-> st.h.cur, next |-> st.h.prev]
        /\ Full(st.v, x, OfPair(raw, y, x + 1))
             = [prev |-> st.v.prev, cur |-> st.v.cur, next |-> st.v.prev]
    BY <1>1, <2>1, FullAtEnd
  <2> QED
    BY <1>1, <2>2 DEF Triple
<1> QED
  BY <1>2, <1>3

LEMMA StepKeepsType ==
    ASSUME NEW raw \in [BayerCells -> Nat], NEW y \in 0..Height - 1, NEW x \in 0..Width - 1,
           NEW st \in BayerState
    PROVE  BayerStep(raw, y, st, x) \in BayerState
<1>1. PICK h \in Triple, v \in Triple :
        /\ h = Full(st.h, x, raw[y * Width + (x + 1)])
        /\ v = Full(st.v, x, OfPair(raw, y, x + 1))
  BY FullTriple
<1>2. BayerStep(raw, y, st, x)
        = [h |-> NextTriple(h), v |-> NextTriple(v), dst |-> st.dst \o formats!Colour(x, y, h, v)]
  BY <1>1, Zenon DEF BayerStep
<1>3. NextTriple(h) \in Triple /\ NextTriple(v) \in Triple
  BY DEF NextTriple, Triple
<1>4. formats!Colour(x, y, h, v) \in Seq(Nat)
  <2>1. x \in Nat /\ y \in Nat
    BY PictureSize
  <2> QED
    BY <2>1, ColourIs
<1>5. st.dst \o formats!Colour(x, y, h, v) \in Seq(Nat)
  <2>1. st.dst \in Seq(Nat)
    BY DEF BayerState
  <2> QED
    BY <1>4, <2>1, ConcatProperties
<1> QED
  BY <1>2, <1>3, <1>5 DEF BayerState

LEMMA StepScans ==
    ASSUME NEW raw \in [BayerCells -> Nat], NEW y \in 0..Height - 1, NEW k \in 0..Width - 1,
           NEW st \in Scanned(raw, y, k)
    PROVE  BayerStep(raw, y, st, k) \in Scanned(raw, y, k + 1)
<1>0. k \in Nat /\ y \in Nat /\ k < Width /\ Width \in Nat /\ Width >= 2
  BY PictureSize
<1>1. st \in BayerState
  BY DEF Scanned
<1>2. PICK h \in Triple, v \in Triple :
        /\ h = Full(st.h, k, raw[y * Width + (k + 1)])
        /\ v = Full(st.v, k, OfPair(raw, y, k + 1))
  BY <1>1, FullTriple
<1>3. PICK a \in Triple, b \in Triple : a = Hor(raw, y, k) /\ b = Ver(raw, y, k)
  BY NeighboursMeasured
<1>4. /\ st.h.prev = a.prev /\ st.h.cur = a.cur /\ st.v.prev = b.prev /\ st.v.cur = b.cur
      /\ st.h \in Triple /\ st.v \in Triple /\ st.dst \in Seq(Nat)
  BY <1>0, <1>1, <1>3 DEF Scanned, BayerState
<1>5. h = a /\ v = b
  <2>1. CASE k < Width - 1
    <3>1. k + 1 \in 0..Width - 1 /\ k + 1 \in -1..Width
      BY <1>0, <2>1
    <3>2. raw[y * Width + (k + 1)] \in Nat /\ OfPair(raw, y, k + 1) \in Nat
      BY <3>1, CellMeasured, PairMeasured
    <3>3. formats!Mirror(k + 1, Width) = k + 1
      BY <1>0, <3>1, MirrorIn
    <3>4. a.next = raw[y * Width + (k + 1)] /\ b.next = OfPair(raw, y, k + 1)
      BY <1>3, <3>3 DEF Hor, Ver
    <3>5. /\ h = [prev |-> st.h.prev, cur |-> st.h.cur, next |-> raw[y * Width + (k + 1)]]
          /\ v = [prev |-> st.v.prev, cur |-> st.v.cur, next |-> OfPair(raw, y, k + 1)]
      BY <1>2, <1>4, <2>1, <3>2, FullIs
    <3> QED
      BY <1>4, <3>4, <3>5 DEF Triple
  <2>2. CASE ~(k < Width - 1)
    <3>1. k = Width - 1 /\ k + 1 = Width
      BY <1>0, <2>2
    <3>2. formats!Mirror(k + 1, Width) = k - 1 /\ formats!Mirror(k - 1, Width) = k - 1
      BY <1>0, <3>1 DEF formats!Mirror
    <3>3. a.next = a.prev /\ b.next = b.prev
      BY <1>3, <3>2 DEF Hor, Ver
    <3>4. /\ h = [prev |-> st.h.prev, cur |-> st.h.cur, next |-> st.h.prev]
          /\ v = [prev |-> st.v.prev, cur |-> st.v.cur, next |-> st.v.prev]
      BY <1>2, <1>4, <3>1, FullAtEnd
    <3> QED
      BY <1>4, <3>3, <3>4 DEF Triple
  <2> QED
    BY <2>1, <2>2
<1>6. PICK p \in Seq(Nat) : p = Pixel(raw, y, k) /\ Len(p) = 3
  BY <1>0, <1>3, ColourIs DEF Pixel
<1>7. PICK n \in BayerState : n = BayerStep(raw, y, st, k)
  BY <1>1, StepKeepsType
<1>8. n = [h |-> NextTriple(h), v |-> NextTriple(v), dst |-> st.dst \o p]
  BY <1>2, <1>3, <1>5, <1>6, <1>7, Zenon DEF BayerStep, Pixel
<1>9. n.h = NextTriple(h) /\ n.v = NextTriple(v) /\ n.dst = st.dst \o p
  BY <1>8
<1>10. ASSUME k + 1 < Width
       PROVE  /\ n.h.prev = Hor(raw, y, k + 1).prev /\ n.h.cur = Hor(raw, y, k + 1).cur
              /\ n.v.prev = Ver(raw, y, k + 1).prev /\ n.v.cur = Ver(raw, y, k + 1).cur
  <2>1. formats!Mirror(k + 1, Width) = k + 1 /\ formats!Mirror(k + 1 - 1, Width) = k
    BY <1>0, <1>10 DEF formats!Mirror
  <2>2. n.h.prev = a.cur /\ n.h.cur = a.next /\ n.v.prev = b.cur /\ n.v.cur = b.next
    BY <1>5, <1>9 DEF NextTriple
  <2> QED
    BY <1>3, <2>1, <2>2 DEF Hor, Ver
<1>11. Len(n.dst) = 3 * (k + 1)
  <2>1. Len(st.dst) = 3 * k
    BY DEF Scanned
  <2>2. Len(n.dst) = Len(st.dst) + Len(p)
    BY <1>4, <1>9, ConcatProperties
  <2> QED
    BY <1>0, <1>6, <2>1, <2>2
<1>12. ASSUME NEW x \in 0..k, NEW c \in 1..3
       PROVE  n.dst[3 * x + c] = Pixel(raw, y, x)[c]
  <2>1. Len(st.dst) = 3 * k
    BY DEF Scanned
  <2>2. \A i \in 1..Len(st.dst) + Len(p) :
          (st.dst \o p)[i] = IF i <= Len(st.dst) THEN st.dst[i] ELSE p[i - Len(st.dst)]
    BY <1>4, ConcatProperties
  <2>3. CASE x = k
    <3>1. PICK i \in 1..3 * k + 3 : i = 3 * x + c /\ i > 3 * k /\ i - 3 * k = c
      BY <1>0, <2>3
    <3>2. (st.dst \o p)[i] = p[i - 3 * k]
      <4>1. i \in 1..Len(st.dst) + Len(p) /\ ~(i <= Len(st.dst))
        BY <1>0, <1>6, <2>1, <3>1
      <4>2. (st.dst \o p)[i] = p[i - Len(st.dst)]
        BY <2>2, <4>1
      <4> QED
        BY <2>1, <4>2
    <3>3. n.dst[3 * x + c] = p[c]
      BY <1>9, <3>1, <3>2
    <3> QED
      BY <1>6, <2>3, <3>3
  <2>4. CASE x # k
    <3>1. x \in 0..k - 1
      BY <1>0, <2>4
    <3>2. PICK i \in 1..3 * k + 3 : i = 3 * x + c /\ i <= 3 * k
      BY <1>0, <3>1
    <3>3. st.dst[3 * x + c] = Pixel(raw, y, x)[c]
      BY <3>1 DEF Scanned
    <3> QED
      BY <1>6, <1>9, <2>1, <2>2, <3>2, <3>3
  <2> QED
    BY <2>3, <2>4
<1>13. n \in Scanned(raw, y, k + 1)
  <2>1. 0..(k + 1) - 1 = 0..k
    BY <1>0
  <2> QED
    BY <1>7, <1>10, <1>11, <1>12, <2>1 DEF Scanned
<1> QED
  BY <1>7, <1>13

LEMMA StartScanned ==
    ASSUME NEW raw \in [BayerCells -> Nat], NEW y \in 0..Height - 1
    PROVE  BayerStart(raw, y) \in Scanned(raw, y, 0)
<1>0. 0 \in 0..Width - 1 /\ 1 \in 0..Width - 1 /\ Width \in Nat /\ Width >= 2
  BY PictureSize
<1>1. PICK a \in Nat, b \in Nat, c \in Nat, d \in Nat :
        /\ a = raw[y * Width + 1] /\ b = raw[y * Width + 0]
        /\ c = OfPair(raw, y, 1) /\ d = OfPair(raw, y, 0)
  BY <1>0, CellMeasured, PairMeasured
<1>2. PICK st : st = BayerStart(raw, y)
  OBVIOUS
<1>3. /\ st = [h |-> [prev |-> a, cur |-> b, next |-> 0],
               v |-> [prev |-> c, cur |-> d, next |-> 0], dst |-> <<>>]
  BY <1>1, <1>2 DEF BayerStart
<1>4. st \in BayerState
  BY <1>3 DEF BayerState, Triple
<1>5. st.h.prev = a /\ st.h.cur = b /\ st.v.prev = c /\ st.v.cur = d /\ Len(st.dst) = 0
  BY <1>3
<1>6. formats!Mirror(0 - 1, Width) = 1
  BY <1>0 DEF formats!Mirror
<1>7. /\ Hor(raw, y, 0).prev = a /\ Hor(raw, y, 0).cur = b
      /\ Ver(raw, y, 0).prev = c /\ Ver(raw, y, 0).cur = d
  BY <1>1, <1>6 DEF Hor, Ver
<1>8. 0..0 - 1 = {}
  OBVIOUS
<1> QED
  BY <1>2, <1>4, <1>5, <1>7, <1>8 DEF Scanned

LEMMA PixelsScanned ==
    ASSUME NEW raw \in [BayerCells -> Nat], NEW y \in 0..Height - 1
    PROVE  \E f : /\ f[0] = BayerStart(raw, y)
                  /\ \A k \in 1..Width : f[k] = BayerStep(raw, y, f[k - 1], k - 1)
                  /\ LineOf(raw, y) = f[Width]
<1>0. PICK n \in Nat : n = Width
  BY PictureSize
<1>01. PICK q : q = [k \in 1..n |-> k - 1]
  OBVIOUS
<1>02. PICK A : A = BayerState
  OBVIOUS
<1>1. PICK b \in A : b = BayerStart(raw, y)
  <2>1. BayerStart(raw, y) \in BayerState
    BY StartScanned DEF Scanned
  <2> QED
    BY <1>02, <2>1
<1>2. PICK G \in [A \X (1..n) -> A] :
        \A v \in A, k \in 1..n : G[<<v, k>>] = BayerStep(raw, y, v, q[k])
  <2>1. ASSUME NEW v \in A, NEW k \in 1..n PROVE BayerStep(raw, y, v, q[k]) \in A
    <3>1. q[k] \in 0..Width - 1
      BY <1>0, <1>01
    <3> QED
      BY <1>02, <3>1, StepKeepsType
  <2> DEFINE H == [p \in A \X (1..n) |-> BayerStep(raw, y, p[1], q[p[2]])]
  <2>2. H \in [A \X (1..n) -> A]
    BY <2>1
  <2>3. \A v \in A, k \in 1..n : H[<<v, k>>] = BayerStep(raw, y, v, q[k])
    OBVIOUS
  <2> QED
    BY <2>2, <2>3
<1> DEFINE Iter(f) == f = [s \in SUBSET (1..n) |->
                             IF s = {} THEN b
                             ELSE BayerStep(raw, y, f[s \ {Last(s)}], q[Last(s)])]
<1>3. PICK g : \A s \in SUBSET (1..n) :
        /\ s = {} => g[s] = b
        /\ s # {} => /\ g[s] = G[<<g[s \ {Last(s)}], Last(s)>>]
                     /\ g[s \ {Last(s)}] \in A /\ Last(s) \in 1..n
  <2>1. b \in A /\ G \in [A \X (1..n) -> A]
    BY <1>1, <1>2
  <2> QED
    BY <2>1, FoldThere
<1>4. \E f : Iter(f)
  <2>1. \A s \in SUBSET (1..n) : s # {} =>
          g[s] = BayerStep(raw, y, g[s \ {Last(s)}], q[Last(s)])
    BY <1>2, <1>3
  <2>2. Iter([s \in SUBSET (1..n) |-> g[s]])
    BY <1>3, <2>1, Zenon
  <2> QED
    BY <2>2
<1> DEFINE h == CHOOSE f : Iter(f)
<1>5. Iter(h)
  <2> HIDE DEF Iter
  <2> QED
    BY <1>4
<1>6. LineOf(raw, y) = h[1..n]
  <2>1. formats!FoldLeft(LAMBDA st, x : BayerStep(raw, y, st, x), b, q) = h[1..n]
    <3>1. DOMAIN q = 1..n
      BY <1>01
    <3> QED
      BY <3>1, Zenon DEF formats!FoldLeft, formats!MapThenFoldSet, formats!Max, Last
  <2>2. LineOf(raw, y) = formats!FoldLeft(LAMBDA st, x : BayerStep(raw, y, st, x), b, q)
    BY <1>0, <1>01, <1>1, Zenon DEF LineOf
  <2> QED
    BY <2>1, <2>2
<1> HIDE DEF h
<1> DEFINE f == [k \in 0..n |-> h[1..k]]
<1>7. f[0] = BayerStart(raw, y)
  BY <1>1, <1>5, Beginnings
<1>8. ASSUME NEW k \in 1..n
      PROVE  f[k] = BayerStep(raw, y, f[k - 1], k - 1)
  <2>1. /\ 1..k \in SUBSET (1..n) /\ 1..k # {}
        /\ Last(1..k) = k /\ (1..k) \ {Last(1..k)} = 1..k - 1
    BY Beginnings
  <2>2. h[1..k] = BayerStep(raw, y, h[(1..k) \ {Last(1..k)}], q[Last(1..k)])
    BY <1>5, <2>1
  <2>3. q[k] = k - 1
    BY <1>01
  <2>4. h[1..k] = BayerStep(raw, y, h[1..k - 1], k - 1)
    BY <2>1, <2>2, <2>3
  <2> QED
    BY <2>4
<1>9. f[n] = h[1..n]
  OBVIOUS
<1> HIDE DEF f
<1> QED
  BY <1>0, <1>6, <1>7, <1>8, <1>9

\* A line has the colours of its pixels.
LEMMA LineScanned ==
    ASSUME NEW raw \in [BayerCells -> Nat], NEW y \in 0..Height - 1
    PROVE  /\ formats!BayerLine(raw, y) \in Seq(Nat)
           /\ Len(formats!BayerLine(raw, y)) = 3 * Width
           /\ \A x \in 0..Width - 1, c \in 1..3 :
                formats!BayerLine(raw, y)[3 * x + c] = Pixel(raw, y, x)[c]
<1>0. PICK n \in Nat : n = Width
  BY PictureSize
<1>1. PICK f : /\ f[0] = BayerStart(raw, y)
               /\ \A k \in 1..Width : f[k] = BayerStep(raw, y, f[k - 1], k - 1)
               /\ LineOf(raw, y) = f[Width]
  BY PixelsScanned
<1> DEFINE S == {k \in Nat : k <= n => f[k] \in Scanned(raw, y, k)}
<1>2. 0 \in S
  BY <1>1, StartScanned
<1>3. ASSUME NEW k \in Nat, k \in S PROVE k + 1 \in S
  <2> SUFFICES ASSUME k + 1 <= n PROVE f[k + 1] \in Scanned(raw, y, k + 1)
    OBVIOUS
  <2>1. k \in 0..Width - 1 /\ k + 1 \in 1..Width /\ k + 1 - 1 = k
    BY <1>0
  <2>2. f[k + 1] = BayerStep(raw, y, f[k], k)
    BY <1>1, <2>1
  <2>3. f[k] \in Scanned(raw, y, k)
    BY <1>3
  <2> QED
    BY <2>1, <2>2, <2>3, StepScans
<1>4. f[n] \in Scanned(raw, y, n)
  <2>1. n \in S
    <3> HIDE DEF S
    <3> QED
      BY <1>2, <1>3, Induction
  <2> QED
    BY <2>1
<1>5. formats!BayerLine(raw, y) = f[n].dst
  BY <1>0, <1>1, LineOfPixels
<1> QED
  BY <1>0, <1>4, <1>5 DEF Scanned, BayerState

\* The picture, line after line
Lines(raw, n) == formats!FoldLeft(LAMBDA dst, y : dst \o formats!BayerLine(raw, y), <<>>,
                                  [k \in 1..n |-> k - 1])

LEMMA LinesOneByOne ==
    ASSUME NEW raw \in [BayerCells -> Nat]
    PROVE  \E f : /\ f[0] = <<>>
                  /\ \A k \in 1..Height : f[k] = f[k - 1] \o formats!BayerLine(raw, k - 1)
                  /\ formats!convert_bayer_to_rgb(raw) = f[Height]
<1>0. PICK n \in Nat : n = Height
  BY PictureSize
<1>01. PICK q : q = [k \in 1..n |-> k - 1]
  OBVIOUS
<1>02. PICK A : A = Seq(Nat)
  OBVIOUS
<1>1. PICK b \in A : b = <<>>
  <2>1. <<>> \in Seq(Nat)
    OBVIOUS
  <2> QED
    BY <1>02, <2>1
<1>2. PICK G \in [A \X (1..n) -> A] :
        \A v \in A, k \in 1..n : G[<<v, k>>] = v \o formats!BayerLine(raw, q[k])
  <2>1. ASSUME NEW v \in A, NEW k \in 1..n PROVE v \o formats!BayerLine(raw, q[k]) \in A
    <3>1. q[k] \in 0..Height - 1
      BY <1>0, <1>01
    <3>2. formats!BayerLine(raw, q[k]) \in Seq(Nat)
      BY <3>1, LineScanned
    <3> QED
      BY <1>02, <3>2, ConcatProperties
  <2> DEFINE H == [p \in A \X (1..n) |-> p[1] \o formats!BayerLine(raw, q[p[2]])]
  <2>2. H \in [A \X (1..n) -> A]
    BY <2>1
  <2>3. \A v \in A, k \in 1..n : H[<<v, k>>] = v \o formats!BayerLine(raw, q[k])
    OBVIOUS
  <2> QED
    BY <2>2, <2>3
<1> DEFINE Iter(f) == f = [s \in SUBSET (1..n) |->
                             IF s = {} THEN b
                             ELSE f[s \ {Last(s)}] \o formats!BayerLine(raw, q[Last(s)])]
<1>3. PICK g : \A s \in SUBSET (1..n) :
        /\ s = {} => g[s] = b
        /\ s # {} => /\ g[s] = G[<<g[s \ {Last(s)}], Last(s)>>]
                     /\ g[s \ {Last(s)}] \in A /\ Last(s) \in 1..n
  <2>1. b \in A /\ G \in [A \X (1..n) -> A]
    BY <1>1, <1>2
  <2> QED
    BY <2>1, FoldThere
<1>4. \E f : Iter(f)
  <2>1. \A s \in SUBSET (1..n) : s # {} =>
          g[s] = g[s \ {Last(s)}] \o formats!BayerLine(raw, q[Last(s)])
    BY <1>2, <1>3
  <2>2. Iter([s \in SUBSET (1..n) |-> g[s]])
    BY <1>3, <2>1, Zenon
  <2> QED
    BY <2>2
<1> DEFINE h == CHOOSE f : Iter(f)
<1>5. Iter(h)
  <2> HIDE DEF Iter
  <2> QED
    BY <1>4
<1>6. formats!convert_bayer_to_rgb(raw) = h[1..n]
  <2>1. formats!FoldLeft(LAMBDA dst, y : dst \o formats!BayerLine(raw, y), b, q) = h[1..n]
    <3>1. DOMAIN q = 1..n
      BY <1>01
    <3> QED
      BY <3>1, Zenon DEF formats!FoldLeft, formats!MapThenFoldSet, formats!Max, Last
  <2>2. Lines(raw, Height)
          = formats!FoldLeft(LAMBDA dst, y : dst \o formats!BayerLine(raw, y), b, q)
    BY <1>0, <1>01, <1>1, Zenon DEF Lines
  <2>3. formats!convert_bayer_to_rgb(raw) = Lines(raw, Height)
    BY Zenon DEF formats!convert_bayer_to_rgb, Lines
  <2> QED
    BY <2>1, <2>2, <2>3
<1> HIDE DEF h
<1> DEFINE f == [k \in 0..n |-> h[1..k]]
<1>7. f[0] = <<>>
  BY <1>1, <1>5, Beginnings
<1>8. ASSUME NEW k \in 1..n
      PROVE  f[k] = f[k - 1] \o formats!BayerLine(raw, k - 1)
  <2>1. /\ 1..k \in SUBSET (1..n) /\ 1..k # {}
        /\ Last(1..k) = k /\ (1..k) \ {Last(1..k)} = 1..k - 1
    BY Beginnings
  <2>2. h[1..k] = h[(1..k) \ {Last(1..k)}] \o formats!BayerLine(raw, q[Last(1..k)])
    BY <1>5, <2>1
  <2>3. q[k] = k - 1
    BY <1>01
  <2>4. h[1..k] = h[1..k - 1] \o formats!BayerLine(raw, k - 1)
    BY <2>1, <2>2, <2>3
  <2>5. f[k] = h[1..k] /\ f[k - 1] = h[1..k - 1]
    OBVIOUS
  <2> QED
    BY <2>4, <2>5, Zenon
<1>9. f[n] = h[1..n]
  OBVIOUS
<1> HIDE DEF f
<1> QED
  BY <1>0, <1>6, <1>7, <1>8, <1>9

\* Where the colours of a pixel are in k lines
InLines(raw, d, k) ==
    /\ d \in Seq(Nat) /\ Len(d) = k * (3 * Width)
    /\ \A y \in 0..k - 1, x \in 0..Width - 1, c \in 1..3 :
         d[3 * (y * Width + x) + c] = Pixel(raw, y, x)[c]

LEMMA OneLineMore ==
    ASSUME NEW raw \in [BayerCells -> Nat], NEW k \in 0..Height - 1, NEW d \in Seq(Nat),
           InLines(raw, d, k)
    PROVE  InLines(raw, d \o formats!BayerLine(raw, k), k + 1)
<1>0. PICK w \in Nat : w = Width
  BY PictureSize
<1>1. k \in Nat
  BY PictureSize
<1>2. PICK l \in Seq(Nat) :
        /\ l = formats!BayerLine(raw, k) /\ Len(l) = 3 * w
        /\ \A x \in 0..w - 1, c \in 1..3 : l[3 * x + c] = Pixel(raw, k, x)[c]
  BY <1>0, LineScanned
<1>3. PICK m \in Nat, t \in Nat : m = k * w /\ t = k * (3 * w) /\ t = 3 * m
  <2>1. k * w \in Nat /\ k * (3 * w) = 3 * (k * w)
    BY <1>1
  <2> QED
    BY <2>1
<1>4. Len(d) = t
  BY <1>0, <1>3 DEF InLines
<1>5. PICK e \in Seq(Nat) :
        /\ e = d \o l /\ Len(e) = t + 3 * w
        /\ \A i \in 1..t + 3 * w : e[i] = IF i <= t THEN d[i] ELSE l[i - t]
  <2>1. /\ d \o l \in Seq(Nat) /\ Len(d \o l) = Len(d) + Len(l)
        /\ \A i \in 1..Len(d) + Len(l) :
             (d \o l)[i] = IF i <= Len(d) THEN d[i] ELSE l[i - Len(d)]
    BY ConcatProperties
  <2>2. /\ Len(d \o l) = t + 3 * w
        /\ \A i \in 1..t + 3 * w : (d \o l)[i] = IF i <= t THEN d[i] ELSE l[i - t]
    BY <1>2, <1>4, <2>1
  <2> QED
    BY <2>1, <2>2
<1>6. ASSUME NEW y \in 0..k, NEW x \in 0..w - 1, NEW c \in 1..3
      PROVE  e[3 * (y * w + x) + c] = Pixel(raw, y, x)[c]
  <2>1. CASE y = k
    <3>1. PICK i \in Nat : i = 3 * (m + x) + c /\ i > t /\ i <= t + 3 * w /\ i - t = 3 * x + c
      <4>1. m \in Nat /\ t = 3 * m
        BY <1>3
      <4> QED
        BY <4>1
    <3>2. e[i] = l[3 * x + c]
      <4>1. i \in 1..t + 3 * w /\ ~(i <= t)
        BY <3>1
      <4>2. e[i] = l[i - t]
        BY <1>5, <4>1
      <4> QED
        BY <3>1, <4>2
    <3>3. 3 * (y * w + x) + c = i
      BY <1>3, <2>1, <3>1
    <3> QED
      BY <1>2, <2>1, <3>2, <3>3
  <2>2. CASE y # k
    <3>1. y \in 0..k - 1
      BY <1>1, <2>2
    <3>2. PICK r \in Nat : r = y * w + x /\ r <= k * w - 1
      <4>1. y \in 0..k - 1 /\ x \in 0..w - 1 /\ k \in Nat
        BY <1>1, <3>1
      <4>2. y * w + x \in Nat /\ y * w + x <= w * k - 1
        BY <4>1, RowsOfCells
      <4>3. w * k = k * w
        BY <1>1
      <4> QED
        BY <4>2, <4>3
    <3>3. PICK i \in Nat : i = 3 * r + c /\ i >= 1 /\ i <= t
      BY <1>3, <3>2
    <3>4. e[i] = d[i]
      <4>1. i \in 1..t + 3 * w /\ i <= t
        BY <3>3
      <4> QED
        BY <1>5, <4>1
    <3>5. d[3 * (y * w + x) + c] = Pixel(raw, y, x)[c]
      BY <1>0, <3>1 DEF InLines
    <3> QED
      BY <3>2, <3>3, <3>4, <3>5
  <2> QED
    BY <2>1, <2>2
<1>7. t + 3 * w = (k + 1) * (3 * w)
  <2>1. PICK v \in Nat : v = 3 * w
    OBVIOUS
  <2>2. (k + 1) * v = k * v + 1 * v
    BY <1>1, Product
  <2> QED
    BY <1>3, <2>1, <2>2
<1>8. 0..(k + 1) - 1 = 0..k
  BY <1>1
<1>9. \A y \in 0..(k + 1) - 1, x \in 0..Width - 1, c \in 1..3 :
        e[3 * (y * Width + x) + c] = Pixel(raw, y, x)[c]
  BY <1>0, <1>6, <1>8, Zenon
<1>10. Len(e) = (k + 1) * (3 * Width)
  BY <1>0, <1>5, <1>7, Zenon
<1>11. InLines(raw, e, k + 1)
  BY <1>9, <1>10, Zenon DEF InLines
<1> QED
  BY <1>2, <1>5, <1>11

\* The picture has the colours of its pixels.
LEMMA PictureOfPixels ==
    ASSUME NEW raw \in [BayerCells -> Nat]
    PROVE  \A x \in 0..Width - 1, y \in 0..Height - 1, c \in 1..3 :
             formats!convert_bayer_to_rgb(raw)[3 * (y * Width + x) + c] = Pixel(raw, y, x)[c]
<1>0. PICK n \in Nat : n = Height
  BY PictureSize
<1>1. PICK f : /\ f[0] = <<>>
               /\ \A k \in 1..Height : f[k] = f[k - 1] \o formats!BayerLine(raw, k - 1)
               /\ formats!convert_bayer_to_rgb(raw) = f[Height]
  BY LinesOneByOne
<1> DEFINE S == {k \in Nat : k <= n => f[k] \in Seq(Nat) /\ InLines(raw, f[k], k)}
<1>2. 0 \in S
  <2>1. 0..0 - 1 = {} /\ <<>> \in Seq(Nat) /\ Len(<<>>) = 0
    OBVIOUS
  <2>2. 0 * (3 * Width) = 0
    BY PictureSize
  <2>3. InLines(raw, <<>>, 0)
    BY <2>1, <2>2 DEF InLines
  <2> QED
    BY <1>1, <2>1, <2>3
<1>3. ASSUME NEW k \in Nat, k \in S PROVE k + 1 \in S
  <2> SUFFICES ASSUME k + 1 <= n PROVE f[k + 1] \in Seq(Nat) /\ InLines(raw, f[k + 1], k + 1)
    OBVIOUS
  <2>1. k \in 0..Height - 1 /\ k + 1 \in 1..Height /\ k + 1 - 1 = k
    BY <1>0
  <2>2. f[k + 1] = f[k] \o formats!BayerLine(raw, k)
    <3>1. PICK j \in 1..Height : j = k + 1 /\ j - 1 = k
      BY <2>1
    <3>2. f[j] = f[j - 1] \o formats!BayerLine(raw, j - 1)
      BY <1>1
    <3> QED
      BY <3>1, <3>2
  <2>3. f[k] \in Seq(Nat) /\ InLines(raw, f[k], k)
    BY <1>3
  <2>4. InLines(raw, f[k + 1], k + 1)
    BY <2>1, <2>2, <2>3, OneLineMore
  <2> QED
    BY <2>4 DEF InLines
<1>4. InLines(raw, f[n], n)
  <2>1. n \in S
    <3> HIDE DEF S
    <3> QED
      BY <1>2, <1>3, Induction
  <2> QED
    BY <2>1
<1> QED
  BY <1>0, <1>1, <1>4 DEF InLines

-----------------------------------------------------------------------------
\* What is around a cell, the image mirrored at its edges
Beside(raw, x, y, dx, dy) ==
    raw[formats!Mirror(y + dy, Height) * Width + formats!Mirror(x + dx, Width)]
Near(x, y, c, dx, dy) ==
    formats!Sensor(formats!Mirror(x + dx, Width), formats!Mirror(y + dy, Height)) = c
Part9(raw, x, y, c, dx, dy) == IF Near(x, y, c, dx, dy) THEN Beside(raw, x, y, dx, dy) ELSE 0
One9(x, y, c, dx, dy) == IF Near(x, y, c, dx, dy) THEN 1 ELSE 0
Total9(raw, x, y, c) ==
    Part9(raw, x, y, c, -1, -1) + Part9(raw, x, y, c, 0, -1) + Part9(raw, x, y, c, 1, -1)
      + Part9(raw, x, y, c, -1, 0) + Part9(raw, x, y, c, 0, 0) + Part9(raw, x, y, c, 1, 0)
      + Part9(raw, x, y, c, -1, 1) + Part9(raw, x, y, c, 0, 1) + Part9(raw, x, y, c, 1, 1)
Number9(x, y, c) ==
    One9(x, y, c, -1, -1) + One9(x, y, c, 0, -1) + One9(x, y, c, 1, -1)
      + One9(x, y, c, -1, 0) + One9(x, y, c, 0, 0) + One9(x, y, c, 1, 0)
      + One9(x, y, c, -1, 1) + One9(x, y, c, 0, 1) + One9(x, y, c, 1, 1)
Mean(raw, x, y, c, value) ==
    IF formats!Sensor(x, y) = c THEN value = raw[y * Width + x]
    ELSE (Total9(raw, x, y, c) \div Number9(x, y, c)) - value \in {0, 1}

\* What a cell measures, by the parity of its column and of its line
Measures(p, q) == IF p = q THEN 2 ELSE IF q = 0 THEN 1 ELSE 3

LEMMA MirroredSteps ==
    ASSUME NEW n \in Nat, n >= 2, NEW x \in 0..n - 1
    PROVE  \E l \in 0..n - 1, r \in 0..n - 1 :
             /\ l = formats!Mirror(x + -1, n) /\ r = formats!Mirror(x + 1, n)
             /\ x = formats!Mirror(x + 0, n)
             /\ l = formats!Mirror(x - 1, n)
             /\ l % 2 = 1 - (x % 2) /\ r % 2 = 1 - (x % 2)
<1>1. x - 1 \in -1..n /\ x + 1 \in -1..n /\ x + 0 = x /\ x + -1 = x - 1 /\ x \in -1..n
  OBVIOUS
<1>2. PICK i \in -1..n, j \in -1..n : i = x - 1 /\ j = x + 1
  BY <1>1
<1>3. PICK l \in 0..n - 1, r \in 0..n - 1 :
        /\ l = formats!Mirror(i, n) /\ r = formats!Mirror(j, n)
        /\ l % 2 = i % 2 /\ r % 2 = j % 2
  BY MirrorIn
<1>4. formats!Mirror(x, n) = x
  BY <1>1, MirrorIn
<1>5. i % 2 = 1 - (x % 2) /\ j % 2 = 1 - (x % 2)
  <2>1. x \in Nat /\ i = x - 1 /\ j = x + 1
    BY <1>2
  <2> QED
    BY <2>1, SMT
<1> QED
  BY <1>1, <1>2, <1>3, <1>4, <1>5

LEMMA SensorIs ==
    ASSUME NEW x \in Nat, NEW y \in Nat
    PROVE  formats!Sensor(x, y) = Measures(x % 2, y % 2)
BY DEF formats!Sensor, Measures

\* The nine cells, and which of them measure a colour
LEMMA NineCells ==
    ASSUME NEW raw \in [BayerCells -> Nat], NEW x \in 0..Width - 1, NEW y \in 0..Height - 1,
           NEW p \in 0..1, NEW q \in 0..1, p = x % 2, q = y % 2
    PROVE  /\ \A dx \in {-1, 0, 1}, dy \in {-1, 0, 1} : Beside(raw, x, y, dx, dy) \in Nat
           /\ raw[y * Width + x] = Beside(raw, x, y, 0, 0)
           /\ Hor(raw, y, x)
                = [prev |-> Beside(raw, x, y, -1, 0), cur |-> Beside(raw, x, y, 0, 0),
                   next |-> Beside(raw, x, y, 1, 0)]
           /\ Ver(raw, y, x)
                = [prev |-> (Beside(raw, x, y, -1, -1) + Beside(raw, x, y, -1, 1)) \div 2,
                   cur |-> (Beside(raw, x, y, 0, -1) + Beside(raw, x, y, 0, 1)) \div 2,
                   next |-> (Beside(raw, x, y, 1, -1) + Beside(raw, x, y, 1, 1)) \div 2]
           /\ \A c :
                /\ Near(x, y, c, 0, 0) <=> Measures(p, q) = c
                /\ \A dx \in {-1, 1} : Near(x, y, c, dx, 0) <=> Measures(1 - p, q) = c
                /\ \A dy \in {-1, 1} : Near(x, y, c, 0, dy) <=> Measures(p, 1 - q) = c
                /\ \A dx \in {-1, 1}, dy \in {-1, 1} :
                     Near(x, y, c, dx, dy) <=> Measures(1 - p, 1 - q) = c
<1>0. x \in Nat /\ y \in Nat
  BY PictureSize
<1>1. PICK xl \in 0..Width - 1, xr \in 0..Width - 1 :
        /\ xl = formats!Mirror(x + -1, Width) /\ xr = formats!Mirror(x + 1, Width)
        /\ x = formats!Mirror(x + 0, Width) /\ xl = formats!Mirror(x - 1, Width)
        /\ xl % 2 = 1 - (x % 2) /\ xr % 2 = 1 - (x % 2)
  BY PictureSize, MirroredSteps
<1>2. PICK yu \in 0..Height - 1, yd \in 0..Height - 1 :
        /\ yu = formats!Mirror(y + -1, Height) /\ yd = formats!Mirror(y + 1, Height)
        /\ y = formats!Mirror(y + 0, Height) /\ yu = formats!Mirror(y - 1, Height)
        /\ yu % 2 = 1 - (y % 2) /\ yd % 2 = 1 - (y % 2)
  BY PictureSize, MirroredSteps
<1>3. yu = formats!PrevLine(y) /\ yd = formats!NextLine(y)
  BY <1>2, LinesBeside
<1>4. /\ raw[yu * Width + xl] \in Nat /\ raw[yu * Width + x] \in Nat /\ raw[yu * Width + xr] \in Nat
      /\ raw[y * Width + xl] \in Nat /\ raw[y * Width + x] \in Nat /\ raw[y * Width + xr] \in Nat
      /\ raw[yd * Width + xl] \in Nat /\ raw[yd * Width + x] \in Nat /\ raw[yd * Width + xr] \in Nat
  BY CellMeasured
<1>5. /\ Beside(raw, x, y, -1, -1) = raw[yu * Width + xl]
      /\ Beside(raw, x, y, 0, -1) = raw[yu * Width + x]
      /\ Beside(raw, x, y, 1, -1) = raw[yu * Width + xr]
      /\ Beside(raw, x, y, -1, 0) = raw[y * Width + xl]
      /\ Beside(raw, x, y, 0, 0) = raw[y * Width + x]
      /\ Beside(raw, x, y, 1, 0) = raw[y * Width + xr]
      /\ Beside(raw, x, y, -1, 1) = raw[yd * Width + xl]
      /\ Beside(raw, x, y, 0, 1) = raw[yd * Width + x]
      /\ Beside(raw, x, y, 1, 1) = raw[yd * Width + xr]
  BY <1>1, <1>2, Zenon DEF Beside
<1>6. Hor(raw, y, x) = [prev |-> raw[y * Width + xl], cur |-> raw[y * Width + x],
                        next |-> raw[y * Width + xr]]
  BY <1>1, Zenon DEF Hor
<1>7. Ver(raw, y, x) = [prev |-> (raw[yu * Width + xl] + raw[yd * Width + xl]) \div 2,
                        cur |-> (raw[yu * Width + x] + raw[yd * Width + x]) \div 2,
                        next |-> (raw[yu * Width + xr] + raw[yd * Width + xr]) \div 2]
  BY <1>1, <1>3, Zenon DEF Ver, OfPair
<1>8. /\ formats!Sensor(x, y) = Measures(p, q)
      /\ formats!Sensor(xl, y) = Measures(1 - p, q) /\ formats!Sensor(xr, y) = Measures(1 - p, q)
      /\ formats!Sensor(x, yu) = Measures(p, 1 - q) /\ formats!Sensor(x, yd) = Measures(p, 1 - q)
      /\ formats!Sensor(xl, yu) = Measures(1 - p, 1 - q)
      /\ formats!Sensor(xr, yu) = Measures(1 - p, 1 - q)
      /\ formats!Sensor(xl, yd) = Measures(1 - p, 1 - q)
      /\ formats!Sensor(xr, yd) = Measures(1 - p, 1 - q)
  <2>1. xl \in Nat /\ xr \in Nat /\ yu \in Nat /\ yd \in Nat
    BY PictureSize
  <2>2. xl % 2 = 1 - p /\ xr % 2 = 1 - p /\ yu % 2 = 1 - q /\ yd % 2 = 1 - q
    BY <1>1, <1>2
  <2> QED
    BY <1>0, <2>1, <2>2, SensorIs
<1>9. ASSUME NEW c
      PROVE  /\ Near(x, y, c, 0, 0) <=> Measures(p, q) = c
             /\ Near(x, y, c, -1, 0) <=> Measures(1 - p, q) = c
             /\ Near(x, y, c, 1, 0) <=> Measures(1 - p, q) = c
             /\ Near(x, y, c, 0, -1) <=> Measures(p, 1 - q) = c
             /\ Near(x, y, c, 0, 1) <=> Measures(p, 1 - q) = c
             /\ Near(x, y, c, -1, -1) <=> Measures(1 - p, 1 - q) = c
             /\ Near(x, y, c, 1, -1) <=> Measures(1 - p, 1 - q) = c
             /\ Near(x, y, c, -1, 1) <=> Measures(1 - p, 1 - q) = c
             /\ Near(x, y, c, 1, 1) <=> Measures(1 - p, 1 - q) = c
  BY <1>1, <1>2, <1>8, Zenon DEF Near
<1>10. \A dx \in {-1, 0, 1}, dy \in {-1, 0, 1} : Beside(raw, x, y, dx, dy) \in Nat
  BY <1>4, <1>5
<1>11. ASSUME NEW c
       PROVE  /\ \A dx \in {-1, 1} : Near(x, y, c, dx, 0) <=> Measures(1 - p, q) = c
              /\ \A dy \in {-1, 1} : Near(x, y, c, 0, dy) <=> Measures(p, 1 - q) = c
              /\ \A dx \in {-1, 1}, dy \in {-1, 1} :
                   Near(x, y, c, dx, dy) <=> Measures(1 - p, 1 - q) = c
  BY <1>9
<1> QED
  BY <1>5, <1>6, <1>7, <1>9, <1>10, <1>11, Zenon

-----------------------------------------------------------------------------
\* A value where two colours are the same
IfSame(b, c, value) == IF b = c THEN value ELSE 0

\* A sum of nine, and a number of nine
Nine(a1, a2, a3, a4, a5, a6, a7, a8, a9) == a1 + a2 + a3 + a4 + a5 + a6 + a7 + a8 + a9

LEMMA SumsOfNine ==
    ASSUME NEW a \in Nat, NEW b \in Nat, NEW d \in Nat, NEW e \in Nat
    PROVE  /\ Nine(0, 0, 0, a, 0, b, 0, 0, 0) = a + b
           /\ Nine(0, a, 0, 0, 0, 0, 0, b, 0) = a + b
           /\ Nine(a, 0, b, 0, 0, 0, d, 0, e) = a + b + d + e
           /\ Nine(0, a, 0, b, 0, d, 0, e, 0) = a + b + d + e
BY SMT DEF Nine

LEMMA MeanOfMeans ==
    ASSUME NEW a \in Nat, NEW b \in Nat, NEW d \in Nat, NEW e \in Nat
    PROVE  ((a + b + d + e) \div 4) - ((((a + b) \div 2) + ((d + e) \div 2)) \div 2) \in {0, 1}
BY SMT

LEMMA MeanOfTwo ==
    ASSUME NEW a \in Nat
    PROVE  (a \div 2) - (a \div 2) \in {0, 1}
BY SMT

LEMMA PixelMeans ==
    ASSUME NEW raw \in [BayerCells -> Nat], NEW x \in 0..Width - 1, NEW y \in 0..Height - 1
    PROVE  \A c \in 1..3 : Mean(raw, x, y, c, Pixel(raw, y, x)[c])
<1>0. x \in Nat /\ y \in Nat
  BY PictureSize
<1>1. PICK p \in 0..1, q \in 0..1 : p = x % 2 /\ q = y % 2
  BY <1>0, SMT
<1>2. PICK ul \in Nat, u \in Nat, ur \in Nat, l \in Nat, m \in Nat, r \in Nat,
           dl \in Nat, d \in Nat, dr \in Nat :
        /\ ul = Beside(raw, x, y, -1, -1) /\ u = Beside(raw, x, y, 0, -1)
        /\ ur = Beside(raw, x, y, 1, -1) /\ l = Beside(raw, x, y, -1, 0)
        /\ m = Beside(raw, x, y, 0, 0) /\ r = Beside(raw, x, y, 1, 0)
        /\ dl = Beside(raw, x, y, -1, 1) /\ d = Beside(raw, x, y, 0, 1)
        /\ dr = Beside(raw, x, y, 1, 1)
  <2>1. \A dx \in {-1, 0, 1}, dy \in {-1, 0, 1} : Beside(raw, x, y, dx, dy) \in Nat
    BY <1>1, NineCells
  <2> QED
    BY <2>1
<1>21. /\ m = raw[y * Width + x]
       /\ Hor(raw, y, x) = [prev |-> l, cur |-> m, next |-> r]
       /\ Ver(raw, y, x) = [prev |-> (ul + dl) \div 2, cur |-> (u + d) \div 2,
                            next |-> (ur + dr) \div 2]
  BY <1>1, <1>2, NineCells
<1>22. PICK own, hm, vm, cm : /\ own = Measures(p, q) /\ hm = Measures(1 - p, q)
                              /\ vm = Measures(p, 1 - q) /\ cm = Measures(1 - p, 1 - q)
  OBVIOUS
<1>23. ASSUME NEW c
       PROVE  /\ Total9(raw, x, y, c)
                    = Nine(IfSame(cm, c, ul), IfSame(vm, c, u), IfSame(cm, c, ur),
                           IfSame(hm, c, l), IfSame(own, c, m), IfSame(hm, c, r),
                           IfSame(cm, c, dl), IfSame(vm, c, d), IfSame(cm, c, dr))
              /\ Number9(x, y, c)
                    = Nine(IfSame(cm, c, 1), IfSame(vm, c, 1), IfSame(cm, c, 1),
                           IfSame(hm, c, 1), IfSame(own, c, 1), IfSame(hm, c, 1),
                           IfSame(cm, c, 1), IfSame(vm, c, 1), IfSame(cm, c, 1))
  <2>1. /\ Near(x, y, c, 0, 0) <=> own = c
        /\ \A dx \in {-1, 1} : Near(x, y, c, dx, 0) <=> hm = c
        /\ \A dy \in {-1, 1} : Near(x, y, c, 0, dy) <=> vm = c
        /\ \A dx \in {-1, 1}, dy \in {-1, 1} : Near(x, y, c, dx, dy) <=> cm = c
    BY <1>1, <1>22, NineCells
  <2>2. /\ Near(x, y, c, -1, 0) <=> hm = c
        /\ Near(x, y, c, 1, 0) <=> hm = c
        /\ Near(x, y, c, 0, -1) <=> vm = c
        /\ Near(x, y, c, 0, 1) <=> vm = c
        /\ Near(x, y, c, -1, -1) <=> cm = c
        /\ Near(x, y, c, 1, -1) <=> cm = c
        /\ Near(x, y, c, -1, 1) <=> cm = c
        /\ Near(x, y, c, 1, 1) <=> cm = c
    BY <2>1
  <2>3. /\ Part9(raw, x, y, c, -1, -1) = IfSame(cm, c, ul)
        /\ Part9(raw, x, y, c, 0, -1) = IfSame(vm, c, u)
        /\ Part9(raw, x, y, c, 1, -1) = IfSame(cm, c, ur)
        /\ Part9(raw, x, y, c, -1, 0) = IfSame(hm, c, l)
        /\ Part9(raw, x, y, c, 0, 0) = IfSame(own, c, m)
        /\ Part9(raw, x, y, c, 1, 0) = IfSame(hm, c, r)
        /\ Part9(raw, x, y, c, -1, 1) = IfSame(cm, c, dl)
        /\ Part9(raw, x, y, c, 0, 1) = IfSame(vm, c, d)
        /\ Part9(raw, x, y, c, 1, 1) = IfSame(cm, c, dr)
    BY <1>2, <2>1, <2>2, Zenon DEF Part9, IfSame
  <2>4. /\ One9(x, y, c, -1, -1) = IfSame(cm, c, 1)
        /\ One9(x, y, c, 0, -1) = IfSame(vm, c, 1)
        /\ One9(x, y, c, 1, -1) = IfSame(cm, c, 1)
        /\ One9(x, y, c, -1, 0) = IfSame(hm, c, 1)
        /\ One9(x, y, c, 0, 0) = IfSame(own, c, 1)
        /\ One9(x, y, c, 1, 0) = IfSame(hm, c, 1)
        /\ One9(x, y, c, -1, 1) = IfSame(cm, c, 1)
        /\ One9(x, y, c, 0, 1) = IfSame(vm, c, 1)
        /\ One9(x, y, c, 1, 1) = IfSame(cm, c, 1)
    BY <2>1, <2>2, Zenon DEF One9, IfSame
  <2> QED
    BY <2>3, <2>4, Zenon DEF Total9, Number9, Nine
<1>3. formats!Sensor(x, y) = Measures(p, q)
  BY <1>0, <1>1, SensorIs
<1>4. PICK hs \in Nat, vs \in Nat, cross \in Nat, corners \in Nat, vl \in Nat, vr \in Nat :
        /\ hs = (l + r) \div 2 /\ vs = (u + d) \div 2 /\ cross = (hs + vs) \div 2
        /\ vl = (ul + dl) \div 2 /\ vr = (ur + dr) \div 2 /\ corners = (vl + vr) \div 2
  BY SMT
<1>5. Pixel(raw, y, x) = IF q = 0 THEN IF p = 0 THEN <<hs, m, vs>> ELSE <<m, cross, corners>>
                         ELSE IF p = 0 THEN <<corners, cross, m>> ELSE <<vs, m, hs>>
  <2>1. Hor(raw, y, x) \in Triple /\ Ver(raw, y, x) \in Triple
    BY NeighboursMeasured
  <2>2. Pixel(raw, y, x) = Colours(x, y, Hor(raw, y, x), Ver(raw, y, x))
    BY <1>0, <2>1, ColourIs DEF Pixel
  <2>3. Hor(raw, y, x) = [prev |-> l, cur |-> m, next |-> r]
        /\ Ver(raw, y, x) = [prev |-> vl, cur |-> vs, next |-> vr]
    BY <1>21, <1>4
  <2>4. Colours(x, y, [prev |-> l, cur |-> m, next |-> r], [prev |-> vl, cur |-> vs, next |-> vr])
          = IF q = 0 THEN IF p = 0 THEN <<hs, m, vs>> ELSE <<m, cross, corners>>
            ELSE IF p = 0 THEN <<corners, cross, m>> ELSE <<vs, m, hs>>
    BY <1>1, <1>4 DEF Colours
  <2> QED
    BY <2>2, <2>3, <2>4
\* The sums over the horizontal, the vertical and the diagonal neighbours and over a cross
<1>6. ASSUME NEW c, own # c, hm = c, vm # c,
             cm # c
      PROVE  Mean(raw, x, y, c, hs)
  <2>1. Total9(raw, x, y, c) = Nine(0, 0, 0, l, 0, r, 0, 0, 0)
        /\ Number9(x, y, c) = Nine(0, 0, 0, 1, 0, 1, 0, 0, 0)
    BY <1>6, <1>23, Zenon DEF IfSame
  <2>2. Total9(raw, x, y, c) = l + r /\ Number9(x, y, c) = 2
    BY <2>1, SumsOfNine
  <2>3. (Total9(raw, x, y, c) \div Number9(x, y, c)) - hs \in {0, 1}
    BY <1>4, <2>2, SMT
  <2> QED
    BY <1>3, <1>6, <1>22, <2>3 DEF Mean
<1>7. ASSUME NEW c, own # c, hm # c, vm = c,
             cm # c
      PROVE  Mean(raw, x, y, c, vs)
  <2>1. Total9(raw, x, y, c) = Nine(0, u, 0, 0, 0, 0, 0, d, 0)
        /\ Number9(x, y, c) = Nine(0, 1, 0, 0, 0, 0, 0, 1, 0)
    BY <1>7, <1>23, Zenon DEF IfSame
  <2>2. Total9(raw, x, y, c) = u + d /\ Number9(x, y, c) = 2
    BY <2>1, SumsOfNine
  <2>3. (Total9(raw, x, y, c) \div Number9(x, y, c)) - vs \in {0, 1}
    BY <1>4, <2>2, SMT
  <2> QED
    BY <1>3, <1>7, <1>22, <2>3 DEF Mean
<1>8. ASSUME NEW c, own # c, hm # c, vm # c,
             cm = c
      PROVE  Mean(raw, x, y, c, corners)
  <2>1. Total9(raw, x, y, c) = Nine(ul, 0, ur, 0, 0, 0, dl, 0, dr)
        /\ Number9(x, y, c) = Nine(1, 0, 1, 0, 0, 0, 1, 0, 1)
    BY <1>8, <1>23, Zenon DEF IfSame
  <2>2. Total9(raw, x, y, c) = ul + ur + dl + dr /\ Number9(x, y, c) = 4
    BY <2>1, SumsOfNine
  <2>3. ((ul + dl + ur + dr) \div 4) - corners \in {0, 1}
    BY <1>4, MeanOfMeans
  <2>4. ul + ur + dl + dr = ul + dl + ur + dr
    OBVIOUS
  <2>5. (Total9(raw, x, y, c) \div Number9(x, y, c)) - corners \in {0, 1}
    BY <2>2, <2>3, <2>4
  <2> QED
    BY <1>3, <1>8, <1>22, <2>5 DEF Mean
<1>9. ASSUME NEW c, own # c, hm = c, vm = c,
             cm # c
      PROVE  Mean(raw, x, y, c, cross)
  <2>1. Total9(raw, x, y, c) = Nine(0, u, 0, l, 0, r, 0, d, 0)
        /\ Number9(x, y, c) = Nine(0, 1, 0, 1, 0, 1, 0, 1, 0)
    BY <1>9, <1>23, Zenon DEF IfSame
  <2>2. Total9(raw, x, y, c) = u + l + r + d /\ Number9(x, y, c) = 4
    BY <2>1, SumsOfNine
  <2>3. ((l + r + u + d) \div 4) - cross \in {0, 1}
    BY <1>4, MeanOfMeans
  <2>4. u + l + r + d = l + r + u + d
    OBVIOUS
  <2>5. (Total9(raw, x, y, c) \div Number9(x, y, c)) - cross \in {0, 1}
    BY <2>2, <2>3, <2>4
  <2> QED
    BY <1>3, <1>9, <1>22, <2>5 DEF Mean
<1>10. ASSUME NEW c, own = c
       PROVE  Mean(raw, x, y, c, m)
  BY <1>21, <1>3, <1>10, <1>22 DEF Mean
<1>11. CASE p = 0 /\ q = 0
  <2>1. own = 2 /\ hm = 1 /\ vm = 3 /\ cm = 2
    BY <1>22, <1>11 DEF Measures
  <2>2. Mean(raw, x, y, 1, hs) /\ Mean(raw, x, y, 2, m) /\ Mean(raw, x, y, 3, vs)
    BY <1>6, <1>7, <1>10, <2>1
  <2>3. Pixel(raw, y, x) = <<hs, m, vs>>
    BY <1>5, <1>11
  <2> QED
    BY <2>2, <2>3
<1>12. CASE p = 1 /\ q = 0
  <2>1. own = 1 /\ hm = 2 /\ vm = 2 /\ cm = 3
    BY <1>22, <1>12 DEF Measures
  <2>2. Mean(raw, x, y, 1, m) /\ Mean(raw, x, y, 2, cross) /\ Mean(raw, x, y, 3, corners)
    BY <1>8, <1>9, <1>10, <2>1
  <2>3. Pixel(raw, y, x) = <<m, cross, corners>>
    BY <1>5, <1>12
  <2> QED
    BY <2>2, <2>3
<1>13. CASE p = 0 /\ q = 1
  <2>1. own = 3 /\ hm = 2 /\ vm = 2 /\ cm = 1
    BY <1>22, <1>13 DEF Measures
  <2>2. Mean(raw, x, y, 1, corners) /\ Mean(raw, x, y, 2, cross) /\ Mean(raw, x, y, 3, m)
    BY <1>8, <1>9, <1>10, <2>1
  <2>3. Pixel(raw, y, x) = <<corners, cross, m>>
    BY <1>5, <1>13
  <2> QED
    BY <2>2, <2>3
<1>14. CASE p = 1 /\ q = 1
  <2>1. own = 2 /\ hm = 3 /\ vm = 1 /\ cm = 2
    BY <1>22, <1>14 DEF Measures
  <2>2. Mean(raw, x, y, 1, vs) /\ Mean(raw, x, y, 2, m) /\ Mean(raw, x, y, 3, hs)
    BY <1>6, <1>7, <1>10, <2>1
  <2>3. Pixel(raw, y, x) = <<vs, m, hs>>
    BY <1>5, <1>14
  <2> QED
    BY <2>2, <2>3
<1> QED
  BY <1>11, <1>12, <1>13, <1>14

\* The conversion of a Bayer frame keeps and means colours.
LEMMA BayerIsMeans ==
    ASSUME job.raw \in [BayerCells -> Nat],
           frame = formats!convert_bayer_to_rgb(job.raw)
    PROVE  formats!BayerMeans
<1>1. ASSUME NEW x \in 0..Width - 1, NEW y \in 0..Height - 1, NEW c \in 1..3
      PROVE  Mean(job.raw, x, y, c, frame[3 * (y * Width + x) + c])
  <2>1. frame[3 * (y * Width + x) + c] = Pixel(job.raw, y, x)[c]
    BY PictureOfPixels
  <2>2. Mean(job.raw, x, y, c, Pixel(job.raw, y, x)[c])
    BY PixelMeans
  <2> QED
    BY <2>1, <2>2
<1> QED
  BY <1>1, Zenon DEF formats!BayerMeans, formats!Around, Mean, Total9, Number9, Part9, One9,
     Near, Beside

-----------------------------------------------------------------------------
\* A packed frame is unpacked into its elements.
LEMMA ElementsOfPacked ==
    ASSUME job.raw \in Packed
    PROVE  /\ frame = formats!convert_packed11_to_16bit(job.raw) =>
                \A k \in 1..8 : frame[k] = formats!Element(job.raw, 11, k)
           /\ frame = formats!convert_packed_to_16bit(job.raw, 10, formats!PackedLength(10)) =>
                \A k \in 1..Len(frame) : frame[k] = formats!Element(job.raw, 10, k)
           /\ frame = formats!convert_packed_to_8bit(job.raw, 10, formats!PackedLength(10)) =>
                \A k \in 1..Len(frame) : frame[k] = formats!Element(job.raw, 10, k) \div 4
<1>1. PICK raw \in Seq(Octets) : raw = job.raw /\ Len(raw) >= 11
  BY FormatsAssumption DEF formats!FormatsAssumption, Octets
<1>2. PICK n \in Nat : n = formats!PackedLength(10) /\ Fits(raw, n)
  <2>1. PICK l \in Nat : l = Len(raw)
    OBVIOUS
  <2>2. (8 * l) \div 10 \in Nat /\ 10 * ((8 * l) \div 10) <= 8 * l
    BY SMT
  <2>3. formats!PackedLength(10) = (8 * l) \div 10
    BY <1>1, <2>1, Zenon DEF formats!PackedLength
  <2> QED
    BY <2>1, <2>2, <2>3 DEF Fits
<1>3. ASSUME frame = formats!convert_packed11_to_16bit(job.raw)
      PROVE  \A k \in 1..8 : frame[k] = formats!Element(job.raw, 11, k)
  BY <1>1, <1>3, UnpackedElevens, Zenon DEF formats!convert_packed11_to_16bit
<1>4. ASSUME frame = formats!convert_packed_to_16bit(job.raw, 10, formats!PackedLength(10))
      PROVE  \A k \in 1..Len(frame) : frame[k] = formats!Element(job.raw, 10, k)
  <2>1. frame = formats!ConvertPacked(raw, 10, 10, n)
    BY <1>1, <1>2, <1>4, Zenon DEF formats!convert_packed_to_16bit
  <2>2. Len(frame) = n /\ \A k \in 1..n : frame[k] = Cut(formats!Element(raw, 10, k), 10)
    BY <1>2, <2>1, TensTaken
  <2> QED
    BY <1>1, <2>2, Zenon DEF Cut
<1>5. ASSUME frame = formats!convert_packed_to_8bit(job.raw, 10, formats!PackedLength(10))
      PROVE  \A k \in 1..Len(frame) : frame[k] = formats!Element(job.raw, 10, k) \div 4
  <2>1. frame = formats!ConvertPacked(raw, 10, 8, n)
    BY <1>1, <1>2, <1>5, Zenon DEF formats!convert_packed_to_8bit
  <2>2. Len(frame) = n /\ \A k \in 1..n : frame[k] = Cut(formats!Element(raw, 10, k), 8)
    BY <1>2, <2>1, TensTaken
  <2>3. 8 # 10
    BY SMT
  <2> QED
    BY <1>1, <2>2, <2>3, Zenon DEF Cut
<1> QED
  BY <1>3, <1>4, <1>5

-----------------------------------------------------------------------------
\* What depth_process, video_process and buildFrame have made of which frame
Converted ==
    part = "FrameFormats" =>
      /\ job.format \in {"DEPTH_11BIT", "DEPTH_10BIT", "VIDEO_IR_10BIT", "VIDEO_IR_8BIT"} =>
           job.raw \in Packed
      /\ job.format = "VIDEO_RGB" => job.raw \in Bayers
      /\ job.format = "VIDEO_YUV_RGB" => job.raw \in Yuvs
      /\ job.format = "ONI" => job.crop \in formats!Crops /\ job.mirroring \in BOOLEAN
      /\ frame # <<>> =>
           /\ job.format = "DEPTH_11BIT" => frame = formats!convert_packed11_to_16bit(job.raw)
           /\ job.format \in {"DEPTH_10BIT", "VIDEO_IR_10BIT"} =>
                frame = formats!convert_packed_to_16bit(job.raw, 10, formats!PackedLength(10))
           /\ job.format = "VIDEO_IR_8BIT" =>
                frame = formats!convert_packed_to_8bit(job.raw, 10, formats!PackedLength(10))
           /\ job.format = "VIDEO_RGB" => frame = formats!convert_bayer_to_rgb(job.raw)
           /\ job.format = "VIDEO_YUV_RGB" => frame = formats!convert_uyvy_to_rgb(job.raw)
           /\ job.format = "ONI" => frame = formats!populateFrame(job.crop, job.mirroring)

LEMMA ConvertedInit == MCInit => Converted
<1> SUFFICES ASSUME job \in formats!Jobs, frame = <<>> PROVE Converted
  BY DEF MCInit, formats!Init, Converted
<1>1. CASE job \in [format : {"DEPTH_11BIT", "DEPTH_10BIT", "VIDEO_IR_10BIT", "VIDEO_IR_8BIT"},
                    raw : Packed]
  BY <1>1 DEF Converted
<1>2. CASE job \in [format : {"VIDEO_RGB", "VIDEO_BAYER"}, raw : Bayers]
  BY <1>2 DEF Converted
<1>3. CASE job \in [format : {"VIDEO_YUV_RGB", "VIDEO_YUV_RAW"}, raw : Yuvs]
  BY <1>3 DEF Converted
<1>4. CASE job \in [format : {"DEPTH_REGISTERED", "DEPTH_MM"}, raw : Raws, reg : Regs]
  BY <1>4 DEF Converted
<1>5. CASE job \in [format : {"TABLES"}, raw : Params]
  BY <1>5 DEF Converted
<1>6. CASE job \in {[format |-> "ONI", crop |-> c, mirroring |-> m] :
                      c \in formats!Crops, m \in BOOLEAN}
  <2>1. job.format = "ONI" /\ job.crop \in formats!Crops /\ job.mirroring \in BOOLEAN
    BY <1>6
  <2> QED
    BY <2>1 DEF Converted
<1> QED
  BY <1>1, <1>2, <1>3, <1>4, <1>5, <1>6 DEF formats!Jobs

\* MapColours and MakeTables rename a job: it keeps none of the formats that are converted.
LEMMA ConvertedStep == Registering /\ Converted /\ [MCNext]_allVars => Converted'
<1> SUFFICES ASSUME Registering, Converted, [MCNext]_allVars, part = "FrameFormats"
             PROVE  Converted'
  BY DEF Converted, MCNext, allVars
<1>1. CASE formats!depth_process
  <2>1. job' = job /\ frame = <<>> /\ job.format \in formats!DepthFormats
    BY <1>1 DEF formats!depth_process
  <2>2. job.format = "DEPTH_11BIT" => frame' = formats!convert_packed11_to_16bit(job.raw)
    BY <1>1 DEF formats!depth_process
  <2>3. job.format = "DEPTH_10BIT" =>
          frame' = formats!convert_packed_to_16bit(job.raw, 10, formats!PackedLength(10))
    BY <1>1 DEF formats!depth_process
  <2>4. formats!PackedLength(10)' = formats!PackedLength(10)
    BY <2>1 DEF formats!PackedLength
  <2>5. job.format \notin {"VIDEO_IR_10BIT", "VIDEO_IR_8BIT", "VIDEO_RGB", "VIDEO_YUV_RGB", "ONI"}
    BY <2>1 DEF formats!DepthFormats
  <2> QED
    BY <2>1, <2>2, <2>3, <2>4, <2>5 DEF Converted
<1>2. CASE formats!video_process
  <2>1. job' = job /\ frame = <<>> /\ job.format \in formats!VideoFormats
    BY <1>2 DEF formats!video_process
  <2>2. job.format = "VIDEO_RGB" => frame' = formats!convert_bayer_to_rgb(job.raw)
    BY <1>2 DEF formats!video_process
  <2>3. job.format = "VIDEO_IR_10BIT" =>
          frame' = formats!convert_packed_to_16bit(job.raw, 10, formats!PackedLength(10))
    BY <1>2 DEF formats!video_process
  <2>4. job.format = "VIDEO_IR_8BIT" =>
          frame' = formats!convert_packed_to_8bit(job.raw, 10, formats!PackedLength(10))
    BY <1>2 DEF formats!video_process
  <2>5. job.format = "VIDEO_YUV_RGB" => frame' = formats!convert_uyvy_to_rgb(job.raw)
    BY <1>2 DEF formats!video_process
  <2>6. formats!PackedLength(10)' = formats!PackedLength(10)
    BY <2>1 DEF formats!PackedLength
  <2>7. job.format \notin {"DEPTH_11BIT", "DEPTH_10BIT", "ONI"}
    BY <2>1 DEF formats!VideoFormats
  <2> QED
    BY <2>1, <2>2, <2>3, <2>4, <2>5, <2>6, <2>7 DEF Converted
<1>3. CASE formats!MapColours
  <2>1. /\ job.format = "DEPTH_MM" /\ job' = [job EXCEPT !.format = "MAPPED"]
    BY <1>3 DEF formats!MapColours
  <2>2. PICK raw \in Raws, reg \in Regs :
          job = [format |-> "DEPTH_MM", raw |-> raw, reg |-> reg]
    BY <2>1 DEF Registering
  <2>3. job' = [format |-> "MAPPED", raw |-> raw, reg |-> reg]
    BY <2>1, <2>2
  <2> QED
    BY <2>3 DEF Converted
<1>4. CASE formats!MakeTables
  <2>1. CASE job.format = "TABLES" /\ job' = job
    BY <2>1 DEF Converted
  <2>2. CASE job.format = "TABLES" /\ job' = [job EXCEPT !.format = "TABLE"]
    <3>1. PICK raw \in Params : job = [format |-> "TABLES", raw |-> raw]
      BY <2>2 DEF Registering
    <3>2. job' = [format |-> "TABLE", raw |-> raw]
      BY <2>2, <3>1
    <3> QED
      BY <3>2 DEF Converted
  <2> QED
    BY <1>4, <2>1, <2>2 DEF formats!MakeTables
<1>5. CASE formats!buildFrame
  <2>1. /\ job' = job /\ job.format = "ONI"
        /\ frame' = formats!populateFrame(job.crop, job.mirroring)
    BY <1>5 DEF formats!buildFrame
  <2> QED
    BY <2>1 DEF Converted
<1>6. CASE UNCHANGED allVars
  <2>1. job' = job /\ frame' = frame /\ part' = part
    BY <1>6 DEF allVars, formatVars
  <2>2. formats!PackedLength(10)' = formats!PackedLength(10)
    BY <2>1 DEF formats!PackedLength
  <2> QED
    BY <2>1, <2>2 DEF Converted
<1> QED
  BY <1>1, <1>2, <1>3, <1>4, <1>5, <1>6 DEF MCNext, formats!Next

\* Whatever the size of a frame and its bytes: unpacking takes each element's bits out of a
\* packed frame, a Bayer picture keeps what its cells measure and has means of the cells
\* around for the other colours, the colours of a YUV picture are within two or three of the
\* exact formula, and a frame of OpenNI has the cells of its part of the picture.
THEOREM FramesAreConverted == MCSpec => []FramesConverted
<1>1. Converted => FramesConverted
  <2> SUFFICES ASSUME Converted, part = "FrameFormats"
               PROVE  /\ formats!UnpackedExact /\ formats!BayerMeans
                      /\ formats!YuvClose /\ formats!CroppedInPlace
    BY DEF FramesConverted
  <2>1. CASE frame = <<>>
    <3>1. formats!UnpackedExact /\ formats!BayerMeans
      BY <2>1, Zenon DEF formats!UnpackedExact, formats!BayerMeans
    <3>2. formats!YuvClose /\ formats!CroppedInPlace
      BY <2>1 DEF formats!YuvClose, formats!CroppedInPlace
    <3> QED
      BY <3>1, <3>2
  <2>2. CASE frame # <<>>
    <3>1. formats!UnpackedExact
      <4>1. CASE job.raw \in Packed
        BY <2>2, <4>1, ElementsOfPacked DEF Converted, formats!UnpackedExact
      <4>2. CASE job.raw \notin Packed
        BY <4>2 DEF Converted, formats!UnpackedExact
      <4> QED
        BY <4>1, <4>2
    <3>2. formats!BayerMeans
      <4>1. CASE job.format = "VIDEO_RGB"
        <5>1. job.raw \in Bayers /\ frame = formats!convert_bayer_to_rgb(job.raw)
          BY <2>2, <4>1 DEF Converted
        <5>2. job.raw \in [BayerCells -> Nat]
          BY <5>1, FormatsAssumption DEF formats!FormatsAssumption, BayerCells
        <5> QED
          BY <5>1, <5>2, BayerIsMeans
      <4> QED
        BY <4>1, Zenon DEF formats!BayerMeans
    <3>3. formats!YuvClose
      <4>1. CASE job.format = "VIDEO_YUV_RGB"
        BY <2>2, <4>1, ColoursClose DEF Converted
      <4> QED
        BY <4>1 DEF formats!YuvClose
    <3>4. formats!CroppedInPlace
      <4>1. CASE job.format = "ONI"
        BY <2>2, <4>1, CopiedInPlace DEF Converted
      <4> QED
        BY <4>1 DEF formats!CroppedInPlace
    <3> QED
      BY <3>1, <3>2, <3>3, <3>4
  <2> QED
    BY <2>1, <2>2
<1> QED
  BY <1>1, ConvertedInit, ConvertedStep, RegisteringInit, RegisteringStep, PTL DEF MCSpec
=============================================================================
