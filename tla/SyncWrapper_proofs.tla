-------------------------- MODULE SyncWrapper_proofs --------------------------
(***************************************************************************)
(* Proofs about SyncWrapper for any number of client threads and runloop   *)
(* threads, any streams and formats, and whatever fails.                   *)
(***************************************************************************)
EXTENDS SyncWrapper, FiniteSetTheorems, TLAPS

\* What the constants are: SyncWrapper names these assumptions, the modules that
\* instantiate it make them.
Constants ==
    /\ UsersAssumption /\ StreamsAssumption /\ FormatsAssumption
    /\ ScopeAssumption /\ ThreadsAssumption

\* The clients that announced a task and did not take it back
In == {"open", "ring", "change", "ready", "failed", "undo", "enter", "in", "exit"}
Counted(p) == {u \in Users : p[u] \in In}

Frames == 0..(FrameMod - 1)

\* TypeOK, with no bound on the tasks: the bound follows from TasksCounted.
Shape ==
    /\ pc \in [Users -> Places]
    /\ want \in [Users -> [op : {"get", "task"}, stream : Streams, format : Formats]]
    /\ loopPc \in [Loops -> {"none", "zero", "lock", "events", "cleanup", "ended"}]
    /\ thread \in Loops
    /\ thread_running \in BOOLEAN /\ ctx \in BOOLEAN /\ kinect \in BOOLEAN
    /\ runloop_lock \in Users \cup Loops \cup {Free}
    /\ ringLock \in [Streams -> Users \cup {Free}]
    /\ bufs \in [Streams -> [0..2 -> 0..3]]
    /\ fmt \in [Streams -> Formats \cup {"none"}]
    /\ valid \in [Streams -> BOOLEAN] /\ running \in [Streams -> BOOLEAN]
    /\ timestamp \in [Streams -> Frames] /\ camera \in [Streams -> Frames]
    /\ proc_buf \in [Streams -> 0..3] /\ held \in [Streams -> 0..3]
    /\ content \in [Streams -> [1..3 -> Frames]]
    /\ got \in [Streams -> [data : Frames, timestamp : Frames]]
    /\ crashed \in BOOLEAN

\* The middle buffer of a ring whose frame is valid holds the frame of its timestamp.
Fresh ==
    \A s \in Streams : valid[s] => bufs[s][1] # 0 /\ content[s][bufs[s][1]] = timestamp[s]

\* A camera that runs has three buffers.
Full == \A s \in Streams : running[s] => \A i \in 0..2 : bufs[s][i] # 0

Rings == RingsSound /\ Full /\ Fresh /\ DataMatchesTimestamp

\* The locks that threads hold, and what setup_kinect leaves a client that has one: with
\* these, StreamsInContext is inductive.
LockHeld ==
    /\ \A u \in Users : pc[u] \in {"ring", "change", "in"} => runloop_lock = u
    /\ \A l \in Loops : loopPc[l] \in {"events", "cleanup"} => runloop_lock = l

DeviceThere ==
    /\ kinect => ctx
    /\ \A u \in Users : pc[u] \in {"ring", "change"} => kinect

-----------------------------------------------------------------------------
LEMMA FramesThere == ASSUME Constants PROVE 0 \in Frames /\ \A n \in Frames : (n + 1) % FrameMod \in Frames
<1>1. FrameMod \in Nat \ {0}
  BY DEF Constants, ScopeAssumption
<1> QED
  BY <1>1 DEF Frames

LEMMA LoopsThere == ASSUME Constants PROVE 1 \in Loops
BY DEF Constants, ScopeAssumption, Loops

LEMMA NewRing ==
    /\ NewBufs \in [0..2 -> 0..3] /\ NoBufs \in [0..2 -> 0..3]
    /\ NewBufs[2] \in 1..3 /\ \A i, j \in 0..2 : NewBufs[i] = NewBufs[j] => i = j
BY DEF NewBufs, NoBufs

\* Two buffers of one ring change places.
LEMMA Swapped ==
    ASSUME bufs \in [Streams -> [0..2 -> 0..3]], NEW s \in Streams, NEW i \in 0..2, NEW j \in 0..2,
           i # j, bufs' = [bufs EXCEPT ![s][i] = bufs[s][j], ![s][j] = bufs[s][i]]
    PROVE  /\ bufs' \in [Streams -> [0..2 -> 0..3]]
           /\ bufs'[s][i] = bufs[s][j] /\ bufs'[s][j] = bufs[s][i]
           /\ \A k \in (0..2) \ {i, j} : bufs'[s][k] = bufs[s][k]
           /\ \A t \in Streams : t # s => bufs'[t] = bufs[t]
<1> DEFINE ring == [bufs[s] EXCEPT ![i] = bufs[s][j], ![j] = bufs[s][i]]
<1>1. bufs[s] \in [0..2 -> 0..3]
  OBVIOUS
<1>2. /\ ring \in [0..2 -> 0..3] /\ ring[i] = bufs[s][j] /\ ring[j] = bufs[s][i]
      /\ \A k \in (0..2) \ {i, j} : ring[k] = bufs[s][k]
  BY <1>1
<1>3. bufs' = [bufs EXCEPT ![s] = ring]
  BY <1>1
<1> QED
  BY <1>2, <1>3

LEMMA InitShape == Constants /\ Init => Shape
<1> SUFFICES ASSUME Constants, Init
             PROVE  Shape
  OBVIOUS
<1>1. DefaultFormat \in Formats /\ "depth" \in Streams
  BY DEF Constants, FormatsAssumption, StreamsAssumption
<1>2. /\ pc \in [Users -> Places]
      /\ want \in [Users -> [op : {"get", "task"}, stream : Streams, format : Formats]]
      /\ loopPc \in [Loops -> {"none", "zero", "lock", "events", "cleanup", "ended"}]
      /\ thread \in Loops
      /\ thread_running \in BOOLEAN /\ ctx \in BOOLEAN /\ kinect \in BOOLEAN
      /\ runloop_lock \in Users \cup Loops \cup {Free}
  BY <1>1, LoopsThere DEF Init, Places
<1>3. /\ ringLock \in [Streams -> Users \cup {Free}]
      /\ bufs \in [Streams -> [0..2 -> 0..3]]
      /\ fmt \in [Streams -> Formats \cup {"none"}]
      /\ valid \in [Streams -> BOOLEAN] /\ running \in [Streams -> BOOLEAN]
  BY <1>1, NewRing DEF Init
<1>4. /\ timestamp \in [Streams -> Frames] /\ camera \in [Streams -> Frames]
      /\ proc_buf \in [Streams -> 0..3] /\ held \in [Streams -> 0..3]
  BY FramesThere DEF Init
<1>5. crashed \in BOOLEAN
  BY DEF Init
<1>6. content \in [Streams -> [1..3 -> Frames]]
  <2>1. [b \in 1..3 |-> 0] \in [1..3 -> Frames]
    BY FramesThere
  <2> QED
    BY <2>1 DEF Init
<1>7. got \in [Streams -> [data : Frames, timestamp : Frames]]
  BY FramesThere DEF Init
<1> QED
  BY <1>2, <1>3, <1>4, <1>5, <1>6, <1>7 DEF Shape

LEMMA ClientShape ==
    ASSUME Constants, Shape, NEW u \in Users,
           Calls(u) \/ Join(u) \/ Announce(u) \/ Retire(u) \/ InitFails(u) \/ GetGone(u)
             \/ WaitFrame(u) \/ TaskEnter(u) \/ TaskRun(u)
    PROVE  Shape'
<1>1. DefaultFormat \in Formats /\ "depth" \in Streams
  BY DEF Constants, FormatsAssumption, StreamsAssumption
<1>2. ASSUME NEW s \in Streams, NEW f \in Formats, GetCall(u, s, f)
      PROVE  Shape'
  BY <1>2 DEF GetCall, Goto, Shape, Places, loopVars, ringVars, devVars
<1>3. CASE TaskCall(u)
  BY <1>1, <1>3 DEF TaskCall, Goto, Shape, Places, loopVars, ringVars, devVars, outVars
<1>4. CASE StopCall(u)
  BY <1>4 DEF StopCall, Goto, Shape, Places, ringVars, devVars, outVars
<1>5. CASE Join(u) \/ Announce(u) \/ WaitFrame(u) \/ TaskEnter(u)
  BY <1>5 DEF Join, Announce, WaitFrame, TaskEnter, Goto, Shape, Places,
     loopVars, ringVars, devVars, outVars
<1>6. CASE Retire(u)
  BY <1>6 DEF Retire, Goto, Shape, Places, loopVars, ringVars, devVars, outVars
<1>7. CASE InitFails(u)
  BY <1>7 DEF InitFails, Goto, Shape, Places, ringVars, devVars, outVars
<1>8. CASE GetGone(u) \/ TaskRun(u)
  BY <1>8 DEF GetGone, TaskRun, Crash, Goto, Shape, Places, clientVars, loopVars, ringVars,
     devVars, outVars
<1> QED
  BY <1>2, <1>3, <1>4, <1>5, <1>6, <1>7, <1>8 DEF Calls

LEMMA SetupShape ==
    ASSUME Constants, Shape, Fresh, NEW u \in Users,
           SetupOpen(u) \/ SetupKeep(u) \/ SetupStop(u) \/ SetupChange(u) \/ TakeFrame(u)
    PROVE  Shape'
<1>1. CASE SetupOpen(u)
  <2>1. loopPc' \in [Loops -> {"none", "zero", "lock", "events", "cleanup", "ended"}]
        /\ thread' \in Loops /\ ctx' \in BOOLEAN
    BY <1>1 DEF SetupOpen, StartLoop, Shape
  <2>2. /\ pc' \in [Users -> Places] /\ thread_running' \in BOOLEAN /\ kinect' \in BOOLEAN
        /\ runloop_lock' \in Users \cup Loops \cup {Free}
        /\ fmt' \in [Streams -> Formats \cup {"none"}] /\ crashed' \in BOOLEAN
    BY <1>1 DEF SetupOpen, Shape, Goto, Crash, Places
  <2> QED
    BY <1>1, <2>1, <2>2 DEF SetupOpen, Shape, devVars, outVars
<1>2. CASE SetupKeep(u)
  BY <1>2 DEF SetupKeep, Goto, Shape, Places, loopVars, ringVars, devVars, outVars
<1>3. CASE SetupStop(u)
  BY <1>3 DEF SetupStop, Goto, Shape, Places, loopVars, ringVars, outVars
<1>4. CASE SetupChange(u)
  <2> DEFINE s == want[u].stream
             f == want[u].format
  <2>1. s \in Streams /\ f \in Formats
    BY DEF Shape
  <2>2. /\ bufs' \in [Streams -> [0..2 -> 0..3]] /\ proc_buf' \in [Streams -> 0..3]
        /\ timestamp' \in [Streams -> Frames] /\ fmt' \in [Streams -> Formats \cup {"none"}]
    BY <1>4, <2>1, NewRing, FramesThere DEF SetupChange, Shape
  <2>3. valid' \in [Streams -> BOOLEAN] /\ running' \in [Streams -> BOOLEAN]
    BY <1>4, <2>1 DEF SetupChange, Shape
  <2>4. /\ pc' \in [Users -> Places] /\ ringLock' \in [Streams -> Users \cup {Free}]
        /\ runloop_lock' \in Users \cup Loops \cup {Free}
    BY <1>4, <2>1 DEF SetupChange, Shape, Goto, Places
  <2> QED
    BY <1>4, <2>2, <2>3, <2>4 DEF SetupChange, Shape, loopVars, outVars
<1>5. CASE TakeFrame(u)
  <2> DEFINE s == want[u].stream
  <2>1. s \in Streams
    BY DEF Shape
  <2>2. bufs' \in [Streams -> [0..2 -> 0..3]]
    <3>1. bufs' = [bufs EXCEPT ![s][0] = bufs[s][1], ![s][1] = bufs[s][0]]
      BY <1>5 DEF TakeFrame
    <3>2. bufs \in [Streams -> [0..2 -> 0..3]] /\ 0 \in 0..2 /\ 1 \in 0..2 /\ 0 # 1
      BY DEF Shape
    <3> QED
      BY <2>1, <3>1, <3>2, Swapped, Zenon
  <2>3. held' \in [Streams -> 0..3]
    BY <1>5, <2>1 DEF TakeFrame, Shape
  <2>4. content[s][bufs[s][1]] \in Frames
    BY <1>5, <2>1 DEF TakeFrame, Shape, Fresh
  <2>5. got' \in [Streams -> [data : Frames, timestamp : Frames]]
    BY <1>5, <2>1, <2>4 DEF TakeFrame, Shape
  <2>6. pc' \in [Users -> Places] /\ valid' \in [Streams -> BOOLEAN]
    BY <1>5, <2>1 DEF TakeFrame, Shape, Goto, Places
  <2> QED
    BY <1>5, <2>2, <2>5, <2>6, <2>3 DEF TakeFrame, Shape, loopVars, devVars
<1> QED
  BY <1>1, <1>2, <1>3, <1>4, <1>5

LEMMA LoopShape ==
    ASSUME Constants, Shape, NEW l \in Loops, Loop(l)
    PROVE  Shape'
<1>1. CASE LoopWaitZero(l) \/ LoopUnlock(l)
  BY <1>1 DEF LoopWaitZero, LoopUnlock, Shape, clientVars, ringVars, devVars, outVars
<1>2. CASE LoopLock(l)
  BY <1>2 DEF LoopLock, Leave, Crash, Shape, clientVars, ringVars, outVars
<1>3. CASE LoopFails(l)
  BY <1>3 DEF LoopFails, Leave, Shape, clientVars, ringVars, outVars
<1>4. CASE LoopCleanup(l)
  <2>1. /\ bufs' \in [Streams -> [0..2 -> 0..3]] /\ proc_buf' \in [Streams -> 0..3]
        /\ timestamp' \in [Streams -> Frames] /\ fmt' \in [Streams -> Formats \cup {"none"}]
    BY <1>4, NewRing, FramesThere DEF LoopCleanup
  <2>2. valid' \in [Streams -> BOOLEAN] /\ running' \in [Streams -> BOOLEAN]
    BY <1>4 DEF LoopCleanup, AllStopped
  <2>3. held' \in [Streams -> 0..3]
    BY <1>4 DEF LoopCleanup, Shape
  <2>4. /\ loopPc' \in [Loops -> {"none", "zero", "lock", "events", "cleanup", "ended"}]
        /\ kinect' \in BOOLEAN /\ ctx' \in BOOLEAN
        /\ runloop_lock' \in Users \cup Loops \cup {Free}
    BY <1>4 DEF LoopCleanup, Shape
  <2> QED
    BY <1>4, <2>1, <2>2, <2>3, <2>4 DEF LoopCleanup, Shape, clientVars
<1> QED
  BY <1>1, <1>2, <1>3, <1>4 DEF Loop

-----------------------------------------------------------------------------
\* A frame delivered: the camera goes on with the buffer that was in the middle.
LEMMA Delivered ==
    ASSUME Constants, Shape, RingsSound, NEW s \in Streams, NEW t, Deliver(s, t)
    PROVE  /\ bufs' \in [Streams -> [0..2 -> 0..3]] /\ proc_buf' \in [Streams -> 0..3]
           /\ content' \in [Streams -> [1..3 -> Frames]]
           /\ camera' \in [Streams -> Frames] /\ timestamp' \in [Streams -> Frames]
           /\ bufs'[s][0] = bufs[s][0] /\ bufs'[s][1] = bufs[s][2] /\ bufs'[s][2] = bufs[s][1]
           /\ proc_buf'[s] = bufs[s][1]
           /\ bufs[s][2] \in 1..3 /\ content'[s][bufs[s][2]] = timestamp'[s]
           /\ \A r \in Streams : r # s => /\ bufs'[r] = bufs[r] /\ proc_buf'[r] = proc_buf[r]
                                          /\ content'[r] = content[r]
                                          /\ timestamp'[r] = timestamp[r]
<1>1. /\ running[s]
      /\ camera' = [camera EXCEPT ![s] = (@ + 1) % FrameMod]
      /\ content' = [content EXCEPT ![s][proc_buf[s]] = camera'[s]]
      /\ bufs' = [bufs EXCEPT ![s][1] = bufs[s][2], ![s][2] = bufs[s][1]]
      /\ proc_buf' = [proc_buf EXCEPT ![s] = bufs[s][1]]
      /\ timestamp' = [timestamp EXCEPT ![s] = camera'[s]]
  BY DEF Deliver
<1>2. proc_buf[s] = bufs[s][2] /\ bufs[s][2] \in 1..3 /\ bufs[s][1] \in 0..3
  BY <1>1 DEF RingsSound, Shape
<1>3. camera' \in [Streams -> Frames] /\ camera'[s] \in Frames
  BY <1>1, FramesThere DEF Shape
<1>4. content' \in [Streams -> [1..3 -> Frames]] /\ content'[s][bufs[s][2]] = camera'[s]
      /\ \A r \in Streams : r # s => content'[r] = content[r]
  <2> DEFINE new == [content[s] EXCEPT ![proc_buf[s]] = camera'[s]]
  <2>1. content[s] \in [1..3 -> Frames]
    BY DEF Shape
  <2>2. new \in [1..3 -> Frames] /\ new[proc_buf[s]] = camera'[s]
    BY <1>2, <1>3, <2>1
  <2>3. content' = [content EXCEPT ![s] = new]
    BY <1>1
  <2> QED
    BY <1>2, <2>2, <2>3 DEF Shape
<1>5. /\ timestamp' \in [Streams -> Frames] /\ timestamp'[s] = camera'[s]
      /\ proc_buf' \in [Streams -> 0..3] /\ proc_buf'[s] = bufs[s][1]
      /\ \A r \in Streams : r # s => proc_buf'[r] = proc_buf[r] /\ timestamp'[r] = timestamp[r]
  BY <1>1, <1>2, <1>3 DEF Shape
<1>6. /\ bufs' \in [Streams -> [0..2 -> 0..3]]
      /\ bufs'[s][1] = bufs[s][2] /\ bufs'[s][2] = bufs[s][1]
      /\ \A k \in (0..2) \ {1, 2} : bufs'[s][k] = bufs[s][k]
      /\ \A t1 \in Streams : t1 # s => bufs'[t1] = bufs[t1]
  <2>1. bufs \in [Streams -> [0..2 -> 0..3]] /\ 1 \in 0..2 /\ 2 \in 0..2 /\ 1 # 2
    BY DEF Shape
  <2> QED
    BY <1>1, <2>1, Swapped, Zenon
<1>7. bufs'[s][0] = bufs[s][0]
  BY <1>6
<1>8. content'[s][bufs[s][2]] = timestamp'[s]
  BY <1>4, <1>5
<1>9. \A r \in Streams : r # s => /\ bufs'[r] = bufs[r] /\ proc_buf'[r] = proc_buf[r]
                                  /\ content'[r] = content[r]
                                  /\ timestamp'[r] = timestamp[r]
  BY <1>4, <1>5, <1>6, Zenon
<1> QED
  BY <1>2, <1>3, <1>4, <1>5, <1>6, <1>7, <1>8, <1>9, Zenon

LEMMA DeliverShape ==
    ASSUME Constants, Shape, RingsSound, NEW s \in Streams, NEW t, Deliver(s, t)
    PROVE  Shape'
<1>1. pc' \in [Users -> Places]
  <2>1. Signal(s) /\ pc \in [Users -> Places] /\ "get" \in Places
    BY DEF Deliver, Shape, Places
  <2>2. pc' = pc \/ \E u \in Users : pc' = [pc EXCEPT ![u] = "get"]
    BY <2>1 DEF Signal, Goto
  <2> QED
    BY <2>1, <2>2
<1>2. valid' \in [Streams -> BOOLEAN]
  BY DEF Deliver, Shape
<1> QED
  BY <1>1, <1>2, Delivered DEF Deliver, Shape, loopVars, outVars

LEMMA NextShape ==
    ASSUME Constants, Shape, RingsSound, Fresh, [Next]_vars
    PROVE  Shape'
<1>1. CASE UNCHANGED vars
  BY <1>1 DEF vars, clientVars, loopVars, ringVars, devVars, outVars, Shape
<1> QED
  BY <1>1, ClientShape, SetupShape, LoopShape, DeliverShape DEF Next, Client, Events

-----------------------------------------------------------------------------
\* Most steps leave the rings as they are, and at most stop streams.
LEMMA StoppedRings ==
    ASSUME Rings, Shape,
           UNCHANGED <<bufs, valid, timestamp, proc_buf, content, got>>,
           \A s \in Streams : running'[s] => running[s]
    PROVE  Rings'
BY DEF Rings, RingsSound, Full, Fresh, DataMatchesTimestamp

LEMMA DeliverRings ==
    ASSUME Constants, Shape, Rings,
           NEW s \in Streams, NEW t, Deliver(s, t)
    PROVE  Rings'
<1>1. /\ running' = running /\ running[s] /\ got' = got
      /\ valid' = [valid EXCEPT ![s] = TRUE]
  BY DEF Deliver, outVars
<1>2. RingsSound' /\ Full'
  <2>1. \A r \in Streams : r # s => bufs'[r] = bufs[r] /\ proc_buf'[r] = proc_buf[r]
    BY Delivered DEF Rings
  <2>2. \A i, j \in 0..2 : bufs[s][i] = bufs[s][j] => i = j
    BY <1>1 DEF Rings, RingsSound
  <2>3. /\ bufs'[s][0] = bufs[s][0] /\ bufs'[s][1] = bufs[s][2] /\ bufs'[s][2] = bufs[s][1]
    BY Delivered DEF Rings
  <2>4. \A i, j \in 0..2 : bufs'[s][i] = bufs'[s][j] => i = j
    BY <2>2, <2>3, 0..2 = {0, 1, 2}
  <2>5. proc_buf'[s] = bufs'[s][2]
    BY Delivered DEF Rings
  <2>6. \A i \in 0..2 : bufs'[s][i] # 0
    BY <1>1, <2>3, 0..2 = {0, 1, 2} DEF Rings, Full
  <2>7. Full'
    BY <1>1, <2>1, <2>6 DEF Rings, Full
  <2> QED
    BY <1>1, <2>1, <2>4, <2>5, <2>6, <2>7 DEF Rings, RingsSound
<1>3. Fresh'
  <2>1. ASSUME NEW r \in Streams, r # s, valid'[r]
        PROVE  bufs'[r][1] # 0 /\ content'[r][bufs'[r][1]] = timestamp'[r]
    <3>1. valid[r]
      BY <1>1, <2>1 DEF Shape
    <3> QED
      BY <2>1, <3>1, Delivered DEF Rings, Fresh
  <2>2. bufs'[s][1] # 0 /\ content'[s][bufs'[s][1]] = timestamp'[s]
    BY Delivered DEF Rings
  <2> QED
    BY <2>1, <2>2 DEF Fresh
<1> QED
  BY <1>1, <1>2, <1>3 DEF Rings, DataMatchesTimestamp

\* A stream set up anew: it runs only if it has buffers.
LEMMA SetupRings ==
    ASSUME Constants, Shape, Rings, NEW u \in Users, SetupChange(u)
    PROVE  Rings'
<1> DEFINE s == want[u].stream
           f == want[u].format
<1>1. s \in Streams /\ f \in Formats
  BY DEF Shape
<1>2. /\ running' = [running EXCEPT ![s] = f \in StartFormats]
      /\ valid' = [valid EXCEPT ![s] = FALSE]
      /\ got' = got /\ content' = content
  BY DEF SetupChange, outVars
<1>3. \A r \in Streams : r # s => /\ bufs'[r] = bufs[r] /\ proc_buf'[r] = proc_buf[r]
                                  /\ timestamp'[r] = timestamp[r]
  BY <1>1 DEF SetupChange, Shape
<1>4. \A r \in Streams : r # s => running'[r] = running[r] /\ valid'[r] = valid[r]
  BY <1>1, <1>2 DEF Shape
<1>5. ~valid'[s]
  BY <1>1, <1>2 DEF Shape
<1>6. ASSUME running'[s]
      PROVE  /\ \A i, j \in 0..2 : bufs'[s][i] = bufs'[s][j] => i = j
             /\ proc_buf'[s] = bufs'[s][2] /\ proc_buf'[s] # 0
             /\ \A i \in 0..2 : bufs'[s][i] # 0
  <2>1. f \in StartFormats
    BY <1>1, <1>2, <1>6 DEF Shape
  <2>2. f \in RingFormats
    BY <2>1 DEF Constants, FormatsAssumption
  <2>3. bufs'[s] = NewBufs /\ proc_buf'[s] = NewBufs[2]
    BY <1>1, <2>2 DEF SetupChange, Shape
  <2> QED
    BY <2>3 DEF NewBufs
<1>7. RingsSound' /\ Full'
  BY <1>3, <1>4, <1>6 DEF Rings, RingsSound, Full
<1>8. Fresh'
  BY <1>2, <1>3, <1>4, <1>5 DEF Rings, Fresh
<1> QED
  BY <1>2, <1>7, <1>8 DEF Rings, DataMatchesTimestamp

\* A frame taken: the buffer in the middle is the one to hand out.
LEMMA TakeRings ==
    ASSUME Constants, Shape, Rings, NEW u \in Users, TakeFrame(u)
    PROVE  Rings'
<1> DEFINE s == want[u].stream
<1>1. s \in Streams /\ valid[s]
  BY DEF Shape, TakeFrame
<1>2. /\ running' = running /\ proc_buf' = proc_buf /\ content' = content
      /\ timestamp' = timestamp
      /\ valid' = [valid EXCEPT ![s] = FALSE]
      /\ bufs' = [bufs EXCEPT ![s][0] = bufs[s][1], ![s][1] = bufs[s][0]]
      /\ got' = [got EXCEPT ![s] = [data |-> content[s][bufs[s][1]],
                                    timestamp |-> timestamp[s]]]
  BY DEF TakeFrame, devVars
<1>3. /\ bufs' \in [Streams -> [0..2 -> 0..3]]
      /\ bufs'[s][0] = bufs[s][1] /\ bufs'[s][1] = bufs[s][0]
      /\ \A k \in (0..2) \ {0, 1} : bufs'[s][k] = bufs[s][k]
      /\ \A t \in Streams : t # s => bufs'[t] = bufs[t]
  <2>1. bufs \in [Streams -> [0..2 -> 0..3]] /\ 0 \in 0..2 /\ 1 \in 0..2 /\ 0 # 1
    BY DEF Shape
  <2>2. bufs' = [bufs EXCEPT ![s][0] = bufs[s][1], ![s][1] = bufs[s][0]]
    BY <1>2
  <2> HIDE DEF s
  <2> QED
    BY <1>1, <2>1, <2>2, Swapped, Zenon
<1>4. bufs'[s][2] = bufs[s][2]
  BY <1>3
<1>5. ~valid'[s] /\ \A r \in Streams : r # s => valid'[r] = valid[r]
  BY <1>1, <1>2 DEF Shape
<1>6. RingsSound' /\ Full'
  <2>1. ASSUME running[s]
        PROVE  \A i, j \in 0..2 : bufs'[s][i] = bufs'[s][j] => i = j
    <3>1. \A i, j \in 0..2 : bufs[s][i] = bufs[s][j] => i = j
      BY <1>1, <2>1 DEF Rings, RingsSound
    <3> QED
      BY <1>3, <1>4, <3>1, 0..2 = {0, 1, 2}
  <2>2. ASSUME running[s]
        PROVE  \A i \in 0..2 : bufs'[s][i] # 0
    BY <1>1, <1>3, <1>4, <2>2, 0..2 = {0, 1, 2} DEF Rings, Full
  <2> HIDE DEF s
  <2>3. proc_buf'[s] = proc_buf[s] /\ running'[s] = running[s]
    BY <1>2
  <2>4. ASSUME NEW r \in Streams, r # s
        PROVE  bufs'[r] = bufs[r] /\ proc_buf'[r] = proc_buf[r] /\ running'[r] = running[r]
    BY <1>2, <1>3, <2>4
  <2> QED
    BY <1>4, <2>1, <2>2, <2>3, <2>4 DEF Rings, RingsSound, Full
<1>7. Fresh'
  BY <1>2, <1>3, <1>5 DEF Rings, Fresh
<1>8. DataMatchesTimestamp'
  BY <1>1, <1>2 DEF Shape, Rings, Fresh, DataMatchesTimestamp
<1> QED
  BY <1>6, <1>7, <1>8 DEF Rings

LEMMA CleanupRings ==
    ASSUME Rings, NEW l \in Loops, LoopCleanup(l)
    PROVE  Rings'
BY DEF LoopCleanup, AllStopped, Rings, RingsSound, Full, Fresh, DataMatchesTimestamp

LEMMA NextRings ==
    ASSUME Constants, Shape, Rings, [Next]_vars
    PROVE  Rings'
<1>1. CASE UNCHANGED vars
  BY <1>1, StoppedRings DEF vars, ringVars, devVars, outVars
<1>2. ASSUME NEW u \in Users, Calls(u) \/ Client(u)
      PROVE  Rings'
  <2>1. CASE Calls(u)
    BY <2>1, StoppedRings DEF Calls, GetCall, TaskCall, StopCall, ringVars, devVars, outVars
  <2>2. CASE Join(u) \/ Announce(u) \/ Retire(u) \/ InitFails(u) \/ SetupOpen(u) \/ SetupKeep(u)
    BY <2>2, StoppedRings DEF Join, Announce, Retire, InitFails, SetupOpen, SetupKeep,
       ringVars, devVars, outVars
  <2>3. CASE GetGone(u) \/ WaitFrame(u) \/ TaskEnter(u) \/ TaskRun(u)
    BY <2>3, StoppedRings DEF GetGone, WaitFrame, TaskEnter, TaskRun, ringVars, devVars, outVars
  <2>4. CASE SetupStop(u)
    <3>1. \A s \in Streams : running'[s] => running[s]
      BY <2>4 DEF SetupStop, Shape
    <3> QED
      BY <2>4, <3>1, StoppedRings DEF SetupStop, ringVars, outVars
  <2> QED
    BY <1>2, <2>1, <2>2, <2>3, <2>4, SetupRings, TakeRings DEF Client
<1>3. ASSUME NEW l \in Loops, Loop(l)
      PROVE  Rings'
  <2>1. CASE LoopWaitZero(l) \/ LoopUnlock(l)
    BY <2>1, StoppedRings DEF LoopWaitZero, LoopUnlock, ringVars, devVars, outVars
  <2>2. CASE LoopLock(l) \/ LoopFails(l)
    <3>1. \A s \in Streams : running'[s] => running[s]
      BY <2>2 DEF LoopLock, LoopFails, Leave
    <3> QED
      BY <2>2, <3>1, StoppedRings DEF LoopLock, LoopFails, ringVars, outVars
  <2> QED
    BY <1>3, <2>1, <2>2, CleanupRings DEF Loop
<1>4. ASSUME NEW s \in Streams, Events(s)
      PROVE  Rings'
  BY <1>4, DeliverRings DEF Events
<1> QED
  BY <1>1, <1>2, <1>3, <1>4 DEF Next

-----------------------------------------------------------------------------
\* A client that moves within its call comes in, goes out or does neither.
LEMMA Moves ==
    ASSUME Constants, pc \in [Users -> Places], NEW u \in Users, NEW q, Goto(u, q)
    PROVE  /\ IsFiniteSet(Counted(pc)) /\ Cardinality(Counted(pc)) \in Nat
           /\ (pc[u] \in In <=> q \in In) => Counted(pc') = Counted(pc)
           /\ pc[u] \notin In /\ q \in In
                => Cardinality(Counted(pc')) = Cardinality(Counted(pc)) + 1
           /\ pc[u] \in In /\ q \notin In
                => Cardinality(Counted(pc')) = Cardinality(Counted(pc)) - 1
<1>1. IsFiniteSet(Users) /\ Counted(pc) \in SUBSET Users
  BY DEF Constants, UsersAssumption, Counted
<1>2. IsFiniteSet(Counted(pc))
  BY <1>1, FS_Subset
<1>3. Cardinality(Counted(pc)) \in Nat
  BY <1>2, FS_CardinalityType
<1>4. pc' = [pc EXCEPT ![u] = q]
  BY DEF Goto
<1>5. (pc[u] \in In <=> q \in In) => Counted(pc') = Counted(pc)
  BY <1>4 DEF Counted
<1>6. ASSUME pc[u] \notin In, q \in In
      PROVE  Cardinality(Counted(pc')) = Cardinality(Counted(pc)) + 1
  <2>1. Counted(pc') = Counted(pc) \cup {u} /\ u \notin Counted(pc)
    BY <1>4, <1>6 DEF Counted
  <2> QED
    BY <1>2, <2>1, FS_AddElement
<1>7. ASSUME pc[u] \in In, q \notin In
      PROVE  Cardinality(Counted(pc')) = Cardinality(Counted(pc)) - 1
  <2>1. Counted(pc') = Counted(pc) \ {u} /\ u \in Counted(pc)
    BY <1>4, <1>7 DEF Counted
  <2> QED
    BY <1>2, <2>1, FS_RemoveElement
<1> QED
  BY <1>2, <1>3, <1>5, <1>6, <1>7

LEMMA SameIn ==
    ASSUME TasksCounted, pending_runloop_tasks' = pending_runloop_tasks,
           Counted(pc') = Counted(pc)
    PROVE  TasksCounted'
BY DEF TasksCounted, Counted, In

LEMMA NextTasks ==
    ASSUME Constants, Shape, TasksCounted, [Next]_vars
    PROVE  TasksCounted'
<1>1. CASE UNCHANGED vars
  BY <1>1 DEF vars, clientVars, TasksCounted
<1>2. ASSUME NEW u \in Users, Calls(u) \/ Client(u)
      PROVE  TasksCounted'
  <2> DEFINE Same == /\ pending_runloop_tasks' = pending_runloop_tasks
                     /\ Counted(pc') = Counted(pc)
  <2>1. pc \in [Users -> Places]
    BY DEF Shape
  <2>2. CASE Announce(u)
    <3>1. /\ pending_runloop_tasks' = pending_runloop_tasks + 1
          /\ \E q \in {"open", "enter"} : Goto(u, q) /\ pc[u] \notin In
      BY <2>2 DEF Announce, In
    <3>2. Cardinality(Counted(pc')) = Cardinality(Counted(pc)) + 1
      BY <2>1, <3>1, Moves DEF In
    <3> QED
      BY <3>1, <3>2 DEF TasksCounted, Counted, In
  <2>3. CASE Retire(u)
    <3>1. want[u].op \in {"get", "task"}
      BY DEF Shape
    <3>2. /\ pending_runloop_tasks' = pending_runloop_tasks - 1
          /\ \E q \in {"get", "task", "idle", "join"} : Goto(u, q) /\ pc[u] \in In
      BY <2>3, <3>1 DEF Retire, In
    <3>3. Cardinality(Counted(pc')) = Cardinality(Counted(pc)) - 1
      BY <2>1, <3>2, Moves DEF In
    <3> QED
      BY <3>2, <3>3 DEF TasksCounted, Counted, In
  <2>4. CASE Calls(u) \/ Join(u)
    <3>1. /\ pending_runloop_tasks' = pending_runloop_tasks
          /\ pc[u] \notin In
          /\ \E q \in {"get", "setup", "task", "join", "idle"} : Goto(u, q)
      BY <2>4 DEF Calls, GetCall, TaskCall, StopCall, Join, In
    <3>2. Counted(pc') = Counted(pc)
      BY <2>1, <3>1, Moves DEF In
    <3> QED
      BY <3>1, <3>2, SameIn
  <2>5. CASE InitFails(u) \/ SetupKeep(u) \/ SetupStop(u) \/ SetupChange(u) \/ TaskEnter(u)
    <3>1. /\ pending_runloop_tasks' = pending_runloop_tasks
          /\ pc[u] \in In
          /\ \E q \in {"failed", "ready", "change", "in"} : Goto(u, q)
      BY <2>5 DEF InitFails, SetupKeep, SetupStop, SetupChange, TaskEnter, In
    <3>2. Counted(pc') = Counted(pc)
      BY <2>1, <3>1, Moves DEF In
    <3> QED
      BY <3>1, <3>2, SameIn
  <2>6. CASE SetupOpen(u) \/ TaskRun(u) \/ GetGone(u)
    <3>1. /\ pending_runloop_tasks' = pending_runloop_tasks
          /\ \/ pc' = pc
             \/ pc[u] \in In /\ \E q \in {"failed", "ring", "undo", "exit"} : Goto(u, q)
      BY <2>6 DEF SetupOpen, TaskRun, GetGone, clientVars, In
    <3>2. Counted(pc') = Counted(pc)
      BY <2>1, <3>1, Moves DEF In
    <3> QED
      BY <3>1, <3>2, SameIn
  <2>7. CASE TakeFrame(u) \/ WaitFrame(u)
    <3>1. /\ pending_runloop_tasks' = pending_runloop_tasks
          /\ pc[u] \notin In
          /\ \E q \in {"idle", "wait"} : Goto(u, q)
      BY <2>7 DEF TakeFrame, WaitFrame, In
    <3>2. Counted(pc') = Counted(pc)
      BY <2>1, <3>1, Moves DEF In
    <3> QED
      BY <3>1, <3>2, SameIn
  <2> QED
    BY <1>2, <2>2, <2>3, <2>4, <2>5, <2>6, <2>7 DEF Client
<1>3. ASSUME NEW l \in Loops, Loop(l)
      PROVE  TasksCounted'
  <2>1. UNCHANGED <<pc, pending_runloop_tasks>>
    BY <1>3 DEF Loop, LoopWaitZero, LoopLock, LoopUnlock, LoopFails, LoopCleanup, clientVars
  <2> QED
    BY <2>1 DEF TasksCounted
<1>4. ASSUME NEW s \in Streams, Events(s)
      PROVE  TasksCounted'
  <2>1. pc \in [Users -> Places] /\ Signal(s) /\ pending_runloop_tasks' = pending_runloop_tasks
    BY <1>4 DEF Shape, Events, Deliver
  <2>2. pc' = pc \/ \E u \in Users : pc[u] \notin In /\ Goto(u, "get")
    BY <2>1 DEF Signal, In
  <2>3. Counted(pc') = Counted(pc)
    BY <2>1, <2>2, Moves DEF In
  <2> QED
    BY <2>1, <2>3, SameIn
<1> QED
  BY <1>1, <1>2, <1>3, <1>4 DEF Next

LEMMA InitTasks == Init => TasksCounted
<1> SUFFICES ASSUME Init
             PROVE  TasksCounted
  OBVIOUS
<1>1. Counted(pc) = {}
  BY DEF Init, Counted, In
<1> QED
  BY <1>1, FS_EmptySet DEF Init, TasksCounted, Counted, In

-----------------------------------------------------------------------------
\* runloop_lock is a lock: who takes it finds it free, who releases it holds it.
LEMMA NextLocks ==
    ASSUME Constants, Shape, LockHeld, [Next]_vars
    PROVE  LockHeld'
<1> DEFINE Held == {"ring", "change", "in"}
           Kept == \A u \in Users : pc'[u] \in Held => pc[u] \in Held
<1>1. Free \notin Users /\ Free \notin Loops /\ Users \cap Loops = {}
  BY DEF Constants, ThreadsAssumption
<1>2. pc \in [Users -> Places] /\ loopPc \in [Loops -> {"none", "zero", "lock", "events",
                                                        "cleanup", "ended"}]
  BY DEF Shape
<1>3. ASSUME NEW u \in Users, NEW q, Goto(u, q)
      PROVE  pc'[u] = q /\ \A v \in Users : v # u => pc'[v] = pc[v]
  BY <1>2, <1>3 DEF Goto
<1>4. CASE UNCHANGED vars
  BY <1>4 DEF vars, clientVars, loopVars, LockHeld
<1>5. ASSUME NEW u \in Users, Calls(u) \/ Client(u)
      PROVE  LockHeld'
  <2>1. CASE Calls(u) \/ Join(u) \/ Announce(u) \/ InitFails(u) \/ WaitFrame(u) \/ TakeFrame(u)
    <3>1. /\ UNCHANGED <<loopPc, runloop_lock>>
          /\ \E q \in {"get", "setup", "task", "join", "idle", "open", "enter", "failed",
                       "wait"} : Goto(u, q)
      BY <2>1 DEF Calls, GetCall, TaskCall, StopCall, Join, Announce, InitFails, WaitFrame,
         TakeFrame, loopVars
    <3> QED
      BY <1>3, <3>1 DEF LockHeld
  <2>2. CASE Retire(u)
    <3>1. want[u].op \in {"get", "task"}
      BY DEF Shape
    <3>2. /\ UNCHANGED <<loopPc, runloop_lock>>
          /\ \E q \in {"get", "task", "idle", "join"} : Goto(u, q)
      BY <2>2, <3>1 DEF Retire, loopVars
    <3> QED
      BY <1>3, <3>2 DEF LockHeld
  <2>3. CASE SetupOpen(u)
    <3>1. runloop_lock = Free
      BY <2>3 DEF SetupOpen
    <3>2. /\ \A v \in Users : pc[v] \notin Held
          /\ \A l \in Loops : loopPc[l] \notin {"events", "cleanup"}
      BY <1>1, <3>1 DEF LockHeld
    <3>3. \A l \in Loops : loopPc'[l] \notin {"events", "cleanup"}
      BY <1>2, <2>3, <3>2 DEF SetupOpen, StartLoop
    <3>4. \/ runloop_lock' = u /\ Goto(u, "ring")
          \/ \E q \in {"failed", "undo"} : Goto(u, q)
          \/ pc' = pc
      BY <2>3 DEF SetupOpen
    <3> QED
      BY <1>3, <3>2, <3>3, <3>4 DEF LockHeld
  <2>4. CASE TaskEnter(u)
    <3>1. runloop_lock = Free /\ runloop_lock' = u /\ Goto(u, "in") /\ loopPc' = loopPc
      BY <2>4 DEF TaskEnter, loopVars
    <3>2. /\ \A v \in Users : pc[v] \notin Held
          /\ \A l \in Loops : loopPc[l] \notin {"events", "cleanup"}
      BY <1>1, <3>1 DEF LockHeld
    <3> QED
      BY <1>3, <3>1, <3>2 DEF LockHeld
  <2>5. CASE SetupStop(u)
    <3>1. /\ UNCHANGED <<loopPc, runloop_lock>> /\ Goto(u, "change")
          /\ pc[u] \in Held
      BY <2>5 DEF SetupStop, loopVars
    <3> QED
      BY <1>3, <3>1 DEF LockHeld
  <2>6. CASE SetupKeep(u) \/ SetupChange(u) \/ TaskRun(u)
    <3>1. /\ pc[u] \in Held /\ loopPc' = loopPc
          /\ \/ \E q \in {"ready", "exit"} : Goto(u, q)
             \/ UNCHANGED <<pc, runloop_lock>>
      BY <2>6 DEF SetupKeep, SetupChange, TaskRun, loopVars
    <3>2. runloop_lock = u
      BY <3>1 DEF LockHeld
    <3>3. /\ \A v \in Users : v # u => pc[v] \notin Held
          /\ \A l \in Loops : loopPc[l] \notin {"events", "cleanup"}
      BY <1>1, <3>2 DEF LockHeld
    <3> QED
      BY <1>3, <3>1, <3>3 DEF LockHeld
  <2>7. CASE GetGone(u)
    BY <2>7 DEF GetGone, clientVars, loopVars, LockHeld
  <2> QED
    BY <1>5, <2>1, <2>2, <2>3, <2>4, <2>5, <2>6, <2>7 DEF Client
<1>6. ASSUME NEW l \in Loops, Loop(l)
      PROVE  LockHeld'
  <2>1. pc' = pc
    BY <1>6 DEF Loop, LoopWaitZero, LoopLock, LoopUnlock, LoopFails, LoopCleanup, clientVars
  <2>2. CASE LoopWaitZero(l)
    <3>1. runloop_lock' = runloop_lock /\ loopPc' = [loopPc EXCEPT ![l] = "lock"]
      BY <2>2 DEF LoopWaitZero
    <3> QED
      BY <1>2, <2>1, <3>1 DEF LockHeld
  <2>3. CASE LoopLock(l)
    <3>1. /\ runloop_lock = Free /\ runloop_lock' = l
          /\ \/ \E q \in {"events", "cleanup"} : loopPc' = [loopPc EXCEPT ![l] = q]
             \/ loopPc' = loopPc
      BY <2>3 DEF LoopLock, Leave
    <3>2. /\ \A v \in Users : pc[v] \notin Held
          /\ \A k \in Loops : loopPc[k] \notin {"events", "cleanup"}
      BY <1>1, <3>1 DEF LockHeld
    <3> QED
      BY <1>2, <2>1, <3>1, <3>2 DEF LockHeld
  <2>4. CASE LoopFails(l)
    <3>1. /\ runloop_lock' = runloop_lock /\ loopPc[l] = "events"
          /\ loopPc' = [loopPc EXCEPT ![l] = "cleanup"]
      BY <2>4 DEF LoopFails, Leave
    <3> QED
      BY <1>2, <2>1, <3>1 DEF LockHeld
  <2>5. CASE LoopUnlock(l) \/ LoopCleanup(l)
    <3>1. /\ loopPc[l] \in {"events", "cleanup"}
          /\ \E q \in {"zero", "ended"} : loopPc' = [loopPc EXCEPT ![l] = q]
      BY <2>5 DEF LoopUnlock, LoopCleanup
    <3>2. runloop_lock = l
      BY <3>1 DEF LockHeld
    <3>3. /\ \A v \in Users : pc[v] \notin Held
          /\ \A k \in Loops : k # l => loopPc[k] \notin {"events", "cleanup"}
      BY <1>1, <3>2 DEF LockHeld
    <3> QED
      BY <1>2, <2>1, <3>1, <3>3 DEF LockHeld
  <2> QED
    BY <1>6, <2>2, <2>3, <2>4, <2>5 DEF Loop
<1>7. ASSUME NEW s \in Streams, Events(s)
      PROVE  LockHeld'
  <2>1. Signal(s) /\ UNCHANGED <<loopPc, runloop_lock>>
    BY <1>7 DEF Events, Deliver, loopVars
  <2>2. pc' = pc \/ \E u \in Users : Goto(u, "get")
    BY <2>1 DEF Signal
  <2> QED
    BY <1>3, <2>1, <2>2 DEF LockHeld
<1> QED
  BY <1>4, <1>5, <1>6, <1>7 DEF Next

-----------------------------------------------------------------------------
\* A program that never stops the wrapper, or one in which freenect_init never fails
Careful == ~MayStop \/ "init" \notin Failures

Context ==
    /\ StreamsInContext /\ DeviceThere
    /\ MayStop \/ (kinect => thread_running)

LEMMA SetupContext ==
    ASSUME Constants, Careful, Shape, Context, NEW u \in Users,
           InitFails(u) \/ SetupOpen(u) \/ SetupStop(u) \/ SetupChange(u)
    PROVE  Context'
<1>1. pc \in [Users -> Places] /\ running \in [Streams -> BOOLEAN]
  BY DEF Shape
<1>2. CASE InitFails(u)
  <2>1. ~MayStop /\ ~kinect
    BY <1>2 DEF InitFails, Careful, Context
  <2>2. /\ kinect' = kinect /\ running' = running
        /\ pc' = [pc EXCEPT ![u] = "failed"]
    BY <1>2 DEF InitFails, devVars, Goto
  <2> QED
    BY <1>1, <2>1, <2>2 DEF Context, StreamsInContext, DeviceThere
<1>3. CASE SetupOpen(u)
  <2>1. running' = running /\ ringLock' = ringLock
    BY <1>3 DEF SetupOpen, devVars
  <2>2. ctx' = ctx \/ ctx' = TRUE
    BY <1>3 DEF SetupOpen, StartLoop
  <2>3. CASE kinect' = TRUE /\ thread_running' = TRUE /\ Goto(u, "ring") /\ (kinect \/ ctx')
    <3>1. ctx'
      BY <2>2, <2>3 DEF Context, DeviceThere
    <3> QED
      BY <1>1, <2>1, <2>3, <3>1 DEF Context, StreamsInContext, DeviceThere
  <2>4. CASE ~kinect /\ kinect' = kinect /\ (pc' = pc \/ \E q \in {"failed", "undo"} : Goto(u, q))
    BY <1>1, <2>1, <2>4 DEF Context, StreamsInContext, DeviceThere, Goto
  <2> QED
    BY <1>3, <2>3, <2>4 DEF SetupOpen
<1>4. CASE SetupStop(u)
  <2> DEFINE s == want[u].stream
  <2>1. pc[u] = "ring" /\ s \in Streams
    BY <1>4 DEF SetupStop, Shape
  <2>2. /\ running' = [running EXCEPT ![s] = FALSE]
        /\ ringLock' = [ringLock EXCEPT ![s] = u]
        /\ pc' = [pc EXCEPT ![u] = "change"]
        /\ UNCHANGED <<ctx, kinect, thread_running>>
    BY <1>4 DEF SetupStop, Goto, loopVars
  <2>3. kinect
    BY <2>1 DEF Context, DeviceThere
  <2>4. \A r \in Streams : running'[r] => r # s /\ running[r]
    BY <1>1, <2>1, <2>2
  <2>5. \A r \in Streams : r # s => ringLock'[r] = ringLock[r]
    BY <2>2 DEF Shape
  <2>6. StreamsInContext'
    BY <2>2, <2>4, <2>5 DEF Context, StreamsInContext
  <2> HIDE DEF s
  <2> QED
    BY <1>1, <2>2, <2>3, <2>6 DEF Context, DeviceThere
<1>5. CASE SetupChange(u)
  <2> DEFINE s == want[u].stream
  <2>1. pc[u] = "change" /\ s \in Streams
    BY <1>5 DEF SetupChange, Shape
  <2>2. /\ ringLock' = [ringLock EXCEPT ![s] = Free]
        /\ pc' = [pc EXCEPT ![u] = "ready"]
        /\ UNCHANGED <<ctx, kinect, thread_running>>
    BY <1>5 DEF SetupChange, Goto, loopVars
  <2>3. kinect /\ ctx
    BY <2>1 DEF Context, DeviceThere
  <2>4. \A r \in Streams : r # s => running'[r] = running[r] /\ ringLock'[r] = ringLock[r]
    BY <1>5, <2>1 DEF SetupChange, Shape
  <2>5. ringLock'[s] = Free
    BY <2>1, <2>2 DEF Shape
  <2>6. StreamsInContext'
    BY <2>2, <2>3, <2>4, <2>5 DEF Context, StreamsInContext
  <2> HIDE DEF s
  <2> QED
    BY <1>1, <2>2, <2>3, <2>6 DEF Context, DeviceThere
<1> QED
  BY <1>2, <1>3, <1>4, <1>5

LEMMA NextContext ==
    ASSUME Constants, Careful, Shape, LockHeld, Context, [Next]_vars
    PROVE  Context'
<1>1. pc \in [Users -> Places] /\ running \in [Streams -> BOOLEAN]
  BY DEF Shape
\* a step that only moves clients elsewhere
<1>2. ASSUME UNCHANGED <<running, ringLock, ctx, kinect>>,
             MayStop \/ thread_running' = thread_running,
             \A u \in Users : pc'[u] \in {"ring", "change"} => pc[u] \in {"ring", "change"}
      PROVE  Context'
  BY <1>2 DEF Context, StreamsInContext, DeviceThere
<1>3. CASE UNCHANGED vars
  BY <1>2, <1>3 DEF vars, clientVars, loopVars, devVars
<1>4. ASSUME NEW u \in Users, Calls(u) \/ Client(u)
      PROVE  Context'
  <2>1. CASE Calls(u) \/ Join(u) \/ Announce(u) \/ WaitFrame(u) \/ TakeFrame(u)
    <3>1. /\ UNCHANGED <<running, ringLock, ctx, kinect>>
          /\ MayStop \/ thread_running' = thread_running
          /\ \E q \in {"get", "setup", "task", "join", "idle", "open", "enter", "wait"} :
                 pc' = [pc EXCEPT ![u] = q]
      BY <2>1 DEF Calls, GetCall, TaskCall, StopCall, Join, Announce, WaitFrame, TakeFrame,
         Goto, loopVars, devVars
    <3>2. \A v \in Users : pc'[v] \in {"ring", "change"} => pc[v] \in {"ring", "change"}
      BY <1>1, <3>1
    <3> QED
      BY <1>2, <3>1, <3>2
  <2>2. CASE Retire(u)
    <3>1. want[u].op \in {"get", "task"}
      BY DEF Shape
    <3>2. /\ UNCHANGED <<running, ringLock, ctx, kinect, thread_running>>
          /\ \E q \in {"get", "task", "idle", "join"} : pc' = [pc EXCEPT ![u] = q]
      BY <2>2, <3>1 DEF Retire, Goto, loopVars, devVars
    <3>3. \A v \in Users : pc'[v] \in {"ring", "change"} => pc[v] \in {"ring", "change"}
      BY <1>1, <3>2
    <3> QED
      BY <1>2, <3>2, <3>3
  <2>3. CASE SetupKeep(u) \/ GetGone(u) \/ TaskEnter(u) \/ TaskRun(u)
    <3>1. /\ UNCHANGED <<running, ringLock, ctx, kinect, thread_running>>
          /\ \/ \E q \in {"ready", "in", "exit"} : pc' = [pc EXCEPT ![u] = q]
             \/ pc' = pc
      BY <2>3 DEF SetupKeep, GetGone, TaskEnter, TaskRun, Goto, clientVars, loopVars, devVars
    <3>2. \A v \in Users : pc'[v] \in {"ring", "change"} => pc[v] \in {"ring", "change"}
      BY <1>1, <3>1
    <3> QED
      BY <1>2, <3>1, <3>2
  <2> QED
    BY <1>4, <2>1, <2>2, <2>3, SetupContext DEF Client
<1>5. ASSUME NEW l \in Loops, Loop(l)
      PROVE  Context'
  <2>1. pc' = pc /\ thread_running' = thread_running /\ ringLock' = ringLock
    BY <1>5 DEF Loop, LoopWaitZero, LoopLock, LoopUnlock, LoopFails, LoopCleanup, clientVars
  <2>2. CASE LoopWaitZero(l) \/ LoopUnlock(l)
    BY <1>2, <2>1, <2>2 DEF LoopWaitZero, LoopUnlock, devVars
  <2>3. CASE LoopLock(l) \/ LoopFails(l)
    <3>1. UNCHANGED <<ctx, kinect>> /\ \A s \in Streams : running'[s] => running[s]
      BY <2>3 DEF LoopLock, LoopFails, Leave
    <3> QED
      BY <2>1, <3>1 DEF Context, StreamsInContext, DeviceThere
  <2>4. CASE LoopCleanup(l)
    <3>1. runloop_lock = l
      BY <2>4 DEF LoopCleanup, LockHeld
    <3>2. \A u \in Users : pc[u] \notin {"ring", "change"}
      BY <3>1 DEF LockHeld, Constants, ThreadsAssumption
    <3>3. ~kinect' /\ \A s \in Streams : ~running'[s]
      BY <2>4 DEF LoopCleanup, AllStopped
    <3> QED
      BY <2>1, <3>2, <3>3 DEF Context, StreamsInContext, DeviceThere
  <2> QED
    BY <1>5, <2>2, <2>3, <2>4 DEF Loop
<1>6. ASSUME NEW s \in Streams, Events(s)
      PROVE  Context'
  <2>1. /\ Signal(s)
        /\ UNCHANGED <<running, ringLock, ctx, kinect, thread_running>>
    BY <1>6 DEF Events, Deliver, loopVars
  <2>2. pc' = pc \/ \E u \in Users : pc' = [pc EXCEPT ![u] = "get"]
    BY <2>1 DEF Signal, Goto
  <2>3. \A v \in Users : pc'[v] \in {"ring", "change"} => pc[v] \in {"ring", "change"}
    BY <1>1, <2>2
  <2> QED
    BY <1>2, <2>1, <2>3
<1> QED
  BY <1>3, <1>4, <1>5, <1>6 DEF Next

-----------------------------------------------------------------------------
\* A ring without a format has no buffers, nor has one of a closed device.
EmptyRings ==
    /\ \A s \in Streams : fmt[s] = "none" => bufs[s] = NoBufs
    /\ ~kinect => \A s \in Streams : bufs[s] = NoBufs

LEMMA NextEmptyRings ==
    ASSUME Constants, Shape, Rings, DeviceThere, EmptyRings, [Next]_vars
    PROVE  EmptyRings'
<1>1. CASE UNCHANGED <<fmt, bufs, kinect>>
  BY <1>1 DEF EmptyRings
<1>2. ASSUME NEW u \in Users, Calls(u) \/ Client(u)
      PROVE  EmptyRings'
  <2>1. CASE SetupOpen(u)
    <3>1. bufs' = bufs /\ (kinect => kinect')
      BY <2>1 DEF SetupOpen
    <3>2. CASE kinect
      <4>1. fmt' = fmt
        BY <2>1, <3>2 DEF SetupOpen
      <4> QED
        BY <3>1, <3>2, <4>1 DEF EmptyRings
    <3>3. CASE ~kinect
      BY <3>1, <3>3 DEF EmptyRings
    <3> QED
      BY <3>2, <3>3
  <2>2. CASE SetupChange(u)
    <3> DEFINE s == want[u].stream
               f == want[u].format
    <3>1. s \in Streams /\ f \in Formats /\ f # "none"
      BY DEF Shape, Constants, FormatsAssumption
    <3>2. /\ kinect /\ kinect' = kinect
          /\ bufs' = [bufs EXCEPT ![s] = IF f \in RingFormats THEN NewBufs ELSE NoBufs]
          /\ fmt' = [fmt EXCEPT ![s] = IF f \in RingFormats THEN f ELSE "none"]
      BY <2>2 DEF SetupChange, DeviceThere
    <3> HIDE DEF s, f
    <3> QED
      BY <3>1, <3>2 DEF Shape, EmptyRings
  <2>3. CASE TakeFrame(u)
    <3> DEFINE s == want[u].stream
    <3>1. s \in Streams /\ bufs[s][1] # 0
      BY <2>3 DEF TakeFrame, Shape, Rings, Fresh
    <3>2. /\ fmt' = fmt /\ kinect /\ kinect' = kinect
          /\ bufs' = [bufs EXCEPT ![s][0] = bufs[s][1], ![s][1] = bufs[s][0]]
      BY <2>3 DEF TakeFrame
    <3>3. bufs[s] # NoBufs
      BY <3>1 DEF NoBufs
    <3> HIDE DEF s
    <3>4. \A r \in Streams : r # s => bufs'[r] = bufs[r]
      BY <3>1, <3>2 DEF Shape
    <3> QED
      BY <3>1, <3>2, <3>3, <3>4 DEF EmptyRings
  <2>4. CASE ~(SetupOpen(u) \/ SetupChange(u) \/ TakeFrame(u))
    <3>1. UNCHANGED <<fmt, bufs, kinect>>
      BY <1>2, <2>4 DEF Calls, GetCall, TaskCall, StopCall, Client, Join, Announce, Retire,
         InitFails, SetupKeep, SetupStop, GetGone, WaitFrame, TaskEnter, TaskRun, ringVars
    <3> QED
      BY <1>1, <3>1
  <2> QED
    BY <2>1, <2>2, <2>3, <2>4
<1>3. ASSUME NEW l \in Loops, Loop(l)
      PROVE  EmptyRings'
  BY <1>1, <1>3 DEF Loop, LoopWaitZero, LoopLock, LoopUnlock, LoopFails, LoopCleanup, ringVars,
     EmptyRings
<1>4. ASSUME NEW s \in Streams, Events(s)
      PROVE  EmptyRings'
  <2>1. /\ running[s] /\ fmt' = fmt /\ kinect' = kinect
        /\ bufs' = [bufs EXCEPT ![s][1] = bufs[s][2], ![s][2] = bufs[s][1]]
    BY <1>4 DEF Events, Deliver
  <2>2. bufs[s][1] # 0
    BY <2>1 DEF Rings, Full
  <2>3. bufs[s] # NoBufs
    BY <2>2 DEF NoBufs
  <2>4. \A r \in Streams : r # s => bufs'[r] = bufs[r]
    BY <2>1 DEF Shape
  <2> QED
    BY <2>1, <2>3, <2>4 DEF EmptyRings
<1> QED
  BY <1>1, <1>2, <1>3, <1>4 DEF Next, vars, ringVars

\* Who initialised the context started a runloop thread, which shuts it down.
LoopThere == ctx => Alive(thread)

LEMMA NextLoopThere ==
    ASSUME Constants, Shape, LoopThere, [Next]_vars
    PROVE  LoopThere'
<1>1. CASE UNCHANGED <<ctx, loopPc, thread>>
  BY <1>1 DEF LoopThere, Alive
<1>2. ASSUME NEW u \in Users, Calls(u) \/ Client(u)
      PROVE  LoopThere'
  <2>1. CASE InitFails(u)
    BY <2>1 DEF InitFails, LoopThere
  <2>2. CASE SetupOpen(u)
    <3>1. CASE UNCHANGED <<loopPc, thread, ctx>>
      BY <1>1, <3>1
    <3>2. CASE ~UNCHANGED <<loopPc, thread, ctx>>
      <4>1. PICK l \in Loops : loopPc' = [loopPc EXCEPT ![l] = "zero"] /\ thread' = l
        BY <2>2, <3>2 DEF SetupOpen, StartLoop
      <4>2. loopPc'[l] = "zero"
        BY <4>1 DEF Shape
      <4> QED
        BY <4>1, <4>2 DEF LoopThere, Alive
    <3> QED
      BY <3>1, <3>2
  <2>3. CASE ~(InitFails(u) \/ SetupOpen(u))
    <3>1. UNCHANGED <<ctx, loopPc, thread>>
      BY <1>2, <2>3 DEF Calls, GetCall, TaskCall, StopCall, Client, Join, Announce, Retire,
         SetupKeep, SetupStop, SetupChange, GetGone, TakeFrame, WaitFrame, TaskEnter, TaskRun,
         loopVars
    <3> QED
      BY <1>1, <3>1
  <2> QED
    BY <2>1, <2>2, <2>3
<1>3. ASSUME NEW l \in Loops, Loop(l)
      PROVE  LoopThere'
  <2>1. CASE LoopCleanup(l)
    BY <2>1 DEF LoopCleanup, LoopThere
  <2>2. CASE ~LoopCleanup(l)
    <3>1. /\ UNCHANGED <<ctx, thread>>
          /\ \/ loopPc' = loopPc
             \/ \E q \in {"lock", "events", "cleanup", "zero"} : loopPc' = [loopPc EXCEPT ![l] = q]
      BY <1>3, <2>2 DEF Loop, LoopWaitZero, LoopLock, LoopUnlock, LoopFails, Leave
    <3>2. \A k \in Loops : Alive(k) => loopPc'[k] \notin {"none", "ended"}
      BY <3>1 DEF Alive, Shape
    <3> QED
      BY <3>1, <3>2 DEF LoopThere, Alive, Shape
  <2> QED
    BY <2>1, <2>2
<1>4. ASSUME NEW s \in Streams, Events(s)
      PROVE  LoopThere'
  BY <1>1, <1>4 DEF Events, Deliver, loopVars
<1> QED
  BY <1>1, <1>2, <1>3, <1>4 DEF Next, vars, loopVars

-----------------------------------------------------------------------------
\* A single client starts a runloop thread only when it has joined the one before.
OneLoop ==
    /\ OneRunloop
    /\ (\E l \in Loops : Alive(l)) /\ ~thread_running
         => \E v \in Users : pc[v] \in {"undo", "join"}

LEMMA NextOneLoop ==
    ASSUME Constants, Shape, NEW u \in Users, Users = {u}, OneLoop, [Next]_vars
    PROVE  OneLoop'
<1>1. pc \in [Users -> Places]
  BY DEF Shape
<1>2. ASSUME UNCHANGED <<loopPc, thread, thread_running>>,
             pc[u] \in {"undo", "join"} => pc'[u] \in {"undo", "join"}
      PROVE  OneLoop'
  BY <1>2 DEF OneLoop, OneRunloop, Alive
<1>3. CASE Calls(u) \/ Client(u)
  <2>1. CASE StopCall(u)
    <3>1. UNCHANGED <<loopPc, thread>> /\ pc'[u] = "join"
      BY <1>1, <2>1 DEF StopCall, Goto
    <3> QED
      BY <3>1 DEF OneLoop, OneRunloop, Alive
  <2>2. CASE Join(u)
    <3>1. loopPc[thread] = "ended" /\ UNCHANGED <<loopPc, thread>>
      BY <2>2 DEF Join, loopVars
    <3> QED
      BY <3>1 DEF OneLoop, OneRunloop, Alive
  <2>3. CASE InitFails(u)
    BY <2>3 DEF InitFails, OneLoop, OneRunloop, Alive
  <2>4. CASE SetupOpen(u)
    <3>1. pc[u] = "open"
      BY <2>4 DEF SetupOpen
    <3>2. CASE thread_running
      <4>1. UNCHANGED <<loopPc, thread>> /\ thread_running'
        BY <2>4, <3>2 DEF SetupOpen, StartLoop
      <4> QED
        BY <4>1 DEF OneLoop, OneRunloop, Alive
    <3>3. CASE ~thread_running
      <4>1. \A k \in Loops : ~Alive(k)
        BY <3>1, <3>3 DEF OneLoop
      <4>2. ctx' /\ \E l \in Loops : loopPc' = [loopPc EXCEPT ![l] = "zero"] /\ thread' = l
        BY <2>4, <3>3 DEF SetupOpen, StartLoop
      <4>3. OneRunloop'
        BY <4>1, <4>2 DEF OneRunloop, Alive, Shape
      <4>4. thread_running' \/ pc'[u] = "undo"
        BY <1>1, <2>4, <3>3, <4>2 DEF SetupOpen, Goto
      <4> QED
        BY <4>3, <4>4 DEF OneLoop
    <3> QED
      BY <3>2, <3>3
  <2>5. CASE ~(StopCall(u) \/ Join(u) \/ InitFails(u) \/ SetupOpen(u))
    <3>1. /\ UNCHANGED <<loopPc, thread, thread_running>>
          /\ pc[u] \in {"undo", "join"} => pc'[u] = "join"
      BY <1>1, <1>3, <2>5 DEF Calls, GetCall, TaskCall, Client, Announce, Retire, SetupKeep,
         SetupStop, SetupChange, GetGone, TakeFrame, WaitFrame, TaskEnter, TaskRun, Goto, loopVars
    <3> QED
      BY <1>2, <3>1
  <2> QED
    BY <2>1, <2>2, <2>3, <2>4, <2>5
<1>4. ASSUME NEW l \in Loops, Loop(l)
      PROVE  OneLoop'
  <2>1. /\ UNCHANGED <<pc, thread, thread_running>> /\ Alive(l)
        /\ loopPc' = loopPc \/ \E q : loopPc' = [loopPc EXCEPT ![l] = q]
    BY <1>4 DEF Loop, LoopWaitZero, LoopLock, LoopUnlock, LoopFails, LoopCleanup, Leave,
       clientVars, Alive
  <2>2. \A k \in Loops : Alive(k)' => Alive(k)
    BY <2>1 DEF Alive, Shape
  <2> QED
    BY <2>1, <2>2 DEF OneLoop, OneRunloop
<1>5. ASSUME NEW s \in Streams, Events(s)
      PROVE  OneLoop'
  <2>1. UNCHANGED <<loopPc, thread, thread_running>> /\ Signal(s)
    BY <1>5 DEF Events, Deliver, loopVars
  <2>2. pc[u] \in {"undo", "join"} => pc'[u] = pc[u]
    BY <2>1 DEF Signal
  <2> QED
    BY <1>2, <2>1, <2>2
<1> QED
  BY <1>2, <1>3, <1>4, <1>5 DEF Next, vars, clientVars, loopVars

\* A single client whose events never fail holds no buffer of a ring it has replaced.
HeldAlone ==
    /\ \A s \in Streams : held[s] # 0 =>
         kinect /\ (thread_running \/ \E v \in Users : pc[v] = "join")
    /\ \A v \in Users :
         /\ pc[v] \in {"setup", "open", "ring", "change"} => held[want[v].stream] = 0
         /\ pc[v] \in {"ring", "change", "ready", "get", "wait"} => thread_running
    /\ \A l \in Loops : loopPc[l] = "cleanup" => ~thread_running

LEMMA NextHeldAlone ==
    ASSUME Constants, Shape, NEW u \in Users, Users = {u}, "events" \notin Failures,
           LockHeld, DeviceThere, LoopThere, HeldAlone, [Next]_vars
    PROVE  HeldAlone'
<1> DEFINE Setting == {"setup", "open", "ring", "change"}
           Served == {"ring", "change", "ready", "get", "wait"}
<1>1. /\ pc \in [Users -> Places] /\ u \in Users /\ want[u].stream \in Streams
      /\ want[u].op \in {"get", "task"}
  BY DEF Shape
<1>2. ASSUME UNCHANGED <<held, kinect, thread_running, want>>,
             pc[u] = "join" => pc'[u] = "join",
             pc'[u] \in Setting => pc[u] \in Setting,
             pc'[u] \in Served => pc[u] \in Served,
             \A l \in Loops : loopPc'[l] = "cleanup" => ~thread_running
      PROVE  HeldAlone'
  BY <1>2 DEF HeldAlone
<1>3. \A l \in Loops : loopPc[l] = "cleanup" => ~thread_running
  BY DEF HeldAlone
<1>4. CASE Calls(u) \/ Client(u)
  <2>1. ASSUME NEW s \in Streams, NEW f \in Formats, GetCall(u, s, f)
        PROVE  HeldAlone'
    <3>1. /\ pc[u] = "idle" /\ want'[u].stream = s /\ held' = [held EXCEPT ![s] = 0]
          /\ UNCHANGED <<kinect, thread_running, loopPc>>
          /\ pc'[u] = IF thread_running /\ kinect /\ fmt[s] = f THEN "get" ELSE "setup"
      BY <1>1, <2>1 DEF GetCall, Goto, loopVars, Shape
    <3>2. held'[s] = 0 /\ \A r \in Streams : held'[r] # 0 => held[r] # 0
      BY <3>1 DEF Shape
    <3> QED
      BY <1>1, <1>3, <3>1, <3>2 DEF HeldAlone
  <2>2. CASE TaskCall(u)
    <3>1. /\ pc[u] = "idle" /\ want'[u].stream = "depth" /\ "depth" \in Streams
          /\ UNCHANGED <<held, kinect, thread_running, loopPc>>
          /\ pc'[u] = IF thread_running /\ kinect THEN "task" ELSE "setup"
      BY <1>1, <2>2 DEF TaskCall, Goto, loopVars, outVars, Shape, Constants, StreamsAssumption
    <3>2. pc'[u] = "setup" => held["depth"] = 0
      BY <3>1 DEF HeldAlone
    <3> QED
      BY <1>3, <3>1, <3>2 DEF HeldAlone
  <2>3. CASE StopCall(u)
    <3>1. /\ UNCHANGED <<held, kinect, loopPc>> /\ pc'[u] = "join" /\ ~thread_running'
      BY <1>1, <2>3 DEF StopCall, Goto, outVars
    <3> QED
      BY <3>1 DEF HeldAlone
  <2>4. CASE Join(u)
    <3>1. /\ UNCHANGED <<held, kinect, thread_running, loopPc>> /\ pc'[u] = "idle"
          /\ ~Alive(thread)
      BY <1>1, <2>4 DEF Join, Goto, loopVars, outVars, Alive
    <3>2. ~kinect
      BY <3>1 DEF LoopThere, DeviceThere
    <3> QED
      BY <1>3, <3>1, <3>2 DEF HeldAlone
  <2>5. CASE InitFails(u)
    <3>1. /\ UNCHANGED <<held, kinect, loopPc>> /\ pc'[u] = "failed" /\ ~thread_running
          /\ pc[u] = "open" /\ runloop_lock = Free
      BY <1>1, <2>5 DEF InitFails, Goto, outVars
    <3>2. \A s \in Streams : held[s] = 0
      BY <3>1 DEF HeldAlone
    <3>3. \A l \in Loops : loopPc[l] # "cleanup"
      BY <3>1 DEF LockHeld, Constants, ThreadsAssumption
    <3> QED
      BY <3>1, <3>2, <3>3 DEF HeldAlone
  <2>6. CASE SetupOpen(u)
    <3>1. pc[u] = "open" /\ runloop_lock = Free /\ UNCHANGED <<held, want>>
      BY <2>6 DEF SetupOpen, outVars
    <3>2. \A l \in Loops : loopPc[l] # "cleanup"
      BY <3>1 DEF LockHeld, Constants, ThreadsAssumption
    <3>3. \A l \in Loops : loopPc'[l] # "cleanup"
      BY <2>6, <3>2 DEF SetupOpen, StartLoop, Shape
    <3>4. held[want[u].stream] = 0 /\ \A s \in Streams : held[s] # 0 => kinect /\ thread_running
      BY <3>1 DEF HeldAlone
    <3>5. CASE kinect' /\ thread_running' /\ Goto(u, "ring")
      <4>1. pc'[u] = "ring"
        BY <1>1, <3>5 DEF Goto
      <4> QED
        BY <3>1, <3>3, <3>4, <3>5, <4>1 DEF HeldAlone
    <3>6. CASE ~kinect /\ thread_running' = thread_running /\ (Goto(u, "failed") \/ Goto(u, "undo"))
      <4>1. pc'[u] \in {"failed", "undo"}
        BY <1>1, <3>6 DEF Goto
      <4> QED
        BY <3>1, <3>3, <3>4, <3>6, <4>1 DEF HeldAlone
    <3>7. CASE UNCHANGED <<pc, thread_running, kinect>>
      BY <3>1, <3>3, <3>4, <3>7 DEF HeldAlone
    <3> QED
      BY <2>6, <3>5, <3>6, <3>7 DEF SetupOpen
  <2>7. CASE TakeFrame(u)
    <3>1. /\ UNCHANGED <<kinect, thread_running, loopPc>> /\ pc'[u] = "idle" /\ pc[u] = "get"
          /\ kinect
      BY <1>1, <2>7 DEF TakeFrame, Goto, loopVars
    <3>2. thread_running
      BY <3>1 DEF HeldAlone
    <3> QED
      BY <1>3, <3>1, <3>2 DEF HeldAlone
  <2>8. CASE \/ Announce(u) \/ Retire(u) \/ SetupKeep(u) \/ SetupStop(u) \/ SetupChange(u)
             \/ GetGone(u) \/ WaitFrame(u) \/ TaskEnter(u) \/ TaskRun(u)
    <3>1. UNCHANGED <<held, kinect, thread_running, want, loopPc>>
      BY <2>8 DEF Announce, Retire, SetupKeep, SetupStop, SetupChange, GetGone, WaitFrame,
         TaskEnter, TaskRun, clientVars, loopVars, outVars
    <3>2. /\ pc[u] = "join" => pc'[u] = "join"
          /\ pc'[u] \in Setting => pc[u] \in Setting
          /\ pc'[u] \in Served => pc[u] \in Served
      BY <1>1, <2>8 DEF Announce, Retire, SetupKeep, SetupStop, SetupChange, GetGone, WaitFrame,
         TaskEnter, TaskRun, clientVars, Goto
    <3> QED
      BY <1>2, <1>3, <3>1, <3>2
  <2> QED
    BY <1>4, <2>1, <2>2, <2>3, <2>4, <2>5, <2>6, <2>7, <2>8 DEF Calls, Client
<1>5. ASSUME NEW l \in Loops, Loop(l)
      PROVE  HeldAlone'
  <2>1. UNCHANGED <<pc, want, thread_running>>
    BY <1>5 DEF Loop, LoopWaitZero, LoopLock, LoopUnlock, LoopFails, LoopCleanup, clientVars
  <2>2. CASE LoopCleanup(l)
    <3>1. ~thread_running
      BY <1>3, <2>2 DEF LoopCleanup
    <3>2. \A s \in Streams : held'[s] = 0
      BY <2>2, <3>1 DEF LoopCleanup
    <3> QED
      BY <1>1, <2>1, <3>1, <3>2 DEF HeldAlone
  <2>3. CASE ~LoopCleanup(l)
    <3>1. UNCHANGED <<held, kinect>>
      BY <1>5, <2>3 DEF Loop, LoopWaitZero, LoopLock, LoopUnlock, LoopFails, outVars
    <3>2. /\ \/ loopPc' = loopPc
             \/ \E q \in {"lock", "events", "zero"} : loopPc' = [loopPc EXCEPT ![l] = q]
             \/ ~thread_running
      BY <1>5, <2>3 DEF Loop, LoopWaitZero, LoopLock, LoopUnlock, LoopFails, Leave
    <3>3. \A k \in Loops : loopPc'[k] = "cleanup" => ~thread_running
      BY <1>3, <3>2 DEF Shape
    <3> QED
      BY <1>2, <2>1, <3>1, <3>3
  <2> QED
    BY <2>2, <2>3
<1>6. ASSUME NEW s \in Streams, Events(s)
      PROVE  HeldAlone'
  <2>1. UNCHANGED <<held, kinect, thread_running, want, loopPc>> /\ Signal(s)
    BY <1>6 DEF Events, Deliver, loopVars, outVars
  <2>2. pc'[u] = pc[u] \/ (pc[u] = "wait" /\ pc'[u] = "get")
    BY <1>1, <2>1 DEF Signal, Goto
  <2> QED
    BY <1>2, <1>3, <2>1, <2>2
<1>7. CASE UNCHANGED vars
  BY <1>2, <1>3, <1>7 DEF vars, clientVars, loopVars, outVars
<1> QED
  BY <1>4, <1>5, <1>6, <1>7 DEF Next

\* Clients that ask for one format and never stop the wrapper hold buffers of a ring that
\* is gone only when no call gets through any more.
HeldShared ==
    /\ \A s \in Streams : held[s] # 0 /\ bufs[s] = NoBufs => thread_running /\ ~ctx /\ ~kinect
    /\ \A v \in Users : pc[v] = "change" => fmt[want[v].stream] = "none"

LEMMA NextHeldShared ==
    ASSUME Constants, Shape, Rings, NEW f, Formats = {f}, ~MayStop,
           LockHeld, DeviceThere, EmptyRings, HeldShared, [Next]_vars
    PROVE  HeldShared'
<1>1. /\ pc \in [Users -> Places] /\ \A v \in Users : want[v].stream \in Streams
      /\ \A v \in Users : want[v].format = f
      /\ \A v \in Users : want[v].op \in {"get", "task"}
      /\ \A s \in Streams : fmt[s] \in {f, "none"}
      /\ f \in RingFormats
  BY DEF Shape, Constants, FormatsAssumption
<1>2. ASSUME UNCHANGED <<held, bufs, thread_running, ctx, kinect, fmt, want>>,
             \A v \in Users : pc'[v] = "change" => pc[v] = "change"
      PROVE  HeldShared'
  BY <1>2 DEF HeldShared
<1>3. ASSUME NEW u \in Users, Calls(u) \/ Client(u)
      PROVE  HeldShared'
  <2>1. ASSUME NEW s \in Streams, GetCall(u, s, f)
        PROVE  HeldShared'
    <3>1. /\ \A r \in Streams : held'[r] # 0 => held[r] # 0
          /\ UNCHANGED <<bufs, thread_running, ctx, kinect, fmt>>
      BY <2>1 DEF GetCall, loopVars, ringVars, Shape
    <3>2. \A v \in Users : pc'[v] = "change" => pc[v] = "change" /\ want'[v] = want[v]
      BY <1>1, <2>1 DEF GetCall, Goto, Shape
    <3> QED
      BY <3>1, <3>2 DEF HeldShared
  <2>2. CASE TaskCall(u)
    <3>1. UNCHANGED <<held, bufs, thread_running, ctx, kinect, fmt>>
      BY <2>2 DEF TaskCall, loopVars, ringVars, outVars
    <3>2. \A v \in Users : pc'[v] = "change" => pc[v] = "change" /\ want'[v] = want[v]
      BY <1>1, <2>2 DEF TaskCall, Goto, Shape
    <3> QED
      BY <3>1, <3>2 DEF HeldShared
  <2>3. CASE InitFails(u)
    <3>1. UNCHANGED <<held, bufs, kinect, fmt, want>> /\ ~thread_running
      BY <2>3 DEF InitFails, ringVars, outVars
    <3>2. \A v \in Users : pc'[v] = "change" => pc[v] = "change"
      BY <1>1, <2>3 DEF InitFails, Goto
    <3> QED
      BY <3>1, <3>2 DEF HeldShared
  <2>4. CASE SetupOpen(u)
    <3>1. /\ UNCHANGED <<held, bufs, want>> /\ (fmt' = fmt \/ fmt' = [s \in Streams |-> "none"])
      BY <2>4 DEF SetupOpen, outVars
    <3>2. \A v \in Users : pc'[v] = "change" => pc[v] = "change"
      BY <1>1, <2>4 DEF SetupOpen, Goto
    <3>3. thread_running /\ ~ctx /\ ~kinect => thread_running' /\ ~ctx' /\ ~kinect'
      BY <2>4 DEF SetupOpen, StartLoop
    <3> QED
      BY <1>1, <3>1, <3>2, <3>3 DEF HeldShared
  <2>5. CASE SetupStop(u)
    <3> DEFINE s == want[u].stream
    <3>1. /\ UNCHANGED <<held, bufs, thread_running, ctx, kinect, fmt, want>>
          /\ fmt[s] # f /\ pc' = [pc EXCEPT ![u] = "change"]
      BY <1>1, <2>5 DEF SetupStop, Goto, loopVars, ringVars, outVars
    <3>2. fmt[s] = "none"
      BY <1>1, <3>1
    <3> QED
      BY <1>1, <3>1, <3>2 DEF HeldShared
  <2>6. CASE SetupChange(u)
    <3> DEFINE s == want[u].stream
    <3>1. /\ UNCHANGED <<held, thread_running, ctx, kinect, want>>
          /\ bufs' = [bufs EXCEPT ![s] = NewBufs]
          /\ pc[u] = "change" /\ pc' = [pc EXCEPT ![u] = "ready"]
      BY <1>1, <2>6 DEF SetupChange, Goto, loopVars, outVars
    <3>2. \A v \in Users : pc'[v] # "change"
      BY <1>1, <3>1 DEF LockHeld
    <3>3. NewBufs # NoBufs
      <4>1. NewBufs[0] = 1 /\ NoBufs[0] = 0
        BY DEF NewBufs, NoBufs
      <4> QED
        BY <4>1
    <3>4. s \in Streams /\ bufs \in [Streams -> [0..2 -> 0..3]]
      BY <1>1 DEF Shape
    <3>5. \A r \in Streams : bufs'[r] = NoBufs => bufs[r] = NoBufs
      BY <3>1, <3>3, <3>4
    <3> QED
      BY <3>1, <3>2, <3>5 DEF HeldShared
  <2>7. CASE TakeFrame(u)
    <3> DEFINE s == want[u].stream
    <3>1. /\ UNCHANGED <<thread_running, ctx, kinect, fmt, want>> /\ valid[s]
          /\ bufs' = [bufs EXCEPT ![s][0] = bufs[s][1], ![s][1] = bufs[s][0]]
          /\ held' = [held EXCEPT ![s] = bufs[s][1]]
      BY <2>7 DEF TakeFrame, loopVars
    <3>2. \A v \in Users : pc'[v] = "change" => pc[v] = "change"
      BY <1>1, <2>7 DEF TakeFrame, Goto
    <3>3. s \in Streams /\ bufs[s][1] # 0
      BY <1>1, <3>1 DEF Rings, Fresh
    <3> HIDE DEF s
    <3>4. bufs'[s][0] # 0 /\ \A r \in Streams : r # s => bufs'[r] = bufs[r] /\ held'[r] = held[r]
      BY <3>1, <3>3 DEF Shape
    <3>5. bufs'[s] # NoBufs
      BY <3>4 DEF NoBufs
    <3> QED
      BY <3>1, <3>2, <3>4, <3>5 DEF HeldShared
  <2>8. CASE \/ Join(u) \/ Announce(u) \/ Retire(u) \/ SetupKeep(u) \/ GetGone(u) \/ WaitFrame(u)
             \/ TaskEnter(u) \/ TaskRun(u)
    <3>1. UNCHANGED <<held, bufs, thread_running, ctx, kinect, fmt, want>>
      BY <2>8 DEF Join, Announce, Retire, SetupKeep, GetGone, WaitFrame, TaskEnter, TaskRun,
         clientVars, loopVars, ringVars, outVars
    <3>2. pc' = pc \/ \E q \in Places \ {"change"} : pc' = [pc EXCEPT ![u] = q]
      BY <1>1, <2>8 DEF Join, Announce, Retire, SetupKeep, GetGone, WaitFrame, TaskEnter, TaskRun,
         clientVars, Goto, Places
    <3>3. \A v \in Users : pc'[v] = "change" => pc[v] = "change"
      BY <1>1, <3>2
    <3> QED
      BY <1>2, <3>1, <3>3
  <2> QED
    BY <1>3, <2>1, <2>2, <2>3, <2>4, <2>5, <2>6, <2>7, <2>8 DEF Calls, StopCall, Client
<1>4. ASSUME NEW l \in Loops, Loop(l)
      PROVE  HeldShared'
  <2>1. UNCHANGED <<pc, want, thread_running>>
    BY <1>4 DEF Loop, LoopWaitZero, LoopLock, LoopUnlock, LoopFails, LoopCleanup, clientVars
  <2>2. CASE LoopCleanup(l)
    <3>1. /\ ~ctx' /\ ~kinect' /\ fmt' = [s \in Streams |-> "none"]
          /\ held' = IF thread_running THEN held ELSE [s \in Streams |-> 0]
      BY <2>2 DEF LoopCleanup
    <3> QED
      BY <1>1, <2>1, <3>1 DEF HeldShared
  <2>3. CASE ~LoopCleanup(l)
    <3>1. UNCHANGED <<held, bufs, ctx, kinect, fmt>>
      BY <1>4, <2>3 DEF Loop, LoopWaitZero, LoopLock, LoopUnlock, LoopFails, ringVars, outVars
    <3> QED
      BY <1>2, <2>1, <3>1
  <2> QED
    BY <2>2, <2>3
<1>5. ASSUME NEW s \in Streams, Events(s)
      PROVE  HeldShared'
  <2>1. /\ UNCHANGED <<held, thread_running, ctx, kinect, fmt, want>> /\ Signal(s) /\ running[s]
        /\ bufs' = [bufs EXCEPT ![s][1] = bufs[s][2], ![s][2] = bufs[s][1]]
    BY <1>5 DEF Events, Deliver, loopVars, outVars
  <2>2. \A v \in Users : pc'[v] = "change" => pc[v] = "change"
    BY <1>1, <2>1 DEF Signal, Goto
  <2>3. bufs[s][1] # 0 /\ bufs[s][2] # 0
    BY <2>1 DEF Rings, Full
  <2>4. bufs'[s][1] # 0 /\ \A r \in Streams : r # s => bufs'[r] = bufs[r]
    BY <2>1, <2>3 DEF Shape
  <2>5. bufs'[s] # NoBufs
    BY <2>4 DEF NoBufs
  <2> QED
    BY <2>1, <2>2, <2>4, <2>5 DEF HeldShared
<1>6. CASE UNCHANGED vars
  BY <1>2, <1>6 DEF vars, clientVars, loopVars, ringVars, outVars
<1> QED
  BY <1>3, <1>4, <1>5, <1>6 DEF Next

\* Where a ring is replaced, no buffer of it is held.
LEMMA NextBufferValid ==
    ASSUME Constants, Shape, Rings, BufferValid, [Next]_vars,
           \A v \in Users : SetupChange(v) => held[want[v].stream] = 0
    PROVE  BufferValid'
<1>1. \A v \in Users : want[v].stream \in Streams
  BY DEF Shape
<1>2. CASE UNCHANGED <<held, bufs>>
  BY <1>2 DEF BufferValid
<1>3. ASSUME NEW u \in Users, Calls(u) \/ Client(u)
      PROVE  BufferValid'
  <2>1. ASSUME NEW s \in Streams, NEW f \in Formats, GetCall(u, s, f)
        PROVE  BufferValid'
    <3>1. bufs' = bufs /\ held' = [held EXCEPT ![s] = 0]
      BY <2>1 DEF GetCall, ringVars
    <3> QED
      BY <3>1 DEF Shape, BufferValid
  <2>2. CASE SetupChange(u)
    <3> DEFINE s == want[u].stream
    <3>1. held' = held /\ held[s] = 0 /\ s \in Streams
      BY <1>1, <2>2 DEF SetupChange, outVars
    <3>2. \A r \in Streams : r # s => bufs'[r] = bufs[r]
      BY <2>2 DEF SetupChange, Shape
    <3> HIDE DEF s
    <3> QED
      BY <3>1, <3>2 DEF BufferValid
  <2>3. CASE TakeFrame(u)
    <3> DEFINE s == want[u].stream
    <3>1. /\ bufs' = [bufs EXCEPT ![s][0] = bufs[s][1], ![s][1] = bufs[s][0]]
          /\ held' = [held EXCEPT ![s] = bufs[s][1]]
      BY <2>3 DEF TakeFrame
    <3>2. s \in Streams
      BY <1>1
    <3> HIDE DEF s
    <3>3. /\ bufs'[s][0] = bufs[s][1] /\ held'[s] = bufs[s][1]
          /\ \A r \in Streams : r # s => bufs'[r] = bufs[r] /\ held'[r] = held[r]
      BY <3>1, <3>2 DEF Shape
    <3> QED
      BY <3>3 DEF BufferValid
  <2>4. CASE ~(SetupChange(u) \/ TakeFrame(u) \/ \E s \in Streams, f \in Formats : GetCall(u, s, f))
    <3>1. UNCHANGED <<held, bufs>>
      BY <1>3, <2>4 DEF Calls, TaskCall, StopCall, Client, Join, Announce, Retire, InitFails,
         SetupOpen, SetupKeep, SetupStop, GetGone, WaitFrame, TaskEnter, TaskRun, ringVars, outVars
    <3> QED
      BY <1>2, <3>1
  <2> QED
    BY <2>1, <2>2, <2>3, <2>4
<1>4. ASSUME NEW l \in Loops, Loop(l)
      PROVE  BufferValid'
  BY <1>2, <1>4 DEF Loop, LoopWaitZero, LoopLock, LoopUnlock, LoopFails, LoopCleanup, ringVars,
     outVars, BufferValid
<1>5. ASSUME NEW s \in Streams, Events(s)
      PROVE  BufferValid'
  <2>1. /\ held' = held /\ running[s]
        /\ bufs' = [bufs EXCEPT ![s][1] = bufs[s][2], ![s][2] = bufs[s][1]]
    BY <1>5 DEF Events, Deliver, outVars
  <2>2. bufs[s][1] # 0
    BY <2>1 DEF Rings, Full
  <2>3. bufs[s] # NoBufs
    BY <2>2 DEF NoBufs
  <2>4. bufs'[s][0] = bufs[s][0] /\ \A r \in Streams : r # s => bufs'[r] = bufs[r]
    BY <2>1 DEF Shape
  <2> QED
    BY <2>1, <2>3, <2>4 DEF BufferValid
<1> QED
  BY <1>2, <1>3, <1>4, <1>5 DEF Next, vars, ringVars, outVars

-----------------------------------------------------------------------------
\* Once a client is set up its ring has the format it wants, or is gone.
FormatKnown ==
    \A v \in Users : pc[v] \in {"ready", "get", "wait"}
                       => fmt[want[v].stream] \in {want[v].format, "none"}

LEMMA NextFormatKnown ==
    ASSUME Constants, Shape, NEW u \in Users, Users = {u}, FormatKnown, [Next]_vars
    PROVE  FormatKnown'
<1> DEFINE There == {"ready", "get", "wait"}
<1>1. pc \in [Users -> Places] /\ want[u].stream \in Streams /\ want[u].op \in {"get", "task"}
  BY DEF Shape
<1>2. ASSUME \/ fmt' = fmt
             \/ fmt' = [s \in Streams |-> "none"],
             want' = want,
             pc'[u] \in There => pc[u] \in There
      PROVE  FormatKnown'
  BY <1>1, <1>2 DEF FormatKnown
<1>3. ASSUME pc'[u] \notin There
      PROVE  FormatKnown'
  BY <1>3 DEF FormatKnown
<1>4. CASE Calls(u) \/ Client(u)
  <2>1. ASSUME NEW s \in Streams, NEW f \in Formats, GetCall(u, s, f)
        PROVE  FormatKnown'
    <3>1. /\ want'[u].stream = s /\ want'[u].format = f /\ fmt' = fmt
          /\ pc'[u] \in There => fmt[s] = f
      BY <1>1, <2>1 DEF GetCall, Goto, ringVars, Shape
    <3> QED
      BY <3>1 DEF FormatKnown
  <2>2. CASE SetupKeep(u)
    BY <2>2 DEF SetupKeep, ringVars, FormatKnown
  <2>3. CASE SetupChange(u)
    <3> DEFINE s == want[u].stream
               f == want[u].format
    <3>1. fmt' = [fmt EXCEPT ![s] = IF f \in RingFormats THEN f ELSE "none"] /\ want' = want
      BY <2>3 DEF SetupChange
    <3>2. fmt'[s] \in {f, "none"}
      BY <1>1, <3>1 DEF Shape
    <3> QED
      BY <3>1, <3>2 DEF FormatKnown
  <2>4. CASE \/ TaskCall(u) \/ StopCall(u) \/ Join(u) \/ Announce(u) \/ InitFails(u)
             \/ SetupStop(u) \/ TakeFrame(u) \/ TaskEnter(u)
    <3>1. pc'[u] \notin There
      BY <1>1, <2>4 DEF TaskCall, StopCall, Join, Announce, InitFails, SetupStop, TakeFrame,
         TaskEnter, Goto
    <3> QED
      BY <1>3, <3>1
  <2>5. CASE Retire(u)
    <3>1. UNCHANGED <<fmt, want>>
      BY <2>5 DEF Retire, ringVars
    <3>2. pc'[u] \in There => pc[u] \in There
      BY <1>1, <2>5 DEF Retire, Goto
    <3> QED
      BY <1>2, <3>1, <3>2
  <2>6. CASE SetupOpen(u)
    <3>1. want' = want /\ (fmt' = fmt \/ fmt' = [s \in Streams |-> "none"])
      BY <2>6 DEF SetupOpen
    <3>2. pc'[u] \notin There
      BY <1>1, <2>6 DEF SetupOpen, Goto
    <3> QED
      BY <1>3, <3>2
  <2>7. CASE GetGone(u) \/ WaitFrame(u) \/ TaskRun(u)
    <3>1. UNCHANGED <<fmt, want>>
      BY <2>7 DEF GetGone, WaitFrame, TaskRun, clientVars, ringVars
    <3>2. pc'[u] \in There => pc[u] \in There
      BY <1>1, <2>7 DEF GetGone, WaitFrame, TaskRun, clientVars, Goto
    <3> QED
      BY <1>2, <3>1, <3>2
  <2> QED
    BY <1>4, <2>1, <2>2, <2>3, <2>4, <2>5, <2>6, <2>7 DEF Calls, Client
<1>5. ASSUME NEW l \in Loops, Loop(l)
      PROVE  FormatKnown'
  BY <1>2, <1>5 DEF Loop, LoopWaitZero, LoopLock, LoopUnlock, LoopFails, LoopCleanup, clientVars,
     ringVars
<1>6. ASSUME NEW s \in Streams, Events(s)
      PROVE  FormatKnown'
  <2>1. UNCHANGED <<fmt, want>> /\ Signal(s)
    BY <1>6 DEF Events, Deliver
  <2>2. pc'[u] \in There => pc[u] \in There
    BY <1>1, <2>1 DEF Signal, Goto
  <2> QED
    BY <1>2, <2>1, <2>2
<1>7. CASE UNCHANGED vars
  BY <1>2, <1>7 DEF vars, clientVars, ringVars
<1> QED
  BY <1>4, <1>5, <1>6, <1>7 DEF Next

-----------------------------------------------------------------------------
\* The buffers of every ring stay apart, and every running camera has one of
\* its own, whatever clients ask for and whatever fails.
THEOREM SyncRingsSound == Constants => (Spec => []RingsSound)
<1> SUFFICES ASSUME Constants
             PROVE  Spec => []RingsSound
  OBVIOUS
<1>1. Init => Shape /\ Rings
  BY InitShape DEF Init, Rings, RingsSound, Full, Fresh, DataMatchesTimestamp
<1>2. Shape /\ Rings /\ [Next]_vars => Shape' /\ Rings'
  BY NextShape, NextRings DEF Rings
<1>3. Rings => RingsSound
  BY DEF Rings
<1> QED
  BY <1>1, <1>2, <1>3, PTL DEF Spec

\* What sync_get hands out belongs together: no client is given a frame with the
\* timestamp of another.
THEOREM SyncDataMatchesTimestamp == Constants => (Spec => []DataMatchesTimestamp)
<1> SUFFICES ASSUME Constants
             PROVE  Spec => []DataMatchesTimestamp
  OBVIOUS
<1>1. Init => Shape /\ Rings
  BY InitShape DEF Init, Rings, RingsSound, Full, Fresh, DataMatchesTimestamp
<1>2. Shape /\ Rings /\ [Next]_vars => Shape' /\ Rings'
  BY NextShape, NextRings DEF Rings
<1>3. Rings => DataMatchesTimestamp
  BY DEF Rings
<1> QED
  BY <1>1, <1>2, <1>3, PTL DEF Spec

\* The runloop thread neither waits for a client that is gone nor overtakes one
\* that is in: pending_runloop_tasks is the number of clients that are in.
THEOREM SyncTasksCounted == Constants => (Spec => []TasksCounted)
<1> SUFFICES ASSUME Constants
             PROVE  Spec => []TasksCounted
  OBVIOUS
<1>1. Init => Shape /\ Rings /\ TasksCounted
  BY InitShape, InitTasks DEF Init, Rings, RingsSound, Full, Fresh, DataMatchesTimestamp
<1>2. Shape /\ Rings /\ TasksCounted /\ [Next]_vars => Shape' /\ Rings' /\ TasksCounted'
  BY NextShape, NextRings, NextTasks DEF Rings
<1> QED
  BY <1>1, <1>2, PTL DEF Spec

\* Every variable keeps to its values; there are never more tasks than clients.
THEOREM SyncTypeOK == Constants => (Spec => []TypeOK)
<1> SUFFICES ASSUME Constants
             PROVE  Spec => []TypeOK
  OBVIOUS
<1>1. Init => Shape /\ Rings /\ TasksCounted
  BY InitShape, InitTasks DEF Init, Rings, RingsSound, Full, Fresh, DataMatchesTimestamp
<1>2. Shape /\ Rings /\ TasksCounted /\ [Next]_vars => Shape' /\ Rings' /\ TasksCounted'
  BY NextShape, NextRings, NextTasks DEF Rings
<1>3. ASSUME Shape, TasksCounted
      PROVE  TypeOK
  <2>1. IsFiniteSet(Users) /\ Counted(pc) \in SUBSET Users
    BY DEF Constants, UsersAssumption, Counted
  <2>2. /\ Cardinality(Counted(pc)) \in Nat /\ Cardinality(Users) \in Nat
        /\ Cardinality(Counted(pc)) <= Cardinality(Users)
    BY <2>1, FS_Subset, FS_CardinalityType
  <2>3. pending_runloop_tasks = Cardinality(Counted(pc))
    BY <1>3 DEF TasksCounted, Counted, In
  <2>4. pending_runloop_tasks \in 0..Cardinality(Users)
    BY <2>2, <2>3
  <2> QED
    BY <1>3, <2>4 DEF Shape, TypeOK, Frames
<1> QED
  BY <1>1, <1>2, <1>3, PTL DEF Spec

\* No camera runs for a closed device, in a context shut down, or while its ring is
\* being replaced, unless freenect_sync_stop is used and a later freenect_init fails.
THEOREM SyncStreamsInContext == Constants /\ Careful => (Spec => []StreamsInContext)
<1> SUFFICES ASSUME Constants, Careful
             PROVE  Spec => []StreamsInContext
  OBVIOUS
<1>1. Init => Shape /\ Rings /\ LockHeld /\ Context
  <2> SUFFICES ASSUME Init
               PROVE  Shape /\ Rings /\ LockHeld /\ Context
    OBVIOUS
  <2>1. Shape
    BY InitShape
  <2>2. Rings
    BY DEF Init, Rings, RingsSound, Full, Fresh, DataMatchesTimestamp
  <2>3. LockHeld
    BY DEF Init, LockHeld
  <2>4. Context
    BY DEF Init, Context, StreamsInContext, DeviceThere
  <2> QED
    BY <2>1, <2>2, <2>3, <2>4
<1>2. Shape /\ Rings /\ LockHeld /\ Context /\ [Next]_vars
        => Shape' /\ Rings' /\ LockHeld' /\ Context'
  BY NextShape, NextRings, NextLocks, NextContext DEF Rings
<1>3. Context => StreamsInContext
  BY DEF Context
<1> QED
  BY <1>1, <1>2, <1>3, PTL DEF Spec

-----------------------------------------------------------------------------
\* One client whose events never fail, or clients that share one format and never stop
\* the wrapper: more of them replace each other's rings, as libfreenect_sync.h warns.
OneUser == \E u \in Users : Users = {u}
OneFormat == (\E f : Formats = {f}) /\ ~MayStop
Alone == OneUser /\ "events" \notin Failures

\* Everything the theorems about rings rest on
Held ==
    /\ Alone => HeldAlone
    /\ OneFormat => HeldShared
    /\ OneUser => FormatKnown

Sound ==
    /\ Shape /\ Rings /\ LockHeld /\ Context
    /\ EmptyRings /\ LoopThere /\ Held

LEMMA InitSound == Constants /\ Init => Sound
<1> SUFFICES ASSUME Constants, Init
             PROVE  Sound
  OBVIOUS
<1>1. Shape
  BY InitShape
<1>2. Rings
  BY DEF Init, Rings, RingsSound, Full, Fresh, DataMatchesTimestamp
<1>3. LockHeld /\ Context /\ EmptyRings /\ LoopThere
  BY DEF Init, LockHeld, Context, StreamsInContext, DeviceThere, EmptyRings, LoopThere
<1>4. Held
  BY DEF Init, Held, HeldAlone, HeldShared, FormatKnown
<1> QED
  BY <1>1, <1>2, <1>3, <1>4 DEF Sound

LEMMA NextSound == Constants /\ Careful /\ Sound /\ [Next]_vars => Sound'
<1> SUFFICES ASSUME Constants, Careful, Sound, [Next]_vars
             PROVE  Sound'
  OBVIOUS
<1>1. Shape' /\ Rings' /\ LockHeld' /\ Context'
  BY NextShape, NextRings, NextLocks, NextContext DEF Sound, Rings
<1>2. EmptyRings' /\ LoopThere'
  BY NextEmptyRings, NextLoopThere DEF Sound, Context
<1>3. ASSUME Alone
      PROVE  HeldAlone'
  BY <1>3, NextHeldAlone DEF Alone, OneUser, Sound, Held, Context
<1>4. ASSUME OneFormat
      PROVE  HeldShared'
  BY <1>4, NextHeldShared DEF OneFormat, Sound, Held, Context
<1>5. ASSUME OneUser
      PROVE  FormatKnown'
  BY <1>5, NextFormatKnown DEF OneUser, Sound, Held
<1> QED
  BY <1>1, <1>2, <1>3, <1>4, <1>5 DEF Sound, Held

\* A buffer handed out is kept from the camera until the function is called again.
THEOREM SyncBufferValid ==
    Constants /\ Careful /\ (Alone \/ OneFormat) => (Spec => []BufferValid)
<1> SUFFICES ASSUME Constants, Careful, Alone \/ OneFormat
             PROVE  Spec => []BufferValid
  OBVIOUS
<1>1. Init => Sound /\ BufferValid
  BY InitSound DEF Init, BufferValid
<1>2. Sound /\ BufferValid /\ [Next]_vars => Sound' /\ BufferValid'
  <2> SUFFICES ASSUME Sound, BufferValid, [Next]_vars
               PROVE  BufferValid'
    BY NextSound
  <2>1. ASSUME NEW v \in Users, SetupChange(v)
        PROVE  held[want[v].stream] = 0
    <3>1. pc[v] = "change" /\ want[v].stream \in Streams
      BY <2>1 DEF SetupChange, Sound, Shape
    <3>2. CASE Alone
      BY <3>1, <3>2 DEF Sound, Held, HeldAlone
    <3>3. CASE OneFormat
      <4>1. fmt[want[v].stream] = "none" /\ kinect
        BY <3>1, <3>3 DEF Sound, Held, HeldShared, Context, DeviceThere
      <4>2. bufs[want[v].stream] = NoBufs
        BY <3>1, <4>1 DEF Sound, EmptyRings
      <4> QED
        BY <3>1, <3>3, <4>1, <4>2 DEF Sound, Held, HeldShared
    <3> QED
      BY <3>2, <3>3
  <2> QED
    BY <2>1, NextBufferValid DEF Sound
<1> QED
  BY <1>1, <1>2, PTL DEF Spec

\* A single client never runs two runloop threads, and joins the one it started.
THEOREM SyncOneRunloop == Constants /\ OneUser => (Spec => []OneRunloop)
<1> SUFFICES ASSUME Constants, NEW u \in Users, Users = {u}
             PROVE  Spec => []OneRunloop
  BY DEF OneUser
<1>1. Init => Shape /\ Rings /\ OneLoop
  <2> SUFFICES ASSUME Init
               PROVE  Shape /\ Rings /\ OneLoop
    OBVIOUS
  <2>1. Rings
    BY DEF Init, Rings, RingsSound, Full, Fresh, DataMatchesTimestamp
  <2> QED
    BY <2>1, InitShape DEF Init, OneLoop, OneRunloop, Alive
<1>2. Shape /\ Rings /\ OneLoop /\ [Next]_vars => Shape' /\ Rings' /\ OneLoop'
  BY NextShape, NextRings, NextOneLoop DEF Rings
<1>3. OneLoop => OneRunloop
  BY DEF OneLoop
<1> QED
  BY <1>1, <1>2, <1>3, PTL DEF Spec

\* A client gets a frame in the format it asked for, though its ring may have been freed
\* while it waited.
THEOREM SyncFormatRequested ==
    Constants /\ Careful /\ (OneUser \/ OneFormat) => (Spec => FormatRequested)
<1> SUFFICES ASSUME Constants, Careful, OneUser \/ OneFormat
             PROVE  Spec => FormatRequested
  OBVIOUS
<1>1. Init => Sound
  BY InitSound
<1>2. Sound /\ [Next]_vars => Sound'
  BY NextSound
<1>3. Sound /\ [Next]_vars
        => [\A u \in Users : pc[u] = "get" /\ pc'[u] = "idle"
              => fmt[want[u].stream] = want[u].format]_vars
  <2> SUFFICES ASSUME Sound, Next, NEW v \in Users, pc[v] = "get", pc'[v] = "idle"
               PROVE  fmt[want[v].stream] = want[v].format
    OBVIOUS
  <2>1. pc \in [Users -> Places] /\ want[v].stream \in Streams
    BY DEF Sound, Shape
  <2>2. ASSUME NEW u \in Users, Calls(u) \/ Client(u)
        PROVE  TakeFrame(v)
    <3>1. u = v
      BY <2>1, <2>2 DEF Calls, GetCall, TaskCall, StopCall, Client, Join, Announce, Retire,
         InitFails, SetupOpen, SetupKeep, SetupStop, SetupChange, GetGone, TakeFrame, WaitFrame,
         TaskEnter, TaskRun, clientVars, Goto
    <3> QED
      BY <2>1, <2>2, <3>1 DEF Calls, GetCall, TaskCall, StopCall, Client, Join, Announce, Retire,
         InitFails, SetupOpen, SetupKeep, SetupStop, SetupChange, GetGone, WaitFrame,
         TaskEnter, TaskRun, clientVars, Goto
  <2>3. ASSUME NEW l \in Loops, Loop(l)
        PROVE  FALSE
    BY <2>3 DEF Loop, LoopWaitZero, LoopLock, LoopUnlock, LoopFails, LoopCleanup, clientVars
  <2>4. ASSUME NEW s \in Streams, Events(s)
        PROVE  FALSE
    <3>1. Signal(s)
      BY <2>4 DEF Events, Deliver
    <3> QED
      BY <2>1, <3>1 DEF Signal, Goto
  <2>5. TakeFrame(v)
    BY <2>2, <2>3, <2>4 DEF Next
  <2>6. bufs[want[v].stream][1] # 0
    BY <2>1, <2>5 DEF TakeFrame, Sound, Rings, Fresh
  <2>7. bufs[want[v].stream] # NoBufs
    BY <2>6 DEF NoBufs
  <2>8. fmt[want[v].stream] # "none"
    BY <2>1, <2>7 DEF Sound, EmptyRings
  <2>9. CASE OneUser
    BY <2>8, <2>9 DEF Sound, Held, FormatKnown
  <2>10. CASE OneFormat
    BY <2>1, <2>8, <2>10 DEF OneFormat, Sound, Shape
  <2> QED
    BY <2>9, <2>10
<1> QED
  BY <1>1, <1>2, <1>3, PTL DEF Spec, FormatRequested
=============================================================================
