--------------------------- MODULE SyncClients_proofs ---------------------------
(***************************************************************************)
(* What SyncWrapper_proofs proves, of the clients of MCSyncWrapper, and the*)
(* proofs about the viewer, for any number of frames.  A behaviour stays in*)
(* its part, where each of its steps is a step of that part's program.     *)
(***************************************************************************)
EXTENDS MCSyncWrapper, TLAPS

P1 == INSTANCE SyncWrapper_proofs
        WITH Users <- {u1}, Streams <- {"video", "depth"}, Formats <- {"a", "b"},
             RingFormats <- {"a", "b"}, StartFormats <- {"a", "b"}, DefaultFormat <- "a",
             Failures <- {"open"}, MayStop <- TRUE, MayTask <- TRUE,
             MaxLoops <- 2, FrameMod <- 1

P2 == INSTANCE SyncWrapper_proofs
        WITH Users <- {u1, u2}, Streams <- {"depth"}, Formats <- {"a"},
             RingFormats <- {"a"}, StartFormats <- {"a"}, DefaultFormat <- "a",
             Failures <- {"init", "open", "events"}, MayStop <- FALSE, MayTask <- TRUE,
             MaxLoops <- 2, FrameMod <- 2

-----------------------------------------------------------------------------
LEMMA OneConstants == P1!Constants /\ P1!Careful /\ P1!OneUser /\ P1!Alone
<1>1. P1!Constants
  BY OneAssumption DEF P1!Constants, P1!IsFiniteSet, one!IsFiniteSet,
       P1!UsersAssumption, one!UsersAssumption, P1!StreamsAssumption,
       one!StreamsAssumption, P1!FormatsAssumption, one!FormatsAssumption,
       P1!ScopeAssumption, one!ScopeAssumption, P1!ThreadsAssumption,
       one!ThreadsAssumption, P1!Loops, one!Loops
<1>2. P1!Careful /\ P1!OneUser /\ P1!Alone
  BY DEF P1!Careful, P1!OneUser, P1!Alone
<1> QED
  BY <1>1, <1>2

LEMMA OneNext == one!Next => P1!Next
BY DEF P1!GetCall, one!GetCall, P1!TaskCall, one!TaskCall, P1!StopCall, one!StopCall,
     P1!Join, one!Join, P1!Announce, one!Announce, P1!Retire, one!Retire, P1!InitFails,
     one!InitFails, P1!StartLoop, one!StartLoop, P1!SetupOpen, one!SetupOpen,
     P1!SetupKeep, one!SetupKeep, P1!SetupStop, one!SetupStop, P1!SetupChange,
     one!SetupChange, P1!GetGone, one!GetGone, P1!TakeFrame, one!TakeFrame, P1!WaitFrame,
     one!WaitFrame, P1!TaskEnter, one!TaskEnter, P1!TaskRun, one!TaskRun, P1!Signal,
     one!Signal, P1!Deliver, one!Deliver, P1!HandlesEvents, one!HandlesEvents,
     P1!LoopWaitZero, one!LoopWaitZero, P1!Leave, one!Leave, P1!LoopLock, one!LoopLock,
     P1!LoopUnlock, one!LoopUnlock, P1!LoopFails, one!LoopFails, P1!LoopCleanup,
     one!LoopCleanup, P1!Calls, one!Calls, P1!Client, one!Client, P1!Loop, one!Loop,
     P1!Events, one!Events, P1!Next, one!Next, P1!Goto, one!Goto, P1!Crash, one!Crash,
     P1!CanRestart, one!CanRestart, P1!AllStopped, one!AllStopped, P1!NoBufs, one!NoBufs,
     P1!NewBufs, one!NewBufs, P1!Loops, one!Loops, P1!clientVars, one!clientVars,
     P1!loopVars, one!loopVars, P1!ringVars, one!ringVars, P1!devVars, one!devVars,
     P1!outVars, one!outVars

LEMMA OneInit == one!Init => P1!Init
BY DEF one!Init, P1!Init, one!Loops, P1!Loops, one!NoBufs, P1!NoBufs

LEMMA TwoConstants == P2!Constants /\ P2!Careful /\ P2!OneFormat
<1>1. P2!Constants
  BY TwoAssumption DEF P2!Constants, P2!IsFiniteSet, two!IsFiniteSet,
       P2!UsersAssumption, two!UsersAssumption, P2!StreamsAssumption,
       two!StreamsAssumption, P2!FormatsAssumption, two!FormatsAssumption,
       P2!ScopeAssumption, two!ScopeAssumption, P2!ThreadsAssumption,
       two!ThreadsAssumption, P2!Loops, two!Loops
<1>2. P2!Careful /\ P2!OneFormat
  BY DEF P2!Careful, P2!OneFormat
<1> QED
  BY <1>1, <1>2

LEMMA TwoNext == two!Next => P2!Next
BY DEF P2!GetCall, two!GetCall, P2!TaskCall, two!TaskCall, P2!StopCall, two!StopCall,
     P2!Join, two!Join, P2!Announce, two!Announce, P2!Retire, two!Retire, P2!InitFails,
     two!InitFails, P2!StartLoop, two!StartLoop, P2!SetupOpen, two!SetupOpen,
     P2!SetupKeep, two!SetupKeep, P2!SetupStop, two!SetupStop, P2!SetupChange,
     two!SetupChange, P2!GetGone, two!GetGone, P2!TakeFrame, two!TakeFrame, P2!WaitFrame,
     two!WaitFrame, P2!TaskEnter, two!TaskEnter, P2!TaskRun, two!TaskRun, P2!Signal,
     two!Signal, P2!Deliver, two!Deliver, P2!HandlesEvents, two!HandlesEvents,
     P2!LoopWaitZero, two!LoopWaitZero, P2!Leave, two!Leave, P2!LoopLock, two!LoopLock,
     P2!LoopUnlock, two!LoopUnlock, P2!LoopFails, two!LoopFails, P2!LoopCleanup,
     two!LoopCleanup, P2!Calls, two!Calls, P2!Client, two!Client, P2!Loop, two!Loop,
     P2!Events, two!Events, P2!Next, two!Next, P2!Goto, two!Goto, P2!Crash, two!Crash,
     P2!CanRestart, two!CanRestart, P2!AllStopped, two!AllStopped, P2!NoBufs, two!NoBufs,
     P2!NewBufs, two!NewBufs, P2!Loops, two!Loops, P2!clientVars, two!clientVars,
     P2!loopVars, two!loopVars, P2!ringVars, two!ringVars, P2!devVars, two!devVars,
     P2!outVars, two!outVars

LEMMA TwoInit == two!Init => P2!Init
BY DEF two!Init, P2!Init, two!Loops, P2!Loops, two!NoBufs, P2!NoBufs

-----------------------------------------------------------------------------
\* The properties of a part are the properties that were proved.
LEMMA OneSame ==
    /\ one!TypeOK <=> P1!TypeOK
    /\ one!RingsSound <=> P1!RingsSound
    /\ one!BufferValid <=> P1!BufferValid
    /\ one!DataMatchesTimestamp <=> P1!DataMatchesTimestamp
    /\ one!TasksCounted <=> P1!TasksCounted
    /\ one!StreamsInContext <=> P1!StreamsInContext
    /\ one!OneRunloop <=> P1!OneRunloop
<1>1. (one!TasksCounted <=> P1!TasksCounted) /\ (one!TypeOK <=> P1!TypeOK)
  BY DEF one!TasksCounted, P1!TasksCounted, one!TypeOK, P1!TypeOK, one!Cardinality,
     P1!Cardinality,
     one!Places, P1!Places, one!Loops, P1!Loops
<1> QED
  BY <1>1 DEF one!RingsSound, P1!RingsSound,
     one!BufferValid, P1!BufferValid,
     one!DataMatchesTimestamp, P1!DataMatchesTimestamp,
     one!StreamsInContext, P1!StreamsInContext,
     one!OneRunloop, P1!OneRunloop,
     one!NoBufs, P1!NoBufs, one!Alive, P1!Alive, one!Loops, P1!Loops

LEMMA TwoSame ==
    /\ two!TypeOK <=> P2!TypeOK
    /\ two!RingsSound <=> P2!RingsSound
    /\ two!BufferValid <=> P2!BufferValid
    /\ two!DataMatchesTimestamp <=> P2!DataMatchesTimestamp
    /\ two!TasksCounted <=> P2!TasksCounted
    /\ two!StreamsInContext <=> P2!StreamsInContext
<1>1. (two!TasksCounted <=> P2!TasksCounted) /\ (two!TypeOK <=> P2!TypeOK)
  BY DEF two!TasksCounted, P2!TasksCounted, two!TypeOK, P2!TypeOK, two!Cardinality,
     P2!Cardinality,
     two!Places, P2!Places, two!Loops, P2!Loops
<1> QED
  BY <1>1 DEF two!RingsSound, P2!RingsSound,
     two!BufferValid, P2!BufferValid,
     two!DataMatchesTimestamp, P2!DataMatchesTimestamp,
     two!StreamsInContext, P2!StreamsInContext,
     two!NoBufs, P2!NoBufs, two!Alive, P2!Alive, two!Loops, P2!Loops

-----------------------------------------------------------------------------
\* What the variables of the viewer that carry pictures hold
Shape ==
    /\ buffer["depth"].mid \in 1..3 /\ buffer["depth"].front \in 1..3
    /\ buffer["rgb"].back \in 1..3 /\ buffer["rgb"].mid \in 1..3
    /\ buffer["rgb"].front \in 1..3
    /\ buffer \in [viewer!Streams ->
                     [{"mid", "front"} -> 1..3] \cup [{"back", "mid", "front"} -> 1..3]]
    /\ DOMAIN buffer["rgb"] = {"back", "mid", "front"}
    /\ frame \in [viewer!Streams -> [1..3 -> Nat]]
    /\ gotFrame \in [viewer!Streams -> BOOLEAN]
    /\ kinectCamera \in [usr : 0..3, depth : BOOLEAN, video : BOOLEAN]
    /\ latest \in [viewer!Streams -> 0..MaxFrame] /\ shown \in [viewer!Streams -> 0..MaxFrame]
    /\ window \in {"idle", "test", "waiting", "woken", "take", "draw", "join", "exited"}
    /\ events \in {"setup", "while", "process", "set", "current", "close", "ended"}

\* Each buffer has one owner, and a camera fills the one that is libfreenect's.
Owners ==
    /\ buffer["depth"].mid # buffer["depth"].front
    /\ buffer["rgb"].back # buffer["rgb"].mid /\ buffer["rgb"].back # buffer["rgb"].front
    /\ buffer["rgb"].mid # buffer["rgb"].front
    /\ events # "setup" => kinectCamera.usr = buffer["rgb"].back

Newest ==
    \A s \in viewer!Streams : /\ frame[s][buffer[s].front] = shown[s]
                              /\ gotFrame[s] => frame[s][buffer[s].mid] = latest[s]

\* The buffers are freed after the thread that fills them has ended.
Freed ==
    /\ window = "exited" => events = "ended"
    /\ events = "ended" => ~kinectCamera.depth /\ ~kinectCamera.video

ViewerInv == Shape /\ Owners /\ Newest /\ Freed

-----------------------------------------------------------------------------
LEMMA TheStreams ==
    viewer!Streams = {"depth", "rgb"} /\ "depth" \in viewer!Streams /\ "rgb" \in viewer!Streams
BY DEF viewer!Streams

LEMMA Numbers ==
    ASSUME Shape, NEW s \in viewer!Streams
    PROVE  viewer!Number(s) \in 0..MaxFrame
<1>1. latest[s] \in 0..MaxFrame /\ MaxFrame \in Nat \ {0}
  BY ViewerAssumption DEF viewer!MaxFrameAssumption, Shape
<1> QED
  BY <1>1 DEF viewer!Number

LEMMA ViewerInit == viewer!Init => ViewerInv
<1> SUFFICES ASSUME viewer!Init
             PROVE  ViewerInv
  OBVIOUS
<1>1. buffer = [s \in viewer!Streams |-> IF s = "depth" THEN [mid |-> 1, front |-> 2]
                                  ELSE [back |-> 1, mid |-> 2, front |-> 3]]
  BY DEF viewer!Init, viewer!Streams
<1>2. Shape
  BY <1>1, ViewerAssumption DEF viewer!Init, Shape, viewer!Streams,
     viewer!MaxFrameAssumption
<1>3. Owners /\ Newest /\ Freed
  BY <1>1 DEF viewer!Init, Owners, Newest, Freed, viewer!Streams
<1> QED
  BY <1>2, <1>3 DEF ViewerInv

\* The steps that move no picture
LEMMA OtherSteps ==
    ASSUME ViewerInv,
           \/ viewer!Setup \/ viewer!While \/ viewer!Processed \/ viewer!SetFormat
           \/ viewer!SetCurrent \/ viewer!Close \/ viewer!Lock \/ viewer!Test \/ viewer!Draw
           \/ viewer!ChangeFormat \/ viewer!Escape \/ viewer!Joined
    PROVE  ViewerInv'
<1>1. UNCHANGED <<buffer, frame, gotFrame, latest, shown>>
  BY DEF viewer!Setup, viewer!While, viewer!Processed, viewer!SetFormat,
     viewer!SetCurrent, viewer!Close, viewer!Lock, viewer!Test, viewer!Draw,
     viewer!ChangeFormat, viewer!Escape, viewer!Joined
<1>2. Newest'
  BY <1>1 DEF ViewerInv, Newest
<1>3. /\ kinectCamera' \in [usr : 0..3, depth : BOOLEAN, video : BOOLEAN]
      /\ events' # "setup" => kinectCamera'.usr = buffer["rgb"].back
      /\ events' \in {"setup", "while", "process", "set", "current", "close", "ended"}
      /\ window' \in {"idle", "test", "waiting", "woken", "take", "draw", "join", "exited"}
      /\ events = "ended" => kinectCamera' = kinectCamera /\ events' = events
  <2>1. CASE viewer!Setup
    BY <2>1 DEF viewer!Setup, ViewerInv, Shape, Owners
  <2>2. CASE viewer!While \/ viewer!SetCurrent
    BY <2>2 DEF viewer!While, viewer!SetCurrent, ViewerInv, Shape, Owners
  <2>3. CASE viewer!Processed \/ viewer!SetFormat \/ viewer!Close
    BY <2>3 DEF viewer!Processed, viewer!SetFormat, viewer!Close, ViewerInv, Shape, Owners
  <2>4. CASE viewer!Lock \/ viewer!Test \/ viewer!Draw
    BY <2>4 DEF viewer!Lock, viewer!Test, viewer!Draw, ViewerInv, Shape, Owners
  <2>5. CASE viewer!ChangeFormat \/ viewer!Escape \/ viewer!Joined
    BY <2>5 DEF viewer!ChangeFormat, viewer!Escape, viewer!Joined, ViewerInv, Shape,
       Owners
  <2> QED
    BY <2>1, <2>2, <2>3, <2>4, <2>5
<1>4. Freed'
  <2>1. CASE \/ viewer!Setup \/ viewer!While \/ viewer!Processed
             \/ viewer!SetFormat \/ viewer!SetCurrent
    BY <2>1 DEF viewer!Setup, viewer!While, viewer!Processed, viewer!SetFormat,
       viewer!SetCurrent, ViewerInv, Freed
  <2>2. CASE viewer!Close
    BY <2>2 DEF viewer!Close, ViewerInv, Shape, Freed
  <2>3. CASE \/ viewer!Lock \/ viewer!Test \/ viewer!Draw
             \/ viewer!ChangeFormat \/ viewer!Escape \/ viewer!Joined
    BY <2>3 DEF viewer!Lock, viewer!Test, viewer!Draw, viewer!ChangeFormat,
       viewer!Escape, viewer!Joined, ViewerInv, Freed
  <2> QED
    BY <2>1, <2>2, <2>3
<1> QED
  BY <1>1, <1>2, <1>3, <1>4 DEF ViewerInv, Shape, Owners

\* A depth picture goes into the middle buffer, which the window does not draw.
LEMMA DepthSteps ==
    ASSUME ViewerInv, viewer!depth_cb
    PROVE  ViewerInv'
<1> DEFINE n == viewer!Number("depth")
           m == buffer["depth"].mid
<1>1. n \in 0..MaxFrame
  BY Numbers, TheStreams DEF ViewerInv
<1>2. /\ UNCHANGED <<buffer, kinectCamera, events, shown>>
      /\ frame' = [frame EXCEPT !["depth"][m] = n]
      /\ latest' = [latest EXCEPT !["depth"] = n]
      /\ gotFrame' = [gotFrame EXCEPT !["depth"] = TRUE]
      /\ window' = viewer!Signalled(window) /\ window \notin {"test", "take"}
  BY DEF viewer!depth_cb, viewer!Unlocked
<1> HIDE DEF n
<1>3. window' \in {"idle", "waiting", "woken", "draw", "join", "exited"}
      /\ (window' = "exited" => window = "exited")
  BY <1>2 DEF viewer!Signalled, ViewerInv, Shape
<1>4. m \in 1..3 /\ m # buffer["depth"].front
  BY DEF ViewerInv, Shape, Owners
<1>5. frame \in [viewer!Streams -> [1..3 -> Nat]] /\ n \in Nat
  BY <1>1, ViewerAssumption DEF ViewerInv, Shape, viewer!MaxFrameAssumption
<1>6. /\ frame' \in [viewer!Streams -> [1..3 -> Nat]]
      /\ frame'["depth"][m] = n /\ frame'["rgb"] = frame["rgb"]
      /\ \A b \in 1..3 : b # m => frame'["depth"][b] = frame["depth"][b]
  BY <1>2, <1>4, <1>5, TheStreams
<1>7. latest' \in [viewer!Streams -> 0..MaxFrame] /\ latest'["depth"] = n
      /\ latest'["rgb"] = latest["rgb"]
  BY <1>1, <1>2, TheStreams DEF ViewerInv, Shape
<1>8. gotFrame' \in [viewer!Streams -> BOOLEAN] /\ gotFrame'["rgb"] = gotFrame["rgb"]
  BY <1>2, TheStreams DEF ViewerInv, Shape
<1>9. Newest'
  <2>1. /\ frame'["depth"][buffer'["depth"].front] = shown'["depth"]
        /\ frame'["depth"][buffer'["depth"].mid] = latest'["depth"]
    BY <1>2, <1>4, <1>6, <1>7, TheStreams DEF ViewerInv, Newest, Shape
  <2>2. /\ frame'["rgb"][buffer'["rgb"].front] = shown'["rgb"]
        /\ gotFrame'["rgb"] => frame'["rgb"][buffer'["rgb"].mid] = latest'["rgb"]
    BY <1>2, <1>6, <1>7, <1>8, TheStreams DEF ViewerInv, Newest
  <2> QED
    BY <2>1, <2>2, TheStreams DEF Newest
<1>10. Owners' /\ Freed'
  BY <1>2, <1>3 DEF ViewerInv, Owners, Freed
<1>11. Shape'
  BY <1>2, <1>3, <1>6, <1>7, <1>8 DEF ViewerInv, Shape
<1> QED
  BY <1>9, <1>10, <1>11 DEF ViewerInv

\* The buffer that was filled and the middle one change places.
LEMMA VideoSteps ==
    ASSUME ViewerInv, viewer!rgb_cb
    PROVE  ViewerInv'
<1> DEFINE n == viewer!Number("rgb")
           m == buffer["rgb"].mid
           b == buffer["rgb"].back
           ring == [buffer["rgb"] EXCEPT !.back = m, !.mid = b]
<1>1. n \in 0..MaxFrame
  BY Numbers, TheStreams DEF ViewerInv
<1>2. kinectCamera.usr = b /\ events = "process"
  BY DEF viewer!rgb_cb, ViewerInv, Owners
<1>3. /\ UNCHANGED <<events, shown>>
      /\ frame' = [frame EXCEPT !["rgb"][b] = n, !["rgb"][m] = 0]
      /\ latest' = [latest EXCEPT !["rgb"] = n]
      /\ gotFrame' = [gotFrame EXCEPT !["rgb"] = TRUE]
      /\ kinectCamera' = [kinectCamera EXCEPT !.usr = m]
      /\ window' = viewer!Signalled(window) /\ window \notin {"test", "take"}
  BY <1>2 DEF viewer!rgb_cb, viewer!Unlocked
<1>4. buffer' = [buffer EXCEPT !["rgb"] = ring]
  BY <1>2 DEF viewer!rgb_cb
<1>5. /\ m \in 1..3 /\ b \in 1..3 /\ m # b
      /\ buffer["rgb"].front # m /\ buffer["rgb"].front # b
  BY DEF ViewerInv, Shape, Owners
<1>6. buffer["rgb"] \in [{"back", "mid", "front"} -> 1..3]
  BY TheStreams DEF ViewerInv, Shape
<1>7. /\ ring \in [{"back", "mid", "front"} -> 1..3]
      /\ ring.back = m /\ ring.mid = b /\ ring.front = buffer["rgb"].front
  BY <1>5, <1>6
<1>8. /\ buffer'["rgb"] = ring /\ buffer'["depth"] = buffer["depth"]
      /\ buffer' \in [viewer!Streams ->
                        [{"mid", "front"} -> 1..3] \cup [{"back", "mid", "front"} -> 1..3]]
  BY <1>4, <1>7, TheStreams DEF ViewerInv, Shape
<1> HIDE DEF n, ring
<1>9. window' \in {"idle", "waiting", "woken", "draw", "join", "exited"}
      /\ (window' = "exited" => window = "exited")
  BY <1>3 DEF viewer!Signalled, ViewerInv, Shape
<1>10. frame \in [viewer!Streams -> [1..3 -> Nat]] /\ n \in Nat
  BY <1>1, ViewerAssumption DEF ViewerInv, Shape, viewer!MaxFrameAssumption
<1>11. /\ frame' \in [viewer!Streams -> [1..3 -> Nat]]
       /\ frame'["rgb"][b] = n /\ frame'["depth"] = frame["depth"]
       /\ \A c \in 1..3 : c # m /\ c # b => frame'["rgb"][c] = frame["rgb"][c]
  BY <1>3, <1>5, <1>10, TheStreams
<1>12. latest' \in [viewer!Streams -> 0..MaxFrame] /\ latest'["rgb"] = n
       /\ latest'["depth"] = latest["depth"]
  BY <1>1, <1>3, TheStreams DEF ViewerInv, Shape
<1>13. gotFrame' \in [viewer!Streams -> BOOLEAN] /\ gotFrame'["depth"] = gotFrame["depth"]
  BY <1>3, TheStreams DEF ViewerInv, Shape
<1>14. kinectCamera' \in [usr : 0..3, depth : BOOLEAN, video : BOOLEAN] /\ kinectCamera'.usr = m
  BY <1>3, <1>5 DEF ViewerInv, Shape
<1>15. Newest'
  <2>1. /\ frame'["rgb"][buffer'["rgb"].front] = shown'["rgb"]
        /\ frame'["rgb"][buffer'["rgb"].mid] = latest'["rgb"]
    BY <1>3, <1>5, <1>6, <1>7, <1>8, <1>11, <1>12, TheStreams DEF ViewerInv, Newest
  <2>2. /\ frame'["depth"][buffer'["depth"].front] = shown'["depth"]
        /\ gotFrame'["depth"] => frame'["depth"][buffer'["depth"].mid] = latest'["depth"]
    BY <1>3, <1>8, <1>11, <1>12, <1>13, TheStreams DEF ViewerInv, Newest
  <2> QED
    BY <2>1, <2>2, TheStreams DEF Newest
<1>16. Owners'
  BY <1>5, <1>7, <1>8, <1>14 DEF ViewerInv, Owners
<1>17. Freed'
  BY <1>2, <1>3, <1>9 DEF ViewerInv, Freed
<1>18. Shape'
  BY <1>3, <1>7, <1>8, <1>9, <1>11, <1>12, <1>13, <1>14 DEF ViewerInv, Shape
<1> QED
  BY <1>15, <1>16, <1>17, <1>18 DEF ViewerInv

\* What has come is swapped to the front; what has not stays.
LEMMA TakeSteps ==
    ASSUME ViewerInv, viewer!Take
    PROVE  ViewerInv'
<1>1. /\ UNCHANGED <<frame, kinectCamera, events, latest>>
      /\ window' \in {"idle", "draw"}
  BY DEF viewer!Take
<1>2. CASE UNCHANGED <<buffer, gotFrame, shown>>
  BY <1>1, <1>2 DEF ViewerInv, Shape, Owners, Newest, Freed
<1>3. CASE ~UNCHANGED <<buffer, gotFrame, shown>>
  <2> DEFINE Turned(s) == [buffer[s] EXCEPT !.front = buffer[s].mid, !.mid = buffer[s].front]
  <2>1. /\ buffer' = [s \in viewer!Streams |-> IF gotFrame[s] THEN Turned(s) ELSE buffer[s]]
        /\ shown' = [s \in viewer!Streams |-> IF gotFrame[s] THEN latest[s] ELSE shown[s]]
        /\ gotFrame' = [s \in viewer!Streams |-> FALSE]
    BY <1>3 DEF viewer!Take
  <2>2. /\ "mid" \in DOMAIN buffer["depth"] /\ "front" \in DOMAIN buffer["depth"]
        /\ buffer["rgb"] \in [{"back", "mid", "front"} -> 1..3]
        /\ buffer["depth"] \in [{"mid", "front"} -> 1..3] \cup [{"back", "mid", "front"} -> 1..3]
    BY TheStreams DEF ViewerInv, Shape
  <2>3. /\ Turned("rgb") \in [{"back", "mid", "front"} -> 1..3]
        /\ Turned("rgb").front = buffer["rgb"].mid /\ Turned("rgb").mid = buffer["rgb"].front
        /\ Turned("rgb").back = buffer["rgb"].back
    BY <2>2
  <2>4. /\ Turned("depth") \in [{"mid", "front"} -> 1..3] \cup [{"back", "mid", "front"} -> 1..3]
        /\ Turned("depth").front = buffer["depth"].mid
        /\ Turned("depth").mid = buffer["depth"].front
    BY <2>2
  <2> HIDE DEF Turned
  <2>5. /\ buffer'["rgb"] = IF gotFrame["rgb"] THEN Turned("rgb") ELSE buffer["rgb"]
        /\ buffer'["depth"] = IF gotFrame["depth"] THEN Turned("depth") ELSE buffer["depth"]
    BY <2>1, TheStreams
  <2>6. buffer' \in [viewer!Streams ->
                       [{"mid", "front"} -> 1..3] \cup [{"back", "mid", "front"} -> 1..3]]
    <3>1. \A s \in viewer!Streams :
            (IF gotFrame[s] THEN Turned(s) ELSE buffer[s])
              \in [{"mid", "front"} -> 1..3] \cup [{"back", "mid", "front"} -> 1..3]
      BY <2>2, <2>3, <2>4, TheStreams
    <3> QED
      BY <2>1, <3>1
  <2>7. Owners'
    BY <1>1, <2>3, <2>4, <2>5 DEF ViewerInv, Owners
  <2>8. shown' \in [viewer!Streams -> 0..MaxFrame] /\ gotFrame' \in [viewer!Streams -> BOOLEAN]
    BY <2>1 DEF ViewerInv, Shape
  <2>9. Shape'
    <3>1. /\ buffer'["depth"].mid \in 1..3 /\ buffer'["depth"].front \in 1..3
          /\ buffer'["rgb"].back \in 1..3 /\ buffer'["rgb"].mid \in 1..3
          /\ buffer'["rgb"].front \in 1..3
          /\ DOMAIN buffer'["rgb"] = {"back", "mid", "front"}
      BY <2>2, <2>3, <2>4, <2>5 DEF ViewerInv, Shape
    <3> QED
      BY <1>1, <2>6, <2>8, <3>1 DEF ViewerInv, Shape
  <2>10. Newest'
    <3>1. frame'["rgb"][buffer'["rgb"].front] = shown'["rgb"]
      BY <1>1, <2>1, <2>3, <2>5, TheStreams DEF ViewerInv, Newest
    <3>2. frame'["depth"][buffer'["depth"].front] = shown'["depth"]
      BY <1>1, <2>1, <2>4, <2>5, TheStreams DEF ViewerInv, Newest
    <3>3. ~gotFrame'["rgb"] /\ ~gotFrame'["depth"]
      BY <2>1, TheStreams
    <3> QED
      BY <3>1, <3>2, <3>3, TheStreams DEF Newest
  <2> QED
    BY <1>1, <2>7, <2>9, <2>10 DEF ViewerInv, Freed
<1> QED
  BY <1>2, <1>3

LEMMA ViewerNext == ViewerInv /\ [viewer!Next]_(viewer!vars) => ViewerInv'
<1> SUFFICES ASSUME ViewerInv, [viewer!Next]_(viewer!vars)
             PROVE  ViewerInv'
  OBVIOUS
<1>1. CASE UNCHANGED viewer!vars
  BY <1>1 DEF viewer!vars, ViewerInv, Shape, Owners, Newest, Freed
<1> QED
  BY <1>1, OtherSteps, DepthSteps, VideoSteps, TakeSteps
     DEF viewer!Next, viewer!freenect_threadfunc, viewer!DrawGLScene

-----------------------------------------------------------------------------
\* The threads are at known places and the frames numbered as they came.
THEOREM ViewerTypeOK == viewer!Spec => []viewer!TypeOK
<1>1. ViewerInv => viewer!TypeOK
  BY DEF ViewerInv, Shape, viewer!TypeOK
<1> QED
  BY <1>1, ViewerInit, ViewerNext, PTL DEF viewer!Spec

\* The three buffers of a stream keep one owner each, what is drawn is the newest frame
\* that was taken, and the buffers outlive the streams, however many frames come.
THEOREM ViewerBuffersOwned == viewer!Spec => []viewer!BuffersOwned
<1>1. ViewerInv => viewer!BuffersOwned
  <2> SUFFICES ASSUME ViewerInv
               PROVE  viewer!BuffersOwned
    OBVIOUS
  <2>1. {buffer["rgb"].back, buffer["rgb"].mid, buffer["rgb"].front} = 1..3
    BY DEF ViewerInv, Shape, Owners
  <2> QED
    BY <2>1 DEF ViewerInv, Owners, Newest, Freed, viewer!BuffersOwned
<1> QED
  BY <1>1, ViewerInit, ViewerNext, PTL DEF viewer!Spec

-----------------------------------------------------------------------------
\* A behaviour of a part is one of its program.
LEMMA OnePart == MCSpec /\ part = "one" => P1!Spec /\ [](part = "one")
<1>1. MCInit /\ part = "one" => P1!Init
  BY OneInit DEF MCInit
<1>2. part = "one" /\ [MCNext]_allVars => (part = "one")' /\ [P1!Next]_(P1!vars)
  <2> SUFFICES ASSUME part = "one", [MCNext]_allVars
               PROVE  (part = "one")' /\ [P1!Next]_(P1!vars)
    OBVIOUS
  <2>1. CASE UNCHANGED allVars
    BY <2>1 DEF allVars, vars, P1!vars, P1!clientVars, P1!loopVars, P1!ringVars,
       P1!devVars,
       P1!outVars
  <2>2. CASE MCNext
    BY <2>2, OneNext DEF MCNext
  <2> QED
    BY <2>1, <2>2
<1> QED
  BY <1>1, <1>2, PTL DEF MCSpec, P1!Spec

LEMMA TwoPart == MCSpec /\ part = "two" => P2!Spec /\ [](part = "two")
<1>1. MCInit /\ part = "two" => P2!Init
  BY TwoInit DEF MCInit
<1>2. part = "two" /\ [MCNext]_allVars => (part = "two")' /\ [P2!Next]_(P2!vars)
  <2> SUFFICES ASSUME part = "two", [MCNext]_allVars
               PROVE  (part = "two")' /\ [P2!Next]_(P2!vars)
    OBVIOUS
  <2>1. CASE UNCHANGED allVars
    BY <2>1 DEF allVars, vars, P2!vars, P2!clientVars, P2!loopVars, P2!ringVars,
       P2!devVars,
       P2!outVars
  <2>2. CASE MCNext
    BY <2>2, TwoNext DEF MCNext, allVars, vars, P2!vars, P2!clientVars, P2!loopVars,
       P2!ringVars, P2!devVars, P2!outVars
  <2> QED
    BY <2>1, <2>2
<1> QED
  BY <1>1, <1>2, PTL DEF MCSpec, P2!Spec

LEMMA ViewerPart ==
    MCSpec /\ part = "viewer" => viewer!Spec /\ [](part = "viewer") /\ [][UNCHANGED vars]_vars
<1>1. MCInit => viewer!Init
  BY DEF MCInit
<1>2. part = "viewer" /\ [MCNext]_allVars
        => (part = "viewer")' /\ [viewer!Next]_(viewer!vars) /\ [UNCHANGED vars]_vars
  <2> SUFFICES ASSUME part = "viewer", [MCNext]_allVars
               PROVE  (part = "viewer")' /\ [viewer!Next]_(viewer!vars) /\ UNCHANGED vars
    OBVIOUS
  <2>1. CASE UNCHANGED allVars
    BY <2>1 DEF allVars, viewerVars, viewer!vars
  <2>2. CASE MCNext
    BY <2>2 DEF MCNext, allVars, viewerVars, viewer!vars
  <2> QED
    BY <2>1, <2>2
<1> QED
  BY <1>1, <1>2, PTL DEF MCSpec, viewer!Spec

LEMMA Parts == MCSpec => part = "one" \/ part = "two" \/ part = "viewer"
<1>1. MCInit => part = "one" \/ part = "two" \/ part = "viewer"
  BY DEF MCInit
<1> QED
  BY <1>1, PTL DEF MCSpec
-----------------------------------------------------------------------------
\* The buffers of a ring stay apart, the one handed out is kept from the camera, and those
\* of the viewer have one owner each.
THEOREM RingsAreSound == MCSpec => []RingsSound
<1>1. P1!Spec => []P1!TypeOK /\ []P1!RingsSound /\ []P1!BufferValid
  BY OneConstants, P1!SyncTypeOK, P1!SyncRingsSound, P1!SyncBufferValid
<1>2. part = "one" /\ P1!TypeOK /\ P1!RingsSound /\ P1!BufferValid => RingsSound
  BY OneSame DEF RingsSound
<1>3. P2!Spec => []P2!TypeOK /\ []P2!RingsSound /\ []P2!BufferValid
  BY TwoConstants, P2!SyncTypeOK, P2!SyncRingsSound, P2!SyncBufferValid
<1>4. part = "two" /\ P2!TypeOK /\ P2!RingsSound /\ P2!BufferValid => RingsSound
  BY TwoSame DEF RingsSound
<1>5. viewer!Spec => []viewer!TypeOK /\ []viewer!BuffersOwned
  BY ViewerTypeOK, ViewerBuffersOwned
<1>6. part = "viewer" /\ viewer!TypeOK /\ viewer!BuffersOwned => RingsSound
  BY DEF RingsSound
<1> QED
  BY <1>1, <1>2, <1>3, <1>4, <1>5, <1>6, Parts, OnePart, TwoPart, ViewerPart, PTL

\* No client is given a frame with the timestamp of another.
THEOREM DataAndTimestamp == MCSpec => []DataMatchesTimestamp
<1>1. P1!Spec => []P1!DataMatchesTimestamp
  BY OneConstants, P1!SyncDataMatchesTimestamp
<1>2. part = "one" /\ P1!DataMatchesTimestamp => DataMatchesTimestamp
  BY OneSame DEF DataMatchesTimestamp
<1>3. P2!Spec => []P2!DataMatchesTimestamp
  BY TwoConstants, P2!SyncDataMatchesTimestamp
<1>4. part = "two" /\ P2!DataMatchesTimestamp => DataMatchesTimestamp
  BY TwoSame DEF DataMatchesTimestamp
<1>5. part = "viewer" => DataMatchesTimestamp
  BY DEF DataMatchesTimestamp
<1> QED
  BY <1>1, <1>2, <1>3, <1>4, <1>5, Parts, OnePart, TwoPart, ViewerPart, PTL

\* The tasks are counted, the runloop thread of a lone client is one, and cameras run only
\* for an open device.
THEOREM RunloopsAreSound == MCSpec => []RunloopSound
<1>1. P1!Spec => []P1!TasksCounted /\ []P1!OneRunloop /\ []P1!StreamsInContext
  BY OneConstants, P1!SyncTasksCounted, P1!SyncOneRunloop, P1!SyncStreamsInContext
<1>2. part = "one" /\ P1!TasksCounted /\ P1!OneRunloop /\ P1!StreamsInContext => RunloopSound
  BY OneSame DEF RunloopSound
<1>3. P2!Spec => []P2!TasksCounted /\ []P2!StreamsInContext
  BY TwoConstants, P2!SyncTasksCounted, P2!SyncStreamsInContext
<1>4. part = "two" /\ P2!TasksCounted /\ P2!StreamsInContext => RunloopSound
  BY TwoSame DEF RunloopSound
<1>5. part = "viewer" => RunloopSound
  BY DEF RunloopSound
<1> QED
  BY <1>1, <1>2, <1>3, <1>4, <1>5, Parts, OnePart, TwoPart, ViewerPart, PTL

\* A client gets a frame in the format that it asked for.
THEOREM FormatIsRequested == MCSpec => FormatRequested
<1>1. P1!Spec => P1!FormatRequested
  BY OneConstants, P1!SyncFormatRequested
<1>2. P2!Spec => P2!FormatRequested
  BY TwoConstants, P2!SyncFormatRequested
<1> DEFINE A(users) == \A u \in users : pc[u] = "get" /\ pc'[u] = "idle"
                         => fmt[want[u].stream] = want[u].format
<1>3. [A({u1})]_(P1!vars) => [A({u1})]_(one!vars)
  BY DEF P1!vars, P1!clientVars, P1!loopVars, P1!ringVars, P1!devVars, P1!outVars,
     one!vars, one!clientVars, one!loopVars, one!ringVars, one!devVars, one!outVars
<1>4. [A({u1, u2})]_(P2!vars) => [A({u1})]_(one!vars)
  BY DEF P2!vars, P2!clientVars, P2!loopVars, P2!ringVars, P2!devVars, P2!outVars,
     one!vars, one!clientVars, one!loopVars, one!ringVars, one!devVars, one!outVars
<1>5. [UNCHANGED vars]_vars => [A({u1})]_(one!vars)
  BY DEF vars, one!vars, one!clientVars, one!loopVars, one!ringVars, one!devVars,
     one!outVars
<1>6. P1!FormatRequested => [][A({u1})]_(one!vars)
  BY <1>3, PTL DEF P1!FormatRequested
<1>7. P2!FormatRequested => [][A({u1})]_(one!vars)
  BY <1>4, PTL DEF P2!FormatRequested
<1> QED
  BY <1>1, <1>2, <1>5, <1>6, <1>7, Parts, OnePart, TwoPart, ViewerPart, PTL
     DEF FormatRequested, one!FormatRequested
=============================================================================
