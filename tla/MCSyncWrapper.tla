---------------------------- MODULE MCSyncWrapper ---------------------------
(* Two instances of SyncWrapper: one client that asks for both streams in two *)
(* formats and stops the wrapper (part "one"), and two clients of one stream  *)
(* whose calls may all fail (part "two").  The other program that hands       *)
(* frames from thread to thread, Viewer, is the third part.                   *)
EXTENDS Integers

CONSTANTS u1, u2, Free, MaxFrame

VARIABLES
    part, pc, want, loopPc, thread, thread_running, pending_runloop_tasks, runloop_lock,
    ctx, kinect, ringLock, bufs, fmt, valid, timestamp, running, proc_buf, content, camera,
    held, got, crashed,
    buffer, frame, gotFrame, kinectCamera, requested_format, current_format, window, events,
    die, latest, shown

one == INSTANCE SyncWrapper
         WITH Users <- {u1}, Streams <- {"video", "depth"}, Formats <- {"a", "b"},
              RingFormats <- {"a", "b"}, StartFormats <- {"a", "b"}, DefaultFormat <- "a",
              Failures <- {"open"}, MayStop <- TRUE, MayTask <- TRUE,
              MaxLoops <- 2, FrameMod <- 1

two == INSTANCE SyncWrapper
         WITH Users <- {u1, u2}, Streams <- {"depth"}, Formats <- {"a"},
              RingFormats <- {"a"}, StartFormats <- {"a"}, DefaultFormat <- "a",
              Failures <- {"init", "open", "events"}, MayStop <- FALSE, MayTask <- TRUE,
              MaxLoops <- 2, FrameMod <- 2

viewer == INSTANCE Viewer WITH got <- gotFrame, camera <- kinectCamera

ASSUME ViewerAssumption == viewer!MaxFrameAssumption
ASSUME OneAssumption ==
    /\ one!UsersAssumption /\ one!StreamsAssumption /\ one!FormatsAssumption
    /\ one!ScopeAssumption /\ one!ThreadsAssumption
ASSUME TwoAssumption ==
    /\ two!UsersAssumption /\ two!StreamsAssumption /\ two!FormatsAssumption
    /\ two!ScopeAssumption /\ two!ThreadsAssumption

vars == <<pc, want, loopPc, thread, thread_running, pending_runloop_tasks, runloop_lock,
          ctx, kinect, ringLock, bufs, fmt, valid, timestamp, running, proc_buf, content,
          camera, held, got, crashed>>
viewerVars == <<buffer, frame, gotFrame, kinectCamera, requested_format, current_format,
                window, events, die, latest, shown>>
allVars == <<part, vars, viewerVars>>

MCInit ==
    /\ part \in {"one", "two", "viewer"}
    /\ IF part = "two" THEN two!Init ELSE one!Init
    /\ viewer!Init

MCNext ==
    \/ part = "one" /\ one!Next /\ UNCHANGED <<part, viewerVars>>
    \/ part = "two" /\ two!Next /\ UNCHANGED <<part, viewerVars>>
    \/ part = "viewer" /\ viewer!Next /\ UNCHANGED <<part, vars>>
    \/ part # "one" /\ UNCHANGED allVars      \* they may come to a halt

\* one!Fairness
OneFairness ==
    /\ WF_vars(part = "one" /\ ~crashed /\ one!Client(u1))
    /\ \A l \in 1..2 : WF_vars(part = "one" /\ ~crashed /\ one!Loop(l))
    /\ \A s \in {"video", "depth"} : SF_vars(part = "one" /\ ~crashed /\ one!Events(s))

MCSpec == MCInit /\ [][MCNext]_allVars /\ OneFairness

-----------------------------------------------------------------------------
\* The buffers of a ring are never mixed up, and the one handed out stays away from the
\* camera until the next call; the buffers of the viewer have one owner each.
RingsSound ==
    /\ part = "one" => one!TypeOK /\ one!RingsSound /\ one!BufferValid
    /\ part = "two" => two!TypeOK /\ two!RingsSound /\ two!BufferValid
    /\ part = "viewer" => viewer!TypeOK /\ viewer!BuffersOwned

\* The frame handed out is the one whose timestamp is handed out.
DataMatchesTimestamp ==
    /\ part = "one" => one!DataMatchesTimestamp
    /\ part = "two" => two!DataMatchesTimestamp

\* pending_runloop_tasks counts the clients that are in; one runloop thread runs at a
\* time, and cameras only for a device that is open.
RunloopSound ==
    /\ part = "one" => one!TasksCounted /\ one!OneRunloop /\ one!StreamsInContext
    /\ part = "two" => two!TasksCounted /\ two!StreamsInContext

\* A frame is returned in the format that was asked for.
FormatRequested == one!FormatRequested

\* A client that announced its task is let in between two rounds of events.
TaskServed == part = "one" => one!TaskServed

\* A call for a frame returns; and the viewer's window answers.
GetReturns ==
    /\ part = "one" => one!GetReturns
    /\ part = "viewer" /\ viewer!Fairness => viewer!WindowAnswers

\* runloop_enter: "If this function is successful, then you can access kinects[index]".
EnterGrantsKinect == part = "two" => two!EnterGrantsKinect
=============================================================================
