---------------------------- MODULE SyncWrapper -----------------------------
(***************************************************************************)
(* The synchronous wrapper (libfreenect/wrappers/c_sync/libfreenect_sync.c)*)
(* for one Kinect: client threads that ask for frames or run tasks on the  *)
(* device, and the runloop thread that calls freenect_process_events.      *)
(*                                                                         *)
(* Two locks protect the state: runloop_lock, held around every libfreenect*)
(* call, and one lock per buffer ring.  The runloop thread lets clients in *)
(* by waiting until pending_runloop_tasks is zero before it takes          *)
(* runloop_lock again.  Critical sections are actions; a critical section  *)
(* in which libfreenect handles USB events is split, since the producer    *)
(* callback of a stream may run there (Deliver).                           *)
(*                                                                         *)
(* An operator named X_Y right before the operator X is a wrong variant of *)
(* X, kept to show that the properties tell it from X.                     *)
(***************************************************************************)
EXTENDS Integers, FiniteSets

CONSTANTS
    Users,         \* client threads
    Streams,       \* the streams of the device that are used: "video", "depth"
    Formats,       \* the formats (with their resolution) clients ask for
    RingFormats,   \* those alloc_buffer_ring_video/_depth accepts
    StartFormats,  \* those freenect_start_video/_depth then starts
    DefaultFormat, \* what runloop_enter sets a new device up with
    Failures,      \* what may fail: "init", "open", "events"
    MayStop,       \* do clients call freenect_sync_stop?
    MayTask,       \* do clients run tasks (tilt, LED, camera_to_world)?
    Free,          \* the owner of a lock nobody holds
    MaxLoops,      \* bound on the runloop threads started
    FrameMod       \* frames are numbered modulo FrameMod

UsersAssumption == Users # {} /\ IsFiniteSet(Users)
StreamsAssumption == Streams \subseteq {"video", "depth"} /\ "depth" \in Streams
FormatsAssumption ==
    /\ StartFormats \subseteq RingFormats /\ RingFormats \subseteq Formats
    /\ DefaultFormat \in StartFormats
    /\ "none" \notin Formats
ScopeAssumption ==
    /\ Failures \subseteq {"init", "open", "events"}
    /\ MayStop \in BOOLEAN /\ MayTask \in BOOLEAN
    /\ MaxLoops \in Nat \ {0} /\ FrameMod \in Nat \ {0}

Loops == 1..MaxLoops
ThreadsAssumption == Free \notin Users \cup Loops /\ Users \cap Loops = {}

VARIABLES
    pc, want,        \* each client's place in its call, and what it asks for
    loopPc,          \* each runloop thread's place in init()
    thread,          \* the runloop thread started last
    thread_running, pending_runloop_tasks, runloop_lock,
    ctx,             \* is ctx initialised and not shut down?
    kinect,          \* is kinects[index] set?
    ringLock, bufs, fmt, valid, timestamp,   \* buffer_ring_t, for each stream
    running, proc_buf,   \* the device's streams and the buffers they fill
    content,         \* the frame each buffer holds
    camera,          \* the last frame of each stream's camera
    held,            \* the buffer handed out on a stream and still usable
    got,             \* what the last call on each stream returned
    crashed          \* a call through a freed context or a NULL device

clientVars == <<pc, want>>
loopVars == <<loopPc, thread, thread_running>>
ringVars == <<bufs, fmt, valid, timestamp>>
devVars == <<running, proc_buf, content, camera>>
outVars == <<held, got>>
vars == <<clientVars, loopVars, pending_runloop_tasks, runloop_lock, ctx, kinect,
          ringLock, ringVars, devVars, outVars, crashed>>

NoBufs == [i \in 0..2 |-> 0]
NewBufs == [i \in 0..2 |-> i + 1]
Alive(l) == loopPc[l] \notin {"none", "ended"}

\* MaxLoops bounds the calls that end a runloop thread, never those that start one.
CanRestart(lpc) == \E l \in Loops : lpc[l] = "none"

Init ==
    /\ pc = [u \in Users |-> "idle"]
    /\ want = [u \in Users |-> [op |-> "get", stream |-> "depth", format |-> DefaultFormat]]
    /\ loopPc = [l \in Loops |-> "none"]
    /\ thread = 1
    /\ thread_running = FALSE
    /\ pending_runloop_tasks = 0
    /\ runloop_lock = Free
    /\ ctx = FALSE /\ kinect = FALSE
    /\ ringLock = [s \in Streams |-> Free]
    /\ bufs = [s \in Streams |-> NoBufs]
    /\ fmt = [s \in Streams |-> "none"]
    /\ valid = [s \in Streams |-> FALSE]
    /\ timestamp = [s \in Streams |-> 0]
    /\ running = [s \in Streams |-> FALSE]
    /\ proc_buf = [s \in Streams |-> 0]
    /\ content = [s \in Streams |-> [b \in 1..3 |-> 0]]
    /\ camera = [s \in Streams |-> 0]
    /\ held = [s \in Streams |-> 0]
    /\ got = [s \in Streams |-> [data |-> 0, timestamp |-> 0]]
    /\ crashed = FALSE

-----------------------------------------------------------------------------
Goto(u, place) == pc' = [pc EXCEPT ![u] = place]
Crash == crashed' = TRUE

\* freenect_sync_get_video/_depth: an unlocked check decides whether to set up.
GetCall_AnyFormat(u, s, f) ==
    /\ pc[u] = "idle"
    /\ want' = [want EXCEPT ![u] = [op |-> "get", stream |-> s, format |-> f]]
    /\ held' = [held EXCEPT ![s] = 0]
    /\ Goto(u, IF thread_running /\ kinect /\ fmt[s] # "none" THEN "get" ELSE "setup")
    /\ UNCHANGED <<loopVars, pending_runloop_tasks, runloop_lock, ctx, kinect, ringLock,
                   ringVars, devVars, got, crashed>>

GetCall(u, s, f) ==
    /\ pc[u] = "idle"
    /\ want' = [want EXCEPT ![u] = [op |-> "get", stream |-> s, format |-> f]]
    /\ held' = [held EXCEPT ![s] = 0]
    /\ Goto(u, IF thread_running /\ kinect /\ fmt[s] = f THEN "get" ELSE "setup")
    /\ UNCHANGED <<loopVars, pending_runloop_tasks, runloop_lock, ctx, kinect, ringLock,
                   ringVars, devVars, got, crashed>>

\* runloop_enter: an unlocked check again.
TaskCall(u) ==
    /\ MayTask
    /\ pc[u] = "idle"
    /\ want' = [want EXCEPT ![u] =
                  [op |-> "task", stream |-> "depth", format |-> DefaultFormat]]
    /\ Goto(u, IF thread_running /\ kinect THEN "task" ELSE "setup")
    /\ UNCHANGED <<loopVars, pending_runloop_tasks, runloop_lock, ctx, kinect, ringLock,
                   ringVars, devVars, outVars, crashed>>

\* freenect_sync_stop
StopCall(u) ==
    /\ MayStop
    /\ pc[u] = "idle"
    /\ thread_running /\ CanRestart(loopPc)
    /\ thread_running' = FALSE
    /\ Goto(u, "join")
    /\ UNCHANGED <<want, loopPc, thread, pending_runloop_tasks, runloop_lock, ctx,
                   kinect, ringLock, ringVars, devVars, outVars, crashed>>

Join(u) ==
    /\ pc[u] = "join"
    /\ loopPc[thread] = "ended"
    /\ Goto(u, "idle")
    /\ UNCHANGED <<want, loopVars, pending_runloop_tasks, runloop_lock, ctx, kinect,
                   ringLock, ringVars, devVars, outVars, crashed>>

-----------------------------------------------------------------------------
\* pending_runloop_tasks_inc, by setup_kinect and runloop_enter
Announce(u) ==
    /\ \/ pc[u] = "setup" /\ Goto(u, "open")
       \/ pc[u] = "task" /\ Goto(u, "enter")
    /\ pending_runloop_tasks' = pending_runloop_tasks + 1
    /\ UNCHANGED <<want, loopVars, runloop_lock, ctx, kinect, ringLock, ringVars,
                   devVars, outVars, crashed>>

\* pending_runloop_tasks_dec, on the ways out of setup_kinect and runloop_exit
Retire(u) ==
    /\ \/ pc[u] = "ready" /\ Goto(u, want[u].op)
       \/ pc[u] \in {"failed", "exit"} /\ Goto(u, "idle")
       \/ pc[u] = "undo" /\ Goto(u, "join")
    /\ pending_runloop_tasks' = pending_runloop_tasks - 1
    /\ UNCHANGED <<want, loopVars, runloop_lock, ctx, kinect, ringLock, ringVars,
                   devVars, outVars, crashed>>

\* freenect_init fails: init_thread leaves thread_running set.
InitFails_StillPending(u) ==
    /\ "init" \in Failures
    /\ pc[u] = "open" /\ runloop_lock = Free /\ ~thread_running
    /\ thread_running' = TRUE
    /\ ctx' = FALSE
    /\ Goto(u, "idle")
    /\ UNCHANGED <<want, loopPc, thread, pending_runloop_tasks, runloop_lock, kinect,
                   ringLock, ringVars, devVars, outVars, crashed>>

InitFails(u) ==
    /\ "init" \in Failures
    /\ pc[u] = "open" /\ runloop_lock = Free /\ ~thread_running
    /\ thread_running' = TRUE
    /\ ctx' = FALSE
    /\ Goto(u, "failed")
    /\ UNCHANGED <<want, loopPc, thread, pending_runloop_tasks, runloop_lock, kinect,
                   ringLock, ringVars, devVars, outVars, crashed>>

\* init_thread, if the runloop does not run
StartLoop ==
    IF thread_running THEN UNCHANGED <<loopPc, thread, ctx>>
    ELSE \E l \in Loops :
           /\ loopPc[l] = "none" /\ \A k \in 1..(l - 1) : loopPc[k] # "none"
           /\ loopPc' = [loopPc EXCEPT ![l] = "zero"]
           /\ thread' = l
           /\ ctx' = TRUE

\* setup_kinect, up to the device: open it unless it is open.
SetupOpen(u) ==
    /\ pc[u] = "open" /\ runloop_lock = Free
    /\ StartLoop
    /\ \/ /\ kinect \/ ctx'
          /\ runloop_lock' = u
          /\ kinect' = TRUE
          /\ thread_running' = TRUE
          /\ fmt' = IF kinect THEN fmt ELSE [s \in Streams |-> "none"]
          /\ Goto(u, "ring")
          /\ UNCHANGED crashed
       \/ /\ "open" \in Failures /\ ~kinect /\ ctx'
          /\ CanRestart(loopPc')
          /\ thread_running' = thread_running   \* back to 0 if it was started here
          /\ Goto(u, IF thread_running THEN "failed" ELSE "undo")
          /\ UNCHANGED <<runloop_lock, kinect, fmt, crashed>>
       \/ /\ ~kinect /\ ~ctx'                   \* open in a context shut down
          /\ Crash
          /\ UNCHANGED <<pc, thread_running, runloop_lock, kinect, fmt>>
    /\ UNCHANGED <<want, pending_runloop_tasks, ringLock, bufs, valid, timestamp,
                   devVars, outVars>>

\* setup_kinect, under the ring's lock: nothing to do.
SetupKeep(u) ==
    LET s == want[u].stream IN
    /\ pc[u] = "ring" /\ ringLock[s] = Free
    /\ fmt[s] = want[u].format
    /\ runloop_lock' = Free
    /\ Goto(u, "ready")
    /\ UNCHANGED <<want, loopVars, pending_runloop_tasks, ctx, kinect, ringLock,
                   ringVars, devVars, outVars, crashed>>

\* change_video_format/_depth_format: stop the stream ...
SetupStop(u) ==
    LET s == want[u].stream IN
    /\ pc[u] = "ring" /\ ringLock[s] = Free
    /\ fmt[s] # want[u].format
    /\ ringLock' = [ringLock EXCEPT ![s] = u]
    /\ running' = [running EXCEPT ![s] = FALSE]
    /\ Goto(u, "change")
    /\ UNCHANGED <<want, loopVars, pending_runloop_tasks, runloop_lock, ctx, kinect,
                   ringVars, proc_buf, content, camera, outVars, crashed>>

\* ... and start it with new buffers.  A failure is not reported.
SetupChange(u) ==
    LET s == want[u].stream
        f == want[u].format IN
    /\ pc[u] = "change"
    /\ bufs' = [bufs EXCEPT ![s] = IF f \in RingFormats THEN NewBufs ELSE NoBufs]
    /\ fmt' = [fmt EXCEPT ![s] = IF f \in RingFormats THEN f ELSE "none"]
    /\ valid' = [valid EXCEPT ![s] = FALSE]
    /\ timestamp' = [timestamp EXCEPT ![s] = 0]
    /\ proc_buf' = [proc_buf EXCEPT ![s] = IF f \in RingFormats THEN NewBufs[2] ELSE @]
    /\ running' = [running EXCEPT ![s] = f \in StartFormats]
    /\ ringLock' = [ringLock EXCEPT ![s] = Free]
    /\ runloop_lock' = Free
    /\ Goto(u, "ready")
    /\ UNCHANGED <<want, loopVars, pending_runloop_tasks, ctx, kinect, content, camera,
                   outVars, crashed>>

-----------------------------------------------------------------------------
\* sync_get: through a device that is gone
GetGone(u) ==
    /\ pc[u] = "get" /\ ~kinect
    /\ Crash
    /\ UNCHANGED <<clientVars, loopVars, pending_runloop_tasks, runloop_lock, ctx, kinect,
                   ringLock, ringVars, devVars, outVars>>

\* sync_get: take the frame in the middle buffer ...
TakeFrame_NotRechecked(u) ==
    LET s == want[u].stream IN
    /\ pc[u] \in {"get", "wait"} /\ kinect /\ ringLock[s] = Free
    /\ valid[s] \/ pc[u] = "wait"
    /\ bufs' = [bufs EXCEPT ![s][0] = bufs[s][1], ![s][1] = bufs[s][0]]
    /\ held' = [held EXCEPT ![s] = bufs[s][1]]
    /\ got' = [got EXCEPT ![s] =
                 [data |-> content[s][bufs[s][1]], timestamp |-> timestamp[s]]]
    /\ valid' = [valid EXCEPT ![s] = FALSE]
    /\ Goto(u, "idle")
    /\ UNCHANGED <<want, loopVars, pending_runloop_tasks, runloop_lock, ctx, kinect, ringLock,
                   fmt, timestamp, devVars, crashed>>

TakeFrame(u) ==
    LET s == want[u].stream IN
    /\ pc[u] = "get" /\ kinect /\ ringLock[s] = Free
    /\ valid[s]
    /\ bufs' = [bufs EXCEPT ![s][0] = bufs[s][1], ![s][1] = bufs[s][0]]
    /\ held' = [held EXCEPT ![s] = bufs[s][1]]
    /\ got' = [got EXCEPT ![s] =
                 [data |-> content[s][bufs[s][1]], timestamp |-> timestamp[s]]]
    /\ valid' = [valid EXCEPT ![s] = FALSE]
    /\ Goto(u, "idle")
    /\ UNCHANGED <<want, loopVars, pending_runloop_tasks, runloop_lock, ctx, kinect, ringLock,
                   fmt, timestamp, devVars, crashed>>

\* ... or wait for one on cb_cond.
WaitFrame(u) ==
    LET s == want[u].stream IN
    /\ pc[u] = "get" /\ kinect /\ ringLock[s] = Free
    /\ ~valid[s]
    /\ Goto(u, "wait")
    /\ UNCHANGED <<want, loopVars, pending_runloop_tasks, runloop_lock, ctx, kinect, ringLock,
                   ringVars, devVars, outVars, crashed>>

\* runloop_enter ... the task ... runloop_exit
TaskEnter(u) ==
    /\ pc[u] = "enter" /\ runloop_lock = Free
    /\ runloop_lock' = u
    /\ Goto(u, "in")
    /\ UNCHANGED <<want, loopVars, pending_runloop_tasks, ctx, kinect, ringLock, ringVars,
                   devVars, outVars, crashed>>

TaskRun(u) ==
    /\ pc[u] = "in"
    /\ IF kinect THEN runloop_lock' = Free /\ Goto(u, "exit") /\ UNCHANGED crashed
       ELSE Crash /\ UNCHANGED <<runloop_lock, pc>>
    /\ UNCHANGED <<want, loopVars, pending_runloop_tasks, ctx, kinect, ringLock, ringVars,
                   devVars, outVars>>

-----------------------------------------------------------------------------
\* A client that waits for a frame of stream s is woken up by the signal.
Signal_Nobody(s) == UNCHANGED pc
Signal(s) ==
    LET waiting == {u \in Users : pc[u] = "wait" /\ want[u].stream = s} IN
    IF waiting = {} THEN UNCHANGED pc
    ELSE \E u \in waiting : Goto(u, "get")

\* producer_cb_inner: the camera has filled the stream's buffer with a frame, and
\* its callback runs in the thread t that handles USB events.
Deliver_NoSetBuffer(s, t) ==
    /\ running[s] /\ ringLock[s] = Free
    /\ camera' = [camera EXCEPT ![s] = (@ + 1) % FrameMod]
    /\ content' = [content EXCEPT ![s][proc_buf[s]] = camera'[s]]
    /\ bufs' = [bufs EXCEPT ![s][1] = bufs[s][2], ![s][2] = bufs[s][1]]
    /\ timestamp' = [timestamp EXCEPT ![s] = camera'[s]]
    /\ valid' = [valid EXCEPT ![s] = TRUE]
    /\ Signal(s)
    /\ UNCHANGED <<want, loopVars, pending_runloop_tasks, runloop_lock, ctx, kinect, ringLock,
                   fmt, running, proc_buf, outVars, crashed>>

Deliver(s, t) ==
    /\ running[s] /\ ringLock[s] = Free
    /\ camera' = [camera EXCEPT ![s] = (@ + 1) % FrameMod]
    /\ content' = [content EXCEPT ![s][proc_buf[s]] = camera'[s]]
    /\ bufs' = [bufs EXCEPT ![s][1] = bufs[s][2], ![s][2] = bufs[s][1]]
    /\ proc_buf' = [proc_buf EXCEPT ![s] = bufs[s][1]]
    /\ timestamp' = [timestamp EXCEPT ![s] = camera'[s]]
    /\ valid' = [valid EXCEPT ![s] = TRUE]
    /\ Signal(s)
    /\ UNCHANGED <<want, loopVars, pending_runloop_tasks, runloop_lock, ctx, kinect, ringLock,
                   fmt, running, outVars, crashed>>

\* The threads that may be handling USB events, all of them holding runloop_lock.
HandlesEvents(t) ==
    \/ t \in Users /\ pc[t] \in {"in", "change"} /\ kinect
    \/ t \in Loops /\ loopPc[t] \in {"events", "cleanup"} /\ ctx

\* init(): pending_runloop_tasks_wait_zero
LoopWaitZero_Skipped(l) ==
    /\ loopPc[l] = "zero"
    /\ loopPc' = [loopPc EXCEPT ![l] = "lock"]
    /\ UNCHANGED <<clientVars, thread, thread_running, pending_runloop_tasks, runloop_lock,
                   ctx, kinect, ringLock, ringVars, devVars, outVars, crashed>>

LoopWaitZero(l) ==
    /\ loopPc[l] = "zero"
    /\ pending_runloop_tasks = 0
    /\ loopPc' = [loopPc EXCEPT ![l] = "lock"]
    /\ UNCHANGED <<clientVars, thread, thread_running, pending_runloop_tasks, runloop_lock,
                   ctx, kinect, ringLock, ringVars, devVars, outVars, crashed>>

\* The way out of the loop begins with freenect_stop_video.
Leave(l) ==
    /\ loopPc' = [loopPc EXCEPT ![l] = "cleanup"]
    /\ running' = [s \in Streams |-> s # "video" /\ running[s]]

LoopLock(l) ==
    /\ loopPc[l] = "lock" /\ runloop_lock = Free
    /\ runloop_lock' = l
    /\ IF thread_running
       THEN IF ctx THEN /\ loopPc' = [loopPc EXCEPT ![l] = "events"]
                        /\ UNCHANGED <<running, crashed>>
            ELSE Crash /\ UNCHANGED <<loopPc, running>>
       ELSE Leave(l) /\ UNCHANGED crashed
    /\ UNCHANGED <<clientVars, thread, thread_running, pending_runloop_tasks, ctx, kinect,
                   ringLock, ringVars, proc_buf, content, camera, outVars>>

\* freenect_process_events returns ...
LoopUnlock(l) ==
    /\ loopPc[l] = "events"
    /\ loopPc' = [loopPc EXCEPT ![l] = "zero"]
    /\ runloop_lock' = Free
    /\ UNCHANGED <<clientVars, thread, thread_running, pending_runloop_tasks, ctx, kinect,
                   ringLock, ringVars, devVars, outVars, crashed>>

\* ... or fails.
LoopFails(l) ==
    /\ "events" \in Failures
    /\ loopPc[l] = "events"
    /\ Leave(l)
    /\ UNCHANGED <<clientVars, thread, thread_running, pending_runloop_tasks, runloop_lock,
                   ctx, kinect, ringLock, ringVars, proc_buf, content, camera, outVars,
                   crashed>>

AllStopped == [s \in Streams |-> FALSE]

\* The device is closed, its rings are freed and the context is shut down.
LoopCleanup(l) ==
    /\ loopPc[l] = "cleanup"
    /\ loopPc' = [loopPc EXCEPT ![l] = "ended"]
    /\ kinect' = FALSE
    /\ running' = AllStopped
    /\ proc_buf' = [s \in Streams |-> 0]
    /\ bufs' = [s \in Streams |-> NoBufs]
    /\ fmt' = [s \in Streams |-> "none"]
    /\ valid' = [s \in Streams |-> FALSE]
    /\ timestamp' = [s \in Streams |-> 0]
    /\ ctx' = FALSE
    /\ runloop_lock' = Free
    /\ held' = IF thread_running THEN held ELSE [s \in Streams |-> 0]  \* stopped by the client
    /\ UNCHANGED <<clientVars, thread, thread_running, pending_runloop_tasks, ringLock,
                   content, camera, got, crashed>>

-----------------------------------------------------------------------------
Calls(u) ==
    \/ \E s \in Streams, f \in Formats : GetCall(u, s, f)
    \/ TaskCall(u)
    \/ StopCall(u)

Client(u) ==
    \/ Join(u) \/ Announce(u) \/ Retire(u)
    \/ InitFails(u) \/ SetupOpen(u) \/ SetupKeep(u) \/ SetupStop(u) \/ SetupChange(u)
    \/ GetGone(u) \/ TakeFrame(u) \/ WaitFrame(u)
    \/ TaskEnter(u) \/ TaskRun(u)

Loop(l) == LoopWaitZero(l) \/ LoopLock(l) \/ LoopUnlock(l) \/ LoopFails(l) \/ LoopCleanup(l)

Events(s) == \E t \in Users \cup Loops : HandlesEvents(t) /\ Deliver(s, t)

Next ==
    /\ ~crashed
    /\ \/ \E u \in Users : Calls(u) \/ Client(u)
       \/ \E l \in Loops : Loop(l)
       \/ \E s \in Streams : Events(s)

Spec == Init /\ [][Next]_vars

\* Every thread gets to run, a mutex being granted in no particular order; the
\* cameras keep sending frames to the runloop that polls for them.
Fairness ==
    /\ \A u \in Users : WF_vars(~crashed /\ Client(u))
    /\ \A l \in Loops : WF_vars(~crashed /\ Loop(l))
    /\ \A s \in Streams : SF_vars(~crashed /\ Events(s))

FairSpec == Spec /\ Fairness

-----------------------------------------------------------------------------
Places == {"idle", "setup", "open", "ring", "change", "ready", "failed", "undo", "join",
           "get", "wait", "task", "enter", "in", "exit"}

TypeOK ==
    /\ pc \in [Users -> Places]
    /\ want \in [Users -> [op : {"get", "task"}, stream : Streams, format : Formats]]
    /\ loopPc \in [Loops -> {"none", "zero", "lock", "events", "cleanup", "ended"}]
    /\ thread \in Loops
    /\ thread_running \in BOOLEAN /\ ctx \in BOOLEAN /\ kinect \in BOOLEAN
    /\ pending_runloop_tasks \in 0..Cardinality(Users)
    /\ runloop_lock \in Users \cup Loops \cup {Free}
    /\ ringLock \in [Streams -> Users \cup {Free}]
    /\ bufs \in [Streams -> [0..2 -> 0..3]]
    /\ fmt \in [Streams -> Formats \cup {"none"}]
    /\ valid \in [Streams -> BOOLEAN] /\ running \in [Streams -> BOOLEAN]
    /\ timestamp \in [Streams -> 0..(FrameMod - 1)]
    /\ camera \in [Streams -> 0..(FrameMod - 1)]
    /\ proc_buf \in [Streams -> 0..3] /\ held \in [Streams -> 0..3]
    /\ content \in [Streams -> [1..3 -> 0..(FrameMod - 1)]]
    /\ got \in [Streams -> [data : 0..(FrameMod - 1), timestamp : 0..(FrameMod - 1)]]
    /\ crashed \in BOOLEAN

\* The three buffers of a ring are never mixed up: each is in one place, and the
\* one a running stream fills is bufs[2], as producer_cb_inner asserts.
RingsSound ==
    \A s \in Streams : running[s] =>
        /\ \A i, j \in 0..2 : bufs[s][i] = bufs[s][j] => i = j
        /\ proc_buf[s] = bufs[s][2]
        /\ proc_buf[s] # 0

\* The buffer handed out by sync_get is kept in bufs[0], away from the camera,
\* until the function is called again for the stream (libfreenect_sync.h), as long
\* as there is a ring: a runloop thread whose event handling fails frees it.
BufferValid == \A s \in Streams : held[s] # 0 /\ bufs[s] # NoBufs => held[s] = bufs[s][0]

\* The frame sync_get hands out is the one whose timestamp it hands out.
DataMatchesTimestamp == \A s \in Streams : got[s].data = got[s].timestamp

\* pending_runloop_tasks is the number of clients between its inc and its dec on
\* every path through setup_kinect and the runloop: the runloop thread neither
\* waits for a client that is gone nor overtakes one that is in.
TasksCounted ==
    pending_runloop_tasks =
        Cardinality({u \in Users : pc[u] \in {"open", "ring", "change", "ready", "failed",
                                              "undo", "enter", "in", "exit"}})

\* There is one runloop thread at a time, the one freenect_sync_stop joins.
OneRunloop == \A l \in Loops : Alive(l) => l = thread

\* A frame is returned in the format that was asked for.
FormatRequested ==
    [][\A u \in Users : pc[u] = "get" /\ pc'[u] = "idle"
           => fmt[want[u].stream] = want[u].format]_vars

\* A camera runs only for an open device in a live context, and never while its
\* ring is being replaced.
StreamsInContext ==
    \A s \in Streams : running[s] => ctx /\ kinect /\ ringLock[s] = Free

\* runloop_enter: "If this function is successful, then you can access
\* kinects[index]".
EnterGrantsKinect == \A u \in Users : pc[u] = "in" => kinect

\* A client that announced its task is let in between two rounds of events,
\* though the runloop thread takes and releases the lock all the time.
TaskServed == \A u \in Users : pc[u] \in {"open", "enter"} ~> pc[u] \notin {"open", "enter"}

\* A call for a frame returns.
GetReturns == \A u \in Users : pc[u] \in {"get", "wait"} ~> pc[u] = "idle"
=============================================================================
