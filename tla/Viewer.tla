-------------------------------- MODULE Viewer --------------------------------
(***************************************************************************)
(* The viewer of the examples (examples/glview.c): one thread handles the  *)
(* camera's events and changes the video format, the other draws and takes *)
(* the keys.  Pictures go from the callbacks to the window through buffers *)
(* that are swapped under gl_backbuf_mutex; the two formats are shared     *)
(* without it.                                                             *)
(*                                                                         *)
(* A callback holds the mutex from its beginning to its end, so it is one  *)
(* step that is taken while the window does not hold it.  A frame is its   *)
(* number.  The formats that a condition compares are read in one step.    *)
(* Keys that send one command (tilt, LED, flags, brightness) are left out, *)
(* as is the accelerometer: see Motor and CameraCommand.                   *)
(***************************************************************************)
EXTENDS Integers

CONSTANT MaxFrame          \* bound: the frames that are numbered
MaxFrameAssumption == MaxFrame \in Nat \ {0}

VARIABLES
    buffer,      \* of each stream: which buffer is "mid", "front" and, of rgb, "back"
    frame,       \* of each stream: the number of the frame in each buffer
    got,         \* got_depth, got_rgb: is it more than 0?
    camera,      \* [usr, depth, video]: the buffer libfreenect fills, and what runs
    requested_format, current_format,
    window,      \* the thread that draws: "test" and "take" hold the mutex
    events,      \* freenect_thread
    die,
    latest,      \* of each stream: the frames delivered
    shown        \* of each stream: the newest frame that the window took

vars == <<buffer, frame, got, camera, requested_format, current_format, window, events,
          die, latest, shown>>

Streams == {"depth", "rgb"}
NextFormat == [RGB |-> "YUV_RGB", YUV_RGB |-> "IR_8BIT", IR_8BIT |-> "RGB"]

Init ==
    /\ buffer = [depth |-> [mid |-> 1, front |-> 2],
                 rgb |-> [back |-> 1, mid |-> 2, front |-> 3]]
    /\ frame = [s \in Streams |-> [b \in 1..3 |-> 0]]
    /\ got = [s \in Streams |-> FALSE]
    /\ camera = [usr |-> 0, depth |-> FALSE, video |-> FALSE]
    /\ requested_format = "RGB" /\ current_format = "RGB"
    /\ window = "idle" /\ events = "setup"
    /\ die = FALSE
    /\ latest = [s \in Streams |-> 0]
    /\ shown = [s \in Streams |-> 0]

Unlocked == window \notin {"test", "take"}
Number(s) == IF latest[s] = MaxFrame THEN MaxFrame ELSE latest[s] + 1

-----------------------------------------------------------------------------
\* freenect_threadfunc, up to its loop: the results of the starts are not looked at.
Setup ==
    /\ events = "setup"
    /\ \E depth, video \in BOOLEAN :
         camera' = [usr |-> buffer["rgb"].back, depth |-> depth, video |-> video]
    /\ events' = "while"
    /\ UNCHANGED <<buffer, frame, got, requested_format, current_format, window, die,
                   latest, shown>>

\* The condition of the loop; freenect_process_events fails when a device is lost.
While ==
    /\ events = "while"
    /\ events' \in IF die THEN {"close"} ELSE {"process", "close"}
    /\ UNCHANGED <<buffer, frame, got, camera, requested_format, current_format, window,
                   die, latest, shown>>

Signalled(thread) == IF thread = "waiting" THEN "woken" ELSE thread

\* depth_cb writes the picture into the middle buffer.
depth_cb ==
    /\ events = "process" /\ camera.depth /\ Unlocked
    /\ frame' = [frame EXCEPT !["depth"][buffer["depth"].mid] = Number("depth")]
    /\ latest' = [latest EXCEPT !["depth"] = Number("depth")]
    /\ got' = [got EXCEPT !["depth"] = TRUE]
    /\ window' = Signalled(window)
    /\ UNCHANGED <<buffer, camera, requested_format, current_format, events, die, shown>>

\* rgb_cb: the buffer that was filled becomes the middle one, and the camera gets the
\* middle one, to be filled.
rgb_cb ==
    /\ events = "process" /\ camera.video /\ Unlocked
    /\ frame' = [frame EXCEPT !["rgb"][camera.usr] = Number("rgb"),
                              !["rgb"][buffer["rgb"].mid] = 0]
    /\ latest' = [latest EXCEPT !["rgb"] = Number("rgb")]
    /\ buffer' = [buffer EXCEPT !["rgb"].back = buffer["rgb"].mid, !["rgb"].mid = camera.usr]
    /\ camera' = [camera EXCEPT !.usr = buffer["rgb"].mid]
    /\ got' = [got EXCEPT !["rgb"] = TRUE]
    /\ window' = Signalled(window)
    /\ UNCHANGED <<requested_format, current_format, events, die, shown>>

\* freenect_process_events returns; the format is looked at without the mutex.
Processed ==
    /\ events = "process"
    /\ events' = IF requested_format # current_format THEN "set" ELSE "while"
    /\ camera' = [camera EXCEPT !.video = @ /\ requested_format = current_format]
    /\ UNCHANGED <<buffer, frame, got, requested_format, current_format, window, die,
                   latest, shown>>

\* freenect_set_video_mode, with the format that is requested now, and
\* freenect_start_video, which may fail
SetFormat ==
    /\ events = "set"
    /\ \E video \in BOOLEAN : camera' = [camera EXCEPT !.video = video]
    /\ events' = "current"
    /\ UNCHANGED <<buffer, frame, got, requested_format, current_format, window, die,
                   latest, shown>>

\* What is requested may have changed since the mode was set: then both formats agree,
\* and the camera has another.
SetCurrent ==
    /\ events = "current"
    /\ current_format' = requested_format
    /\ events' = "while"
    /\ UNCHANGED <<buffer, frame, got, camera, requested_format, window, die, latest, shown>>

Close ==
    /\ events = "close"
    /\ camera' = [camera EXCEPT !.depth = FALSE, !.video = FALSE]
    /\ events' = "ended"
    /\ UNCHANGED <<buffer, frame, got, requested_format, current_format, window, die,
                   latest, shown>>

-----------------------------------------------------------------------------
\* DrawGLScene takes the mutex, at first or after it has waited.
Lock ==
    /\ window \in {"idle", "woken"}
    /\ window' = "test"
    /\ UNCHANGED <<buffer, frame, got, camera, requested_format, current_format, events,
                   die, latest, shown>>

MustWait ==
    IF current_format = "YUV_RGB" THEN ~got["depth"] /\ ~got["rgb"]
    ELSE (~got["depth"] \/ ~got["rgb"]) /\ requested_format # current_format

Test ==
    /\ window = "test"
    /\ window' = IF MustWait THEN "waiting" ELSE "take"
    /\ UNCHANGED <<buffer, frame, got, camera, requested_format, current_format, events,
                   die, latest, shown>>

\* No frame is taken while a format is asked for; what has come is swapped to the front.
Take ==
    /\ window = "take"
    /\ IF requested_format # current_format
       THEN window' = "idle" /\ UNCHANGED <<buffer, got, shown>>
       ELSE /\ buffer' = [s \in Streams |->
                 IF got[s] THEN [buffer[s] EXCEPT !.front = buffer[s].mid, !.mid = buffer[s].front]
                 ELSE buffer[s]]
            /\ shown' = [s \in Streams |-> IF got[s] THEN latest[s] ELSE shown[s]]
            /\ got' = [s \in Streams |-> FALSE]
            /\ window' = "draw"
    /\ UNCHANGED <<frame, camera, requested_format, current_format, events, die, latest>>

\* The front buffers are drawn without the mutex.
Draw ==
    /\ window = "draw"
    /\ window' = "idle"
    /\ UNCHANGED <<buffer, frame, got, camera, requested_format, current_format, events,
                   die, latest, shown>>

\* keyPressed: 'f'
ChangeFormat ==
    /\ window = "idle"
    /\ requested_format' = NextFormat[requested_format]
    /\ UNCHANGED <<buffer, frame, got, camera, current_format, window, events, die,
                   latest, shown>>

\* keyPressed: escape.  The other thread is joined, then the buffers are freed.
Escape ==
    /\ window = "idle"
    /\ die' = TRUE
    /\ window' = "join"
    /\ UNCHANGED <<buffer, frame, got, camera, requested_format, current_format, events,
                   latest, shown>>

Joined ==
    /\ window = "join" /\ events = "ended"
    /\ window' = "exited"
    /\ UNCHANGED <<buffer, frame, got, camera, requested_format, current_format, events,
                   die, latest, shown>>

-----------------------------------------------------------------------------
freenect_threadfunc == Setup \/ While \/ Processed \/ SetFormat \/ SetCurrent \/ Close
DrawGLScene == Lock \/ Test \/ Take \/ Draw

Next == freenect_threadfunc \/ depth_cb \/ rgb_cb \/ DrawGLScene
          \/ ChangeFormat \/ Escape \/ Joined

Spec == Init /\ [][Next]_vars

\* Both threads run; the mutex is given to both, and the camera's depth frames come.
Fairness ==
    /\ WF_vars(freenect_threadfunc) /\ SF_vars(depth_cb)
    /\ WF_vars(DrawGLScene) /\ WF_vars(Joined)

-----------------------------------------------------------------------------
TypeOK ==
    /\ window \in {"idle", "test", "waiting", "woken", "take", "draw", "join", "exited"}
    /\ events \in {"setup", "while", "process", "set", "current", "close", "ended"}
    /\ latest \in [Streams -> 0..MaxFrame] /\ shown \in [Streams -> 0..MaxFrame]

\* "back: owned by libfreenect; mid: owned by callbacks, latest frame ready; front: owned
\* by GL": no buffer has two owners, however the formats change; what GL draws is the
\* newest frame it took, never an older one that was swapped back; and the buffers are
\* freed when no stream fills them.
BuffersOwned ==
    /\ buffer["depth"].mid # buffer["depth"].front
    /\ {buffer["rgb"].back, buffer["rgb"].mid, buffer["rgb"].front} = 1..3
    /\ events # "setup" => camera.usr = buffer["rgb"].back
    /\ \A s \in Streams : /\ frame[s][buffer[s].front] = shown[s]
                          /\ got[s] => frame[s][buffer[s].mid] = latest[s]
    /\ window = "exited" => ~camera.depth /\ ~camera.video

\* The window, which waits for a frame or for the change of a format, goes on as long
\* as depth frames come, and ends when it is told to.
WindowAnswers ==
    /\ window \in {"waiting", "woken", "test"} ~>
         window \in {"take", "draw", "idle"} \/ events = "ended" \/ ~camera.depth
    /\ window = "join" ~> window = "exited"
=============================================================================
