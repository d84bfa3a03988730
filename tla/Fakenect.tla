------------------------------- MODULE Fakenect -------------------------------
(***************************************************************************)
(* fakenect (fakenect/fakenect.c): the library's interface over a          *)
(* recording.  Each call of freenect_process_events plays one line of the  *)
(* index, and starts over at its end unless FAKENECT_LOOP says not to.  The*)
(* recording is the one Recorder left, whole or killed.                    *)
(*                                                                         *)
(* The pace is left out, as are the calls that only return a constant.     *)
(***************************************************************************)
EXTENDS Recorder

VARIABLES
    play,       \* "off", "on", "exited" or "crashed"
    loop_playback,
    line,       \* the line to read next, 0 when index_fp is NULL
    watched,    \* of "d" and "r": is the callback set, and does the stream run?
    depth_mode, \* "raw", or "metric" for FREENECT_DEPTH_REGISTERED and FREENECT_DEPTH_MM
    state,      \* the reading a client is told
    tables,     \* were the registration tables made?
    shown       \* the last frame a callback got, and the line it came from

playVars == <<play, loop_playback, line, watched, depth_mode, state, tables, shown>>
vars == <<rec, running, last_timestamp, log, files, disk, torn, info, seen,
          play, loop_playback, line, watched, depth_mode, state, tables, shown>>

NoFrame == [type |-> "none", timestamp |-> 0, tilt |-> NoReading, whole |-> TRUE, line |-> 0]

Init ==
    /\ RecInit
    /\ play = "off"
    /\ loop_playback \in BOOLEAN
    /\ line = 0
    /\ watched = [t \in {"d", "r"} |-> FALSE]
    /\ depth_mode = "raw"
    /\ state = NoReading
    /\ tables = FALSE
    /\ shown = NoFrame

-----------------------------------------------------------------------------
\* freenect_init: the parameters are read if they are there, and the tables made.
freenect_init ==
    /\ play = "off" /\ rec.pc \in {"closed", "killed"}
    /\ play' = "on"
    /\ tables' = info
    /\ UNCHANGED <<recVars, loop_playback, line, watched, depth_mode, state, shown>>

\* freenect_set_depth_callback, freenect_start_depth, freenect_stop_depth and the same of
\* video
Watch(t) ==
    /\ play = "on"
    /\ watched' = [watched EXCEPT ![t] = ~@]
    /\ UNCHANGED <<recVars, play, loop_playback, line, depth_mode, state, tables, shown>>

\* freenect_set_depth_mode never refuses.  The mode of video makes no difference here.
freenect_set_depth_mode ==
    /\ play = "on"
    /\ depth_mode' = IF depth_mode = "raw" THEN "metric" ELSE "raw"
    /\ UNCHANGED <<recVars, play, loop_playback, line, watched, state, tables, shown>>

\* parse_line failed, at the end of the index or on a file that cannot be read: both end
\* the round.
RoundOver(now) ==
    /\ line' = IF loop_playback THEN 0 ELSE now
    /\ UNCHANGED <<play, state, shown>>

\* What the callback gets; without tables a metric picture cannot be made.
ShowFrame(e, now, whole) ==
    /\ IF watched[e.type]
       THEN IF e.type = "d" /\ depth_mode = "metric" /\ ~tables
            THEN play' = "crashed" /\ UNCHANGED shown
            ELSE /\ shown' = [type |-> e.type, timestamp |-> e.timestamp, tilt |-> state,
                              whole |-> whole, line |-> now]
                 /\ UNCHANGED play
       ELSE UNCHANGED <<play, shown>>
    /\ UNCHANGED state

ShowReading(e) ==
    /\ state' = e.tilt
    /\ UNCHANGED <<play, shown>>

\* freenect_process_events: a line that names no file ends the program.
process_events ==
    LET now == IF line = 0 THEN 1 ELSE line IN
    /\ play = "on"
    /\ IF now > disk
       THEN IF torn /\ now = disk + 1
            THEN /\ play' = "exited"
                 /\ UNCHANGED <<line, state, shown>>
            ELSE RoundOver(now)
       ELSE IF files[now] = "empty" THEN RoundOver(now + 1)
       ELSE /\ line' = now + 1
            /\ IF log[now].type = "a"
               THEN IF files[now] = "whole" THEN ShowReading(log[now])
                    ELSE UNCHANGED <<play, state, shown>>
               ELSE ShowFrame(log[now], now, files[now] = "whole")
    /\ UNCHANGED <<recVars, loop_playback, watched, depth_mode, tables>>

Next ==
    \/ RecNext /\ UNCHANGED playVars
    \/ freenect_init
    \/ \E t \in {"d", "r"} : Watch(t)
    \/ freenect_set_depth_mode
    \/ process_events

\* A client calls freenect_process_events in a loop, as its comment asks.
Spec == Init /\ [][Next]_vars /\ WF_vars(process_events)

-----------------------------------------------------------------------------
TypeOK ==
    /\ play \in {"off", "on", "exited", "crashed"}
    /\ line \in 0..MaxEntries + 2
    /\ disk \in 0..Len(log) /\ Len(files) = Len(log)
    /\ state \in Tilts \cup {NoReading}

FramesUpTo(n) == Cardinality({i \in 1..n : log[i].type # "a"})

\* A client is shown the n-th frame of the recording as the n-th frame the Kinect sent,
\* with the reading that was current then once the round has played one; only the file
\* that was being written when the recorder was killed is shown damaged.
ReplayFaithful ==
    shown.line # 0 =>
      LET frame == seen[FramesUpTo(shown.line)]
      IN  /\ shown.type = frame.type /\ shown.timestamp = frame.timestamp
          /\ frame.tilt # NoReading => shown.tilt = frame.tilt
          /\ shown.whole \/ (rec.pc = "killed" /\ shown.line = Len(log))

\* A recording that was killed plays up to the entry that was lost.
ExitsAtTheLoss == play = "exited" => rec.pc = "killed" /\ line \in {0, disk + 1}

\* A recording of this recorder has the parameters that metric depth needs.
MetricHasTables == play # "crashed"
=============================================================================
