------------------------------ MODULE MCPrograms -----------------------------
(* The three programs of the tracking system, each with what the others may  *)
(* send it: the pan controller (Controller), the tracking loop (Tracker) and *)
(* the visualizer (Visualizer).  `part' says which one runs; SoqSystem lets  *)
(* the first two run together.                                               *)
EXTENDS Controller

\* One command is beyond 90 degrees; the transmit buffer takes a line and a half.
MCCommands == {-120, 30}
MCLines == [l \in {"heading", "IMU:0"} |-> IF l = "heading" THEN 3 ELSE 1]

\* The three states, with errors that differ from their average
MCSamples ==
    {[valid |-> FALSE, raw |-> None, smoothed |-> 4, state |-> "IDLE"],
     [valid |-> TRUE, raw |-> 8, smoothed |-> 6, state |-> "TRACKING"],
     [valid |-> TRUE, raw |-> 4, smoothed |-> 4, state |-> "LOCKED"]}

\* Errors that agree and errors that do not, one of them near the centre
MCErrors == {-40, 0}

\* The constants of Tracker; its headings and its bound on the ticks under other names
CONSTANTS Errors, HeadingsSent, LockBand, LockHold, IdleHold, ImuStale, Spread, TrackerTime

\* Headings on both sides of the centre
MCHeadings == {30, 300}

\* The constants of Visualizer, likewise
CONSTANTS Samples, HeadingsShown, AudioStale, Timeline, EdgeHeading, MaxQueue, VisualizerTime

VARIABLES
    part,
    now, last_errors, smoothed_error, last_signal_time, in_lock_since, tracker_heading_deg,
    imu_last_update, controller_buffer, hostRx, line, command, packet, block, heard, steered,
    reported, calm,
    time, bridge, history, queue, sentAt, heading, seen, started, polled

tracker == INSTANCE Tracker
             WITH rx <- hostRx, Headings <- HeadingsSent, MaxTime <- TrackerTime

visualizer == INSTANCE Visualizer
                WITH now <- time, Headings <- HeadingsShown, MaxTime <- VisualizerTime

ASSUME TrackerAssumption == tracker!TimesAssumption /\ tracker!AnglesAssumption
ASSUME VisualizerAssumption == visualizer!TimesAssumption /\ visualizer!DataAssumption

trackerVars == <<now, last_errors, smoothed_error, last_signal_time, in_lock_since,
                 tracker_heading_deg, imu_last_update, controller_buffer, hostRx, line,
                 command, packet, block, heard, steered, reported, calm>>
visualizerVars == <<time, bridge, history, queue, sentAt, heading, seen, started, polled>>
allVars == <<part, vars, trackerVars, visualizerVars>>

MCInit ==
    /\ part \in {"Controller", "Tracker", "Visualizer"}
    /\ Init /\ (part # "Controller" => clock = 0 /\ imuReady)
    /\ tracker!Init
    /\ visualizer!Init

MCNext ==
    \/ part = "Controller" /\ Next /\ UNCHANGED <<part, trackerVars, visualizerVars>>
    \/ part = "Tracker" /\ tracker!Next /\ UNCHANGED <<part, vars, visualizerVars>>
    \/ part = "Visualizer" /\ visualizer!Next /\ UNCHANGED <<part, vars, trackerVars>>

MCSpec == MCInit /\ [][MCNext]_allVars

-----------------------------------------------------------------------------
\* A correction is the average of three errors that agree and were not used before.
CorrectionsAgree == tracker!CorrectionsAgree

\* LOCKED is reported only after LockHold in the band.
LockEarned == tracker!LockEarned

\* However the controller's lines are cut, the heading is the last complete line's.
HeadingReported == part = "Tracker" => tracker!TypeOK /\ tracker!HeadingReported

\* The state shown is as old as the panel says, and what is not shown as stale is recent.
StateSinceFirst ==
    part = "Visualizer" => visualizer!StateSinceFirst /\ visualizer!FreshIsRecent

\* The history holds the packets of the timeline, and the dot is where one of them puts it.
HistoryComplete == part = "Visualizer" => visualizer!HistoryComplete /\ visualizer!DotAmongHeadings
=============================================================================
