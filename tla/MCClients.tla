------------------------------- MODULE MCClients ------------------------------
(* What stands over and beside the library, each on its own: the OpenNI      *)
(* driver on the C++ wrapper (OpenNIDriver), fakenect playing a recording    *)
(* (Fakenect), the calls to the motor (Motor) and to the camera              *)
(* (CameraCommand).  They share no state: `part' says which one runs.        *)
EXTENDS OpenNIDriver

\* The constants of Motor, of Recorder and of CameraCommand
CONSTANTS Devs, Handles, Angles, Leds, MaxTag, Tilts, MaxEntries,
          K4W, Width, Flags, TagMod, Sessions, MaxFaults

MCHandles == {[motor |-> TRUE, audio |-> FALSE, viaAudio |-> FALSE],
              [motor |-> FALSE, audio |-> TRUE, viaAudio |-> TRUE]}

\* One angle is beyond what the motor takes, the other an odd number of half degrees.
MCAngles == {-70, 9}

MCSessions == {{"flag", "near", "get_ir", "set_ir"},
               {"flag", "get_exposure", "set_exposure", "mirror", "set_video_mode"},
               {"start_depth", "start_video", "stop", "set_video_mode", "init"}}

VARIABLES
    part,
    rec, running, last_timestamp, log, files, disk, torn, info, seen,
    play, loop_playback, line, watched, depth_mode, state, tables, shown,
    motorEnabled, handles, raw, tag_seq, motorCall, hw, work, pipe, missed,
    session, reg, inbox, reply, tag, call, camera, faults, unsure

fakenect == INSTANCE Fakenect

motor == INSTANCE Motor WITH call <- motorCall

commands == INSTANCE CameraCommand WITH dev <- camera

ASSUME FakenectAssumption == fakenect!TiltsAssumption /\ fakenect!MaxEntriesAssumption
ASSUME MotorAssumption ==
    motor!HandlesAssumption /\ motor!LedsAssumption /\ motor!BoundsAssumption
ASSUME CommandsAssumption ==
    commands!WidthAssumption /\ commands!FlagsAssumption /\ commands!FaultsAssumption

fakenectVars == <<rec, running, last_timestamp, log, files, disk, torn, info, seen,
                  play, loop_playback, line, watched, depth_mode, state, tables, shown>>
motorVars == <<motorEnabled, handles, raw, tag_seq, motorCall, hw, work, pipe, missed>>
commandVars == <<session, reg, inbox, reply, tag, call, camera, faults, unsure>>
allVars == <<part, vars, fakenectVars, motorVars, commandVars>>

MCInit ==
    /\ part \in {"OpenNIDriver", "Fakenect", "Motor", "CameraCommand"}
    /\ Init
    /\ fakenect!Init /\ (part # "Fakenect" => loop_playback)
    /\ motor!Init /\ (part # "Motor" => motorEnabled /\ \A d \in Devs : handles[d].motor)
    /\ commands!Init /\ (part # "CameraCommand" => "near" \in session)

MCNext ==
    \/ part = "OpenNIDriver" /\ Next /\ UNCHANGED <<part, fakenectVars, motorVars, commandVars>>
    \/ part = "Fakenect" /\ fakenect!Next /\ UNCHANGED <<part, vars, motorVars, commandVars>>
    \/ part = "Motor" /\ motor!Next /\ UNCHANGED <<part, vars, fakenectVars, commandVars>>
    \/ part = "CameraCommand" /\ commands!Next /\ UNCHANGED <<part, vars, fakenectVars, motorVars>>

MCSpec == MCInit /\ [][MCNext]_allVars

-----------------------------------------------------------------------------
\* The maps of the driver and of the wrapper agree, and the formats they remember are the
\* cameras'.
MapsTrue == part = "OpenNIDriver" => TypeOK /\ MapsAgree /\ FormatsTrue

\* fakenect shows the frames that were recorded, with the reading of their time, and ends
\* early only where the recording does.
ReplayFaithful ==
    part = "Fakenect" => /\ fakenect!TypeOK /\ fakenect!ReplayFaithful
                         /\ fakenect!ExitsAtTheLoss /\ fakenect!MetricHasTables

\* Until it gives a command up, a call on the motor takes its own reply and reading.
MotorTrue == motor!ReplyOwn /\ motor!StateTrue

\* Until a poll fails, a call to the camera that succeeds did what it says, and a stream
\* that runs is on.
CallsTrue ==
    commands!CallsTrue /\ [](part = "CameraCommand" => commands!TypeOK /\ commands!StreamsOn)
=============================================================================
