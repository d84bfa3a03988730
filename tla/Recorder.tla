------------------------------- MODULE Recorder -------------------------------
(***************************************************************************)
(* fakenect-record (fakenect/record.c): a directory with the parameters of *)
(* the device, one file for every frame and reading of the accelerometer,  *)
(* and an index of them.  The line of the index is written before the file *)
(* it names, through a buffer of stdio; the process may be killed at any   *)
(* point.                                                                  *)
(*                                                                         *)
(* A frame is its type and its timestamp; of the pictures and the ffmpeg   *)
(* streams nothing is kept.                                                *)
(*                                                                         *)
(* An operator named X_Y right before the operator X is a wrong variant of *)
(* X, kept to show that the properties tell it from X.                     *)
(***************************************************************************)
EXTENDS Integers, Sequences, FiniteSetsExt

CONSTANTS
    Tilts,      \* what the accelerometer may read
    MaxEntries  \* bound on the entries of a recording

TiltsAssumption == 0 \notin Tilts
MaxEntriesAssumption == MaxEntries \in Nat

VARIABLES
    rec,        \* where the recorder is, and where it goes on when a file is written
    running,    \* cleared by the signal handler
    last_timestamp,
    log,        \* the index as the recorder wrote it
    files,      \* of each entry, its file: "empty", "part" or "whole"
    disk,       \* how many lines of the index are in the file
    torn,       \* does a part of the next line follow them?
    info,       \* is there a device.json?
    seen        \* what the Kinect sent: each frame, with the reading before it

recVars == <<rec, running, last_timestamp, log, files, disk, torn, info, seen>>

NoReading == 0

RecInit ==
    /\ rec = [pc |-> "start", back |-> "start"]
    /\ running = TRUE
    /\ last_timestamp = 0
    /\ log = <<>>
    /\ files = <<>>
    /\ disk = 0
    /\ torn = FALSE
    /\ info = FALSE
    /\ seen = <<>>

\* The last accelerometer entry of a sequence of entries
LastReading(entries) ==
    LET readings == {i \in 1..Len(entries) : entries[i].type = "a"}
    IN  IF readings = {} THEN NoReading ELSE entries[Max(readings)].tilt

-----------------------------------------------------------------------------
\* The streams run already, but no callback is set yet.
write_device_info ==
    /\ rec.pc = "start"
    /\ info' = TRUE
    /\ rec' = [pc |-> "events", back |-> "events"]
    /\ UNCHANGED <<running, last_timestamp, log, files, disk, torn, seen>>

\* dump: the line goes to the index, an empty file is made
OpenDump(entry, back) ==
    /\ Len(log) < MaxEntries
    /\ log' = Append(log, entry)
    /\ files' = Append(files, "empty")
    /\ rec' = [pc |-> "file", back |-> back]

\* dump ends: the file is written and closed.
WriteFile ==
    /\ rec.pc = "file"
    /\ files' = [files EXCEPT ![Len(files)] = "whole"]
    /\ rec' = [pc |-> rec.back, back |-> rec.back]
    /\ UNCHANGED <<running, last_timestamp, log, disk, torn, info, seen>>

Typed_AsDepth(t) == "d"
Typed(t) == t

\* depth_cb and rgb_cb, in freenect_process_events
FrameCallback(t) ==
    LET timestamp == last_timestamp + 1 IN
    /\ rec.pc = "events"
    /\ OpenDump([type |-> Typed(t), timestamp |-> timestamp, tilt |-> NoReading], "events")
    /\ last_timestamp' = timestamp
    /\ seen' = Append(seen, [type |-> t, timestamp |-> timestamp, tilt |-> LastReading(log)])
    /\ UNCHANGED <<running, disk, torn, info>>

\* freenect_process_events returned: the accelerometer is read, once a frame has come.
snapshot_accel ==
    /\ rec.pc = "events"
    /\ IF last_timestamp = 0
       THEN rec' = [pc |-> "loop", back |-> "loop"] /\ UNCHANGED <<log, files>>
       ELSE \E tilt \in Tilts :
              OpenDump([type |-> "a", timestamp |-> last_timestamp, tilt |-> tilt], "loop")
    /\ UNCHANGED <<running, last_timestamp, disk, torn, info, seen>>

\* The loop looks at running only here; then everything is closed.
Again ==
    /\ rec.pc = "loop"
    /\ IF running
       THEN rec' = [pc |-> "events", back |-> "events"] /\ UNCHANGED disk
       ELSE rec' = [pc |-> "closed", back |-> "closed"] /\ disk' = Len(log)
    /\ UNCHANGED <<running, last_timestamp, log, files, torn, info, seen>>

signal_cleanup ==
    /\ running /\ rec.pc \notin {"closed", "killed"}
    /\ running' = FALSE
    /\ UNCHANGED <<rec, last_timestamp, log, files, disk, torn, info, seen>>

\* The process dies: what stdio held back of the index, and of the file it was writing,
\* is lost.
Kill ==
    /\ rec.pc \in {"start", "events", "file", "loop"}
    /\ rec' = [pc |-> "killed", back |-> "killed"]
    /\ disk' \in 0..Len(log)
    /\ torn' \in BOOLEAN /\ (torn' => disk' < Len(log))
    /\ files' \in IF rec.pc = "file"
                  THEN {files, [files EXCEPT ![Len(files)] = "part"]} ELSE {files}
    /\ UNCHANGED <<running, last_timestamp, log, info, seen>>

RecNext ==
    \/ write_device_info
    \/ \E t \in {"d", "r"} : FrameCallback(t)
    \/ WriteFile
    \/ snapshot_accel
    \/ Again
    \/ signal_cleanup
    \/ Kill
=============================================================================
