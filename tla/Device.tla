------------------------------- MODULE Device -------------------------------
(***************************************************************************)
(* Contexts and devices of libfreenect (core.c, with the opening of        *)
(* subdevices in usb_libusb10.c and the cameras' modes, starts and stops in*)
(* cameras.c), as one thread calls them.                                   *)
(*                                                                         *)
(* Each function is an action: what its transfers do is in IsoStream, where*)
(* a stop ends with every transfer freed.  A device that was freed while   *)
(* libusb held transfers of it stays in the model as "freed" to tell so.   *)
(* Cameras are started only on devices that have one: the code would pass  *)
(* NULL to libusb.                                                         *)
(*                                                                         *)
(* An operator named X_Y right before the operator X is a wrong variant of *)
(* X, kept to show that the properties tell it from X.                     *)
(***************************************************************************)
EXTENDS Integers, Sequences, SequencesExt

CONSTANTS
    Kinects,       \* the Kinects on the bus
    Model,         \* which model each one is
    Devs           \* the device structures there is memory for

ASSUME KinectsAssumption == Kinects # {} /\ Model \in [Kinects -> {"1414", "1473"}]
ASSUME DevsAssumption == Devs # {}

Subdevices == {"camera", "motor", "audio"}
Cameras == {"depth", "video"}
DepthModes == {"11BIT", "REGISTERED"}
VideoModes == {"RGB", "HighIR"}

VARIABLES
    enabled,       \* ctx->enabled_subdevices
    first,         \* the context's list of devices
    dev,           \* the device structures
    firmware       \* the Kinects whose audio firmware runs

vars == <<enabled, first, dev, firmware>>

NoDev == [state |-> "none", kinect |-> CHOOSE k \in Kinects : TRUE, handles |-> {},
          running |-> {}, inFlight |-> {}, tables |-> FALSE, dead |-> FALSE,
          depth |-> "11BIT", video |-> "RGB"]

Init ==
    /\ enabled = {"motor", "camera"}
    /\ first = <<>>
    /\ dev = [d \in Devs |-> NoDev]
    /\ firmware \in SUBSET Kinects

Open(d) == dev[d].state = "open"
Running(d, c) == c \in dev[d].running
Claimed(k, s) == \E d \in Devs : Open(d) /\ dev[d].kinect = k /\ s \in dev[d].handles

\* Flags that name no subdevice are masked out.
Masked(flags) == flags \cap Subdevices

freenect_select_subdevices(flags) ==
    /\ enabled' = Masked(flags)
    /\ UNCHANGED <<first, dev, firmware>>

-----------------------------------------------------------------------------
\* fnusb_open_subdevices turns the motor of a newer Kinect off and its audio on,
\* for this device and all later ones.
NewerKinect(k) == "camera" \in enabled /\ Model[k] = "1473"
Wanted(k) ==
    IF NewerKinect(k)
    THEN (enabled \ {"motor"}) \cup (IF "motor" \in enabled THEN {"audio"} ELSE {})
    ELSE enabled

\* The first free structure is allocated and appended to the list.
AppendDev(d) == first' = Append(first, d)

\* The subdevices open, with the audio firmware uploaded if it did not run;
\* freenect_camera_init may still fail, which leaves the device in the list.
freenect_open_device(k, d) ==
    /\ dev[d].state = "none"
    /\ \A s \in Wanted(k) : ~Claimed(k, s)
    /\ enabled' = Wanted(k)
    /\ firmware' = IF "audio" \in Wanted(k) THEN firmware \cup {k} ELSE firmware
    /\ dev' = [dev EXCEPT ![d] = [NoDev EXCEPT
                 !.state = "open", !.kinect = k, !.handles = Wanted(k)]]
    /\ AppendDev(d)

\* The audio device does not come back with its new firmware: every handle is
\* closed, but the result of the upload is returned and the device is kept.
OpenWithoutAudio(k, d) ==
    /\ dev[d].state = "none"
    /\ \A s \in Wanted(k) : ~Claimed(k, s)
    /\ "audio" \in Wanted(k) /\ k \notin firmware
    /\ enabled' = Wanted(k)
    /\ firmware' = firmware \cup {k}
    /\ dev' = [dev EXCEPT ![d] = [NoDev EXCEPT
                 !.state = "open", !.kinect = k, !.handles = {}]]
    /\ AppendDev(d)

\* A subdevice does not open: the ones that did are closed and nothing is kept but
\* the change of enabled_subdevices, if it came so far.
OpenFails(k) ==
    /\ enabled # {}
    /\ enabled' \in {enabled, Wanted(k)}
    /\ UNCHANGED <<first, dev, firmware>>

-----------------------------------------------------------------------------
\* A mode is looked up in the table by its number or by what it is.  Of one that is not
\* found only is_valid is set: what it names is what the memory held.
Invalid == "invalid"
FoundDepthModes(f) == IF f \in DepthModes THEN {f} ELSE DepthModes \cup {Invalid}
FoundVideoModes(f) == IF f \in VideoModes THEN {f} ELSE VideoModes \cup {Invalid}

\* freenect_set_depth_mode, _set_video_mode: not while the stream runs, and only to a
\* mode of the table; is_valid is not looked at.
freenect_set_depth_mode(d, m) ==
    /\ Open(d) /\ ~Running(d, "depth")
    /\ m \in DepthModes
    /\ dev' = [dev EXCEPT ![d].depth = m]
    /\ UNCHANGED <<enabled, first, firmware>>

freenect_set_video_mode(d, m) ==
    /\ Open(d) /\ ~Running(d, "video")
    /\ m \in VideoModes
    /\ dev' = [dev EXCEPT ![d].video = m]
    /\ UNCHANGED <<enabled, first, firmware>>

\* Registered depth needs the registration tables.
NeedsTables(m) == m = "REGISTERED"
freenect_init_registration(r) == [r EXCEPT !.tables = TRUE]

Starts(d, c, r) ==
    /\ Open(d) /\ "camera" \in dev[d].handles
    /\ ~Running(d, c)
    /\ dev' = [dev EXCEPT ![d] = [r EXCEPT !.running = @ \cup {c}, !.inFlight = @ \cup {c}]]
    /\ UNCHANGED <<enabled, first, firmware>>

freenect_start_depth(d) ==
    Starts(d, "depth", IF NeedsTables(dev[d].depth) THEN freenect_init_registration(dev[d])
                       ELSE dev[d])

freenect_start_video(d) ==
    /\ dev[d].video = "HighIR" => ~Running(d, "depth")
    /\ Starts(d, "video", dev[d])

\* The tables are freed, if there are any, and their pointers cleared.
freenect_destroy_registration(r) == [r EXCEPT !.tables = FALSE]

\* What is left of a device's cameras when these are stopped: fnusb_stop_iso gets
\* their transfers back, and freenect_stop_depth destroys the tables.
Stopped_TablesToo(r, cs) ==
    freenect_destroy_registration(
        [r EXCEPT !.running = @ \ cs, !.inFlight = @ \ (cs \cap r.running)])

Stopped(r, cs) ==
    LET left == [r EXCEPT !.running = @ \ cs, !.inFlight = @ \ (cs \cap r.running)] IN
    IF {"depth"} \subseteq cs \cap r.running THEN freenect_destroy_registration(left) ELSE left

\* freenect_stop_depth, freenect_stop_video
Stop(d, c) ==
    /\ Open(d) /\ Running(d, c)
    /\ dev' = [dev EXCEPT ![d] = Stopped(@, {c})]
    /\ UNCHANGED <<enabled, first, firmware>>

\* A callback finds the device gone.
Dies(d) ==
    /\ Open(d) /\ dev[d].running # {} /\ ~dev[d].dead
    /\ dev' = [dev EXCEPT ![d].dead = TRUE]
    /\ UNCHANGED <<enabled, first, firmware>>

\* The streams of the devices that are marked dead are stopped, all down the list.
Culled == {first[i] : i \in 1..Len(first)}

freenect_process_events ==
    /\ \E d \in Devs : Open(d) /\ dev[d].dead
    /\ dev' = [d \in Devs |-> IF d \in Culled /\ dev[d].dead THEN Stopped(dev[d], Cameras)
                              ELSE dev[d]]
    /\ UNCHANGED <<enabled, first, firmware>>

-----------------------------------------------------------------------------
\* freenect_camera_teardown stops the depth stream or else the video stream, and
\* destroys the tables when none runs.
Teardown_NoVideo(r) ==
    IF "depth" \in r.running THEN Stopped(r, {"depth"}) ELSE freenect_destroy_registration(r)

Teardown(r) ==
    IF "depth" \in r.running THEN Stopped(r, {"depth"})
    ELSE IF "video" \in r.running THEN Stopped(r, {"video"})
    ELSE freenect_destroy_registration(r)

\* The subdevices are closed and the device is freed; a structure that libusb still
\* holds transfers of is kept to show it.
Closed(r) ==
    LET left == IF "camera" \in r.handles THEN Teardown(r) ELSE r IN
    IF left.inFlight = {} /\ ~left.tables THEN NoDev
    ELSE [left EXCEPT !.state = "freed", !.handles = {}]

freenect_close_device(d) ==
    /\ Open(d)
    /\ dev' = [dev EXCEPT ![d] = Closed(@)]
    /\ \E i \in 1..Len(first) : first[i] = d /\ first' = RemoveAt(first, i)
    /\ UNCHANGED <<enabled, firmware>>

\* All the devices are closed; freenect_init makes the next context.
freenect_shutdown ==
    /\ dev' = [d \in Devs |-> IF \E i \in 1..Len(first) : first[i] = d THEN Closed(dev[d])
                              ELSE dev[d]]
    /\ first' = <<>>
    /\ enabled' = {"motor", "camera"}
    /\ UNCHANGED firmware

\* A Kinect is taken off the bus and put back: its audio firmware is gone.
Replug(k) ==
    /\ \A d \in Devs : Open(d) => dev[d].kinect # k
    /\ k \in firmware
    /\ firmware' = firmware \ {k}
    /\ UNCHANGED <<enabled, first, dev>>

Next ==
    \/ \E flags \in SUBSET Subdevices \cup {{"camera", "unknown"}} : freenect_select_subdevices(flags)
    \/ \E k \in Kinects :
         \/ \E d \in Devs : freenect_open_device(k, d) \/ OpenWithoutAudio(k, d)
         \/ OpenFails(k)
         \/ Replug(k)
    \/ \E d \in Devs :
         \/ \E f \in DepthModes \cup {Invalid} : \E m \in FoundDepthModes(f) : freenect_set_depth_mode(d, m)
         \/ \E f \in VideoModes \cup {Invalid} : \E m \in FoundVideoModes(f) : freenect_set_video_mode(d, m)
         \/ freenect_start_depth(d)
         \/ freenect_start_video(d)
         \/ \E c \in Cameras : Stop(d, c)
         \/ Dies(d)
         \/ freenect_close_device(d)
    \/ freenect_process_events
    \/ freenect_shutdown

Spec == Init /\ [][Next]_vars

-----------------------------------------------------------------------------
TypeOK ==
    /\ enabled \subseteq Subdevices
    /\ first \in Seq(Devs)
    /\ dev \in [Devs -> [state : {"none", "open", "freed"}, kinect : Kinects,
                         handles : SUBSET Subdevices,
                         running : SUBSET Cameras, inFlight : SUBSET Cameras,
                         tables : BOOLEAN, dead : BOOLEAN,
                         depth : DepthModes, video : VideoModes]]
    /\ firmware \subseteq Kinects

\* The context's list holds every open device, once: freenect_shutdown reaches
\* each of them, and freenect_process_events none that was freed.
ListExact ==
    /\ \A d \in Devs : Open(d) <=> \E i \in 1..Len(first) : first[i] = d
    /\ \A i, j \in 1..Len(first) : first[i] = first[j] => i = j

\* While registered depth is streamed its tables are there, whatever the other
\* stream and the other devices do.
TablesPresent ==
    \A d \in Devs : Open(d) /\ Running(d, "depth") /\ NeedsTables(dev[d].depth) => dev[d].tables

\* The three of them, together: what is proved of every context.
DevicesSound == TypeOK /\ ListExact /\ TablesPresent

\* A device is freed with transfers in flight only if both its cameras were
\* running: one stream is stopped by freenect_close_device.
OneStreamDrained ==
    [][\A d \in Devs :
         Open(d) /\ dev'[d].state = "freed" => dev[d].running = Cameras]_vars

\* libfreenect.h: freenect_close_device "closes a device that is currently open".
\* When it returns, libusb holds no transfer of the device it freed.
CloseDrains == \A d \in Devs : dev[d].state = "freed" => dev[d].inFlight = {}
=============================================================================
