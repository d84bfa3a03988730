------------------------------ MODULE IsoStream ------------------------------
(***************************************************************************)
(* The isochronous streams of one USB camera handle                        *)
(* (libfreenect/src/usb_libusb10.c: fnusb_start_iso, iso_callback,         *)
(* fnusb_stop_iso), driven by the start/stop calls of cameras.c and by     *)
(* freenect_process_events_timeout of core.c.                              *)
(*                                                                         *)
(* A stream owns a fixed set of transfers.  A transfer handed to libusb    *)
(* comes back through iso_callback, which either resubmits it or retires   *)
(* it and adds one to dead_xfers; fnusb_stop_iso waits for dead_xfers to   *)
(* reach num_xfers before it frees the transfers.  One thread calls the    *)
(* library (the discipline of examples/audio_capture.c and of the runloop  *)
(* of wrappers/c_sync); callbacks run inside its libusb event handling,    *)
(* which also happens inside every synchronous register write.             *)
(*                                                                         *)
(* An operator named X_Y right before the operator X is a wrong variant of *)
(* X, kept to show that the properties tell it from X.                     *)
(***************************************************************************)
EXTENDS Integers, Sequences, FiniteSets

CONSTANTS
    Streams,    \* the streams of the handle: depth and video
    Xfers,      \* the transfers of a stream (NUM_XFERS of them)
    StopOrder,  \* the order in which process_events stops dead streams
    AllocFails  \* can libusb_alloc_transfer return NULL?

ASSUME XfersAssumption == IsFiniteSet(Xfers) /\ Xfers # {}
ASSUME StreamsAssumption ==
    /\ StopOrder \in Seq(Streams)
    /\ \A s \in Streams : \E k \in 1..Len(StopOrder) : StopOrder[k] = s
ASSUME AllocAssumption == AllocFails \in BOOLEAN

VARIABLES
    plugged,      \* is the Kinect on the bus?
    device_dead,  \* fnusb_dev.device_dead
    running,      \* packet_stream.running of each stream
    dead,         \* fnusb_isoc_stream.dead
    dead_xfers,   \* fnusb_isoc_stream.dead_xfers
    xfer,         \* where each transfer is
    pc,           \* where the library's caller is
    cur,          \* the stream a start or a stop is working on
    cull          \* position in StopOrder of process_events' clean-up, 0: none

vars == <<plugged, device_dead, running, dead, dead_xfers, xfer, pc, cur, cull>>

num_xfers == Cardinality(Xfers)

\* A transfer is unallocated ("free"), a NULL pointer ("null"), owned by libusb
\* ("queued", or "cancelling" after libusb_cancel_transfer) or back for good.
XferState == {"free", "null", "queued", "cancelling", "retired"}
InFlight == {"queued", "cancelling"}
Gone == {"null", "retired"}

\* Of the transfers t of one stream.
Flying(t) == {x \in Xfers : t[x] \in InFlight}
GoneXfers(t) == {x \in Xfers : t[x] \in Gone}
Allocated(t) == \A x \in Xfers : t[x] # "free"

\* libusb events are handled in these places, so callbacks run in them.
HandlesEvents == pc \in {"events", "regs", "stopregs", "wait"}

-----------------------------------------------------------------------------
Init ==
    /\ plugged = TRUE
    /\ device_dead = FALSE
    /\ running = [s \in Streams |-> FALSE]
    /\ dead = [s \in Streams |-> FALSE]
    /\ dead_xfers = [s \in Streams |-> 0]
    /\ xfer = [s \in Streams |-> [x \in Xfers |-> "free"]]
    /\ pc = "user"
    /\ cur \in Streams
    /\ cull = 0

\* What fnusb_start_iso can make of each transfer: submission fails for certain
\* when the device is gone, and may fail (bandwidth) when it is not.
Submissions ==
    [Xfers -> {"retired"} \cup (IF plugged THEN {"queued"} ELSE {})
                          \cup (IF AllocFails THEN {"null"} ELSE {})]

\* freenect_start_depth/_video up to fnusb_start_iso, which never fails.
StartIso(s) ==
    /\ pc = "user"
    /\ ~running[s]
    /\ \E sub \in Submissions :
        /\ xfer' = [xfer EXCEPT ![s] = sub]
        /\ dead_xfers' = [dead_xfers EXCEPT
                            ![s] = Cardinality(GoneXfers(sub))]
    /\ dead' = [dead EXCEPT ![s] = FALSE]
    /\ cur' = s
    /\ pc' = "regs"
    /\ UNCHANGED <<plugged, device_dead, running, cull>>

\* The register writes are over; only now is the stream marked running.
FinishStart ==
    /\ pc = "regs"
    /\ running' = [running EXCEPT ![cur] = TRUE]
    /\ pc' = "user"
    /\ UNCHANGED <<plugged, device_dead, dead, dead_xfers, xfer, cur, cull>>

\* freenect_stop_depth/_video: clear running, then write the stop register.
BeginStop(s) ==
    /\ running[s]
    /\ running' = [running EXCEPT ![s] = FALSE]
    /\ cur' = s
    /\ pc' = "stopregs"

UserStop(s) ==
    /\ pc = "user"
    /\ BeginStop(s)
    /\ UNCHANGED <<plugged, device_dead, dead, dead_xfers, xfer, cull>>

CancelAll_NotDead ==
    /\ pc = "stopregs"
    /\ xfer' = [xfer EXCEPT ![cur] = [x \in Xfers |->
                    IF xfer[cur][x] = "queued" THEN "cancelling" ELSE xfer[cur][x]]]
    /\ pc' = IF \E x \in Xfers : xfer[cur][x] = "null" THEN "crashed" ELSE "wait"
    /\ UNCHANGED <<plugged, device_dead, running, dead, dead_xfers, cur, cull>>

\* fnusb_stop_iso marks the stream dead and cancels every transfer; handing
\* libusb_cancel_transfer a NULL transfer crashes the process.
CancelAll ==
    /\ pc = "stopregs"
    /\ dead' = [dead EXCEPT ![cur] = TRUE]
    /\ xfer' = [xfer EXCEPT ![cur] = [x \in Xfers |->
                    IF xfer[cur][x] = "queued" THEN "cancelling" ELSE xfer[cur][x]]]
    /\ pc' = IF \E x \in Xfers : xfer[cur][x] = "null" THEN "crashed" ELSE "wait"
    /\ UNCHANGED <<plugged, device_dead, running, dead_xfers, cur, cull>>

Release_OneEarly ==
    /\ pc = "wait"
    /\ dead_xfers[cur] >= num_xfers - 1
    /\ xfer' = [xfer EXCEPT ![cur] = [x \in Xfers |-> "free"]]
    /\ pc' = IF cull = 0 THEN "user" ELSE "cull"
    /\ cull' = IF cull = 0 THEN 0 ELSE cull + 1
    /\ UNCHANGED <<plugged, device_dead, running, dead, dead_xfers, cur>>

\* The wait loop of fnusb_stop_iso ends: free every transfer and the buffers.
Release ==
    /\ pc = "wait"
    /\ dead_xfers[cur] >= num_xfers
    /\ xfer' = [xfer EXCEPT ![cur] = [x \in Xfers |-> "free"]]
    /\ pc' = IF cull = 0 THEN "user" ELSE "cull"
    /\ cull' = IF cull = 0 THEN 0 ELSE cull + 1
    /\ UNCHANGED <<plugged, device_dead, running, dead, dead_xfers, cur>>

-----------------------------------------------------------------------------
\* iso_callback for transfer x of stream s, by what libusb reports.
Callback(s, x) == HandlesEvents /\ x \in Flying(xfer[s])

Retire(s, x) ==
    /\ xfer' = [xfer EXCEPT ![s][x] = "retired"]
    /\ dead_xfers' = [dead_xfers EXCEPT ![s] = @ + 1]

\* The stream is being stopped: whatever the status, only count.
CompleteDead(s, x) ==
    /\ Callback(s, x)
    /\ dead[s]
    /\ Retire(s, x)
    /\ UNCHANGED <<plugged, device_dead, running, dead, pc, cur, cull>>

\* COMPLETED (its packets delivered) or another error: the transfer goes back.
Resubmit(s, x) ==
    /\ Callback(s, x)
    /\ ~dead[s]
    /\ plugged
    /\ UNCHANGED vars

\* The same, but libusb refuses the transfer; only NO_DEVICE, the answer for a
\* device that is gone, marks the device.
ResubmitFails_Uncounted(s, x) ==
    /\ Callback(s, x)
    /\ ~dead[s]
    /\ xfer' = [xfer EXCEPT ![s][x] = "retired"]
    /\ device_dead' = (device_dead \/ ~plugged)
    /\ UNCHANGED <<plugged, running, dead, dead_xfers, pc, cur, cull>>

ResubmitFails(s, x) ==
    /\ Callback(s, x)
    /\ ~dead[s]
    /\ Retire(s, x)
    /\ device_dead' = (device_dead \/ ~plugged)
    /\ UNCHANGED <<plugged, running, dead, pc, cur, cull>>

DeviceLost_Unmarked(s, x) ==
    /\ Callback(s, x)
    /\ ~dead[s]
    /\ ~plugged
    /\ Retire(s, x)
    /\ UNCHANGED <<plugged, device_dead, running, dead, pc, cur, cull>>

\* NO_DEVICE, or a CANCELLED nobody asked for: the device is gone.
DeviceLost(s, x) ==
    /\ Callback(s, x)
    /\ ~dead[s]
    /\ ~plugged
    /\ Retire(s, x)
    /\ device_dead' = TRUE
    /\ UNCHANGED <<plugged, running, dead, pc, cur, cull>>

IsoCallback(s, x) ==
    \/ CompleteDead(s, x)
    \/ Resubmit(s, x)
    \/ ResubmitFails(s, x)
    \/ DeviceLost(s, x)

-----------------------------------------------------------------------------
\* freenect_process_events_timeout: handle events, then stop the streams of a
\* device that an iso_callback marked dead.
ProcessEvents ==
    /\ pc = "user"
    /\ pc' = "events"
    /\ UNCHANGED <<plugged, device_dead, running, dead, dead_xfers, xfer, cur, cull>>

EventsDone ==
    /\ pc = "events"
    /\ pc' = IF device_dead THEN "cull" ELSE "user"
    /\ cull' = IF device_dead THEN 1 ELSE 0
    /\ UNCHANGED <<plugged, device_dead, running, dead, dead_xfers, xfer, cur>>

CullStop ==
    /\ pc = "cull"
    /\ cull <= Len(StopOrder)
    /\ BeginStop(StopOrder[cull])
    /\ UNCHANGED <<plugged, device_dead, dead, dead_xfers, xfer, cull>>

CullSkip ==
    /\ pc = "cull"
    /\ cull <= Len(StopOrder)
    /\ ~running[StopOrder[cull]]
    /\ cull' = cull + 1
    /\ UNCHANGED <<plugged, device_dead, running, dead, dead_xfers, xfer, pc, cur>>

CullDone ==
    /\ pc = "cull"
    /\ cull > Len(StopOrder)
    /\ pc' = "user"
    /\ cull' = 0
    /\ UNCHANGED <<plugged, device_dead, running, dead, dead_xfers, xfer, cur>>

\* The environment: the cable is pulled.
Unplug ==
    /\ plugged
    /\ plugged' = FALSE
    /\ UNCHANGED <<device_dead, running, dead, dead_xfers, xfer, pc, cur, cull>>

\* A crashed process takes no further step.
Crashed == pc = "crashed" /\ UNCHANGED vars

Library ==
    \/ FinishStart
    \/ CancelAll
    \/ Release
    \/ EventsDone
    \/ CullStop
    \/ CullSkip
    \/ CullDone

Next ==
    \/ \E s \in Streams : StartIso(s) \/ UserStop(s)
    \/ \E s \in Streams, x \in Xfers : IsoCallback(s, x)
    \/ Library
    \/ ProcessEvents
    \/ Unplug
    \/ Crashed

\* The library's own code runs on, libusb completes a cancelled transfer and
\* any transfer of a vanished device, and the application keeps pumping events.
Fairness ==
    /\ WF_vars(Library)
    /\ \A s \in Streams, x \in Xfers :
        WF_vars(CompleteDead(s, x)) /\ SF_vars(DeviceLost(s, x))
    /\ SF_vars(ProcessEvents)

Spec == Init /\ [][Next]_vars /\ Fairness

-----------------------------------------------------------------------------
TypeOK ==
    /\ plugged \in BOOLEAN
    /\ device_dead \in BOOLEAN
    /\ running \in [Streams -> BOOLEAN]
    /\ dead \in [Streams -> BOOLEAN]
    /\ dead_xfers \in [Streams -> Nat]
    /\ xfer \in [Streams -> [Xfers -> XferState]]
    /\ pc \in {"user", "regs", "stopregs", "wait", "events", "cull", "crashed"}
    /\ cur \in Streams
    /\ cull \in 0..(Len(StopOrder) + 1)

\* dead_xfers is the number of transfers that will not come back, each counted
\* once, through start failures, resubmission failures, loss and cancellation:
\* fnusb_stop_iso's wait neither ends early nor waits for one too many.
RetiredCounted ==
    \A s \in Streams : Allocated(xfer[s]) => dead_xfers[s] = Cardinality(GoneXfers(xfer[s]))

\* Each stream as TransferPool sees it.
phase == [s \in Streams |-> IF ~Allocated(xfer[s]) THEN "off"
                            ELSE IF dead[s] THEN "draining" ELSE "on"]
lent == [s \in Streams |-> Flying(xfer[s])]
Pool == INSTANCE TransferPool

\* The streams keep TransferPool's promise: transfers go to libusb only at a
\* start, and fnusb_stop_iso frees them only when it has every one back.
ImplementsPool == Pool!Spec

\* Between two library calls a stream has its transfers exactly if it is marked
\* running: no start or stop, of the user or of process_events, leaks them,
\* frees them twice, or leaves a running stream without them.
RunningIffAllocated ==
    pc \in {"user", "events"} => \A s \in Streams : running[s] <=> Allocated(xfer[s])

\* A stop that reached its wait loop comes out of it (fnusb_stop_iso).
StopCompletes == pc = "wait" ~> pc # "wait"

\* A stream whose device is unplugged while libusb holds transfers of it is
\* stopped: a callback marks the device and process_events acts on the mark (or
\* crashes, when the stop cancels a transfer that could not be allocated).
UnplugStops ==
    \A s \in Streams :
        (~plugged /\ running[s] /\ Flying(xfer[s]) # {}) ~> (~running[s] \/ pc = "crashed")
=============================================================================
