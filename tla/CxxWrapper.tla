------------------------------ MODULE CxxWrapper ------------------------------
(***************************************************************************)
(* The C++ wrapper (wrappers/cpp/libfreenect.hpp) on the context of        *)
(* core.c: class Freenect with its thread of events and its map of         *)
(* devices, and class FreenectDevice with its two streams.                 *)
(*                                                                         *)
(* A FreenectDevice and the freenect_device it opens have one identifier;  *)
(* it is not used again, as it stands for a piece of memory.  The thread   *)
(* of events takes the list of devices step by step and without a lock,    *)
(* as freenect_process_events_timeout does; a piece of memory that is      *)
(* freed under it makes it "lost": what it reads next is not defined.      *)
(* An exception that leaves the thread, or a destructor, ends the process. *)
(*                                                                         *)
(* Stopping a stream waits for a callback that is being made (IsoStream),  *)
(* so a callback, a change of format and a start are steps.  The resolution*)
(* is always the medium one.                                               *)
(***************************************************************************)
EXTENDS Integers, SequencesExt, TLC

CONSTANTS
    Indexes,    \* the Kinects of the bus
    MaxOpens    \* bound: how often a device is opened

ASSUME OpensAssumption == MaxOpens \in Nat

VARIABLES
    ctx,        \* the context's list of devices
    dev,        \* every freenect_device ever allocated
    m_devices,  \* the wrapper's map
    loop        \* its thread: [pc, at, res]

wrapper == <<ctx, dev, m_devices, loop>>

Kinds == {"depth", "video"}
Ids == 1..MaxOpens
None == 0
Open == ToSet(ctx)
Alive == loop.pc \notin {"lost", "ended"}

WrapperInit ==
    /\ ctx = <<>>
    /\ dev = <<>>
    /\ m_devices = [i \in Indexes |-> None]
    /\ loop = [pc |-> "events", at |-> None, res |-> 0]

-----------------------------------------------------------------------------
CanOpen == Len(dev) < MaxOpens
NewId == Len(dev) + 1

\* freenect_open_device followed by the FreenectDevice's setVideoFormat and
\* setDepthFormat, which ask for the formats that freenect_camera_init has set: what
\* the fields held before they are compared makes no difference.
FreenectDevice(i) ==
    /\ dev' = Append(dev, [index |-> i, dead |-> FALSE,
                           running |-> [k \in Kinds |-> FALSE],
                           format |-> [depth |-> "11BIT", video |-> "RGB"],
                           m_format |-> [depth |-> "11BIT", video |-> "RGB"]])
    /\ ctx' = Append(ctx, NewId)

\* The device is unlinked; of one that is not in the list nothing is done.
freenect_close_device(d) ==
    ctx' = IF d \in Open THEN RemoveAt(ctx, CHOOSE p \in 1..Len(ctx) : ctx[p] = d) ELSE ctx

\* The new state of a device whose format is set; the stream is stopped for it.
setFormat(record, k, requested) ==
    IF requested = record.m_format[k] THEN record
    ELSE [record EXCEPT !.format[k] = requested, !.m_format[k] = requested]

CanStop(d, k) == dev[d].running[k]
Stopped(record, k) == [record EXCEPT !.running[k] = FALSE]
CanStart(record, k) == ~record.running[k]
Started(record, k) == [record EXCEPT !.running[k] = TRUE]

-----------------------------------------------------------------------------
\* The device is pulled out: its transfers are handed back as dead.
Unplug ==
    /\ Alive
    /\ \E d \in Open : ~dev[d].dead /\ dev' = [dev EXCEPT ![d].dead = TRUE]
    /\ UNCHANGED <<ctx, m_devices, loop>>

\* The thread has handled its events and turns to the list of devices.
WalkFirst ==
    /\ loop.pc = "events"
    /\ loop' = [pc |-> "walk", at |-> IF ctx = <<>> THEN None ELSE ctx[1], res |-> 0]
    /\ UNCHANGED <<ctx, dev, m_devices>>

\* The streams of a dead device are stopped, and the error is reported.
WalkDevice ==
    /\ loop.pc = "walk" /\ loop.at # None
    /\ IF loop.at \notin Open
       THEN loop' = [loop EXCEPT !.pc = "lost"] /\ UNCHANGED dev
       ELSE LET p == CHOOSE n \in 1..Len(ctx) : ctx[n] = loop.at IN
            /\ loop' = [loop EXCEPT !.at = IF p = Len(ctx) THEN None ELSE ctx[p + 1],
                                    !.res = IF dev[ctx[p]].dead THEN -1 ELSE @]
            /\ dev' = IF dev[loop.at].dead
                      THEN [dev EXCEPT ![loop.at].running = [k \in Kinds |-> FALSE]] ELSE dev
    /\ UNCHANGED <<ctx, m_devices>>

\* operator(): any error but LIBUSB_ERROR_INTERRUPTED is thrown out of the thread.
Again ==
    /\ loop.pc = "walk" /\ loop.at = None
    /\ loop' = [loop EXCEPT !.pc = IF loop.res < 0 THEN "ended" ELSE "events"]
    /\ UNCHANGED <<ctx, dev, m_devices>>

Events == Unplug \/ WalkFirst \/ WalkDevice \/ Again
=============================================================================
