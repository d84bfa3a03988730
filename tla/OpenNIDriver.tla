----------------------------- MODULE OpenNIDriver -----------------------------
(***************************************************************************)
(* The OpenNI2 driver (OpenNI2-FreenectDriver/src): Driver, Device, and    *)
(* the streams of a device, on the C++ wrapper.  The application is one    *)
(* thread, which calls the driver through OpenNI; the wrapper's thread of  *)
(* events makes the callbacks.                                             *)
(*                                                                         *)
(* The operations that start, stop, open or close something take several   *)
(* steps: where the application is in one is kept in `app'.  A device has  *)
(* at most one stream of a kind, so a stream is known by its device and    *)
(* kind.  The only mode of a stream is 640x480, and what is copied into a  *)
(* frame is in FrameFormats; here a frame is its time.                     *)
(*                                                                         *)
(* An operator named X_Y right before the operator X is a wrong variant of *)
(* X, kept to show that the properties tell it from X.                     *)
(***************************************************************************)
EXTENDS CxxWrapper

CONSTANTS
    Wrap,      \* a timestamp is a number of ticks modulo Wrap (2^32)
    MaxTime    \* bound: ticks

ASSUME ClockAssumption == Wrap \in Nat \ {0} /\ MaxTime \in Nat

VARIABLES
    devices,   \* the driver's map from URI to device; "absent" before initialize
    stream,    \* the streams of each device
    app,       \* the application's thread: what it is in the middle of
    time       \* the camera's clock, as it would be without Wrap

vars == <<ctx, dev, m_devices, loop, devices, stream, app, time>>
driver == <<devices, stream, app, time>>

Absent == -1
Idle == [pc |-> "idle"]
NoStream == [made |-> FALSE]
NewStream == [made |-> TRUE, running |-> FALSE, registration |-> FALSE, prev |-> 0, last |-> 0]
Made(d, k) == stream[d][k].made

Init ==
    /\ WrapperInit
    /\ devices = [i \in Indexes |-> Absent]
    /\ stream = <<>>
    /\ app = Idle
    /\ time = 0

-----------------------------------------------------------------------------
\* The driver lists the Kinects, in a loop over their indexes; each is opened, to ask
\* for its identifiers, and closed.
initialize ==
    /\ Alive /\ app = Idle
    /\ \E i \in Indexes : devices[i] = Absent
    /\ LET i == CHOOSE j \in Indexes : devices[j] = Absent IN
       /\ devices' = [devices EXCEPT ![i] = None]
       /\ \/ /\ CanOpen
             /\ FreenectDevice(i)
             /\ stream' = Append(stream, [k \in Kinds |-> NoStream])
             /\ app' = [pc |-> "close", d |-> NewId]
          \/ UNCHANGED <<dev, ctx, stream, app>>      \* "Unable to open device"
    /\ UNCHANGED <<m_devices, loop, time>>

CloseProbed ==
    /\ Alive /\ app.pc = "close"
    /\ freenect_close_device(app.d)
    /\ app' = Idle
    /\ UNCHANGED <<dev, m_devices, loop, devices, stream, time>>

\* createDevice: what the map holds for the index is deleted first (the driver never
\* creates a device twice); a constructor that throws leaves everything as it was.
createDevice(i, then) ==
    /\ m_devices[i] = None
    /\ \/ /\ CanOpen
          /\ FreenectDevice(i)
          /\ m_devices' = [m_devices EXCEPT ![i] = NewId]
          /\ devices' = [devices EXCEPT ![i] = NewId]
          /\ stream' = Append(stream, [k \in Kinds |-> NoStream])
          /\ app' = then
       \/ UNCHANGED <<dev, ctx, m_devices, devices, stream, app>>

\* A device that is open is returned again, and not opened.
deviceOpen(i) ==
    /\ Alive /\ app = Idle
    /\ devices[i] = None
    /\ createDevice(i, Idle)
    /\ UNCHANGED <<loop, time>>

Deleting(d, then) == [pc |-> "~Device", d |-> d, then |-> then]

deviceClose_Keeps(i) ==
    /\ Alive /\ app = Idle
    /\ devices[i] \in Ids
    /\ app' = Deleting(devices[i], Idle)
    /\ UNCHANGED <<ctx, dev, m_devices, loop, stream, devices, time>>

deviceClose(i) ==
    /\ Alive /\ app = Idle
    /\ devices[i] \in Ids
    /\ devices' = [devices EXCEPT ![i] = None]
    /\ app' = Deleting(devices[i], Idle)
    /\ UNCHANGED <<ctx, dev, m_devices, loop, stream, time>>

\* Opening and closing: what was open before is closed too (deviceClose).
tryDevice(i) ==
    /\ Alive /\ app = Idle
    /\ devices[i] = None
    /\ createDevice(i, [pc |-> "try", i |-> i])
    /\ UNCHANGED <<loop, time>>

TryCloses ==
    /\ Alive /\ app.pc = "try"
    /\ app' = Deleting(devices[app.i], Idle)
    /\ devices' = [devices EXCEPT ![app.i] = None]
    /\ UNCHANGED <<ctx, dev, m_devices, loop, stream, time>>

\* ~Device: the streams are destroyed, the colour stream first.  An exception in a
\* destructor ends the process.
DestroyOne ==
    /\ Alive /\ app.pc = "~Device"
    /\ \E k \in Kinds :
         /\ Made(app.d, k)
         /\ k = "depth" => ~Made(app.d, "video")
         /\ IF CanStop(app.d, k)
            THEN /\ dev' = [dev EXCEPT ![app.d] = Stopped(@, k)]
                 /\ stream' = [stream EXCEPT ![app.d][k] = NoStream]
                 /\ UNCHANGED loop
            ELSE /\ loop' = [loop EXCEPT !.pc = "ended"]
                 /\ UNCHANGED <<dev, stream>>
    /\ UNCHANGED <<ctx, m_devices, devices, app, time>>

\* ~FreenectDevice, and the entry of the map
CloseDeleted ==
    /\ Alive /\ app.pc = "~Device"
    /\ \A k \in Kinds : ~Made(app.d, k)
    /\ freenect_close_device(app.d)
    /\ m_devices' = [m_devices EXCEPT ![dev[app.d].index] = None]
    /\ app' = app.then
    /\ UNCHANGED <<dev, loop, devices, stream, time>>

\* shutdown deletes the devices that the wrapper still has, one after the other, and
\* forgets all.
InShutdown == [pc |-> "shutdown"]

shutdown ==
    /\ Alive /\ app \in {Idle, InShutdown}
    /\ \A i \in Indexes : devices[i] # Absent
    /\ IF \A i \in Indexes : m_devices[i] = None
       THEN devices' = [i \in Indexes |-> Absent] /\ app' = Idle
       ELSE /\ \E i \in Indexes : /\ m_devices[i] # None
                                /\ app' = Deleting(m_devices[i], InShutdown)
            /\ UNCHANGED devices
    /\ UNCHANGED <<ctx, dev, m_devices, loop, stream, time>>

-----------------------------------------------------------------------------
\* DepthStream::setVideoMode, ColorStream::setVideoMode
setVideoMode(record, k, registration) ==
    setFormat(record, k, CASE k = "video" -> "RGB"
                           [] k = "depth" /\ registration -> "REGISTERED"
                           [] OTHER -> "MM")

\* The stream's constructor: it sets the mode and starts the camera.  The device has no
\* pointer to the stream until the constructor returns.
createStream(d, k) ==
    /\ Alive /\ app = Idle
    /\ ~Made(d, k)
    /\ LET record == setVideoMode(dev[d], k, FALSE) IN
       /\ CanStart(record, k)
       /\ dev' = [dev EXCEPT ![d] = Started(record, k)]
    /\ app' = [pc |-> "new", d |-> d, k |-> k]
    /\ UNCHANGED <<ctx, m_devices, loop, devices, stream, time>>

Constructed ==
    /\ Alive /\ app.pc = "new"
    /\ stream' = [stream EXCEPT ![app.d][app.k] = NewStream]
    /\ app' = Idle
    /\ UNCHANGED <<ctx, dev, m_devices, loop, devices, time>>

destroyStream_DeletesFirst(d, k) ==
    /\ Alive /\ app = Idle
    /\ Made(d, k) /\ CanStop(d, k)
    /\ stream' = [stream EXCEPT ![d][k] = NoStream]
    /\ app' = [pc |-> "delete", d |-> d, k |-> k]
    /\ UNCHANGED <<ctx, dev, m_devices, loop, devices, time>>

\* A stream that the thread of events has stopped cannot be stopped: the exception
\* leaves it as it is.
destroyStream(d, k) ==
    /\ Alive /\ app = Idle
    /\ Made(d, k) /\ CanStop(d, k)
    /\ dev' = [dev EXCEPT ![d] = Stopped(@, k)]
    /\ app' = [pc |-> "delete", d |-> d, k |-> k]
    /\ UNCHANGED <<ctx, m_devices, loop, devices, stream, time>>

Delete ==
    /\ Alive /\ app.pc = "delete"
    /\ stream' = [stream EXCEPT ![app.d][app.k] = NoStream]
    /\ dev' = [dev EXCEPT ![app.d] = Stopped(@, app.k)]
    /\ app' = Idle
    /\ UNCHANGED <<ctx, m_devices, loop, devices, time>>

\* ONI_DEVICE_PROPERTY_IMAGE_REGISTRATION is passed to the depth stream, which is not
\* looked for first.
setImageRegistrationMode(d, on) ==
    /\ Alive /\ app = Idle
    /\ IF Made(d, "depth")
       THEN /\ stream' = [stream EXCEPT ![d]["depth"].registration = on]
            /\ dev' = [dev EXCEPT ![d] = setVideoMode(@, "depth", on)]
            /\ UNCHANGED loop
       ELSE /\ loop' = [loop EXCEPT !.pc = "ended"]
            /\ UNCHANGED <<stream, dev>>
    /\ UNCHANGED <<ctx, m_devices, devices, app, time>>

\* start and stop of the stream: buildFrame does something iff running.
Run(d, k, running) ==
    /\ Alive /\ app = Idle
    /\ Made(d, k) /\ stream[d][k].running # running
    /\ stream' = [stream EXCEPT ![d][k].running = running]
    /\ UNCHANGED <<ctx, dev, m_devices, loop, devices, app, time>>

Extended_Late(prev, timestamp) ==
    IF timestamp < prev /\ prev < Wrap THEN prev + ((timestamp - prev) % Wrap)
    ELSE timestamp

\* The 64-bit time of a 32-bit timestamp: the difference to the last one is taken
\* modulo 2^32.
Extended(prev, timestamp) ==
    IF timestamp < prev THEN prev + ((timestamp - (prev % Wrap)) % Wrap) ELSE timestamp

\* DepthCallback, VideoCallback and buildFrame, in the thread of events
buildFrame(d, k) ==
    /\ loop.pc = "events"
    /\ d \in Open /\ dev[d].running[k] /\ ~dev[d].dead
    /\ IF ~Made(d, k)
       THEN loop' = [loop EXCEPT !.pc = "lost"] /\ UNCHANGED <<stream, time>>
       ELSE /\ stream[d][k].running
            /\ time' \in (time + 1)..MaxTime
            /\ stream' = [stream EXCEPT ![d][k].prev = Extended(@, time' % Wrap),
                                        ![d][k].last = time']
            /\ UNCHANGED loop
    /\ UNCHANGED <<ctx, dev, m_devices, devices, app>>

-----------------------------------------------------------------------------
AppDevice == \E i \in Indexes : deviceOpen(i) \/ deviceClose(i) \/ tryDevice(i)

\* The application uses the devices it has opened.
AppStream ==
    \E i \in Indexes : devices[i] \in Ids /\
      \/ \E k \in Kinds : \/ createStream(devices[i], k)
                          \/ destroyStream(devices[i], k)
                          \/ \E running \in BOOLEAN : Run(devices[i], k, running)
      \/ \E on \in BOOLEAN : setImageRegistrationMode(devices[i], on)

Next ==
    \/ Events /\ UNCHANGED driver
    \/ initialize \/ CloseProbed \/ TryCloses \/ DestroyOne \/ CloseDeleted \/ shutdown
    \/ AppDevice \/ AppStream \/ Constructed \/ Delete
    \/ \E d \in 1..Len(dev), k \in Kinds : buildFrame(d, k)

Spec == Init /\ [][Next]_vars

-----------------------------------------------------------------------------
TypeOK ==
    /\ Open \subseteq 1..Len(dev) /\ Len(stream) = Len(dev)
    /\ m_devices \in [Indexes -> Ids \cup {None}]
    /\ devices \in [Indexes -> Ids \cup {None, Absent}]
    /\ loop.pc \in {"events", "walk", "lost", "ended"}
    /\ time \in 0..MaxTime

\* The application has no pointer to a device that is deleted, and each device that is
\* open can be reached to be closed: the maps of Driver and of Freenect are the same
\* between two calls, and hold the devices of the context.
MapsAgree ==
    Alive /\ app = Idle =>
      /\ \A i \in Indexes : devices[i] # Absent => devices[i] = m_devices[i]
      /\ Open = {m_devices[i] : i \in Indexes} \ {None}

\* The thread of events calls a device's stream that is not there only while a stream is
\* constructed: the camera is started before the device points to it.  Destroying a
\* stream leaves no such moment.
TargetsThere ==
    [][(\E d \in 1..Len(dev), k \in Kinds : buildFrame(d, k)) /\ loop'.pc = "lost" =>
          app.pc = "new"]_vars

\* The formats the wrapper remembers are the cameras', or a change back would be left
\* out; and a depth stream that delivers has the format of the registration mode it
\* reports.
FormatsTrue ==
    \A d \in Open :
      /\ dev[d].m_format = dev[d].format
      /\ app = Idle /\ Made(d, "depth") =>
           (stream[d]["depth"].registration <=> dev[d].format["depth"] = "REGISTERED")

\* Less than a round of the 32-bit clock apart, two frames are as far apart in the
\* timestamps given to OpenNI as they are in time, however long the stream has run, and
\* after any pause.
ClockTrue ==
    [][\A d \in 1..Len(dev), k \in Kinds :
         d <= Len(stream) /\ Made(d, k) /\ stream'[d][k].made
           /\ stream'[d][k].last # stream[d][k].last /\ stream[d][k].last > 0
           /\ stream'[d][k].last - stream[d][k].last < Wrap =>
         stream'[d][k].prev - stream[d][k].prev = stream'[d][k].last - stream[d][k].last]_vars

\* "A context, which manages aspects of thread safety when using multiple devices on
\* multiple threads" (doc/DoxygenMainpage.h): the thread that handles events does not
\* read a device that another thread has closed.
WalkInContext == loop.pc = "walk" /\ loop.at # None => loop.at \in Open
=============================================================================
