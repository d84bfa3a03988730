----------------------------- MODULE Subdevices -----------------------------
(***************************************************************************)
(* Opening and closing the subdevices of a Kinect (fnusb_open_subdevices in*)
(* usb_libusb10.c, freenect_open_device_by_camera_serial in core.c), call  *)
(* by call to libusb, any of which may fail.                               *)
(*                                                                         *)
(* bus is libusb's list of devices in its order.  An audio device whose    *)
(* firmware was launched leaves the bus and comes back at its end with a   *)
(* second interface.  Reading a device descriptor does not fail: since     *)
(* 1.0.16 libusb keeps it.  One device is open at a time; Device has more. *)
(*                                                                         *)
(* An operator named X_Y right before the operator X is a wrong variant of *)
(* X, kept to show that the properties tell it from X.                     *)
(***************************************************************************)
EXTENDS Integers, SequencesExt

CONSTANTS
    Buses,         \* buses the program may start with: sequences of USB devices
    Desc,          \* what libusb tells of each: kind, model, bus, parent, serial
    Loops,         \* how often the audio device is looked for after an upload (10)
    MaxOpen,       \* bound on the handles of one USB device that the run follows
    Images, Header, Page, Chunk

None == "none"
Kinds == {"camera", "motor", "audio"}
UsbDevices == DOMAIN Desc
LoopsAssumption == Loops \in Nat \ {0} /\ MaxOpen \in Nat
DescAssumption ==
    /\ None \notin UsbDevices
    /\ \A u \in UsbDevices : Desc[u].kind \in Kinds
    /\ Buses \subseteq Seq(UsbDevices)

VARIABLES
    bus,           \* the devices on the bus
    twoIfaces,     \* the audio devices whose firmware runs
    enabled,       \* ctx->enabled_subdevices
    dev,           \* the device structure and the locals of fnusb_open_subdevices
    opened,        \* libusb handles that were opened and not closed, of each USB device
    left,          \* the devices with a handle that was left open for its serial
    image, up, tag, sent, launched

loaderVars == <<image, up, tag, sent, launched>>
vars == <<bus, twoIfaces, enabled, dev, opened, left, loaderVars>>

Loader == INSTANCE FirmwareLoader

\* field: usb_cam.dev, usb_motor.dev and usb_audio.dev; devs: the list of devices the
\* function works with; flashing: the audio device whose serial it saved
NoDevice == [pc |-> "none", field |-> [k \in Kinds |-> None], viaAudio |-> FALSE,
             devs |-> <<>>, camera |-> None, flashing |-> None, loops |-> 0, asked |-> None]

Init ==
    /\ bus \in Buses
    /\ twoIfaces \in SUBSET {u \in UsbDevices : Desc[u].kind = "audio"}
    /\ enabled = {"motor", "camera"}
    /\ dev = NoDevice
    /\ opened = [u \in UsbDevices |-> 0]
    /\ left = {}
    /\ Loader!Init

\* Where a list has devices of a kind; the device at the one place there is
Matching(list, kind) == {n \in 1..Len(list) : Desc[list[n]].kind = kind}
The(list, places) == IF \E n \in places : places = {n} THEN list[Min(places)] ELSE None

\* A device of the kind with the camera's parent; else the only one on its bus, else
\* the only one of the system.
fnusb_find_sibling_device(list, cam, kind) ==
    LET onBus == {n \in Matching(list, kind) : Desc[list[n]].bus = Desc[cam].bus}
        kin   == {n \in onBus : Desc[list[n]].parent = Desc[cam].parent /\ Desc[cam].parent # None}
    IN  IF kin # {} THEN list[Min(kin)]
        ELSE IF The(list, onBus) # None THEN The(list, onBus)
        ELSE The(list, Matching(list, kind))

-----------------------------------------------------------------------------
\* The serials freenect_list_device_attributes lists: a camera that has none or does
\* not tell it is left out, and one that tells zeros goes by its audio device's.
Attributes(unreadable) ==
    LET serial(c) ==
            LET a == fnusb_find_sibling_device(bus, c, "audio") IN
            IF Desc[c].serial # "0000" \/ a \in unreadable \cup {None} THEN Desc[c].serial
            ELSE Desc[a].serial
        listed == SelectSeq(bus, LAMBDA c : Desc[c].kind = "camera" /\ Desc[c].serial # None
                                            /\ c \notin unreadable)
    IN  [i \in 1..Len(listed) |-> serial(listed[i])]

Newer(cam) == Desc[cam].model # "1414"
Does == "camera" \in enabled /\ Newer(dev.camera)    \* device_does_motor_control_with_audio

Holds(u) == Cardinality({k \in Kinds : dev.field[k] = u})
AllOpen(field) == \A k \in enabled : field[k] # None

\* fnusb_close_subdevices; freenect_open_device frees the device for a result below 0.
Failure_KeepsMotor(res) ==
    /\ opened' = [u \in UsbDevices |-> IF dev.field["motor"] = u THEN opened[u]
                                       ELSE opened[u] - Holds(u)]
    /\ dev' = IF res < 0 THEN NoDevice
              ELSE [dev EXCEPT !.pc = "open", !.field = NoDevice.field]

Failure(res) ==
    /\ opened' = [u \in UsbDevices |-> opened[u] - Holds(u)]
    /\ dev' = IF res < 0 THEN NoDevice
              ELSE [dev EXCEPT !.pc = "open", !.field = NoDevice.field]

Goes(pc) == dev' = [dev EXCEPT !.pc = pc] /\ UNCHANGED opened
Opens(k, u, pc) ==
    /\ dev' = [dev EXCEPT !.field[k] = u, !.pc = pc]
    /\ opened' = [opened EXCEPT ![u] = @ + 1]

\* freenect_open_device(index), for the serial s or None
OpenIndex(i, s) ==
    /\ dev.pc = "none"
    /\ \E n \in Matching(bus, "camera") :
         /\ Cardinality({m \in Matching(bus, "camera") : m <= n}) = i
         /\ dev' = [NoDevice EXCEPT !.pc = IF "camera" \in enabled THEN "camera" ELSE "motor",
                                    !.devs = bus, !.camera = bus[n], !.asked = s]
    /\ UNCHANGED <<bus, twoIfaces, enabled, opened, left, loaderVars>>

\* The index of the first camera listed with the serial is opened.
freenect_open_device_by_camera_serial(s, unreadable) ==
    \E i \in DOMAIN Attributes(unreadable) :
        /\ Attributes(unreadable)[i] = s
        /\ \A j \in 1..i - 1 : Attributes(unreadable)[j] # s
        /\ OpenIndex(i, s)

OpenCamera ==
    /\ dev.pc = "camera"
    /\ \/ Failure(-1) /\ UNCHANGED enabled
       \/ /\ Opens("camera", dev.camera, IF Newer(dev.camera) THEN "led" ELSE "claimCamera")
          /\ enabled' = IF Newer(dev.camera)
                        THEN (enabled \ {"motor"})
                               \cup (IF "motor" \in enabled THEN {"audio"} ELSE {})
                        ELSE enabled
    /\ UNCHANGED <<bus, twoIfaces, left, loaderVars>>

\* fnusb_keep_alive_led: the audio device is opened, reset and closed, opened again
\* for the LED and closed; what fails is passed over.
KeepAliveLed ==
    LET a == fnusb_find_sibling_device(dev.devs, dev.camera, "audio")
        counts(n) == opened' = [opened EXCEPT ![a] = @ + n]
        goes(pc)  == dev' = [dev EXCEPT !.pc = pc]
    IN
    /\ \/ dev.pc = "led" /\ Goes("claimCamera")
       \/ dev.pc = "led" /\ a # None /\ goes("reset") /\ counts(1)
       \/ dev.pc = "reset" /\ goes("claimCamera") /\ counts(-1)
       \/ dev.pc = "reset" /\ Goes("lit")
       \/ dev.pc = "lit" /\ goes("claimCamera") /\ counts(-1)
    /\ UNCHANGED <<bus, twoIfaces, enabled, left, loaderVars>>

\* fnusb_claim_camera and the claims of the other handles
Claim ==
    /\ \/ dev.pc \in {"claimCamera", "claimMotor", "claimAudio"} /\ Failure(-1)
       \/ dev.pc = "claimCamera" /\ Goes("motor")
       \/ dev.pc = "claimMotor" /\ Goes("audio")
       \/ dev.pc = "claimAudio" /\ Goes("interfaces")
    /\ UNCHANGED <<bus, twoIfaces, enabled, left, loaderVars>>

OpenSibling(k, claim, next) ==
    LET u == fnusb_find_sibling_device(dev.devs, dev.camera, k) IN
    /\ dev.pc = k
    /\ \/ k \notin enabled /\ Goes(next)
       \/ k \in enabled /\ Failure(-1)
       \/ k \in enabled /\ u # None /\ Opens(k, u, claim)
    /\ UNCHANGED <<bus, twoIfaces, enabled, left, loaderVars>>

\* Firmware that runs has a second interface; without it the serial is read.
Interfaces ==
    LET a == dev.field["audio"] IN
    /\ dev.pc = "interfaces"
    /\ \/ /\ a \in twoIfaces
          /\ dev' = [dev EXCEPT !.pc = "finish", !.viaAudio = Does]
          /\ UNCHANGED opened
       \/ /\ a \notin twoIfaces
          /\ Failure(-1)
       \/ /\ a \notin twoIfaces
          /\ dev' = [dev EXCEPT !.pc = "upload", !.flashing = a]
          /\ UNCHANGED opened
    /\ UNCHANGED <<bus, twoIfaces, enabled, left, loaderVars>>

\* A device that was launched before answers no bootloader command.
Upload ==
    /\ dev.pc = "upload"
    /\ \/ Loader!NoFirmware
       \/ ~launched /\ \E i \in Images : Loader!upload_firmware(i)
       \/ Loader!Transfer
    /\ UNCHANGED <<bus, twoIfaces, enabled, dev, opened, left>>

UploadReturns ==
    /\ dev.pc = "upload" /\ up.pc = "done"
    /\ up' = Loader!Idle
    /\ tag' = 0
    /\ IF up.res < 0 THEN Failure(-1)
       ELSE /\ dev' = [dev EXCEPT !.pc = "wait", !.field["audio"] = None]
            /\ opened' = [opened EXCEPT ![dev.field["audio"]] = @ - 1]
    /\ UNCHANGED <<bus, twoIfaces, enabled, left, image, sent, launched>>

\* One look through the bus for the serial of the device, at duds that do not open,
\* tell their serial or let themselves be claimed.  The handle of a device that tells
\* another serial is not closed.
LookAgain(duds) ==
    LET audios  == {n \in Matching(bus, "audio") : bus[n] \notin duds}
        ours(n) == Desc[bus[n]].serial = Desc[dev.flashing].serial
        hits    == {n \in audios : ours(n) /\ bus[n] \in twoIfaces}
        others  == {bus[n] : n \in {m \in audios : ~ours(m) /\ (hits = {} \/ m < Min(hits))}}
        dropped == [u \in UsbDevices |-> opened[u] + (IF u \in others THEN 1 ELSE 0)]
    IN
    /\ dev.pc = "wait" /\ dev.loops < Loops
    /\ \A u \in UsbDevices : dropped[u] <= MaxOpen
    /\ left' = left \cup others
    /\ IF hits # {}
       THEN /\ dev' = [dev EXCEPT !.field["audio"] = bus[Min(hits)], !.viaAudio = Does,
                                  !.pc = "finish"]
            /\ opened' = [dropped EXCEPT ![bus[Min(hits)]] = @ + 1]
       ELSE /\ dev' = [dev EXCEPT !.loops = @ + 1]
            /\ opened' = dropped
    /\ UNCHANGED <<bus, twoIfaces, enabled, loaderVars>>

Ends == dev.pc = "finish" \/ (dev.pc = "wait" /\ dev.loops = Loops)

\* The result is the last one, of success, whether all handles are there or not.
Finish_Keeps ==
    /\ Ends
    /\ Goes("open")
    /\ UNCHANGED <<bus, twoIfaces, enabled, left, loaderVars>>

Finish ==
    /\ Ends
    /\ IF AllOpen(dev.field) THEN Goes("open") ELSE Failure(0)
    /\ UNCHANGED <<bus, twoIfaces, enabled, left, loaderVars>>

freenect_close_device ==
    /\ dev.pc = "open"
    /\ Failure(-1)
    /\ UNCHANGED <<bus, twoIfaces, enabled, left, loaderVars>>

\* At any time; what it changes is read by the next opening.
freenect_select_subdevices(flags) ==
    /\ dev.pc = "none"
    /\ enabled' = flags
    /\ UNCHANGED <<bus, twoIfaces, dev, opened, left, loaderVars>>

-----------------------------------------------------------------------------
\* The launched device leaves the bus, and comes back with a second interface.
Leave ==
    /\ launched
    /\ \E n \in 1..Len(bus) : bus[n] = dev.flashing /\ bus' = RemoveAt(bus, n)
    /\ twoIfaces' = twoIfaces \cup {dev.flashing}
    /\ launched' = FALSE /\ sent' = {}
    /\ UNCHANGED <<enabled, dev, opened, left, image, up, tag>>

Return(u) ==
    /\ u \in twoIfaces
    /\ \A i \in 1..Len(bus) : bus[i] # u
    /\ bus' = Append(bus, u)
    /\ UNCHANGED <<twoIfaces, enabled, dev, opened, left, loaderVars>>

Audios == {u \in UsbDevices : Desc[u].kind = "audio"}

Next ==
    \/ \E i \in 1..Cardinality(UsbDevices) : OpenIndex(i, None)
    \/ /\ dev.pc = "none"
       /\ \E s \in {Desc[u].serial : u \in UsbDevices} \ {None},
             unreadable \in SUBSET {u \in UsbDevices : Desc[u].kind # "motor"} :
             freenect_open_device_by_camera_serial(s, unreadable)
    \/ OpenCamera
    \/ KeepAliveLed
    \/ Claim
    \/ OpenSibling("motor", "claimMotor", "audio")
    \/ OpenSibling("audio", "claimAudio", "finish")
    \/ Interfaces
    \/ Upload
    \/ UploadReturns
    \/ \E duds \in SUBSET Audios : LookAgain(duds)
    \/ Finish
    \/ freenect_close_device
    \/ \E flags \in SUBSET Kinds : freenect_select_subdevices(flags)
    \/ Leave
    \/ \E u \in UsbDevices : Return(u)

Spec == Init /\ [][Next]_vars

-----------------------------------------------------------------------------
TypeOK ==
    /\ twoIfaces \subseteq Audios
    /\ enabled \subseteq Kinds
    /\ dev.field \in [Kinds -> UsbDevices \cup {None}]
    /\ opened \in [UsbDevices -> 0..MaxOpen + 1]
    /\ dev.loops \in 0..Loops

\* Between calls every handle that libusb opened is held by the device structure,
\* whatever failed on the way; only handles of another Kinect's audio device, met
\* while waiting for ours, are left open.
HandlesAccounted ==
    dev.pc \in {"none", "open"} => \A u \in UsbDevices \ left : opened[u] = Holds(u)

\* A device is handed to the caller with every subdevice that is enabled or with
\* none at all.
AllOrNone ==
    [][dev.pc # "open" /\ dev'.pc = "open" =>
         AllOpen(dev'.field) \/ dev'.field = NoDevice.field]_vars

\* The firmware that is launched is whole, whatever failed in this upload and in the
\* ones before it.
LaunchedWhole == Loader!LaunchedWhole

\* libfreenect.h: freenect_open_device_by_camera_serial opens the device "associated
\* with a particular camera subdevice serial number", or fails.
SerialOpensIts ==
    dev.asked # None /\ dev.field["camera"] # None =>
        dev.asked \in {Desc[u].serial : u \in {u \in UsbDevices :
                                                 Desc[u].parent = Desc[dev.camera].parent}}
=============================================================================
