------------------------------ MODULE MCKinects ------------------------------
(* Kinects opened and closed: two of them in a context, call by call of the  *)
(* library (Device), and one of them, call by call to libusb (Subdevices).   *)
(* They share no state: `part' says which one runs.                          *)
EXTENDS Device

CONSTANTS
    Buses, Desc, Loops, MaxOpen, Images, Header, Page, Chunk,     \* of Subdevices
    d1, d2

TwoDevs == {d1, d2}
OneDev == {d1}
DevSymmetry == Permutations(TwoDevs)

MCModel == [k \in Kinects |-> IF k = "old" THEN "1414" ELSE "1473"]

Usb(kind, model, no, parent, serial) ==
    [kind |-> kind, model |-> model, bus |-> no, parent |-> parent, serial |-> serial]

\* A newer Kinect and an older one on one bus
MCDesc ==
    [cA |-> Usb("camera", "1473", 1, "hubA", "0000"), aA |-> Usb("audio", "1473", 1, "hubA", "sA"),
     cB |-> Usb("camera", "1414", 1, "hubB", "sB"),   mB |-> Usb("motor", "1414", 1, "hubB", "none"),
     aB |-> Usb("audio", "1414", 1, "hubB", "tB")]

MCBuses == {<<"cA", "aA", "cB", "mB", "aB">>, <<"cA", "cB", "mB">>}
MCImages == {[bytes |-> 1, size |-> 0], [bytes |-> 5, size |-> 5], [bytes |-> 4, size |-> 6]}

VARIABLES part, bus, twoIfaces, subEnabled, opening, opened, left, image, up, tag, sent, launched

sub == INSTANCE Subdevices WITH enabled <- subEnabled, dev <- opening

ASSUME SubdevicesAssumption == sub!LoopsAssumption /\ sub!DescAssumption
ASSUME LoaderAssumption == sub!Loader!ImagesAssumption /\ sub!Loader!SizesAssumption

subVars == <<bus, twoIfaces, subEnabled, opening, opened, left, image, up, tag, sent, launched>>
allVars == <<part, vars, subVars>>

MCInit ==
    /\ part \in {"Device", "Subdevices"}
    /\ Init /\ (part # "Device" => firmware = {})
    /\ sub!Init /\ (part # "Subdevices" => Len(bus) = 3 /\ twoIfaces = {})

MCNext ==
    \/ part = "Device" /\ Next /\ UNCHANGED <<part, subVars>>
    \/ part = "Subdevices" /\ sub!Next /\ UNCHANGED <<part, vars>>

MCSpec == MCInit /\ [][MCNext]_allVars

-----------------------------------------------------------------------------
\* Between calls every handle that libusb opened is held by the device, whatever failed.
HandlesAccounted == part = "Subdevices" => sub!TypeOK /\ sub!HandlesAccounted

\* A device is handed out with every subdevice that is enabled or with none at all.
AllOrNone == sub!AllOrNone

\* A firmware is launched only when it is whole.
LaunchedWhole == part = "Subdevices" => sub!LaunchedWhole

\* freenect_open_device_by_camera_serial opens the device "associated with a particular
\* camera subdevice serial number".
SerialOpensIts == sub!SerialOpensIts
=============================================================================
