----------------------------- MODULE MCTransfers -----------------------------
(* The two lives of a transfer side by side: the depth and video streams of  *)
(* a camera over libusb (IsoStream), and a stream on the emulation of libusb *)
(* (UsbEmulation).  They share no state: `part' says which one runs.         *)
EXTENDS IsoStream

CONSTANTS
    Endpoints, Num, MaxStarts, MaxHandles,      \* of UsbEmulation
    x1, x2

MCStreams == {"video", "depth"}
MCStopOrder == <<"video", "depth">>
TwoXfers == {x1, x2}

VARIABLES part, record, usbStream, handler, gone

usb == INSTANCE UsbEmulation WITH stream <- usbStream

ASSUME UsbAssumption == usb!NumAssumption

usbVars == <<record, usbStream, handler, gone>>
allVars == <<part, vars, usbVars>>

MCInit ==
    /\ part \in {"IsoStream", "UsbEmulation"}
    /\ Init /\ (part = "UsbEmulation" => cur = "depth")
    /\ usb!Init

MCNext ==
    \/ part = "IsoStream" /\ Next /\ UNCHANGED <<part, usbVars>>
    \/ part = "UsbEmulation" /\ usb!Next /\ UNCHANGED <<part, vars>>
    \/ part = "UsbEmulation" /\ UNCHANGED allVars      \* it may come to a halt

MCSpec ==
    /\ MCInit /\ [][MCNext]_allVars
    /\ part = "IsoStream" => Fairness

-----------------------------------------------------------------------------
\* The emulation loses no transfer, and its record of a device lasts as long as a list or
\* a handle refers to it.
TransfersAccounted == usb!TypeOK /\ usb!TransfersAccounted /\ usb!RecordKept

\* A stream that stops is stopped, unless the device is lost or the thread that reaps its
\* transfers was ending.
CancelledReturn ==
    part = "UsbEmulation" /\ usb!Fairness => usb!CancelledReturn

\* "or postpone the delivery to keep it in sync with libusb_handle_events()"
DeliveredInSync == usb!DeliveredInSync
=============================================================================
