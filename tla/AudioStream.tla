----------------------------- MODULE AudioStream -----------------------------
(***************************************************************************)
(* The audio streams of a Kinect (audio.c).  A packet is sent whenever one *)
(* is due, with a header built from counters that step together.  Of a     *)
(* window of samples one block comes per channel, any of which may be      *)
(* lost; the first block of a later window makes iso_in_callback hand the  *)
(* buffers on as they are.  All windows are played into the same buffers.  *)
(*                                                                         *)
(* Samples are abstracted to the window they belong to.  fnusb_start_iso   *)
(* and fnusb_stop_iso always return 0 (IsoStream.tla), so the error paths  *)
(* of starting and stopping cannot be taken and are not modelled.          *)
(*                                                                         *)
(* An operator named X_Y right before the operator X is a wrong variant of *)
(* X, kept to show that the properties tell it from X.                     *)
(***************************************************************************)
EXTENDS Integers

CONSTANTS
    First, Second, Wrap,  \* where a window of packets ends: 0x2b, 0x56, 0x80
    Channels,             \* the channels that send: 1, the cancelled one, and 2..9
    Windows,              \* the windows the Kinect numbers its blocks with, 0 excepted
    MaxOut                \* bound on the windows sent

MarksAssumption ==
    /\ First \in Nat /\ Second \in Nat /\ Wrap \in Nat
    /\ 0 < First /\ First < Second /\ Second < Wrap
ChannelsAssumption == Channels \subseteq 1..9
WindowsAssumption == Windows \subseteq Nat \ {0}
MaxOutAssumption == MaxOut \in Nat

VARIABLES
    running,   \* audio_stream.running: the buffers exist and both streams are started
    callback,  \* is audio_in_cb set?
    out,       \* the out_* counters
    sent,      \* the header of the last packet sent
    in_window, \* the window that is being collected
    buffer,    \* cancelled_buffer and the halves of mic_buffer, by Slot
    seen,      \* last_seen_window
    air,       \* the Kinect: the block it sent last, and what arrived of each window
    handed     \* what audio_in_cb was last called with

vars == <<running, callback, out, sent, in_window, buffer, seen, air, handed>>

\* An even channel is the first half of a microphone's buffer, the odd one after it the
\* second.
Slot(c) == IF c = 1 THEN <<0, 0>> ELSE <<1 + (c - 2) \div 2, c % 2>>

Slots == (0..4) \X {0, 1}

Zeros == [s \in Slots |-> 0]
NoneSeen == [c \in 1..10 |-> 0]
NoneCame == [w \in Windows \cup {0} |-> {}]
NoCounters == [window |-> 0, seq |-> 0, counter |-> 0, weird_timestamp |-> 0, parity |-> 0]

Init ==
    /\ running = FALSE
    /\ callback \in BOOLEAN
    /\ out = NoCounters
    /\ sent = [window |-> 0, seq |-> 0, weird |-> 1]
    /\ in_window = 0
    /\ buffer = Zeros
    /\ seen = NoneSeen
    /\ air = [window |-> 0, channel |-> 9, came |-> NoneCame]
    /\ handed = [window |-> 0, data |-> Zeros]

-----------------------------------------------------------------------------
Nibble(t, n) == 16 * ((t \div 16 ^ n) % 16) + 5

\* The fourth byte of a packet: a digit of the timestamp in the first packets of a
\* window, and of another timestamp in the next four of every third window.
Weird(o) ==
    CASE o.counter < 4 -> Nibble(o.weird_timestamp, o.counter)
      [] o.parity = 0 /\ o.counter \in 4..7 -> Nibble(o.weird_timestamp + 23, o.counter - 4)
      [] OTHER -> 1

Counted_NoSecond(o) ==
    LET seq == IF o.seq + 1 = Wrap THEN 0 ELSE o.seq + 1
        ends == seq \in {0, First}
        parity == o.parity + (IF ends THEN 1 ELSE 0)
    IN  [window |-> (o.window + (IF ends THEN 1 ELSE 0)) % 2 ^ 16, seq |-> seq,
         counter |-> IF ends THEN 0 ELSE o.counter + 1,
         weird_timestamp |-> (o.weird_timestamp + (IF o.parity = 1 THEN 6 ELSE 5)) % 2 ^ 16,
         parity |-> IF parity = 3 THEN 0 ELSE parity]

\* The counters after a packet: a window ends at First, at Second and at Wrap, where
\* the sequence starts anew.
Counted(o) ==
    LET seq == IF o.seq + 1 = Wrap THEN 0 ELSE o.seq + 1
        ends == seq \in {0, First, Second}
        parity == o.parity + (IF ends THEN 1 ELSE 0)
    IN  [window |-> (o.window + (IF ends THEN 1 ELSE 0)) % 2 ^ 16, seq |-> seq,
         counter |-> IF ends THEN 0 ELSE o.counter + 1,
         weird_timestamp |-> (o.weird_timestamp + (IF o.parity = 1 THEN 6 ELSE 5)) % 2 ^ 16,
         parity |-> IF parity = 3 THEN 0 ELSE parity]

iso_out_callback ==
    /\ running /\ out.window < MaxOut
    /\ sent' = [window |-> out.window, seq |-> out.seq, weird |-> Weird(out)]
    /\ out' = Counted(out)
    /\ UNCHANGED <<running, callback, in_window, buffer, seen, air, handed>>

TakeBlock_CopyFirst(w, c) ==
    /\ buffer' = [buffer EXCEPT ![Slot(c)] = w]
    /\ seen' = [seen EXCEPT ![c] = w]
    /\ in_window' = w
    /\ handed' = IF w # in_window /\ callback
                 THEN [window |-> in_window, data |-> buffer'] ELSE handed

\* A block of another window than the last ends that window, whatever came of it; the
\* callback gets the buffers before the block is copied.
TakeBlock(w, c) ==
    /\ handed' = IF w # in_window /\ callback
                 THEN [window |-> in_window, data |-> buffer] ELSE handed
    /\ in_window' = w
    /\ buffer' = [buffer EXCEPT ![Slot(c)] = w]
    /\ seen' = [seen EXCEPT ![c] = w]

\* The blocks come in order; any of them may be missing.
iso_in_callback(w, c) ==
    /\ running
    /\ w > air.window \/ (w = air.window /\ c > air.channel)
    /\ air' = [window |-> w, channel |-> c, came |-> [air.came EXCEPT ![w] = @ \cup {c}]]
    /\ TakeBlock(w, c)
    /\ UNCHANGED <<running, callback, out, sent>>

\* A packet of a strange length or with a wrong magic changes nothing, as does one of
\* signalling information.

StartAudio_KeepsSeen ==
    /\ running' = TRUE
    /\ out' = NoCounters
    /\ in_window' = 0
    /\ buffer' = Zeros
    /\ UNCHANGED seen

\* New buffers, filled with zeros, and all counters at their start
StartAudio ==
    /\ running' = TRUE
    /\ out' = NoCounters
    /\ in_window' = 0
    /\ buffer' = Zeros
    /\ seen' = NoneSeen

\* Starting twice is refused.  The Kinect goes on numbering.
freenect_start_audio ==
    /\ ~running
    /\ StartAudio
    /\ air' = [air EXCEPT !.came = NoneCame]
    /\ UNCHANGED <<callback, sent, handed>>

\* The window under way is not handed on.
freenect_stop_audio ==
    /\ running
    /\ running' = FALSE
    /\ UNCHANGED <<callback, out, sent, in_window, buffer, seen, air, handed>>

freenect_set_audio_in_callback ==
    /\ callback' = ~callback
    /\ UNCHANGED <<running, out, sent, in_window, buffer, seen, air, handed>>

Next ==
    \/ iso_out_callback
    \/ \E w \in Windows, c \in Channels : iso_in_callback(w, c)
    \/ freenect_start_audio
    \/ freenect_stop_audio
    \/ freenect_set_audio_in_callback

Spec == Init /\ [][Next]_vars

-----------------------------------------------------------------------------
\* The sequence number, the place within the window and the window's parity, which the
\* code counts separately, agree at every packet.
CountersAgree ==
    /\ out.seq \in 0..Wrap - 1
    /\ out.parity \in 0..2
    /\ out.counter = out.seq - <<0, First, Second>>[out.parity + 1]
    /\ out.parity = 0 <=> out.seq < First
    /\ out.parity = 2 <=> out.seq >= Second

\* last_seen_window, from which the code tells the channels it missed, says of every
\* channel which window the samples in its part of the buffers are of.
SeenIsHeld == \A c \in Channels : buffer[Slot(c)] = seen[c]

\* What the callback gets as a window is exactly what came of it: a block that came is
\* there, and nothing of a later window is.  Where a block is missing older samples are.
HandedIsWhatCame ==
    [][handed' # handed =>
         \A c \in Channels :
           /\ handed'.data[Slot(c)] <= handed'.window
           /\ handed'.window # 0 =>
                (handed'.data[Slot(c)] = handed'.window <=> c \in air.came[handed'.window])]_vars
=============================================================================
