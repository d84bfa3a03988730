-------------------------------- MODULE Motor --------------------------------
(***************************************************************************)
(* Tilt, LED and accelerometer (tilt.c).  An older Kinect has a motor      *)
(* device that takes control transfers.  A newer one is driven through its *)
(* audio device: a command goes out with a tag and a reply comes in, which *)
(* the host waits 100 ms for; a reply that is late stays in the endpoint   *)
(* for whoever reads next, and the tag of a reply is not looked at.        *)
(*                                                                         *)
(* One thread calls; the Kinects answer when they like.  Angles are in half*)
(* degrees, the unit of the motor.  The accelerometer is read with the tilt*)
(* and is not told apart from it.                                          *)
(*                                                                         *)
(* An operator named X_Y right before the operator X is a wrong variant of *)
(* X, kept to show that the properties tell it from X.                     *)
(***************************************************************************)
EXTENDS Integers, Sequences

CONSTANTS
    Devs,          \* the devices that are open
    Handles,       \* the ways fnusb_open_subdevices leaves a device: [motor, audio, viaAudio]
    Angles,        \* the angles asked for, in half degrees
    Leds,          \* the LED states asked for
    MaxTag         \* bound on the commands of a run

HandlesAssumption ==
    \A h \in Handles : {h.motor, h.audio, h.viaAudio} \subseteq BOOLEAN /\ (h.viaAudio => h.audio)
LedsAssumption ==
    Leds \subseteq {"off", "green", "red", "yellow", "blink_green", "blink_red_yellow"}
BoundsAssumption == MaxTag \in Nat /\ Angles \subseteq Int

VARIABLES
    motorEnabled,  \* ctx->enabled_subdevices & FREENECT_DEVICE_MOTOR
    handles,       \* what is open of each device
    raw,           \* dev->raw_state.tilt_angle
    tag_seq,       \* one counter for all devices
    call,          \* the call under way
    hw,            \* of each Kinect: its tilt and its LED
    work,          \* the commands a Kinect has not answered
    pipe,          \* the transfers that wait in its endpoint
    missed         \* the Kinects that some call gave up on

vars == <<motorEnabled, handles, raw, tag_seq, call, hw, work, pipe, missed>>

NoCall == [op |-> "none", dev |-> CHOOSE d \in Devs : TRUE, pc |-> "idle", tag |-> 0,
           got |-> 0, res |-> 0]

Init ==
    /\ motorEnabled \in BOOLEAN
    /\ handles \in [Devs -> Handles]
    /\ raw = [d \in Devs |-> 0]
    /\ tag_seq = 0
    /\ call = NoCall
    /\ hw = [d \in Devs |-> [tilt |-> 0, led |-> "off"]]
    /\ work = [d \in Devs |-> <<>>]
    /\ pipe = [d \in Devs |-> <<>>]
    /\ missed = {}

MAX_TILT_ANGLE == 31

Clamp(a) == IF a < -2 * MAX_TILT_ANGLE THEN -2 * MAX_TILT_ANGLE
            ELSE IF a > 2 * MAX_TILT_ANGLE THEN 2 * MAX_TILT_ANGLE ELSE a

\* The conversion to int drops the half degree.
Degrees(a) == IF a < 0 THEN -((-a) \div 2) ELSE a \div 2

\* The numbers of the newer LED; any other state becomes LED_GREEN, which is its "off".
AltLed(s) ==
    CASE s \in {"green", "yellow"} -> "green"
      [] s = "red" -> "red"
      [] s = "blink_green" -> "blink_green"
      [] OTHER -> "off"

Commands == [op : {"tilt"}, arg : Angles] \cup [op : {"led"}, arg : Leds]
              \cup [op : {"state"}, arg : {0}]

\* A call that needs no transfer, or whose only one is a control transfer
Answers(d, c, r) == call' = [NoCall EXCEPT !.op = c.op, !.dev = d, !.res = r]

\* What the Kinect does with a command
Done(h, c) ==
    CASE c.op = "tilt" -> [h EXCEPT !.tilt = c.arg]
      [] c.op = "led" -> [h EXCEPT !.led = c.arg]
      [] OTHER -> h

-----------------------------------------------------------------------------
\* A device whose motor is another's or was turned off: nothing is done, and that is
\* a success.
MotorOff(d, c) ==
    /\ call.pc = "idle" /\ ~handles[d].viaAudio /\ ~motorEnabled
    /\ Answers(d, c, 0)
    /\ UNCHANGED <<motorEnabled, handles, raw, tag_seq, hw, work, pipe, missed>>

\* freenect_set_tilt_degs, freenect_set_led, freenect_update_tilt_state with a motor
\* device; the reading of the state is a control transfer too.
ViaMotor(d, c) ==
    LET sent == IF c.op = "tilt" THEN [c EXCEPT !.arg = Clamp(@)] ELSE c IN
    /\ call.pc = "idle" /\ ~handles[d].viaAudio /\ motorEnabled
    /\ handles[d].motor
    /\ \/ /\ Answers(d, c, -1)
          /\ UNCHANGED <<raw, hw>>
       \/ /\ Answers(d, c, 0)
          /\ hw' = [hw EXCEPT ![d] = Done(@, sent)]
          /\ raw' = IF c.op = "state" THEN [raw EXCEPT ![d] = hw[d].tilt] ELSE raw
    /\ UNCHANGED <<motorEnabled, handles, tag_seq, work, pipe, missed>>

\* The flag is the context's: a device without a motor handle hands NULL to libusb.
NullMotor(d, c) ==
    /\ call.pc = "idle" /\ ~handles[d].viaAudio /\ motorEnabled
    /\ ~handles[d].motor
    /\ call' = [NoCall EXCEPT !.op = c.op, !.dev = d, !.pc = "crashed"]
    /\ UNCHANGED <<motorEnabled, handles, raw, tag_seq, hw, work, pipe, missed>>

AltRange(a) == Degrees(a) \in -MAX_TILT_ANGLE..MAX_TILT_ANGLE

\* The command goes out on the audio handle with the next tag.
ViaAudio(d, c) ==
    LET alt == CASE c.op = "tilt" -> [c EXCEPT !.arg = 2 * Degrees(@)]
                 [] c.op = "led" -> [c EXCEPT !.arg = AltLed(@)]
                 [] OTHER -> c
    IN
    /\ call.pc = "idle" /\ handles[d].viaAudio
    /\ IF c.op = "tilt" /\ ~AltRange(c.arg)
       THEN Answers(d, c, -1) /\ UNCHANGED <<tag_seq, work, missed>>
       ELSE /\ tag_seq < MaxTag
            /\ tag_seq' = tag_seq + 1
            /\ \/ /\ Answers(d, c, -1)
                  /\ missed' = missed \cup {d}
                  /\ \/ UNCHANGED work
                     \/ work' = [work EXCEPT ![d] = Append(@, <<alt, tag_seq>>)]
               \/ /\ call' = [NoCall EXCEPT !.op = c.op, !.dev = d, !.tag = tag_seq,
                                            !.pc = IF c.op = "state" THEN "data" ELSE "reply"]
                  /\ work' = [work EXCEPT ![d] = Append(@, <<alt, tag_seq>>)]
                  /\ UNCHANGED missed
    /\ UNCHANGED <<motorEnabled, handles, raw, hw, pipe>>

\* The Kinect does a command and sends its reply, after 104 bytes if it was asked for
\* its state.  Its status may say that it failed.
Answer(d) ==
    /\ work[d] # <<>>
    /\ LET c == Head(work[d])[1]
           t == Head(work[d])[2]
       IN \E good \in BOOLEAN :
            /\ hw' = [hw EXCEPT ![d] = IF good THEN Done(@, c) ELSE @]
            /\ pipe' = [pipe EXCEPT ![d] = @
                   \o (IF c.op = "state" THEN <<[bytes |-> 104, tag |-> t, arg |-> hw[d].tilt]>>
                                         ELSE <<>>)
                   \o <<[bytes |-> 12, tag |-> t, arg |-> IF good THEN 0 ELSE 1]>>]
    /\ work' = [work EXCEPT ![d] = Tail(@)]
    /\ UNCHANGED <<motorEnabled, handles, raw, tag_seq, call, missed>>

\* update_tilt_state_alt reads the block; of a shorter transfer it takes what the
\* buffer held, its own command, which has no tilt in it.
ReadData ==
    LET d == call.dev IN
    /\ call.pc = "data"
    /\ IF pipe[d] = <<>>
       THEN /\ call' = [call EXCEPT !.pc = "idle", !.res = -1]
            /\ missed' = missed \cup {d}
            /\ UNCHANGED <<raw, pipe>>
       ELSE /\ \E garbage \in {hw[d].tilt, 1} :
                 raw' = [raw EXCEPT ![d] = IF Head(pipe[d]).bytes = 104
                                           THEN (Head(pipe[d]).arg \div 2) * 2 ELSE garbage]
            /\ pipe' = [pipe EXCEPT ![d] = Tail(@)]
            /\ call' = [call EXCEPT !.pc = "reply"]
            /\ UNCHANGED missed
    /\ UNCHANGED <<motorEnabled, handles, tag_seq, hw, work>>

get_reply_NotForState ==
    LET d == call.dev IN
    /\ call.pc = "reply"
    /\ IF pipe[d] = <<>> /\ call.op # "state"
       THEN /\ call' = [call EXCEPT !.pc = "idle", !.res = -1]
            /\ missed' = missed \cup {d}
            /\ UNCHANGED pipe
       ELSE IF call.op = "state" THEN call' = [call EXCEPT !.pc = "idle", !.got = call.tag]
                                      /\ UNCHANGED <<missed, pipe>>
       ELSE /\ call' = [call EXCEPT !.pc = "idle", !.got = Head(pipe[d]).tag,
                          !.res = IF Head(pipe[d]).bytes # 12 THEN 0 ELSE -Head(pipe[d]).arg]
            /\ pipe' = [pipe EXCEPT ![d] = Tail(@)]
            /\ UNCHANGED missed
    /\ UNCHANGED <<motorEnabled, handles, raw, tag_seq, hw, work>>

\* A transfer of another length is taken for a success; its tag is not compared.
get_reply ==
    LET d == call.dev IN
    /\ call.pc = "reply"
    /\ IF pipe[d] = <<>>
       THEN /\ call' = [call EXCEPT !.pc = "idle", !.res = -1]
            /\ missed' = missed \cup {d}
            /\ UNCHANGED pipe
       ELSE /\ call' = [call EXCEPT !.pc = "idle", !.got = Head(pipe[d]).tag,
                          !.res = IF Head(pipe[d]).bytes # 12 THEN 0 ELSE -Head(pipe[d]).arg]
            /\ pipe' = [pipe EXCEPT ![d] = Tail(@)]
            /\ UNCHANGED missed
    /\ UNCHANGED <<motorEnabled, handles, raw, tag_seq, hw, work>>

\* freenect_select_subdevices, or the opening of another Kinect
Reselect ==
    /\ call.pc = "idle"
    /\ motorEnabled' = ~motorEnabled
    /\ UNCHANGED <<handles, raw, tag_seq, call, hw, work, pipe, missed>>

Next ==
    \/ \E d \in Devs, c \in Commands :
          MotorOff(d, c) \/ ViaMotor(d, c) \/ NullMotor(d, c) \/ ViaAudio(d, c)
    \/ \E d \in Devs : Answer(d)
    \/ ReadData
    \/ get_reply
    \/ Reselect

Spec == Init /\ [][Next]_vars

-----------------------------------------------------------------------------
TypeOK ==
    /\ raw \in [Devs -> -126..126]
    /\ tag_seq \in 0..MaxTag
    /\ call.pc \in {"idle", "data", "reply", "crashed"} /\ call.res \in {-1, 0}
    /\ \A d \in Devs : hw[d].tilt \in -62..62 /\ hw[d].led \in Leds \cup {"off", "green"}
    /\ missed \subseteq Devs

\* Until some call gave a Kinect up, the reply a call takes is the one to its own
\* command, although its tag is not looked at and both Kinects draw from one counter.
ReplyOwn ==
    [][call.pc = "reply" /\ call'.pc = "idle" /\ call'.dev \notin missed' =>
         call'.got = call.tag]_vars

\* Until then a reading that succeeds tells the tilt the Kinect has.
StateTrue ==
    [][call'.op = "state" /\ call.pc # "idle" /\ call'.pc = "idle" /\ call'.res = 0
         /\ call'.dev \notin missed' => raw'[call'.dev] = hw[call'.dev].tilt]_vars
=============================================================================
