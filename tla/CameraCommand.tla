---------------------------- MODULE CameraCommand ----------------------------
(***************************************************************************)
(* The commands to the camera (flags.c) and the scripts of commands that   *)
(* the flags, the starts and stops of the streams and the initialisation   *)
(* are made of (flags.c, cameras.c).                                       *)
(*                                                                         *)
(* A command goes out with a tag, the camera executes it and leaves its    *)
(* reply, and the host polls until it gets a transfer that is not empty.   *)
(* The tag moves only when a reply was accepted.  A poll that fails, or    *)
(* brings less than a header, makes send_cmd return the result of the OUT  *)
(* transfer: a success, with whatever the caller's buffer held.            *)
(*                                                                         *)
(* Registers hold numbers of Width bits (16 in the code) and the largest   *)
(* one stands for an error of a reading.  A flag is a power of 2 in the    *)
(* CMOS register 0x0106.                                                   *)
(*                                                                         *)
(* An operator named X_Y right before the operator X is a wrong variant of *)
(* X, kept to show that the properties tell it from X.                     *)
(***************************************************************************)
EXTENDS Integers, Sequences

CONSTANTS
    K4W,           \* the camera is one of a Kinect for Windows
    Width,         \* bits of a register
    Flags,         \* the flags of the CMOS register that are set
    TagMod,        \* the tags there are (2^16)
    Sessions,      \* the sets of calls that a program makes in a run
    MaxFaults      \* bound on the transfers that go wrong

MAX == 2 ^ Width - 1               \* UINT16_MAX
WidthAssumption == Width \in Nat /\ 2 ^ Width \in Nat /\ MAX >= 7
FlagsAssumption == Flags \subseteq Nat \ {0} /\ \A f \in Flags : 2 ^ Width % (2 * f) = 0
FaultsAssumption == MaxFaults \in Nat /\ TagMod \in Nat \ {0} /\ K4W \in BOOLEAN

Registers == {"0x05", "0x06", "0x12", "0x15", "0x17", "0x47", "0x48", "0x02EF",
              "cmos 0x0009", "cmos 0x0106"}
VideoModes == {"RGB", "HighIR"}
DepthFormats == {"10BIT", "REGISTERED"}

VARIABLES
    session,       \* the calls the program makes
    reg,           \* the camera's registers
    inbox,         \* the command it has not executed
    reply,         \* the reply it has ready
    tag,           \* dev->cam_tag
    call,          \* the call under way
    dev,           \* running, modes, reg_info and registration tables of the device
    faults,        \* transfers that went wrong
    unsure         \* some poll failed

vars == <<session, reg, inbox, reply, tag, call, dev, faults, unsure>>
host == <<session, tag, call, dev, unsure>>

Nothing == [cmd |-> "none", tag |-> 0, reg |-> "0x05", val |-> 0]
NoCall == [op |-> "none", pc |-> "idle", todo |-> <<>>, flag |-> 0, arg |-> 0, was |-> 0,
           got |-> 0, res |-> 0]

Init ==
    /\ session \in Sessions
    /\ reg = [r \in Registers |-> 0]
    /\ inbox = Nothing /\ reply = Nothing
    /\ tag = 0
    /\ call = NoCall
    /\ dev = [depth |-> FALSE, video |-> FALSE, depthFormat |-> "10BIT", videoMode |-> "RGB",
              regInfo |-> "none", tables |-> "none"]
    /\ faults = 0
    /\ unsure = FALSE

-----------------------------------------------------------------------------
\* A command of a script; a script ends with the failure of one that is "must".
Command(cmd, kind, r, v, must) == [cmd |-> cmd, kind |-> kind, reg |-> r, val |-> v, must |-> must]
Write(r, v)     == Command("0x03", "write", r, v, TRUE)
Unchecked(r, v) == Command("0x03", "write", r, v, FALSE)
Read(r)         == Command("0x02", "read", r, 0, TRUE)
CmosRead(r)     == Command("0x95", "read", r, 0, TRUE)
CmosWrite(r, v) == Command("0x95", "write", r, v, TRUE)
Params(cmd, which, must) == Command(cmd, "params", which, 0, must)

\* set_flag(FREENECT_NEAR_MODE): the second register only after the first
NearMode_Careless(on) ==
    <<Unchecked("0x15", IF on = 1 THEN 7 ELSE 3), Write("0x02EF", 1 - on)>>

NearMode(on) == <<Write("0x15", IF on = 1 THEN 7 ELSE 3), Write("0x02EF", 1 - on)>>

\* The results of the commands of a start are not looked at.
StartDepth ==
    <<Unchecked("0x06", 0), Unchecked("0x12", IF dev.depthFormat = "10BIT" THEN 2 ELSE 3),
      Unchecked("0x06", 2), Unchecked("0x17", 0)>>

\* For high-resolution IR the depth stream is started and stopped before.
StartVideo ==
    IF dev.videoMode = "HighIR"
    THEN <<Unchecked("0x06", 2), Unchecked("0x06", 0), Unchecked("0x05", 3), Unchecked("0x48", 0)>>
    ELSE <<Unchecked("0x05", 1), Unchecked("0x47", 0)>>

\* Each of these is one command, whose reply must have the length of the parameters.
freenect_fetch_reg_info        == Params("0x16", "registration", FALSE)
freenect_fetch_reg_pad_info    == Params("0x16", "pad", TRUE)
freenect_fetch_reg_const_shift == Params("0x16", "const shift", TRUE)
freenect_fetch_zero_plane_info == Params("0x04", "zero plane", TRUE)

\* Its caller, freenect_set_video_mode, does not look at the result of the third.
CameraInit ==
    <<freenect_fetch_reg_pad_info, freenect_fetch_zero_plane_info,
      freenect_fetch_reg_info, freenect_fetch_reg_const_shift>>

\* The brightness range 1..50, here 1..MAX-2
Clamp(v) == IF v < 1 THEN 1 ELSE IF v > MAX - 2 THEN MAX - 2 ELSE v

\* The value with the flag set or cleared: |= flag, &= ~flag
WithFlag(v, f, on) ==
    IF (v \div f) % 2 = on THEN v ELSE IF on = 1 THEN v + f ELSE v - f

-----------------------------------------------------------------------------
Script(op, todo) == [NoCall EXCEPT !.op = op, !.pc = "send", !.todo = todo]
Refused(op) == [NoCall EXCEPT !.op = op, !.res = -1]
Calls(c) ==
    /\ call.pc = "idle" /\ c.op \in session
    /\ call' = c
    /\ UNCHANGED <<session, reg, inbox, reply, tag, faults, unsure>>

MIRROR_DEPTH == 2 ^ Width            \* 1 << 16
MIRROR_VIDEO == 2 * 2 ^ Width
NEAR_MODE == 4 * 2 ^ Width
register_for_flag(f) == IF f = MIRROR_DEPTH THEN "0x17" ELSE "0x47"

freenect_set_flag(f, on) ==
    /\ Calls(IF f = NEAR_MODE
             THEN IF K4W THEN [Script("near", NearMode(on)) EXCEPT !.arg = on] ELSE Refused("near")
             ELSE IF f >= 2 ^ Width
             THEN Script("mirror", <<Write(register_for_flag(f), on)>>)
             ELSE [Script("flag", <<CmosRead("cmos 0x0106")>>) EXCEPT
                      !.flag = f, !.arg = on, !.was = reg["cmos 0x0106"]])
    /\ UNCHANGED dev

\* The format is looked at after the reading and before the writing.
freenect_get_exposure == Calls(Script("get_exposure", <<CmosRead("cmos 0x0009")>>)) /\ UNCHANGED dev
freenect_set_exposure(w) ==
    /\ Calls(IF dev.videoMode = "HighIR" THEN Refused("set_exposure")
             ELSE Script("set_exposure", <<CmosWrite("cmos 0x0009", w)>>))
    /\ UNCHANGED dev

freenect_get_ir_brightness == Calls(Script("get_ir", <<Read("0x15")>>)) /\ UNCHANGED dev
freenect_set_ir_brightness(v) == Calls(Script("set_ir", <<Write("0x15", Clamp(v))>>)) /\ UNCHANGED dev

\* The registration tables are made from the parameters that were fetched last, and the
\* transfers are submitted before the commands.
freenect_start_depth ==
    /\ ~dev.depth
    /\ Calls(Script("start_depth", StartDepth))
    /\ dev' = IF dev.depthFormat = "REGISTERED" THEN [dev EXCEPT !.tables = dev.regInfo] ELSE dev

freenect_start_video ==
    /\ ~dev.video
    /\ Calls(IF dev.videoMode = "HighIR" /\ dev.depth THEN Refused("start_video")
             ELSE Script("start_video", StartVideo))
    /\ UNCHANGED dev

freenect_stop_depth ==
    /\ dev.depth
    /\ Calls(Script("stop", <<Unchecked("0x06", 0)>>))
    /\ dev' = [dev EXCEPT !.depth = FALSE, !.tables = "none"]

freenect_stop_video ==
    /\ dev.video
    /\ Calls(Script("stop", <<Unchecked("0x05", 0)>>))
    /\ dev' = [dev EXCEPT !.video = FALSE]

freenect_set_depth_mode(m) ==
    /\ call.pc = "idle" /\ "start_depth" \in session /\ ~dev.depth
    /\ dev' = [dev EXCEPT !.depthFormat = m]
    /\ UNCHANGED <<session, reg, inbox, reply, tag, call, faults, unsure>>

\* The registration parameters are fetched for the new mode, with no look at the result.
freenect_set_video_mode(m) ==
    /\ ~dev.video
    /\ Calls(Script("set_video_mode", <<freenect_fetch_reg_info>>))
    /\ dev' = [dev EXCEPT !.videoMode = m]

freenect_camera_init ==
    /\ dev.regInfo = "none" /\ ~dev.depth /\ ~dev.video
    /\ Calls(Script("init", CameraInit))
    /\ UNCHANGED dev

-----------------------------------------------------------------------------
\* The script goes on after a command that gave a result and a value.
Ends(res) == call' = [call EXCEPT !.pc = "idle", !.todo = <<>>, !.got = 0, !.res = res]

Fails(c) ==
    IF c.must THEN Ends(-1) /\ UNCHANGED dev
    ELSE /\ IF Len(call.todo) = 1 THEN Ends(0)
            ELSE call' = [call EXCEPT !.pc = "send", !.todo = Tail(@)]
         /\ dev' = IF Len(call.todo) > 1 THEN dev
                   ELSE [dev EXCEPT !.depth = @ \/ call.op = "start_depth",
                                    !.video = @ \/ call.op = "start_video"]

Succeeds(c, val) ==
    /\ IF c.kind = "read" /\ call.op = "flag"
       THEN call' = [call EXCEPT !.pc = "send",
                        !.todo = <<CmosWrite(c.reg, WithFlag(val, call.flag, call.arg))>>]
       ELSE IF Len(call.todo) > 1 THEN call' = [call EXCEPT !.pc = "send", !.todo = Tail(@)]
       ELSE call' = [call EXCEPT !.pc = "idle", !.todo = <<>>, !.got = val,
                       !.res = IF call.op = "get_exposure" /\ dev.videoMode = "HighIR" THEN -1
                               ELSE 0]
    /\ dev' = [dev EXCEPT !.depth = @ \/ (call.op = "start_depth" /\ Len(call.todo) = 1),
                          !.video = @ \/ (call.op = "start_video" /\ Len(call.todo) = 1),
                          !.regInfo = IF c.reg = "registration" THEN dev.videoMode ELSE @]

\* UINT16_MAX stands for an error of read_register and read_cmos_register.
Completes(c, val) ==
    IF c.kind = "read" /\ val = MAX THEN Fails(c) ELSE Succeeds(c, val)

\* send_cmd: the command goes out.
SendOut ==
    LET c == Head(call.todo) IN
    /\ call.pc = "send"
    /\ \/ /\ inbox' = [cmd |-> c.cmd, kind |-> c.kind, tag |-> tag, reg |-> c.reg, val |-> c.val]
          /\ call' = [call EXCEPT !.pc = "poll"]
          /\ UNCHANGED <<dev, faults>>
       \/ /\ faults < MaxFaults
          /\ faults' = faults + 1
          /\ Fails(c)
          /\ UNCHANGED inbox
    /\ UNCHANGED <<session, reg, reply, tag, unsure>>

\* The camera executes the command; its reply takes the place of one not fetched.
Execute ==
    /\ inbox # Nothing
    /\ reg' = IF inbox.kind = "write" THEN [reg EXCEPT ![inbox.reg] = inbox.val] ELSE reg
    /\ reply' = [cmd |-> inbox.cmd, tag |-> inbox.tag, reg |-> inbox.reg,
                 val |-> IF inbox.kind = "read" THEN reg[inbox.reg] ELSE 0]
    /\ inbox' = Nothing
    /\ UNCHANGED <<host, faults>>

\* A reply of another command or another tag is refused, and the tag stays.
Poll ==
    LET c == Head(call.todo) IN
    /\ call.pc = "poll" /\ reply # Nothing
    /\ reply' = Nothing
    /\ IF reply.cmd # c.cmd \/ reply.tag # tag
       THEN Fails(c) /\ UNCHANGED tag
       ELSE Completes(c, reply.val) /\ tag' = (tag + 1) % TagMod
    /\ UNCHANGED <<session, reg, inbox, faults, unsure>>

\* The poll fails or brings less than a header: send_cmd returns what the OUT transfer
\* did.  Only the parameters are checked for their length; a reading takes what its
\* buffer held.
PollFails ==
    LET c == Head(call.todo) IN
    /\ call.pc = "poll" /\ faults < MaxFaults
    /\ faults' = faults + 1
    /\ unsure' = TRUE
    /\ reply' \in {reply, Nothing}
    /\ IF c.kind = "params" THEN Fails(c) ELSE \E garbage \in {0, 5, MAX} : Completes(c, garbage)
    /\ UNCHANGED <<session, reg, inbox, tag>>

Next ==
    \/ \E on \in {0, 1}, f \in Flags \cup {NEAR_MODE, MIRROR_DEPTH, MIRROR_VIDEO} :
          freenect_set_flag(f, on)
    \/ freenect_get_exposure
    \/ freenect_set_exposure(1)
    \/ freenect_get_ir_brightness
    \/ \E v \in {0, MAX} : freenect_set_ir_brightness(v)
    \/ freenect_start_depth \/ freenect_start_video
    \/ freenect_stop_depth \/ freenect_stop_video
    \/ \E m \in DepthFormats : freenect_set_depth_mode(m)
    \/ \E m \in VideoModes : freenect_set_video_mode(m)
    \/ freenect_camera_init
    \/ SendOut \/ Execute \/ Poll \/ PollFails

Spec == Init /\ [][Next]_vars

-----------------------------------------------------------------------------
TypeOK ==
    /\ reg \in [Registers -> 0..MAX]
    /\ tag \in 0..TagMod - 1
    /\ call.pc \in {"idle", "send", "poll"} /\ call.res \in {-1, 0}
    /\ faults \in 0..MaxFaults

Returns(op) == call.op = op /\ call.pc # "idle" /\ call'.pc = "idle" /\ call'.res = 0

\* Until a poll failed, a call that succeeds did what it says, whatever commands failed
\* to go out: a flag changed its bit and no other, both registers of near mode agree,
\* and a reading is the register's value.
CallsTrue ==
    [][~unsure' =>
        /\ Returns("flag") => reg'["cmos 0x0106"] = WithFlag(call.was, call.flag, call.arg)
        /\ Returns("near") => reg'["0x15"] = (IF call.arg = 1 THEN 7 ELSE 3)
                              /\ reg'["0x02EF"] = 1 - call.arg
        /\ Returns("get_ir") => call'.got = reg'["0x15"]
        /\ Returns("get_exposure") => call'.got = reg'["cmos 0x0009"]]_vars

\* As long as no transfer went wrong, a stream that runs is on in the camera too, however
\* the two streams' starts and stops, which share registers, are ordered.
StreamsOn ==
    faults = 0 =>
        /\ dev.depth => reg["0x06"] = 2 /\ reg["0x12"] = IF dev.depthFormat = "10BIT" THEN 2 ELSE 3
        /\ dev.video => reg["0x05"] = IF dev.videoMode = "HighIR" THEN 3 ELSE 1
=============================================================================
