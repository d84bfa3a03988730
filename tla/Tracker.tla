------------------------------- MODULE Tracker ------------------------------
(***************************************************************************)
(* The host's tracking loop (read_kinect.py): one audio block after another*)
(* is classified, corrections are written to the pan controller, headings  *)
(* are read from it, and a telemetry packet goes to the visualizer.        *)
(*                                                                         *)
(* What the signal processing makes of a block is an input: it is quiet    *)
(* (rms < THRESHOLD), unusable (|ratio| > 0.9) or measures an error in     *)
(* degrees.  Time is counted in ticks.  Angles are integers: the moving    *)
(* average is rounded down.  The controller's lines arrive in two pieces,  *)
(* since the serial port is read without regard to line ends: "H:<heading>"*)
(* and the rest of the line, or "IMU:0" in one piece.                      *)
(*                                                                         *)
(* An operator named X_Y right before the operator X is a wrong variant of *)
(* X, kept to show that the properties tell it from X.                     *)
(***************************************************************************)
EXTENDS Integers, Sequences, FiniteSetsExt

CONSTANTS
    Errors,        \* the errors a block can measure, in degrees
    Headings,      \* the headings the controller reports
    LockBand,      \* LOCK_BAND_DEG
    LockHold, IdleHold, ImuStale,   \* the three times, in ticks
    Spread,        \* 15: errors that differ by less than this agree
    MaxTime,       \* bound on the ticks
    MaxRx          \* bound on the pieces waiting at the serial port

TimesAssumption ==
    /\ {LockHold, IdleHold, ImuStale, MaxTime, MaxRx} \subseteq Nat
    /\ LockBand \in Nat /\ Spread \in Nat
AnglesAssumption == Errors \subseteq -90..90 /\ Headings \subseteq 0..359

None == -1000                     \* Python's None where a number may be
Cut == -2000                      \* a line whose beginning was discarded
Quiet == [kind |-> "quiet"]
Unusable == [kind |-> "unusable"]
Measures(e) == [kind |-> "measured", error |-> e]
Blocks == {Quiet, Unusable} \cup {Measures(e) : e \in Errors}

Heading(h) == [piece |-> "H:", heading |-> h]
LineEnd == [piece |-> "rest"]
ImuZero == [piece |-> "IMU:0"]

VARIABLES
    now, last_errors, smoothed_error, last_signal_time, in_lock_since,
    tracker_heading_deg, imu_last_update, controller_buffer,
    rx,            \* the pieces at the serial port, not read yet
    line,          \* the controller is in the middle of sending this heading
    command,       \* the last line written to the controller, or None
    packet,        \* the last packet sent
    block,         \* the last block
    heard,         \* the errors measured since the last quiet block, in full
    steered,       \* how many of these a correction has used already
    reported,      \* the last heading whose line arrived completely
    calm           \* since when no block was quiet and the error is in the band

hostVars == <<last_errors, smoothed_error, last_signal_time, in_lock_since,
              tracker_heading_deg, imu_last_update, controller_buffer>>
noteVars == <<block, heard, steered, calm>>
vars == <<now, hostVars, rx, line, command, packet, noteVars, reported>>

Abs(x) == IF x < 0 THEN -x ELSE x
NoPacket == [timestamp |-> 0, valid |-> FALSE, raw |-> None, smoothed |-> 0,
             heading |-> None, imu |-> FALSE, state |-> "IDLE"]

Init ==
    /\ now = 0
    /\ last_errors = <<>>
    /\ smoothed_error = 0
    /\ last_signal_time = -IdleHold        \* long ago
    /\ in_lock_since = None
    /\ tracker_heading_deg = None
    /\ imu_last_update = -ImuStale - 1     \* long ago
    /\ controller_buffer = <<>>
    /\ rx = <<>>
    /\ line = None
    /\ command = None
    /\ packet = NoPacket
    /\ block = Quiet /\ heard = <<>> /\ steered = 0
    /\ reported = None
    /\ calm = None

Tick ==
    /\ now < MaxTime
    /\ now' = now + 1
    /\ UNCHANGED <<hostVars, rx, line, command, packet, noteVars, reported>>

\* A piece of a line arrives at the serial port.
Arrive ==
    /\ Len(rx) < MaxRx
    /\ \/ /\ line = None
          /\ \E h \in Headings : line' = h /\ rx' = Append(rx, Heading(h))
          /\ UNCHANGED reported
       \/ /\ line = None
          /\ rx' = Append(rx, ImuZero)
          /\ UNCHANGED <<line, reported>>
       \/ /\ line # None
          /\ rx' = Append(rx, LineEnd)
          /\ line' = None
          /\ reported' = IF line = Cut THEN reported ELSE line
    /\ UNCHANGED <<now, hostVars, command, packet, noteVars>>

\* The program is started again: it discards what waits at the serial port.
Restart ==
    /\ last_errors' = <<>>
    /\ smoothed_error' = 0
    /\ last_signal_time' = -IdleHold        \* long ago
    /\ in_lock_since' = None
    /\ tracker_heading_deg' = None
    /\ imu_last_update' = -ImuStale - 1     \* long ago
    /\ controller_buffer' = <<>>
    /\ rx' = <<>>
    /\ reported' = None
    /\ line' = IF line = None THEN None ELSE Cut
    /\ block' = Quiet /\ heard' = <<>> /\ steered' = 0
    /\ calm' = None
    /\ packet' = NoPacket /\ command' = None
    /\ UNCHANGED now

-----------------------------------------------------------------------------
\* poll_controller_heading: the complete lines of what was read, and the rest.
Ends(p) == {i \in 1..Len(p) : p[i].piece # "H:"}
LastEnd(p) == IF Ends(p) = {} THEN 0 ELSE Max(Ends(p))

\* parse_controller_line accepts a line that starts with a heading: those are the
\* positions at which the parsed headings end.
Parsed_Unfinished(p) == {i \in 2..(Len(p) + 1) : p[i-1].piece = "H:"}
Parsed(p) == {i \in 2..Len(p) : p[i].piece = "rest" /\ p[i-1].piece = "H:"}

Poll ==
    LET pending == controller_buffer \o rx IN
    /\ IF Parsed(pending) = {} THEN UNCHANGED <<tracker_heading_deg, imu_last_update>>
       ELSE /\ tracker_heading_deg' = pending[Max(Parsed(pending)) - 1].heading
            /\ imu_last_update' = now
    /\ controller_buffer' = SubSeq(pending, LastEnd(pending) + 1, Len(pending))
    /\ rx' = <<>>

imu_is_fresh == tracker_heading_deg' # None /\ now - imu_last_update' <= ImuStale

\* derive_state: the state, and the time the error has been in the band since.
InBand(error) == Abs(error) <= LockBand
Since == IF in_lock_since = None THEN now ELSE in_lock_since

derive_state_Sticky(present, valid, error) ==
    IF ~present THEN [state |-> "IDLE", since |-> None]
    ELSE IF valid /\ InBand(error)
    THEN [state |-> IF now - Since >= LockHold THEN "LOCKED" ELSE "TRACKING", since |-> Since]
    ELSE [state |-> "TRACKING", since |-> in_lock_since]

derive_state(present, valid, error) ==
    IF ~present THEN [state |-> "IDLE", since |-> None]
    ELSE IF valid /\ InBand(error)
    THEN [state |-> IF now - Since >= LockHold THEN "LOCKED" ELSE "TRACKING", since |-> Since]
    ELSE [state |-> "TRACKING", since |-> None]

SendPacket(valid, raw, smoothed, state) ==
    packet' = [timestamp |-> now, valid |-> valid, raw |-> raw, smoothed |-> smoothed,
               heading |-> tracker_heading_deg', imu |-> imu_is_fresh, state |-> state]

\* ERROR_EMA_ALPHA = 0.3
Ema(e) == (3 * e + 7 * smoothed_error) \div 10

\* What a correction is made of: the last three errors, if they agree.
Last3(s) == SubSeq(s, Len(s) - 2, Len(s))
Agree(s) ==
    /\ Len(s) >= 3
    /\ \A i, j \in 1..3 : Last3(s)[i] - Last3(s)[j] < Spread

\* int() of the average rounds towards zero.
Average(s) ==
    LET sum == Last3(s)[1] + Last3(s)[2] + Last3(s)[3] IN
    IF sum < 0 THEN -((-sum) \div 3) ELSE sum \div 3

\* What the last blocks show, kept to state the properties.
Note(b) ==
    /\ block' = b
    /\ heard' = IF b = Quiet THEN <<>>
                ELSE IF b = Unusable THEN heard
                ELSE IF Len(heard) < 3 THEN Append(heard, b.error)
                ELSE Append(Tail(heard), b.error)
    /\ calm' = IF b = Unusable THEN calm
               ELSE IF b = Quiet \/ ~InBand(smoothed_error') THEN None
               ELSE IF calm = None THEN now ELSE calm

-----------------------------------------------------------------------------
Forget_Kept == last_errors' = last_errors
Forget == last_errors' = <<>>

QuietBlock ==
    LET d == derive_state(now - last_signal_time < IdleHold, FALSE, smoothed_error) IN
    /\ Poll
    /\ Forget
    /\ command' = 0
    /\ in_lock_since' = d.since
    /\ SendPacket(FALSE, None, smoothed_error, d.state)
    /\ steered' = 0
    /\ Note(Quiet)
    /\ UNCHANGED <<now, line, reported, smoothed_error, last_signal_time>>

\* Nothing is written and no packet is sent.
UnusableBlock ==
    /\ Poll
    /\ Note(Unusable)
    /\ UNCHANGED <<now, line, reported, last_errors, smoothed_error, last_signal_time,
                   in_lock_since, command, packet, steered>>

\* Three errors that agree make a correction; otherwise keep the last five.
Correct(errors) ==
    IF Agree(errors)
    THEN /\ command' = Average(errors)
         /\ last_errors' = <<>>
         /\ steered' = 3
    ELSE /\ last_errors' = IF Len(errors) > 5 THEN Tail(errors) ELSE errors
         /\ UNCHANGED command
         /\ steered' = IF steered > 0 THEN steered - 1 ELSE 0

MeasuredBlock(e) ==
    LET d == derive_state(TRUE, TRUE, smoothed_error') IN
    /\ Poll
    /\ last_signal_time' = now
    /\ smoothed_error' = Ema(e)
    /\ Correct(Append(last_errors, e))
    /\ in_lock_since' = d.since
    /\ SendPacket(TRUE, e, smoothed_error', d.state)
    /\ Note(Measures(e))
    /\ UNCHANGED <<now, line, reported>>

Next ==
    \/ Tick
    \/ Arrive
    \/ Restart
    \/ QuietBlock
    \/ UnusableBlock
    \/ \E e \in Errors : MeasuredBlock(e)

Spec == Init /\ [][Next]_vars

-----------------------------------------------------------------------------
Pieces == {Heading(h) : h \in Headings} \cup {LineEnd, ImuZero}
Angles == -90..90
Times == (-ImuStale - 1 - IdleHold)..MaxTime

TypeOK ==
    /\ now \in 0..MaxTime
    /\ last_errors \in Seq(Errors) /\ Len(last_errors) <= 5
    /\ smoothed_error \in Angles
    /\ last_signal_time \in Times /\ imu_last_update \in Times
    /\ in_lock_since \in Times \cup {None}
    /\ tracker_heading_deg \in Headings \cup {None} /\ reported \in Headings \cup {None}
    /\ line \in Headings \cup {None, Cut}
    /\ controller_buffer \in Seq(Pieces) /\ Len(controller_buffer) <= 1
    /\ rx \in Seq(Pieces) /\ Len(rx) <= MaxRx
    /\ command \in Angles \cup {None}
    /\ packet \in [timestamp : Times, valid : BOOLEAN, raw : Angles \cup {None},
                   smoothed : Angles, heading : Headings \cup {None}, imu : BOOLEAN,
                   state : {"IDLE", "TRACKING", "LOCKED"}]
    /\ block \in Blocks
    /\ heard \in Seq(Errors) /\ Len(heard) <= 3 /\ steered \in 0..3
    /\ calm \in Times \cup {None}

\* A correction is the average of the last three measured errors, which agree,
\* were heard without silence in between, and were not used by a correction yet.
CorrectionsAgree ==
    [][(\E e \in Errors : MeasuredBlock(e)) /\ last_errors' = <<>> =>
         /\ Len(heard') = 3 /\ steered <= 1
         /\ \A i, j \in 1..3 : heard'[i] - heard'[j] < Spread
         /\ command' = Average(heard')]_vars

\* The loop reports LOCKED only when for LockHold no block was quiet and every
\* error it measured averaged into the band.
LockEarned ==
    [][packet' # packet /\ packet'.state = "LOCKED"
         => calm' # None /\ now - calm' >= LockHold]_vars

\* However the controller's bytes are cut into reads, and wherever a restart cuts
\* its line, the heading is the last one that came in a complete line.
HeadingReported == rx = <<>> => tracker_heading_deg = reported
=============================================================================
