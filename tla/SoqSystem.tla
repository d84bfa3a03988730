------------------------------ MODULE SoqSystem -----------------------------
(***************************************************************************)
(* The tracking loop (Tracker) steering the pan controller (Controller):   *)
(* what one writes, the other reads.  The way back, the heading reports, is*)
(* left out here: TxSize leaves no room for a report and Headings is empty.*)
(*                                                                         *)
(* A line written is two pieces, as in Controller, and waits at the port   *)
(* until the controller's UART has taken it; a write waits for room.       *)
(*                                                                         *)
(* An operator named X_Y right before the operator X is a wrong variant of *)
(* X, kept to show that the properties tell it from X.                     *)
(***************************************************************************)
EXTENDS Integers, Sequences

CONSTANTS
    Errors, LockBand, LockHold, IdleHold, ImuStale, Spread,
    ClockMod, PidUpdate, ImuReport, MaxGap, ServoMax, LineRoom, Lines,
    MaxWire        \* the pieces the host's port keeps

ASSUME WireAssumption == MaxWire \in Nat /\ MaxWire >= 2

VARIABLES
    now, last_errors, smoothed_error, last_signal_time, in_lock_since,
    tracker_heading_deg, imu_last_update, controller_buffer, hostRx, line, command,
    packet, block, heard, steered, reported, calm,
    clock, gap, error, correction, servoPos, imuReady, lastPidUpdateMs, lastImuReportMs,
    pidInput, serialBuffer, rx, txUsed, sent, sincePid,
    wire           \* the pieces written and not yet at the controller

host == INSTANCE Tracker WITH rx <- hostRx, Headings <- {}, MaxTime <- 0, MaxRx <- 0
pan == INSTANCE Controller WITH Commands <- -90..90, TxSize <- 0, MaxRx <- 2

ASSUME HostAssumption == host!TimesAssumption /\ host!AnglesAssumption

hostVars == <<now, last_errors, smoothed_error, last_signal_time, in_lock_since,
              tracker_heading_deg, imu_last_update, controller_buffer, hostRx, line, command,
              packet, block, heard, steered, reported, calm>>
panVars == <<clock, gap, error, correction, servoPos, imuReady, lastPidUpdateMs,
             lastImuReportMs, pidInput, serialBuffer, rx, txUsed, sent, sincePid>>
vars == <<hostVars, panVars, wire>>

Init == host!Init /\ pan!Init /\ wire = <<>>

\* The line a step of the host writes, if any: a zero for a quiet block, else the
\* correction, when one was made.
Written_Corrections(b) ==
    IF b \notin {host!Quiet, host!Unusable} /\ last_errors' = <<>>
    THEN <<pan!Part(command'), pan!NewLine>> ELSE <<>>

Written(b) ==
    IF b = host!Quiet \/ (b # host!Unusable /\ last_errors' = <<>>)
    THEN <<pan!Part(command'), pan!NewLine>> ELSE <<>>

Block(b) ==
    /\ \/ b = host!Quiet /\ host!QuietBlock
       \/ b = host!Unusable /\ host!UnusableBlock
       \/ \E e \in Errors : b = host!Measures(e) /\ host!MeasuredBlock(e)
    /\ wire' = wire \o Written(b)
    /\ Len(wire') <= MaxWire
    /\ UNCHANGED panVars

\* The old process closed its port, which sends what waits there; the new one finds
\* nothing to discard on the way out.
HostRestart ==
    /\ host!Restart
    /\ UNCHANGED <<panVars, wire>>

\* A piece reaches the controller.
Deliver ==
    /\ wire # <<>> /\ Len(rx) < 2
    /\ rx' = Append(rx, Head(wire))
    /\ wire' = Tail(wire)
    /\ IF Head(wire) # pan!NewLine THEN UNCHANGED sent
       ELSE sent' = IF rx = <<>> THEN serialBuffer ELSE rx[Len(rx)].value
    /\ UNCHANGED <<hostVars, clock, gap, error, correction, servoPos, imuReady,
                   lastPidUpdateMs, lastImuReportMs, pidInput, serialBuffer, txUsed, sincePid>>

PanTick ==
    /\ pan!Tick
    /\ UNCHANGED <<hostVars, wire>>

PanLoop ==
    /\ pan!Loop
    /\ UNCHANGED <<hostVars, wire>>

Next ==
    \/ \E b \in host!Blocks : Block(b)
    \/ HostRestart
    \/ Deliver
    \/ PanTick
    \/ PanLoop

\* The regulator computes a new output: it does when its own sample time is over.
Computes ==
    /\ PanLoop
    /\ pidInput' = error'
    /\ error' = pidInput => correction' = -pan!Sign(error')

Fairness == WF_vars(Deliver) /\ WF_vars(PanTick) /\ WF_vars(PanLoop) /\ SF_vars(Computes)
Spec == Init /\ [][Next]_vars /\ Fairness

-----------------------------------------------------------------------------
\* When the port is drained and the controller has read it, it works on the last
\* line the host wrote: none is lost, merged or overtaken, and silence is written.
CommandInEffect ==
    (wire = <<>> /\ rx = <<>> /\ command # host!None) => error = pan!constrain(-command, -90, 90)

\* When the source stays silent, the servo comes to rest, wherever the silence
\* finds the loop: with errors collected, with a correction on its way, with the
\* regulator between two samples.
QuietStopsServo == <>[](block = host!Quiet /\ command = 0) => <>[](correction = 0)

\* A correction takes effect: when the host writes nothing more, the regulator
\* comes to work on its last line.
CommandArrives ==
    \A c \in {0} \cup Errors : <>[](command = c) => <>[](error = -c)

CommandsTakeEffect == QuietStopsServo /\ CommandArrives
=============================================================================
