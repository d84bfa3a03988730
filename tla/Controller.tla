----------------------------- MODULE Controller -----------------------------
(***************************************************************************)
(* The pan controller's firmware (soqv1/soqv1.ino): it reads errors from   *)
(* the host, moves the servo by the output of a PID regulator at fixed     *)
(* intervals and reports the measured heading.  millis() wraps around.     *)
(*                                                                         *)
(* A line of the host arrives in one or two pieces, since loop() reads the *)
(* characters that are there; its lines are far shorter than serialBuffer, *)
(* whose overflow is not modelled.  The servo moves in unit steps: the     *)
(* output of the PID library is modelled by its sign, the transmit buffer  *)
(* of the serial port by its free characters.                              *)
(*                                                                         *)
(* An operator named X_Y right before the operator X is a wrong variant of *)
(* X, kept to show that the properties tell it from X.                     *)
(***************************************************************************)
EXTENDS Integers, Sequences

CONSTANTS
    ClockMod,      \* 2^32: millis() is an unsigned long
    PidUpdate,     \* PID_UPDATE_MS
    ImuReport,     \* IMU_REPORT_MS
    MaxGap,        \* bound on the time between two iterations of loop()
    Commands,      \* the errors the host sends
    ServoMax,      \* 180 degrees, in steps
    TxSize,        \* the size of the serial transmit buffer
    LineRoom,      \* 24: no line is sent with less room than this
    Lines,         \* the lengths of the lines sent: with and without a heading
    MaxRx          \* bound on the pieces waiting at the serial port

None == -1000      \* nothing was read of a line

ASSUME TimesAssumption ==
    /\ {ClockMod, PidUpdate, ImuReport, MaxGap} \subseteq Nat \ {0}
    /\ PidUpdate + MaxGap < ClockMod /\ ImuReport + MaxGap < ClockMod
    /\ 2 * MaxGap < ClockMod            \* setup() and the first loop() take this long
ASSUME SerialAssumption ==
    /\ {TxSize, LineRoom, MaxRx} \subseteq Nat
    /\ Lines \in [{"heading", "IMU:0"} -> 1..LineRoom]
ASSUME AnglesAssumption == Commands \subseteq Int \ {None} /\ ServoMax \in Nat

VARIABLES
    clock,           \* millis()
    gap,             \* the time since loop() ran last
    error, correction, servoPos, imuReady,
    lastPidUpdateMs, lastImuReportMs,
    pidInput,        \* what panPID computed its output from
    serialBuffer,    \* the line read so far
    rx,              \* the pieces at the serial port, not read yet
    txUsed,          \* the characters in the transmit buffer
    sent,            \* the last line that arrived completely
    sincePid         \* the time since the last PID update

pidVars == <<correction, servoPos, lastPidUpdateMs, pidInput>>
vars == <<clock, gap, error, pidVars, imuReady, lastImuReportMs, serialBuffer, rx, txUsed,
          sent, sincePid>>

Part(v) == [piece |-> "digits", value |-> v]
NewLine == [piece |-> "newline"]

constrain(x, low, high) == IF x < low THEN low ELSE IF x > high THEN high ELSE x
Sign(x) == constrain(x, -1, 1)

Init ==
    /\ clock \in 0..MaxGap                  \* setup() took a while
    /\ gap = 0
    /\ error = 0 /\ correction = 0 /\ pidInput = 0
    /\ servoPos = ServoMax \div 2
    /\ imuReady \in BOOLEAN
    /\ lastPidUpdateMs = 0 /\ lastImuReportMs = 0
    /\ serialBuffer = None
    /\ rx = <<>>
    /\ txUsed = 0
    /\ sent = 0
    /\ sincePid = clock

Tick ==
    /\ gap < MaxGap
    /\ gap' = gap + 1
    /\ clock' = IF clock = ClockMod - 1 THEN 0 ELSE clock + 1
    /\ sincePid' = sincePid + 1
    /\ UNCHANGED <<error, pidVars, imuReady, lastImuReportMs, serialBuffer, rx, txUsed, sent>>

\* The host's next line arrives, at once or in two pieces.
Arrive ==
    /\ Len(rx) < MaxRx
    /\ LET last == IF rx = <<>> THEN serialBuffer
                   ELSE IF rx[Len(rx)] = NewLine THEN None ELSE rx[Len(rx)].value
       IN IF last # None THEN rx' = Append(rx, NewLine) /\ sent' = last
          ELSE /\ \E v \in Commands : rx' = Append(rx, Part(v))
               /\ UNCHANGED sent
    /\ UNCHANGED <<clock, gap, error, pidVars, imuReady, lastImuReportMs, serialBuffer, txUsed,
                   sincePid>>

\* The host reads what was sent.
Drain ==
    /\ txUsed > 0
    /\ txUsed' \in 0..(txUsed - 1)
    /\ UNCHANGED <<clock, gap, error, pidVars, imuReady, lastImuReportMs, serialBuffer, rx,
                   sent, sincePid>>

-----------------------------------------------------------------------------
\* readIncomingError: the error is taken from the last complete line.
Complete(p) == {i \in 2..Len(p) : p[i] = NewLine}
LastLine(p) == CHOOSE i \in Complete(p) : \A j \in Complete(p) : j <= i
Pending == IF serialBuffer = None THEN rx ELSE <<Part(serialBuffer)>> \o rx
FromLine(v) == constrain(-v, -90, 90)

ReadIncomingError_Unfinished ==
    /\ rx' = <<>>
    /\ error' = IF Pending = <<>> THEN error
                ELSE IF Pending[Len(Pending)] = NewLine
                     THEN FromLine(Pending[Len(Pending) - 1].value)
                     ELSE FromLine(Pending[Len(Pending)].value)
    /\ serialBuffer' = IF Pending = <<>> THEN None
                       ELSE IF Pending[Len(Pending)] = NewLine THEN None
                       ELSE Pending[Len(Pending)].value

ReadIncomingError ==
    /\ rx' = <<>>
    /\ error' = IF Complete(Pending) = {} THEN error
                ELSE FromLine(Pending[LastLine(Pending) - 1].value)
    /\ serialBuffer' = IF Pending = <<>> THEN None
                       ELSE IF Pending[Len(Pending)] = NewLine THEN None
                       ELSE Pending[Len(Pending)].value

\* Is it the period after last by the wrapping clock?
Due_Absolute(last, period) == clock >= last + period
Due(last, period) == (clock - last) % ClockMod >= period

\* panPID.Run: the library keeps its output until its own sample time is over;
\* the output for a constant input is proportional, for a new one anything.
Run ==
    \/ UNCHANGED <<correction, pidInput>>
    \/ /\ pidInput' = error'
       /\ IF error' = pidInput THEN correction' = -Sign(error') ELSE correction' \in -1..1

Moved == constrain(servoPos + correction', 0, ServoMax)

UpdatePid ==
    IF Due(lastPidUpdateMs, PidUpdate)
    THEN /\ Run
         /\ servoPos' = Moved
         /\ lastPidUpdateMs' = clock
         /\ sincePid' = 0
    ELSE UNCHANGED <<pidVars, sincePid>>

\* reportImuHeading: only when due, and when the line cannot block.
HasRoom == TxSize - txUsed >= LineRoom
ReportImuHeading ==
    IF Due(lastImuReportMs, ImuReport) /\ HasRoom
    THEN /\ lastImuReportMs' = clock
         /\ txUsed' = txUsed + Lines[IF imuReady THEN "heading" ELSE "IMU:0"]
    ELSE UNCHANGED <<lastImuReportMs, txUsed>>

Loop ==
    /\ gap' = 0
    /\ ReadIncomingError
    /\ UpdatePid
    /\ ReportImuHeading
    /\ UNCHANGED <<clock, imuReady, sent>>

Next ==
    \/ Tick
    \/ Arrive
    \/ Drain
    \/ Loop

Spec == Init /\ [][Next]_vars

-----------------------------------------------------------------------------
TypeOK ==
    /\ clock \in 0..(ClockMod - 1) /\ gap \in 0..MaxGap
    /\ error \in -90..90 /\ pidInput \in -90..90
    /\ correction \in -1..1
    /\ servoPos \in 0..ServoMax
    /\ imuReady \in BOOLEAN
    /\ lastPidUpdateMs \in 0..(ClockMod - 1) /\ lastImuReportMs \in 0..(ClockMod - 1)
    /\ serialBuffer \in Commands \cup {None}
    /\ rx \in Seq({Part(v) : v \in Commands} \cup {NewLine}) /\ Len(rx) <= MaxRx
    /\ txUsed \in 0..TxSize
    /\ sent \in Commands \cup {0}
    /\ sincePid \in Nat

\* The regulator runs whenever loop() comes round with its period over, and never
\* sooner, across the wrap-around of millis().
PidPeriodKept == [][Loop => (sincePid' = 0 <=> sincePid = 0 \/ sincePid >= PidUpdate)]_vars

\* However the host's lines are cut into reads, the error the regulator works on
\* is the last complete line's, with its sign changed and within 90 degrees.
ErrorIsLastLine == rx = <<>> => error = constrain(-sent, -90, 90)
=============================================================================
