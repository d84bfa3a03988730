---------------------------- MODULE Programs_proofs ----------------------------
(***************************************************************************)
(* Proofs about MCPrograms: about Controller for any size of millis(), any *)
(* periods and any lines of the host, cut in any way; about Tracker for    *)
(* any errors, headings and times, and any order of blocks, restarts and   *)
(* pieces of lines; about Visualizer for any packets, headings and times,  *)
(* and a socket of any size.                                               *)
(***************************************************************************)
EXTENDS MCPrograms, SequenceTheorems, WellFoundedInduction, TLAPS

\* millis() and the time since the last PID update, which it measures
Clock ==
    /\ clock \in 0..(ClockMod - 1) /\ gap \in 0..MaxGap
    /\ lastPidUpdateMs \in 0..(ClockMod - 1) /\ sincePid \in Nat
    /\ \/ clock - lastPidUpdateMs = sincePid
       \/ clock - lastPidUpdateMs = sincePid - ClockMod
    /\ \/ sincePid <= gap + PidUpdate - 1
       \/ sincePid <= gap + MaxGap

Pieces == {Part(v) : v \in Commands} \cup {NewLine}

Received == serialBuffer \in Commands \cup {None} /\ rx \in Seq(Pieces)

\* Digits and newlines take turns in what was received and not yet taken.
TakeTurns ==
    /\ Pending # <<>> => Pending[1] # NewLine
    /\ \A i \in 1..(Len(Pending) - 1) : Pending[i] = NewLine <=> Pending[i + 1] # NewLine

\* The error is the last complete line's once what was received is taken.
LineKnown ==
    IF Complete(Pending) = {} THEN error = constrain(-sent, -90, 90)
    ELSE \E i \in Complete(Pending) : /\ \A j \in Complete(Pending) : j <= i
                                      /\ Pending[i - 1] = Part(sent)

Reading == Received /\ TakeTurns /\ LineKnown

-----------------------------------------------------------------------------
LEMMA Wrapped ==
    ASSUME NEW m \in Nat \ {0}, NEW s \in 0..(m - 1), NEW d \in Int, d = s \/ d = s - m
    PROVE  d % m = s
OBVIOUS

LEMMA Elapsed ==
    ASSUME Clock
    PROVE  (clock - lastPidUpdateMs) % ClockMod = sincePid
<1>1. ClockMod \in Nat \ {0} /\ sincePid \in 0..(ClockMod - 1)
  BY TimesAssumption DEF Clock
<1>2. clock - lastPidUpdateMs \in Int
  BY DEF Clock
<1> QED
  BY <1>1, <1>2, Wrapped DEF Clock

LEMMA NextClock ==
    ASSUME Clock, [Next]_vars
    PROVE  Clock'
<1>1. CASE Tick
  BY <1>1, TimesAssumption DEF Tick, Clock, pidVars
<1>2. CASE Arrive \/ Drain \/ UNCHANGED vars
  BY <1>2 DEF Arrive, Drain, vars, pidVars, Clock
<1>3. CASE Loop
  <2>1. CASE Due(lastPidUpdateMs, PidUpdate)
    BY <1>3, <2>1, TimesAssumption DEF Loop, UpdatePid, Clock
  <2>2. CASE ~Due(lastPidUpdateMs, PidUpdate)
    <3>1. ~(sincePid >= PidUpdate)
      BY <2>2, Elapsed DEF Due
    <3> QED
      BY <1>3, <2>2, <3>1, TimesAssumption DEF Loop, UpdatePid, pidVars, Clock
  <2> QED
    BY <2>1, <2>2
<1> QED
  BY <1>1, <1>2, <1>3 DEF Next

\* The regulator runs when its period is over, across the wrap-around of millis().
THEOREM ControllerPidPeriodKept == Spec => PidPeriodKept
<1>1. Init => Clock
  BY TimesAssumption DEF Init, Clock
<1>2. Clock /\ [Next]_vars => Clock'
  BY NextClock
<1>3. Clock /\ [Next]_vars
        => [Loop => (sincePid' = 0 <=> sincePid = 0 \/ sincePid >= PidUpdate)]_vars
  <2> SUFFICES ASSUME Clock, Loop
               PROVE  sincePid' = 0 <=> sincePid = 0 \/ sincePid >= PidUpdate
    OBVIOUS
  <2>1. Due(lastPidUpdateMs, PidUpdate) <=> sincePid >= PidUpdate
    BY Elapsed DEF Due
  <2>2. CASE sincePid >= PidUpdate
    BY <2>1, <2>2 DEF Loop, UpdatePid
  <2>3. CASE ~(sincePid >= PidUpdate)
    BY <2>1, <2>3 DEF Loop, UpdatePid
  <2> QED
    BY <2>2, <2>3
<1> QED
  BY <1>1, <1>2, <1>3, PTL DEF Spec, PidPeriodKept

-----------------------------------------------------------------------------
LEMMA PiecesApart ==
    /\ NewLine \in Pieces
    /\ \A v \in Commands : /\ Part(v) \in Pieces /\ Part(v) # NewLine
                           /\ Part(v).value = v
    /\ \A p \in Pieces : p # NewLine => p = Part(p.value) /\ p.value \in Commands
    /\ None \notin Commands
BY AnglesAssumption DEF Pieces, Part, NewLine

LEMMA PendingSeq ==
    ASSUME Received
    PROVE  /\ Pending \in Seq(Pieces)
           /\ Len(Pending) \in Nat
           /\ \A i \in 1..Len(Pending) : Pending[i] \in Pieces
<1>1. Pending \in Seq(Pieces)
  <2>1. CASE serialBuffer = None
    BY <2>1 DEF Received, Pending
  <2>2. CASE serialBuffer # None
    <3>1. Part(serialBuffer) \in Pieces
      BY <2>2, PiecesApart DEF Received
    <3> QED
      BY <2>2, <3>1 DEF Received, Pending
  <2> QED
    BY <2>1, <2>2
<1> QED
  BY <1>1, ElementOfSeq

\* A piece that arrives comes last.
LEMMA PendingGrows ==
    ASSUME Received, NEW x \in Pieces, rx' = Append(rx, x), serialBuffer' = serialBuffer
    PROVE  Received' /\ Pending' = Append(Pending, x)
<1>1. Received'
  BY DEF Received
<1>2. CASE serialBuffer = None
  <2>1. Pending = rx /\ Pending' = rx'
    BY <1>2, Zenon DEF Pending
  <2> QED
    BY <1>1, <2>1, Zenon
<1>3. CASE serialBuffer # None
  <2>1. Part(serialBuffer) \in Pieces
    BY <1>3, PiecesApart DEF Received
  <2>2. <<Part(serialBuffer)>> \in Seq(Pieces) /\ rx \in Seq(Pieces) /\ <<x>> \in Seq(Pieces)
    BY <2>1 DEF Received
  <2>3. Append(rx, x) = rx \o <<x>>
    BY <2>2, AppendIsConcat
  <2>4. (<<Part(serialBuffer)>> \o rx) \o <<x>> = <<Part(serialBuffer)>> \o (rx \o <<x>>)
    BY <2>2, ConcatAssociative
  <2>5. <<Part(serialBuffer)>> \o rx \in Seq(Pieces)
    BY <2>2, ConcatProperties
  <2>6. Append(<<Part(serialBuffer)>> \o rx, x) = (<<Part(serialBuffer)>> \o rx) \o <<x>>
    BY <2>5, AppendIsConcat
  <2>7. Pending = <<Part(serialBuffer)>> \o rx /\ Pending' = <<Part(serialBuffer)>> \o rx'
    BY <1>3, Zenon DEF Pending, Part
  <2> QED
    BY <1>1, <2>3, <2>4, <2>6, <2>7
<1> QED
  BY <1>1, <1>2, <1>3

\* The last piece, as Arrive finds it
LEMMA LastPiece ==
    ASSUME Received
    PROVE  LET last == IF rx = <<>> THEN serialBuffer
                       ELSE IF rx[Len(rx)] = NewLine THEN None ELSE rx[Len(rx)].value
           IN  /\ last = None => Pending = <<>> \/ Pending[Len(Pending)] = NewLine
               /\ last # None => /\ last \in Commands /\ Pending # <<>>
                                 /\ Pending[Len(Pending)] = Part(last)
<1> DEFINE last == IF rx = <<>> THEN serialBuffer
                   ELSE IF rx[Len(rx)] = NewLine THEN None ELSE rx[Len(rx)].value
<1>1. CASE rx = <<>>
  <2>1. CASE serialBuffer = None
    BY <1>1, <2>1 DEF Pending
  <2>2. CASE serialBuffer # None
    <3>1. Pending = <<Part(serialBuffer)>>
      BY <1>1, <2>2 DEF Pending
    <3> QED
      BY <1>1, <2>2, <3>1 DEF Received
  <2> QED
    BY <2>1, <2>2
<1>2. CASE rx # <<>>
  <2>1. rx \in Seq(Pieces) /\ Len(rx) \in Nat \ {0} /\ rx[Len(rx)] \in Pieces
    BY <1>2, EmptySeq, ElementOfSeq DEF Received
  <2>2. Pending # <<>> /\ Pending[Len(Pending)] = rx[Len(rx)]
    <3>1. CASE serialBuffer = None
      BY <1>2, <3>1 DEF Pending
    <3>2. CASE serialBuffer # None
      <4>1. Part(serialBuffer) \in Pieces
        BY <3>2, PiecesApart DEF Received
      <4>2. <<Part(serialBuffer)>> \in Seq(Pieces) /\ Len(<<Part(serialBuffer)>>) = 1
        BY <4>1
      <4>3. Pending = <<Part(serialBuffer)>> \o rx
        BY <3>2 DEF Pending
      <4>4. Len(Pending) = 1 + Len(rx) /\ Pending[1 + Len(rx)] = rx[Len(rx)]
        BY <2>1, <4>2, <4>3, ConcatProperties
      <4> QED
        BY <2>1, <4>4
    <3> QED
      BY <3>1, <3>2
  <2>3. rx[Len(rx)] # NewLine => /\ rx[Len(rx)] = Part(rx[Len(rx)].value)
                                 /\ rx[Len(rx)].value \in Commands
    BY <2>1, PiecesApart
  <2>4. last = IF rx[Len(rx)] = NewLine THEN None ELSE rx[Len(rx)].value
    BY <1>2
  <2> HIDE DEF last
  <2>5. /\ last = None => Pending = <<>> \/ Pending[Len(Pending)] = NewLine
        /\ last # None => /\ last \in Commands /\ Pending # <<>>
                          /\ Pending[Len(Pending)] = Part(last)
    BY <2>2, <2>3, <2>4, PiecesApart
  <2> QED
    BY <2>5 DEF last
<1> QED
  BY <1>1, <1>2

LEMMA ArriveReading ==
    ASSUME Reading, Arrive
    PROVE  Reading'
<1> DEFINE last == IF rx = <<>> THEN serialBuffer
                   ELSE IF rx[Len(rx)] = NewLine THEN None ELSE rx[Len(rx)].value
           P == Pending
           Q == Pending'
<1>1. /\ last = None => P = <<>> \/ P[Len(P)] = NewLine
      /\ last # None => last \in Commands /\ P # <<>> /\ P[Len(P)] = Part(last)
  BY LastPiece DEF Reading
<1>2. /\ UNCHANGED <<error, serialBuffer>>
      /\ IF last # None THEN rx' = Append(rx, NewLine) /\ sent' = last
         ELSE (\E v \in Commands : rx' = Append(rx, Part(v))) /\ UNCHANGED sent
  BY DEF Arrive
<1> HIDE DEF last
<1>3. PICK x \in Pieces : rx' = Append(rx, x) /\ (x = NewLine <=> last # None)
  BY <1>2, PiecesApart
<1>4. Received' /\ Q = Append(P, x)
  BY <1>2, <1>3, PendingGrows DEF Reading
<1>5. P \in Seq(Pieces) /\ Len(P) \in Nat
  BY PendingSeq DEF Reading
<1>6. /\ Len(Q) = Len(P) + 1 /\ Q[Len(P) + 1] = x /\ Q # <<>>
      /\ \A i \in 1..Len(P) : Q[i] = P[i]
  BY <1>4, <1>5, AppendProperties
<1>7. P # <<>> => Len(P) \in Nat \ {0}
  BY <1>5, EmptySeq
<1>8. P = <<>> => Len(P) = 0
  OBVIOUS
<1> HIDE DEF P, Q
<1>9. TakeTurns'
  <2>1. Q[1] # NewLine
    <3>1. CASE P = <<>>
      BY <1>1, <1>3, <1>6, <1>8, <3>1
    <3>2. CASE P # <<>>
      BY <1>6, <1>7, <3>2 DEF Reading, TakeTurns, P
    <3> QED
      BY <3>1, <3>2
  <2>2. ASSUME NEW i \in 1..(Len(Q) - 1)
        PROVE  Q[i] = NewLine <=> Q[i + 1] # NewLine
    <3>1. CASE i < Len(P)
      BY <1>5, <1>6, <2>2, <3>1 DEF Reading, TakeTurns, P
    <3>2. CASE i = Len(P)
      <4>1. Len(P) # 0 /\ P # <<>>
        BY <1>5, <1>8, <2>2, <3>2
      <4>2. P[Len(P)] = NewLine <=> last = None
        BY <1>1, <4>1, PiecesApart
      <4> QED
        BY <1>3, <1>5, <1>6, <3>2, <4>1, <4>2
    <3> QED
      BY <1>5, <1>6, <2>2, <3>1, <3>2
  <2> QED
    BY <2>1, <2>2 DEF TakeTurns, Q
<1>10. LineKnown'
  <2>1. CASE last # None
    <3>1. Len(P) \in Nat \ {0} /\ Q[Len(P) + 1] = NewLine
      BY <1>1, <1>3, <1>6, <1>7, <2>1
    <3>2. Q[Len(P)] = Part(last) /\ sent' = last
      BY <1>1, <1>2, <1>6, <2>1, <3>1
    <3>3. Len(P) + 1 \in Complete(Q) /\ \A j \in Complete(Q) : j <= Len(P) + 1
      BY <1>6, <3>1 DEF Complete
    <3>4. Q[(Len(P) + 1) - 1] = Part(sent')
      BY <3>1, <3>2
    <3> QED
      BY <3>3, <3>4 DEF LineKnown, Q, Complete
  <2>2. CASE last = None
    <3>1. Complete(Q) = Complete(P)
      BY <1>3, <1>5, <1>6, <2>2 DEF Complete
    <3>2. sent' = sent /\ error' = error
      BY <1>2, <2>2
    <3>3. CASE Complete(P) = {}
      BY <3>1, <3>2, <3>3 DEF Reading, LineKnown, P, Q, Complete
    <3>4. CASE Complete(P) # {}
      <4>1. PICK i \in Complete(P) : (\A j \in Complete(P) : j <= i) /\ P[i - 1] = Part(sent)
        BY <3>4 DEF Reading, LineKnown, P
      <4>2. Q[i - 1] = P[i - 1]
        BY <1>5, <1>6 DEF Complete
      <4>3. i \in Complete(Q) /\ (\A j \in Complete(Q) : j <= i) /\ Q[i - 1] = Part(sent')
        BY <3>1, <3>2, <4>1, <4>2
      <4> QED
        BY <4>3 DEF LineKnown, Q, Complete
    <3> QED
      BY <3>3, <3>4
  <2> QED
    BY <2>1, <2>2
<1> QED
  BY <1>4, <1>9, <1>10 DEF Reading

\* Reading takes everything but the line that is not complete.
LEMMA LoopReading ==
    ASSUME Reading, ReadIncomingError, sent' = sent, sent \in Int
    PROVE  Reading'
<1> DEFINE P == Pending
<1>1. P \in Seq(Pieces) /\ Len(P) \in Nat /\ \A i \in 1..Len(P) : P[i] \in Pieces
  BY PendingSeq DEF Reading
<1>2. /\ rx' = <<>>
      /\ error' = IF Complete(P) = {} THEN error ELSE FromLine(P[LastLine(P) - 1].value)
      /\ serialBuffer' = IF P = <<>> THEN None
                         ELSE IF P[Len(P)] = NewLine THEN None ELSE P[Len(P)].value
  BY DEF ReadIncomingError
<1>3. P # <<>> => P[Len(P)] \in Pieces
  BY <1>1, EmptySeq
<1> HIDE DEF P
<1>4. serialBuffer' \in Commands \cup {None}
  BY <1>2, <1>3, PiecesApart
<1>5. Received'
  BY <1>2, <1>4 DEF Received
<1>6. Pending' = IF serialBuffer' = None THEN <<>> ELSE <<Part(serialBuffer')>>
  BY <1>2 DEF Pending
<1>7. Complete(Pending') = {} /\ Len(Pending') \in 0..1
  BY <1>6 DEF Complete
<1>8. TakeTurns'
  <2>1. Pending' # <<>> => Pending'[1] # NewLine
    BY <1>4, <1>6, PiecesApart
  <2> QED
    BY <1>7, <2>1 DEF TakeTurns
<1>9. error' = constrain(-sent, -90, 90)
  <2>1. CASE Complete(P) = {}
    BY <1>2, <2>1 DEF Reading, LineKnown, P
  <2>2. CASE Complete(P) # {}
    <3>1. PICK i \in Complete(P) : (\A j \in Complete(P) : j <= i) /\ P[i - 1] = Part(sent)
      BY <2>2 DEF Reading, LineKnown, P
    <3>2. Complete(P) \subseteq Int
      BY DEF Complete
    <3>3. LastLine(P) = i
      BY <3>1, <3>2 DEF LastLine
    <3>4. Part(sent).value = sent
      BY DEF Part
    <3> QED
      BY <1>2, <2>2, <3>1, <3>3, <3>4 DEF FromLine
  <2> QED
    BY <2>1, <2>2
<1>10. LineKnown'
  BY <1>7, <1>9 DEF LineKnown, Complete
<1> QED
  BY <1>5, <1>8, <1>10 DEF Reading

\* However the host's lines are cut into reads, the regulator works on the last
\* complete line.
THEOREM ControllerErrorIsLastLine == Spec => []ErrorIsLastLine
<1> DEFINE Inv == Reading /\ sent \in Int
<1>1. Init => Inv
  <2> SUFFICES ASSUME Init
               PROVE  Inv
    OBVIOUS
  <2>1. rx = <<>> /\ serialBuffer = None /\ error = 0 /\ sent = 0 /\ Pending = <<>>
    BY DEF Init, Pending
  <2>2. Len(Pending) = 0
    BY <2>1
  <2>3. 2..Len(Pending) = {}
    BY <2>2
  <2>4. Complete(Pending) = {}
    BY <2>3 DEF Complete
  <2>5. constrain(-sent, -90, 90) = error
    <3>1. sent \in Int /\ 0 - 0 = 0 /\ constrain(0, -90, 90) = 0
      BY <2>1 DEF constrain
    <3>2. \A i \in Int : -i = 0 - i
      OBVIOUS
    <3> QED
      BY <2>1, <3>1, <3>2, Zenon
  <2>6. Received
    BY <2>1, EmptySeq DEF Received
  <2>7. TakeTurns
    BY <2>1 DEF TakeTurns
  <2>8. LineKnown
    BY <2>4, <2>5 DEF LineKnown
  <2> QED
    BY <2>1, <2>6, <2>7, <2>8 DEF Reading
<1>2. Inv /\ [Next]_vars => Inv'
  <2> SUFFICES ASSUME Inv, [Next]_vars
               PROVE  Inv'
    OBVIOUS
  <2>1. CASE Arrive
    <3>1. sent' \in Int
      <4>1. Reading
        OBVIOUS
      <4>2. CASE sent' = sent
        BY <4>2
      <4>3. CASE sent' # sent
        BY <2>1, <4>1, <4>3, LastPiece, AnglesAssumption DEF Arrive, Reading
      <4> QED
        BY <4>2, <4>3
    <3> QED
      BY <2>1, <3>1, ArriveReading
  <2>2. CASE Loop
    BY <2>2, LoopReading DEF Loop
  <2>3. CASE Tick \/ Drain \/ UNCHANGED vars
    <3>1. UNCHANGED <<rx, serialBuffer, error, sent>>
      BY <2>3 DEF Tick, Drain, vars
    <3>2. Pending' = Pending
      BY <3>1 DEF Pending
    <3> QED
      BY <3>1, <3>2 DEF Reading, Received, TakeTurns, LineKnown, Complete
  <2> QED
    BY <2>1, <2>2, <2>3 DEF Next
<1>3. Inv => ErrorIsLastLine
  <2> SUFFICES ASSUME Inv, rx = <<>>
               PROVE  error = constrain(-sent, -90, 90)
    BY DEF ErrorIsLastLine
  <2>1. Pending = IF serialBuffer = None THEN <<>> ELSE <<Part(serialBuffer)>>
    BY DEF Pending
  <2>2. Complete(Pending) = {}
    BY <2>1 DEF Complete
  <2> QED
    BY <2>2 DEF Reading, LineKnown
<1> QED
  BY <1>1, <1>2, <1>3, PTL DEF Spec

-----------------------------------------------------------------------------
\* How long the error has been in the band is how long it was calm.
SinceCalm == now \in Nat /\ in_lock_since = calm

\* s ends as h does, as far as it goes back and no more than three errors.
EndsAs(s, h) == \A j \in 0..2 : j < Len(s) => j < Len(h) /\ h[Len(h) - j] = s[Len(s) - j]

\* What is kept for the next correction: errors that were heard one after another, after
\* those the last correction used.
Recent ==
    /\ last_errors \in Seq(Int)
    /\ heard \in Seq(Int) /\ Len(heard) <= 3
    /\ EndsAs(last_errors, heard)
    /\ steered \in 0..3
    /\ steered = 0 \/ steered + Len(last_errors) <= 3

\* The pieces that are not parsed yet, those read in the last poll first
HostPending == controller_buffer \o hostRx

\* Two headings never follow each other, and the piece that came last begins the line that
\* the controller is in the middle of.
HostLines ==
    /\ line \in HeadingsSent \cup {tracker!None, tracker!Cut}
         /\ reported \in HeadingsSent \cup {tracker!None}
    /\ \A i \in 1..(Len(HostPending) - 1) : HostPending[i].piece = "H:"
         => HostPending[i + 1].piece # "H:"
    /\ line \in HeadingsSent => HostPending # <<>>
         /\ HostPending[Len(HostPending)] = tracker!Heading(line)
    /\ line \notin HeadingsSent => HostPending = <<>>
         \/ HostPending[Len(HostPending)].piece # "H:"

\* What is reported was parsed, or is the last that will be.
HeadingKnown ==
    IF tracker!Parsed(HostPending) = {} THEN tracker_heading_deg = reported
    ELSE \E i \in tracker!Parsed(HostPending) : /\ \A j \in tracker!Parsed(HostPending) : j <= i
                                                /\ HostPending[i - 1].heading = reported

HostReading ==
    /\ controller_buffer \in Seq(tracker!Pieces) /\ Len(controller_buffer) <= 1
    /\ hostRx \in Seq(tracker!Pieces) /\ tracker!Ends(controller_buffer) = {}
    /\ HostLines /\ HeadingKnown

-----------------------------------------------------------------------------
\* The clock moves in Tick only, and in_lock_since follows calm in every block.
LEMMA NextCalm ==
    ASSUME SinceCalm, [tracker!Next]_(tracker!vars)
    PROVE  SinceCalm'
<1>1. now # tracker!None
  BY DEF SinceCalm, tracker!None
<1>2. CASE tracker!Tick \/ tracker!Arrive \/ tracker!Restart \/ tracker!UnusableBlock
             \/ UNCHANGED tracker!vars
  BY <1>2 DEF tracker!Tick, tracker!Arrive, tracker!Restart, tracker!UnusableBlock,
     tracker!Note, tracker!Quiet, tracker!Unusable, tracker!vars, tracker!hostVars,
     tracker!noteVars, SinceCalm
<1>3. CASE tracker!QuietBlock
  <2>1. in_lock_since' = tracker!None /\ calm' = tracker!None /\ now' = now
    BY <1>3 DEF tracker!QuietBlock, tracker!derive_state, tracker!Note, tracker!Quiet,
       tracker!Unusable
  <2> QED
    BY <2>1 DEF SinceCalm
<1>4. ASSUME NEW e \in Errors, tracker!MeasuredBlock(e)
      PROVE  SinceCalm'
  <2>1. tracker!Measures(e) # tracker!Quiet /\ tracker!Measures(e) # tracker!Unusable
    BY DEF tracker!Measures, tracker!Quiet, tracker!Unusable
  <2>2. now' = now /\ tracker!Note(tracker!Measures(e))
        /\ in_lock_since' = tracker!derive_state(TRUE, TRUE, smoothed_error').since
    BY <1>4 DEF tracker!MeasuredBlock
  <2>3. CASE tracker!InBand(smoothed_error')
    <3>1. in_lock_since' = tracker!Since
      BY <2>2, <2>3 DEF tracker!derive_state
    <3>2. calm' = IF calm = tracker!None THEN now ELSE calm
      BY <2>1, <2>2, <2>3 DEF tracker!Note
    <3> QED
      BY <2>2, <3>1, <3>2 DEF tracker!Since, SinceCalm
  <2>4. CASE ~tracker!InBand(smoothed_error')
    <3>1. in_lock_since' = tracker!None
      BY <2>2, <2>4 DEF tracker!derive_state
    <3>2. calm' = tracker!None
      BY <2>1, <2>2, <2>4 DEF tracker!Note
    <3> QED
      BY <2>2, <3>1, <3>2 DEF SinceCalm
  <2> QED
    BY <2>3, <2>4
<1> QED
  BY <1>2, <1>3, <1>4 DEF tracker!Next

\* The loop reports LOCKED only after LockHold in the band without a quiet block.
THEOREM TrackerLockEarned == tracker!Spec => tracker!LockEarned
<1>1. tracker!Init => SinceCalm
  BY DEF tracker!Init, SinceCalm
<1>2. SinceCalm /\ [tracker!Next]_(tracker!vars) => SinceCalm'
  BY NextCalm
<1>3. SinceCalm /\ [tracker!Next]_(tracker!vars)
        => [packet' # packet /\ packet'.state = "LOCKED"
             => calm' # tracker!None /\ now - calm' >= LockHold]_(tracker!vars)
  <2> SUFFICES ASSUME SinceCalm, tracker!Next, packet' # packet, packet'.state = "LOCKED"
               PROVE  calm' # tracker!None /\ now - calm' >= LockHold
    OBVIOUS
  <2>1. CASE tracker!Tick \/ tracker!Arrive \/ tracker!UnusableBlock
    BY <2>1 DEF tracker!Tick, tracker!Arrive, tracker!UnusableBlock
  <2>2. CASE tracker!Restart
    BY <2>2 DEF tracker!Restart, tracker!NoPacket
  <2>3. CASE tracker!QuietBlock
    BY <2>3 DEF tracker!QuietBlock, tracker!SendPacket, tracker!derive_state
  <2>4. ASSUME NEW e \in Errors, tracker!MeasuredBlock(e)
        PROVE  calm' # tracker!None /\ now - calm' >= LockHold
    <3>1. tracker!Measures(e) # tracker!Quiet /\ tracker!Measures(e) # tracker!Unusable
      BY DEF tracker!Measures, tracker!Quiet, tracker!Unusable
    <3>2. tracker!Note(tracker!Measures(e))
            /\ packet'.state = tracker!derive_state(TRUE, TRUE, smoothed_error').state
      BY <2>4 DEF tracker!MeasuredBlock, tracker!SendPacket
    <3>3. tracker!InBand(smoothed_error') /\ now - tracker!Since >= LockHold
      BY <3>2 DEF tracker!derive_state
    <3>4. calm' = IF calm = tracker!None THEN now ELSE calm
      BY <3>1, <3>2, <3>3 DEF tracker!Note
    <3>5. calm' = tracker!Since
      BY <3>4 DEF tracker!Since, SinceCalm
    <3>6. calm' # tracker!None
      BY <3>4 DEF SinceCalm, tracker!None
    <3> QED
      BY <3>3, <3>5, <3>6
  <2> QED
    BY <2>1, <2>2, <2>3, <2>4 DEF tracker!Next
<1> QED
  BY <1>1, <1>2, <1>3, PTL DEF tracker!Spec, tracker!LockEarned

-----------------------------------------------------------------------------
LEMMA ErrorsAreIntegers == Errors \subseteq Int
BY TrackerAssumption DEF tracker!AnglesAssumption

LEMMA UpToThree == \A n \in Nat : n <= 3 => n \in 0..3 /\ (~(n < 3) => n = 3)
OBVIOUS

\* One more error is added to what is kept and to what was heard.
LEMMA HearsOne ==
    ASSUME NEW s \in Seq(Int), NEW h \in Seq(Int), Len(h) <= 3, EndsAs(s, h), NEW e \in Int,
           NEW g, g = IF Len(h) < 3 THEN Append(h, e) ELSE Append(Tail(h), e)
    PROVE  /\ Append(s, e) \in Seq(Int) /\ Len(Append(s, e)) = Len(s) + 1
           /\ g \in Seq(Int) /\ Len(g) <= 3
           /\ EndsAs(Append(s, e), g)
<1>1. Len(s) \in Nat /\ Len(h) \in Nat /\ Len(h) \in 0..3
  <2>1. Len(s) \in Nat /\ Len(h) \in Nat
    OBVIOUS
  <2> QED
    BY <2>1, UpToThree, Zenon
<1>2. /\ Append(s, e) \in Seq(Int) /\ Len(Append(s, e)) = Len(s) + 1
      /\ Append(s, e)[Len(s) + 1] = e
      /\ \A i \in 1..Len(s) : Append(s, e)[i] = s[i]
  BY AppendProperties
<1>3. /\ g \in Seq(Int) /\ Len(g) = IF Len(h) < 3 THEN Len(h) + 1 ELSE 3
      /\ g[Len(g)] = e
      /\ \A j \in 1..2 : j - 1 < Len(h) => j < Len(g) /\ g[Len(g) - j] = h[Len(h) - (j - 1)]
  <2>1. CASE Len(h) < 3
    <3>1. /\ g \in Seq(Int) /\ Len(g) = Len(h) + 1 /\ g[Len(h) + 1] = e
          /\ \A i \in 1..Len(h) : g[i] = h[i]
      BY <2>1, AppendProperties
    <3> QED
      BY <1>1, <2>1, <3>1
  <2>2. CASE ~(Len(h) < 3)
    <3>1. Len(h) = 3
      BY <1>1, <2>2, UpToThree, Zenon
    <3>2. Tail(h) \in Seq(Int) /\ Len(Tail(h)) = 2 /\ \A i \in 1..2 : Tail(h)[i] = h[i + 1]
      <4>1. h # <<>>
        BY <3>1, EmptySeq
      <4>2. /\ Tail(h) \in Seq(Int) /\ Len(Tail(h)) = Len(h) - 1
            /\ \A i \in 1..Len(Tail(h)) : Tail(h)[i] = h[i + 1]
        BY <4>1, HeadTailProperties, Zenon
      <4>3. Len(Tail(h)) = 2
        BY <3>1, <4>2
      <4> QED
        BY <4>2, <4>3, Zenon
    <3>3. /\ g \in Seq(Int) /\ Len(g) = 3 /\ g[3] = e
          /\ \A i \in 1..2 : g[i] = Tail(h)[i]
      BY <2>2, <3>2, AppendProperties
    <3>4. g[1] = h[2] /\ g[2] = h[3]
      BY <3>2, <3>3
    <3>5. ASSUME NEW j \in 1..2
          PROVE  j < 3 /\ g[3 - j] = h[3 - (j - 1)]
      <4>1. CASE j = 1
        <5>1. j < 3 /\ 3 - j = 2 /\ 3 - (j - 1) = 3
          BY <4>1
        <5> QED
          BY <3>4, <5>1, Zenon
      <4>2. CASE j = 2
        <5>1. j < 3 /\ 3 - j = 1 /\ 3 - (j - 1) = 2
          BY <4>2
        <5> QED
          BY <3>4, <5>1, Zenon
      <4>3. j = 1 \/ j = 2
        OBVIOUS
      <4> QED
        BY <4>1, <4>2, <4>3, Zenon
    <3> QED
      BY <2>2, <3>1, <3>3, <3>5, Zenon
  <2> QED
    BY <2>1, <2>2
<1> DEFINE t == Append(s, e)
<1> HIDE DEF t
<1>4. ASSUME NEW j \in 0..2, j < Len(t)
      PROVE  j < Len(g) /\ g[Len(g) - j] = t[Len(t) - j]
  <2>1. CASE j = 0
    BY <1>1, <1>2, <1>3, <2>1 DEF t
  <2>2. CASE j \in 1..2
    <3>1. j - 1 \in 0..2 /\ j - 1 < Len(s)
      BY <1>1, <1>2, <1>4, <2>2 DEF t
    <3>2. j - 1 < Len(h) /\ h[Len(h) - (j - 1)] = s[Len(s) - (j - 1)]
      BY <3>1 DEF EndsAs
    <3>3. j < Len(g) /\ g[Len(g) - j] = h[Len(h) - (j - 1)]
      BY <1>3, <2>2, <3>2
    <3>4. Len(t) - j = Len(s) - (j - 1) /\ Len(s) - (j - 1) \in 1..Len(s)
      BY <1>1, <1>2, <2>2, <3>1 DEF t
    <3>5. t[Len(t) - j] = s[Len(s) - (j - 1)]
      BY <1>2, <3>4 DEF t
    <3> QED
      BY <3>2, <3>3, <3>5
  <2> QED
    BY <2>1, <2>2
<1>5. EndsAs(t, g)
  BY <1>4 DEF EndsAs
<1>6. Len(g) <= 3
  BY <1>1, <1>3
<1> QED
  BY <1>2, <1>3, <1>5, <1>6 DEF t

\* The oldest of more than five errors goes.
LEMMA DropsOldest ==
    ASSUME NEW s \in Seq(Int), NEW h, Len(s) > 5, EndsAs(s, h)
    PROVE  Tail(s) \in Seq(Int) /\ Len(Tail(s)) = Len(s) - 1 /\ EndsAs(Tail(s), h)
<1>1. /\ Tail(s) \in Seq(Int) /\ Len(Tail(s)) = Len(s) - 1 /\ Len(s) \in Nat
      /\ \A i \in 1..(Len(s) - 1) : Tail(s)[i] = s[i + 1]
  OBVIOUS
<1>2. ASSUME NEW j \in 0..2
      PROVE  Tail(s)[Len(Tail(s)) - j] = s[Len(s) - j]
  <2>1. Len(s) - 1 - j \in 1..(Len(s) - 1) /\ (Len(s) - 1 - j) + 1 = Len(s) - j
    BY <1>1
  <2> QED
    BY <1>1, <2>1
<1>3. ASSUME NEW j \in 0..2
      PROVE  j < Len(s) /\ j < Len(h) /\ h[Len(h) - j] = s[Len(s) - j]
  <2>1. j < Len(s)
    BY <1>1
  <2> QED
    BY <2>1 DEF EndsAs
<1>4. EndsAs(Tail(s), h)
  BY <1>2, <1>3 DEF EndsAs
<1> QED
  BY <1>1, <1>4

\* A block that measures an error: what Correct works on are the errors heard.
LEMMA Measured ==
    ASSUME Recent, NEW e \in Errors, tracker!MeasuredBlock(e)
    PROVE  LET errors == Append(last_errors, e) IN
           /\ errors \in Seq(Int) /\ Len(errors) = Len(last_errors) + 1
           /\ heard' \in Seq(Int) /\ Len(heard') <= 3
           /\ EndsAs(errors, heard')
           /\ tracker!Correct(errors)
<1>1. e \in Int
  BY ErrorsAreIntegers
<1>2. tracker!Measures(e) # tracker!Quiet /\ tracker!Measures(e) # tracker!Unusable
        /\ tracker!Measures(e).error = e
  BY DEF tracker!Measures, tracker!Quiet, tracker!Unusable
<1>3. tracker!Note(tracker!Measures(e)) /\ tracker!Correct(Append(last_errors, e))
  BY DEF tracker!MeasuredBlock
<1>4. heard' = IF Len(heard) < 3 THEN Append(heard, e) ELSE Append(Tail(heard), e)
  BY <1>2, <1>3 DEF tracker!Note
<1> QED
  BY <1>1, <1>3, <1>4, HearsOne DEF Recent

LEMMA NextRecent ==
    ASSUME Recent, [tracker!Next]_(tracker!vars)
    PROVE  Recent'
<1>1. CASE tracker!Tick \/ tracker!Arrive \/ UNCHANGED tracker!vars
  BY <1>1 DEF tracker!Tick, tracker!Arrive, tracker!vars, tracker!hostVars,
     tracker!noteVars, Recent, EndsAs
<1>2. CASE tracker!UnusableBlock
  <2>1. UNCHANGED <<last_errors, heard, steered>>
    BY <1>2 DEF tracker!UnusableBlock, tracker!Note, tracker!Quiet, tracker!Unusable
  <2> QED
    BY <2>1 DEF Recent, EndsAs
<1>3. CASE tracker!Restart \/ tracker!QuietBlock
  <2>1. last_errors' = <<>> /\ heard' = <<>> /\ steered' = 0
    BY <1>3 DEF tracker!Restart, tracker!QuietBlock, tracker!Forget, tracker!Note
  <2> QED
    BY <2>1 DEF Recent, EndsAs
<1>4. ASSUME NEW e \in Errors, tracker!MeasuredBlock(e)
      PROVE  Recent'
  <2> DEFINE errors == Append(last_errors, e)
  <2>1. /\ errors \in Seq(Int) /\ Len(errors) = Len(last_errors) + 1
        /\ heard' \in Seq(Int) /\ Len(heard') <= 3
        /\ EndsAs(errors, heard')
        /\ tracker!Correct(errors)
    BY <1>4, Measured
  <2>2. Len(last_errors) \in Nat /\ steered \in 0..3
        /\ (steered = 0 \/ steered + Len(last_errors) <= 3)
    BY DEF Recent
  <2> HIDE DEF errors
  <2>3. CASE tracker!Agree(errors)
    <3>1. last_errors' = <<>> /\ steered' = 3
      BY <2>1, <2>3 DEF tracker!Correct
    <3> QED
      BY <2>1, <3>1 DEF Recent, EndsAs
  <2>4. CASE ~tracker!Agree(errors)
    <3>1. /\ last_errors' = IF Len(errors) > 5 THEN Tail(errors) ELSE errors
          /\ steered' = IF steered > 0 THEN steered - 1 ELSE 0
      BY <2>1, <2>4 DEF tracker!Correct
    <3>2. /\ last_errors' \in Seq(Int) /\ Len(last_errors') <= Len(errors)
          /\ EndsAs(last_errors', heard')
      BY <2>1, <3>1, DropsOldest
    <3>3. Len(last_errors') \in Nat /\ Len(last_errors) \in Nat
      BY <3>2 DEF Recent
    <3>4. \A l, k, n \in Nat : k + l <= 3 /\ n <= l + 1 /\ k > 0 => (k - 1) + n <= 3
      OBVIOUS
    <3>5. steered # 0 => (steered - 1) + Len(last_errors') <= 3
      <4>1. steered # 0 => steered > 0 /\ steered \in Nat /\ steered + Len(last_errors) <= 3
        BY <2>2
      <4>2. Len(last_errors') <= Len(last_errors) + 1
        BY <2>1, <3>2
      <4> QED
        BY <3>3, <3>4, <4>1, <4>2, Zenon
    <3>6. steered' \in 0..3 /\ (steered' = 0 \/ steered' + Len(last_errors') <= 3)
      <4>1. CASE steered = 0
        BY <3>1, <4>1
      <4>2. CASE steered # 0
        <5>1. steered > 0 /\ steered \in 0..3
          BY <2>2, <4>2
        <5>2. steered' = steered - 1
          BY <3>1, <5>1
        <5> QED
          BY <3>5, <4>2, <5>1, <5>2
      <4> QED
        BY <4>1, <4>2
    <3> QED
      BY <2>1, <3>2, <3>6 DEF Recent, EndsAs
  <2> QED
    BY <2>3, <2>4
<1> QED
  BY <1>1, <1>2, <1>3, <1>4 DEF tracker!Next

\* The last three of two sequences that end alike
LEMMA SameLast ==
    ASSUME NEW s \in Seq(Int), NEW h \in Seq(Int), Len(s) >= 3, Len(h) <= 3, EndsAs(s, h)
    PROVE  Len(h) = 3 /\ \A i \in 1..3 : tracker!Last3(s)[i] = h[i]
             /\ tracker!Last3(h)[i] = h[i]
<1>1. Len(s) \in Nat /\ Len(h) = 3
  <2>1. Len(s) \in Nat /\ Len(h) \in Nat
    OBVIOUS
  <2>2. 2 < Len(s)
    BY <2>1
  <2>3. 2 < Len(h)
    BY <2>2 DEF EndsAs
  <2>4. \A n \in Nat : n <= 3 /\ 2 < n => n = 3
    OBVIOUS
  <2> QED
    BY <2>1, <2>3, <2>4, Zenon
<1>2. ASSUME NEW i \in 1..3
      PROVE  tracker!Last3(s)[i] = s[Len(s) - (3 - i)] /\ tracker!Last3(h)[i] = h[i]
  BY <1>1 DEF tracker!Last3
<1>3. ASSUME NEW i \in 1..3
      PROVE  h[i] = s[Len(s) - (3 - i)]
  <2>1. 3 - i \in 0..2 /\ 3 - i < Len(s) /\ Len(h) - (3 - i) = i
    BY <1>1
  <2> QED
    BY <2>1 DEF EndsAs
<1> QED
  BY <1>1, <1>2, <1>3

\* No correction is made of errors that were used before, that do not agree, or
\* that a quiet block lies between.
THEOREM TrackerCorrectionsAgree == tracker!Spec => tracker!CorrectionsAgree
<1>1. tracker!Init => Recent
  BY DEF tracker!Init, Recent, EndsAs
<1>2. Recent /\ [tracker!Next]_(tracker!vars) => Recent'
  BY NextRecent
<1>3. Recent /\ [tracker!Next]_(tracker!vars)
        => [(\E e \in Errors : tracker!MeasuredBlock(e)) /\ last_errors' = <<>> =>
              /\ Len(heard') = 3 /\ steered <= 1
              /\ \A i, j \in 1..3 : heard'[i] - heard'[j] < Spread
              /\ command' = tracker!Average(heard')]_(tracker!vars)
  <2> SUFFICES ASSUME Recent, NEW e \in Errors, tracker!MeasuredBlock(e), last_errors' = <<>>
               PROVE  /\ Len(heard') = 3 /\ steered <= 1
                      /\ \A i, j \in 1..3 : heard'[i] - heard'[j] < Spread
                      /\ command' = tracker!Average(heard')
    OBVIOUS
  <2> DEFINE errors == Append(last_errors, e)
  <2>1. /\ errors \in Seq(Int) /\ Len(errors) = Len(last_errors) + 1
        /\ heard' \in Seq(Int) /\ Len(heard') <= 3
        /\ EndsAs(errors, heard')
        /\ tracker!Correct(errors)
    BY Measured
  <2>2. Len(last_errors) \in Nat /\ steered \in 0..3
        /\ (steered = 0 \/ steered + Len(last_errors) <= 3)
    BY DEF Recent
  <2> HIDE DEF errors
  <2>3. tracker!Agree(errors)
    <3> SUFFICES ASSUME ~tracker!Agree(errors)
                 PROVE  FALSE
      OBVIOUS
    <3>1. last_errors' = IF Len(errors) > 5 THEN Tail(errors) ELSE errors
      BY <2>1 DEF tracker!Correct
    <3>2. Len(errors) # 0
      BY <2>1, <2>2
    <3>3. last_errors' # <<>>
      <4>1. CASE Len(errors) > 5
        <5>1. Len(Tail(errors)) = Len(errors) - 1 /\ Len(errors) - 1 # 0
          BY <2>1, <2>2, <4>1, DropsOldest
        <5>2. Tail(errors) # <<>>
          BY <5>1, EmptySeq
        <5> QED
          BY <3>1, <4>1, <5>2, Zenon
      <4>2. CASE ~(Len(errors) > 5)
        BY <3>1, <3>2, <4>2, EmptySeq
      <4> QED
        BY <4>1, <4>2
    <3> QED
      BY <3>3
  <2>4. /\ Len(errors) >= 3
        /\ \A i, j \in 1..3 : tracker!Last3(errors)[i] - tracker!Last3(errors)[j] < Spread
    BY <2>3 DEF tracker!Agree
  <2>5. Len(heard') = 3 /\ \A i \in 1..3 : tracker!Last3(errors)[i] = heard'[i]
          /\ tracker!Last3(heard')[i] = heard'[i]
    BY <2>1, <2>4, SameLast
  <2>6. command' = tracker!Average(errors)
    BY <2>1, <2>3 DEF tracker!Correct
  <2>7. tracker!Average(errors) = tracker!Average(heard')
    BY <2>5 DEF tracker!Average
  <2>8. steered <= 1
    BY <2>1, <2>2, <2>4
  <2>9. \A i, j \in 1..3 : heard'[i] - heard'[j] < Spread
    BY <2>4, <2>5
  <2> QED
    BY <2>5, <2>6, <2>7, <2>8, <2>9
<1> QED
  BY <1>1, <1>2, <1>3, PTL DEF tracker!Spec, tracker!CorrectionsAgree

-----------------------------------------------------------------------------
LEMMA HostPiecesApart ==
    /\ tracker!LineEnd \in tracker!Pieces /\ tracker!ImuZero \in tracker!Pieces
         /\ \A h \in HeadingsSent : tracker!Heading(h) \in tracker!Pieces
    /\ tracker!LineEnd.piece = "rest" /\ tracker!ImuZero.piece = "IMU:0"
    /\ \A h : tracker!Heading(h).piece = "H:" /\ tracker!Heading(h).heading = h
    /\ tracker!None \notin HeadingsSent /\ tracker!Cut \notin HeadingsSent
         /\ tracker!None # tracker!Cut
<1>1. tracker!None \notin HeadingsSent /\ tracker!Cut \notin HeadingsSent
        /\ tracker!None # tracker!Cut
  BY TrackerAssumption DEF tracker!AnglesAssumption, tracker!None, tracker!Cut
<1> QED
  BY <1>1 DEF tracker!Pieces, tracker!LineEnd, tracker!ImuZero, tracker!Heading

LEMMA Greatest ==
    ASSUME NEW S \in SUBSET Int, NEW i \in S, \A j \in S : j <= i
    PROVE  tracker!Max(S) = i
<1>1. \A x \in S : (\A y \in S : x >= y) => x = i
  <2> SUFFICES ASSUME NEW x \in S, \A y \in S : x >= y
               PROVE  x = i
    OBVIOUS
  <2>1. x \in Int /\ i \in Int /\ x >= i /\ x <= i
    OBVIOUS
  <2> QED
    BY <2>1
<1>2. \A y \in S : i >= y
  OBVIOUS
<1> QED
  BY <1>1, <1>2, Zenon DEF tracker!Max

LEMMA HostPendingSeq ==
    ASSUME HostReading
    PROVE  /\ HostPending \in Seq(tracker!Pieces) /\ Len(HostPending) \in Nat
           /\ HostPending = <<>> <=> Len(HostPending) = 0
<1>1. HostPending \in Seq(tracker!Pieces)
  BY ConcatProperties DEF HostReading, HostPending
<1> QED
  BY <1>1, EmptySeq

\* One more piece arrives behind those that are pending.
LEMMA HostPendingGrows ==
    ASSUME HostReading, NEW x \in tracker!Pieces, controller_buffer' = controller_buffer,
           hostRx' = Append(hostRx, x)
    PROVE  /\ HostPending' = Append(HostPending, x) /\ hostRx' \in Seq(tracker!Pieces)
           /\ Len(HostPending') = Len(HostPending) + 1 /\ HostPending'[Len(HostPending) + 1] = x
           /\ \A i \in 1..Len(HostPending) : HostPending'[i] = HostPending[i]
<1>1. hostRx \in Seq(tracker!Pieces) /\ controller_buffer \in Seq(tracker!Pieces)
        /\ <<x>> \in Seq(tracker!Pieces)
  BY DEF HostReading
<1>2. hostRx' = hostRx \o <<x>> /\ hostRx' \in Seq(tracker!Pieces)
  BY <1>1, AppendIsConcat, ConcatProperties
<1>3. HostPending' = HostPending \o <<x>>
  BY <1>1, <1>2, ConcatAssociative DEF HostPending
<1>4. HostPending \in Seq(tracker!Pieces)
  BY HostPendingSeq
<1>5. HostPending' = Append(HostPending, x)
  BY <1>3, <1>4, AppendIsConcat
<1> QED
  BY <1>2, <1>4, <1>5, AppendProperties

LEMMA HostArriveReading ==
    ASSUME HostReading, tracker!Arrive
    PROVE  HostReading'
<1> DEFINE P == HostPending
           Q == HostPending'
           n == Len(HostPending)
<1>1. PICK x \in tracker!Pieces :
        /\ hostRx' = Append(hostRx, x)
        /\ \/ line = tracker!None /\ reported' = reported
                /\ \E h \in HeadingsSent : line' = h /\ x = tracker!Heading(h)
           \/ line = tracker!None /\ reported' = reported /\ line' = tracker!None
                /\ x = tracker!ImuZero
           \/ /\ line # tracker!None /\ line' = tracker!None /\ x = tracker!LineEnd
              /\ reported' = IF line = tracker!Cut THEN reported ELSE line
  BY HostPiecesApart DEF tracker!Arrive
<1>2. UNCHANGED <<controller_buffer, tracker_heading_deg>>
  BY DEF tracker!Arrive, tracker!hostVars
<1>3. /\ Q = Append(P, x) /\ hostRx' \in Seq(tracker!Pieces) /\ Len(Q) = n + 1 /\ Q[n + 1] = x
      /\ \A i \in 1..n : Q[i] = P[i]
  BY <1>1, <1>2, HostPendingGrows
<1>4. P \in Seq(tracker!Pieces) /\ n \in Nat /\ (P = <<>> <=> n = 0)
  BY HostPendingSeq
<1>5. Q # <<>>
  BY <1>3, <1>4
<1>6. /\ line \in HeadingsSent \cup {tracker!None, tracker!Cut}
           /\ reported \in HeadingsSent \cup {tracker!None}
      /\ \A i \in 1..(n - 1) : P[i].piece = "H:" => P[i + 1].piece # "H:"
      /\ line \in HeadingsSent => n # 0 /\ P[n] = tracker!Heading(line)
      /\ line \notin HeadingsSent => n = 0 \/ P[n].piece # "H:"
  BY <1>4 DEF HostReading, HostLines
<1> HIDE DEF P, Q, n
<1>7. x.piece = "H:" => n = 0 \/ P[n].piece # "H:"
  BY <1>1, <1>6, HostPiecesApart
<1>8. \A i \in 1..n : Q[i].piece = "H:" => Q[i + 1].piece # "H:"
  <2> SUFFICES ASSUME NEW i \in 1..n, Q[i].piece = "H:"
               PROVE  Q[i + 1].piece # "H:"
    OBVIOUS
  <2>1. CASE i = n
    BY <1>3, <1>4, <1>7, <2>1
  <2>2. CASE i # n
    <3>1. i \in 1..(n - 1) /\ i + 1 \in 1..n
      BY <1>4, <2>2
    <3> QED
      BY <1>3, <1>6, <3>1
  <2> QED
    BY <2>1, <2>2
<1>9. HostLines'
  <2>1. line' \in HeadingsSent \cup {tracker!None, tracker!Cut}
          /\ reported' \in HeadingsSent \cup {tracker!None}
    BY <1>1, <1>6
  <2>2. (line' \in HeadingsSent => x = tracker!Heading(line'))
          /\ (line' \notin HeadingsSent => x.piece # "H:")
    BY <1>1, HostPiecesApart
  <2>3. Len(Q) - 1 = n
    BY <1>3, <1>4
  <2> QED
    BY <1>3, <1>5, <1>8, <2>1, <2>2, <2>3 DEF HostLines, Q
<1>10. tracker!Parsed(Q) = tracker!Parsed(P) \cup (IF x.piece = "rest"
         /\ line \in HeadingsSent THEN {n + 1} ELSE {})
  <2>1. ASSUME NEW i \in 2..n
        PROVE  i \in tracker!Parsed(Q) <=> i \in tracker!Parsed(P)
    <3>1. i \in 1..n /\ i - 1 \in 1..n /\ i \in 2..(n + 1)
      BY <1>4
    <3> QED
      BY <1>3, <3>1 DEF tracker!Parsed, n, P
  <2>2. n + 1 \in tracker!Parsed(Q) <=> x.piece = "rest" /\ line \in HeadingsSent
    <3>1. (n + 1) - 1 = n /\ (n # 0 => n + 1 \in 2..(n + 1) /\ n \in 1..n) /\ (n = 0
            => n + 1 \notin 2..(n + 1))
      BY <1>4
    <3>2. line \in HeadingsSent <=> n # 0 /\ P[n].piece = "H:"
      BY <1>6, HostPiecesApart
    <3> QED
      BY <1>3, <3>1, <3>2 DEF tracker!Parsed
  <2>3. tracker!Parsed(P) \subseteq 2..n /\ tracker!Parsed(Q) \subseteq 2..(n + 1)
          /\ n + 1 \notin 2..n
        /\ \A i \in 2..(n + 1) : i \in 2..n \/ i = n + 1
    BY <1>3, <1>4 DEF tracker!Parsed, n, P
  <2> QED
    BY <2>1, <2>2, <2>3
<1>11. HeadingKnown'
  <2>1. CASE x.piece = "rest" /\ line \in HeadingsSent
    <3>1. n + 1 \in tracker!Parsed(Q) /\ \A j \in tracker!Parsed(Q) : j <= n + 1
      BY <1>3, <1>4, <1>10, <2>1 DEF tracker!Parsed
    <3>2. (n + 1) - 1 = n /\ n \in 1..n
      BY <1>4, <1>6, <2>1
    <3>3. Q[(n + 1) - 1].heading = line /\ reported' = line
      BY <1>1, <1>3, <1>6, <2>1, <3>2, HostPiecesApart
    <3> QED
      BY <3>1, <3>3 DEF HeadingKnown, Q
  <2>2. CASE ~(x.piece = "rest" /\ line \in HeadingsSent)
    <3>1. tracker!Parsed(Q) = tracker!Parsed(P) /\ reported' = reported
      BY <1>1, <1>6, <1>10, <2>2, HostPiecesApart
    <3>2. ASSUME NEW i \in tracker!Parsed(P)
          PROVE  Q[i - 1] = P[i - 1]
      BY <1>3, <1>4 DEF tracker!Parsed, n, P
    <3> QED
      BY <1>2, <3>1, <3>2 DEF HostReading, HeadingKnown, P, Q
  <2> QED
    BY <2>1, <2>2
<1> QED
  BY <1>2, <1>3, <1>9, <1>11 DEF HostReading, tracker!Ends

\* Reading takes everything but the line that is not complete.
LEMMA PollReading ==
    ASSUME HostReading, tracker!Poll, line' = line, reported' = reported
    PROVE  /\ HostReading'
           /\ tracker_heading_deg' \in HeadingsSent \cup {tracker!None, tracker_heading_deg}
           /\ imu_last_update' \in {now, imu_last_update} /\ hostRx' = <<>>
<1> DEFINE P == HostPending
           n == Len(HostPending)
<1>1. P \in Seq(tracker!Pieces) /\ n \in Nat /\ (P = <<>> <=> n = 0)
  BY HostPendingSeq
<1>2. /\ line \in HeadingsSent \cup {tracker!None, tracker!Cut}
           /\ reported \in HeadingsSent \cup {tracker!None}
      /\ \A i \in 1..(n - 1) : P[i].piece = "H:" => P[i + 1].piece # "H:"
      /\ line \in HeadingsSent => n # 0 /\ P[n] = tracker!Heading(line)
      /\ line \notin HeadingsSent => n = 0 \/ P[n].piece # "H:"
  BY <1>1 DEF HostReading, HostLines
<1>3. /\ IF tracker!Parsed(P) = {} THEN UNCHANGED <<tracker_heading_deg, imu_last_update>>
         ELSE /\ tracker_heading_deg' = P[tracker!Max(tracker!Parsed(P)) - 1].heading
              /\ imu_last_update' = now
      /\ controller_buffer' = SubSeq(P, tracker!LastEnd(P) + 1, n)
      /\ hostRx' = <<>>
  BY DEF tracker!Poll, HostPending
<1>4. tracker_heading_deg' = reported
  <2>1. CASE tracker!Parsed(P) = {}
    BY <1>3, <2>1 DEF HostReading, HeadingKnown
  <2>2. CASE tracker!Parsed(P) # {}
    <3>1. PICK i \in tracker!Parsed(P) : (\A j \in tracker!Parsed(P) : j <= i)
                 /\ P[i - 1].heading = reported
      BY <2>2 DEF HostReading, HeadingKnown
    <3>2. tracker!Parsed(P) \in SUBSET Int
      BY DEF tracker!Parsed
    <3>3. tracker!Max(tracker!Parsed(P)) = i
      BY <3>1, <3>2, Greatest
    <3> QED
      BY <1>3, <2>2, <3>1, <3>3
  <2> QED
    BY <2>1, <2>2
<1> HIDE DEF P, n
<1>5. tracker!Ends(P) \in SUBSET Int /\ \A i : i \in tracker!Ends(P) <=> i \in 1..n
        /\ P[i].piece # "H:"
  BY DEF tracker!Ends, n, P
<1>6. tracker!LastEnd(P) = IF line \in HeadingsSent THEN n - 1 ELSE n
  <2>1. CASE line \in HeadingsSent
    <3>1. n # 0 /\ n \notin tracker!Ends(P)
      BY <1>2, <1>5, <2>1, HostPiecesApart
    <3>2. CASE n = 1
      <4>1. tracker!Ends(P) = {}
        BY <1>1, <1>5, <3>1, <3>2
      <4> QED
        BY <2>1, <3>2, <4>1 DEF tracker!LastEnd
    <3>3. CASE n # 1
      <4>1. n - 1 \in 1..n /\ n - 1 \in 1..(n - 1) /\ (n - 1) + 1 = n
        BY <1>1, <3>1, <3>3
      <4>2. P[n].piece = "H:"
        BY <1>2, <2>1, HostPiecesApart
      <4>3. n - 1 \in tracker!Ends(P)
        BY <1>2, <1>5, <4>1, <4>2
      <4>4. \A j \in tracker!Ends(P) : j <= n - 1
        BY <1>1, <1>5, <3>1
      <4>5. tracker!Max(tracker!Ends(P)) = n - 1
        BY <1>5, <4>3, <4>4, Greatest
      <4> QED
        BY <2>1, <4>3, <4>5 DEF tracker!LastEnd
    <3> QED
      BY <3>2, <3>3
  <2>2. CASE line \notin HeadingsSent /\ n = 0
    <3>1. tracker!Ends(P) = {}
      BY <1>5, <2>2
    <3> QED
      BY <2>2, <3>1 DEF tracker!LastEnd
  <2>3. CASE line \notin HeadingsSent /\ n # 0
    <3>1. n \in tracker!Ends(P) /\ \A j \in tracker!Ends(P) : j <= n
      BY <1>1, <1>2, <1>5, <2>3
    <3>2. tracker!Max(tracker!Ends(P)) = n
      BY <1>5, <3>1, Greatest
    <3> QED
      BY <2>3, <3>1, <3>2 DEF tracker!LastEnd
  <2> QED
    BY <2>1, <2>2, <2>3
<1>7. controller_buffer' = IF line \in HeadingsSent THEN <<tracker!Heading(line)>> ELSE <<>>
  <2>1. CASE line \in HeadingsSent
    <3>1. n \in 1..n /\ (n - 1) + 1 = n
      BY <1>1, <1>2, <2>1
    <3>2. controller_buffer' = SubSeq(P, n, n)
      BY <1>3, <1>6, <2>1, <3>1
    <3>3. SubSeq(P, n, n) = <<P[n]>>
      <4>1. Len(SubSeq(P, n, n)) = 1 /\ SubSeq(P, n, n)[1] = P[n]
        BY <1>1, <3>1
      <4>2. SubSeq(P, n, n) \in Seq(tracker!Pieces)
        BY <1>1, <3>1, SubSeqProperties DEF n, P
      <4>3. P[n] \in tracker!Pieces
        BY <1>1, <3>1, ElementOfSeq DEF n, P
      <4> DEFINE q == SubSeq(P, n, n)
                 x == P[n]
      <4> HIDE DEF q, x
      <4>4. <<x>> \in Seq(tracker!Pieces) /\ Len(<<x>>) = 1 /\ <<x>>[1] = x
        BY <4>3 DEF x
      <4>5. q \in Seq(tracker!Pieces) /\ Len(q) = 1 /\ q[1] = x
        BY <4>1, <4>2 DEF q, x
      <4>6. Len(q) = Len(<<x>>) /\ \A i \in 1..Len(q) : q[i] = <<x>>[i]
        BY <4>4, <4>5
      <4>7. q = <<x>>
        BY <4>4, <4>5, <4>6, SeqEqual, Zenon
      <4> QED
        BY <4>7 DEF q, x
    <3> QED
      BY <1>2, <2>1, <3>2, <3>3
  <2>2. CASE line \notin HeadingsSent
    BY <1>1, <1>3, <1>6, <2>2 DEF n, P
  <2> QED
    BY <2>1, <2>2
<1>8. HostPending' = controller_buffer'
  BY <1>3, <1>7 DEF HostPending
<1>9. /\ Len(controller_buffer') \in 0..1 /\ controller_buffer' \in Seq(tracker!Pieces)
      /\ tracker!Ends(controller_buffer') = {} /\ tracker!Parsed(controller_buffer') = {}
  <2>1. CASE line \in HeadingsSent
    BY <1>7, <2>1, HostPiecesApart DEF tracker!Ends, tracker!Parsed
  <2>2. CASE line \notin HeadingsSent
    BY <1>7, <2>2 DEF tracker!Ends, tracker!Parsed
  <2> QED
    BY <2>1, <2>2
<1>10. HostLines'
  <2> DEFINE k == Len(controller_buffer')
  <2>1. 1..(k - 1) = {}
    <3>1. k \in 0..1
      BY <1>9
    <3> HIDE DEF k
    <3> QED
      BY <3>1
  <2>2. line' \in HeadingsSent => /\ controller_buffer' # <<>>
                             /\ controller_buffer'[Len(controller_buffer')] = tracker!Heading(line')
    BY <1>7
  <2> QED
    BY <1>2, <1>7, <1>8, <2>1, <2>2 DEF HostLines
<1>11. HeadingKnown'
  BY <1>4, <1>8, <1>9 DEF HeadingKnown, tracker!Parsed
<1> QED
  BY <1>2, <1>3, <1>4, <1>9, <1>10, <1>11 DEF HostReading, tracker!Ends

LEMMA NextReading ==
    ASSUME HostReading, [tracker!Next]_(tracker!vars)
    PROVE  HostReading'
<1>1. CASE tracker!Tick \/ UNCHANGED tracker!vars
  <2>1. UNCHANGED <<controller_buffer, hostRx, line, reported, tracker_heading_deg>>
    BY <1>1 DEF tracker!Tick, tracker!vars, tracker!hostVars
  <2> QED
    BY <2>1 DEF HostReading, HostLines, HeadingKnown, HostPending, tracker!Ends,
       tracker!Parsed
<1>2. CASE tracker!Restart
  <2>1. /\ controller_buffer' = <<>> /\ hostRx' = <<>> /\ tracker_heading_deg' = tracker!None
        /\ reported' = tracker!None /\ line' \in {tracker!None, tracker!Cut}
    BY <1>2 DEF tracker!Restart
  <2>2. HostPending' = <<>>
    BY <2>1 DEF HostPending
  <2>3. tracker!Ends(<<>>) = {} /\ tracker!Parsed(<<>>) = {} /\ 1..(Len(<<>>) - 1) = {}
    BY DEF tracker!Ends, tracker!Parsed
  <2> QED
    BY <2>1, <2>2, <2>3, HostPiecesApart DEF HostReading, HostLines, HeadingKnown,
       tracker!Ends, tracker!Parsed
<1>3. CASE tracker!Arrive
  BY <1>3, HostArriveReading
<1>4. CASE tracker!QuietBlock \/ tracker!UnusableBlock
             \/ \E e \in Errors : tracker!MeasuredBlock(e)
  <2>1. tracker!Poll /\ line' = line /\ reported' = reported
    BY <1>4 DEF tracker!QuietBlock, tracker!UnusableBlock, tracker!MeasuredBlock
  <2> QED
    BY <2>1, PollReading
<1> QED
  BY <1>1, <1>2, <1>3, <1>4 DEF tracker!Next

LEMMA InitReading == tracker!Init => HostReading
<1> SUFFICES ASSUME tracker!Init
             PROVE  HostReading
  OBVIOUS
<1>1. /\ controller_buffer = <<>> /\ hostRx = <<>> /\ tracker_heading_deg = tracker!None
      /\ reported = tracker!None /\ line = tracker!None
  BY DEF tracker!Init
<1>2. HostPending = <<>>
  BY <1>1 DEF HostPending
<1>3. tracker!Ends(<<>>) = {} /\ tracker!Parsed(<<>>) = {} /\ 1..(Len(<<>>) - 1) = {}
  BY DEF tracker!Ends, tracker!Parsed
<1> QED
  BY <1>1, <1>2, <1>3, HostPiecesApart DEF HostReading, HostLines, HeadingKnown

\* However the controller's bytes are cut into reads, and wherever a restart cuts its
\* line, the loop has the heading of the last complete line.
THEOREM TrackerHeadingReported == tracker!Spec => []tracker!HeadingReported
<1>1. HostReading => tracker!HeadingReported
  <2> SUFFICES ASSUME HostReading, hostRx = <<>>
               PROVE  tracker_heading_deg = reported
    BY DEF tracker!HeadingReported
  <2>1. HostPending = controller_buffer
    BY DEF HostPending, HostReading
  <2>2. tracker!Parsed(controller_buffer) \subseteq tracker!Ends(controller_buffer)
    BY DEF tracker!Parsed, tracker!Ends
  <2> QED
    BY <2>1, <2>2 DEF HostReading, HeadingKnown
<1> QED
  BY <1>1, InitReading, NextReading, PTL DEF tracker!Spec

-----------------------------------------------------------------------------
\* TypeOK, part by part; what is read from the controller is in Reading.
TimesOK ==
    /\ now \in 0..TrackerTime
    /\ last_signal_time \in tracker!Times /\ imu_last_update \in tracker!Times
    /\ in_lock_since \in tracker!Times \cup {tracker!None}
         /\ calm \in tracker!Times \cup {tracker!None}

ErrorsOK ==
    /\ last_errors \in Seq(Errors) /\ Len(last_errors) <= 5
    /\ heard \in Seq(Errors) /\ Len(heard) <= 3 /\ steered \in 0..3
    /\ smoothed_error \in tracker!Angles /\ command \in tracker!Angles \cup {tracker!None}

Telemetry == [timestamp : tracker!Times, valid : BOOLEAN,
              raw : tracker!Angles \cup {tracker!None}, smoothed : tracker!Angles,
              heading : HeadingsSent \cup {tracker!None}, imu : BOOLEAN,
              state : {"IDLE", "TRACKING", "LOCKED"}]

OutputOK ==
    /\ tracker_heading_deg \in HeadingsSent \cup {tracker!None}
    /\ hostRx \in Seq(tracker!Pieces) /\ Len(hostRx) <= MaxRx
    /\ packet \in Telemetry /\ block \in tracker!Blocks

TypeParts == TimesOK /\ ErrorsOK /\ OutputOK

LEMMA ConstantsThere ==
    /\ LockHold \in Nat /\ IdleHold \in Nat /\ ImuStale \in Nat
    /\ TrackerTime \in Nat /\ MaxRx \in Nat
    /\ Errors \subseteq tracker!Angles
    /\ 0..TrackerTime \subseteq tracker!Times /\ -IdleHold \in tracker!Times
         /\ (-ImuStale) - 1 \in tracker!Times
<1>1. /\ LockHold \in Nat /\ IdleHold \in Nat /\ ImuStale \in Nat
      /\ TrackerTime \in Nat /\ MaxRx \in Nat
  BY TrackerAssumption DEF tracker!TimesAssumption
<1> QED
  BY <1>1, TrackerAssumption DEF tracker!AnglesAssumption, tracker!Angles, tracker!Times

LEMMA NextTimes ==
    ASSUME TimesOK, [tracker!Next]_(tracker!vars)
    PROVE  TimesOK'
<1>1. CASE tracker!Tick \/ tracker!Arrive \/ UNCHANGED tracker!vars
  <2>1. UNCHANGED <<last_signal_time, imu_last_update, in_lock_since, calm>>
    BY <1>1 DEF tracker!Tick, tracker!Arrive, tracker!vars, tracker!hostVars,
       tracker!noteVars
  <2>2. now' \in 0..TrackerTime
    BY <1>1, ConstantsThere DEF tracker!Tick, tracker!Arrive, tracker!vars, TimesOK
  <2>3. tracker!Times' = tracker!Times
    BY DEF tracker!Times
  <2> QED
    BY <2>1, <2>2, <2>3 DEF TimesOK
<1>2. CASE tracker!Restart
  BY <1>2, ConstantsThere DEF tracker!Restart, TimesOK, tracker!Times
<1>3. ASSUME tracker!Poll
      PROVE  imu_last_update' \in {now, imu_last_update}
  BY <1>3 DEF tracker!Poll
<1>4. now \in tracker!Times
  BY ConstantsThere DEF TimesOK
<1>5. CASE tracker!UnusableBlock
  <2>1. tracker!Poll /\ UNCHANGED <<now, last_signal_time, in_lock_since, calm>>
    BY <1>5 DEF tracker!UnusableBlock, tracker!Note, tracker!Unusable, tracker!Quiet
  <2> QED
    BY <1>3, <1>4, <2>1 DEF TimesOK, tracker!Times
<1>6. CASE tracker!QuietBlock
  <2>1. tracker!Poll /\ UNCHANGED <<now, last_signal_time>>
          /\ in_lock_since' = tracker!None /\ calm' = tracker!None
    BY <1>6 DEF tracker!QuietBlock, tracker!derive_state, tracker!Note, tracker!Quiet,
       tracker!Unusable
  <2> QED
    BY <1>3, <1>4, <2>1 DEF TimesOK, tracker!Times
<1>7. ASSUME NEW e \in Errors, tracker!MeasuredBlock(e)
      PROVE  TimesOK'
  <2>1. tracker!Poll /\ now' = now /\ last_signal_time' = now
    BY <1>7 DEF tracker!MeasuredBlock
  <2>2. in_lock_since' \in {tracker!None, now, in_lock_since}
    BY <1>7 DEF tracker!MeasuredBlock, tracker!derive_state, tracker!Since
  <2>3. calm' \in {tracker!None, now, calm}
    BY <1>7 DEF tracker!MeasuredBlock, tracker!Note
  <2> QED
    BY <1>3, <1>4, <2>1, <2>2, <2>3 DEF TimesOK, tracker!Times
<1> QED
  BY <1>1, <1>2, <1>5, <1>6, <1>7 DEF tracker!Next

\* The moving average stays between the angles, and so does the average of a correction.
LEMMA Averages ==
    /\ \A e, m \in tracker!Angles : (3 * e + 7 * m) \div 10 \in tracker!Angles
    /\ \A a, b, c \in tracker!Angles :
         (IF a + b + c < 0 THEN -((-(a + b + c)) \div 3) ELSE (a + b + c) \div 3) \in tracker!Angles
<1>1. \A x \in Int : -900 <= x /\ x <= 900 => -90 <= x \div 10 /\ x \div 10 <= 90
  OBVIOUS
<1>2. \A x \in Int : 0 <= x /\ x <= 270 => 0 <= x \div 3 /\ x \div 3 <= 90
  OBVIOUS
<1>3. ASSUME NEW e \in tracker!Angles, NEW m \in tracker!Angles
      PROVE  (3 * e + 7 * m) \div 10 \in tracker!Angles
  <2> DEFINE x == 3 * e + 7 * m
  <2>1. x \in Int /\ -900 <= x /\ x <= 900
    BY DEF tracker!Angles
  <2> HIDE DEF x
  <2>2. x \div 10 \in tracker!Angles
    BY <1>1, <2>1 DEF tracker!Angles
  <2> QED
    BY <2>2 DEF x
<1>4. ASSUME NEW a \in tracker!Angles, NEW b \in tracker!Angles, NEW c \in tracker!Angles
      PROVE  (IF a + b + c < 0 THEN -((-(a + b + c)) \div 3) ELSE (a + b + c) \div 3) \in tracker!Angles
  <2> DEFINE x == a + b + c
  <2>1. x \in Int /\ -270 <= x /\ x <= 270
    BY DEF tracker!Angles
  <2> HIDE DEF x
  <2>2. x < 0 => -((-x) \div 3) \in tracker!Angles
    BY <1>2, <2>1 DEF tracker!Angles
  <2>3. ~(x < 0) => x \div 3 \in tracker!Angles
    BY <1>2, <2>1 DEF tracker!Angles
  <2> QED
    BY <2>2, <2>3 DEF x
<1> QED
  BY <1>3, <1>4

LEMMA CorrectionInRange ==
    ASSUME NEW s \in Seq(Errors), Len(s) >= 3
    PROVE  tracker!Average(s) \in tracker!Angles
<1>1. ASSUME NEW i \in 1..3
      PROVE  tracker!Last3(s)[i] \in tracker!Angles
  <2>1. Len(s) \in Nat
    OBVIOUS
  <2>2. tracker!Last3(s)[i] = s[Len(s) - 3 + i] /\ Len(s) - 3 + i \in 1..Len(s)
    BY <2>1 DEF tracker!Last3
  <2> QED
    BY <2>2, ElementOfSeq, ConstantsThere
<1>2. tracker!Last3(s)[1] \in tracker!Angles /\ tracker!Last3(s)[2] \in tracker!Angles
        /\ tracker!Last3(s)[3] \in tracker!Angles
  BY <1>1
<1> QED
  BY <1>2, Averages DEF tracker!Average

LEMMA NextErrors ==
    ASSUME ErrorsOK, [tracker!Next]_(tracker!vars)
    PROVE  ErrorsOK'
<1>1. CASE tracker!Tick \/ tracker!Arrive \/ UNCHANGED tracker!vars
  BY <1>1 DEF tracker!Tick, tracker!Arrive, tracker!vars, tracker!hostVars,
     tracker!noteVars, ErrorsOK
<1>2. CASE tracker!Restart \/ tracker!QuietBlock
  <2>1. /\ last_errors' = <<>> /\ heard' = <<>> /\ steered' = 0
        /\ smoothed_error' \in {0, smoothed_error} /\ command' \in {0, tracker!None}
    BY <1>2 DEF tracker!Restart, tracker!QuietBlock, tracker!Forget, tracker!Note
  <2> QED
    BY <2>1 DEF ErrorsOK, tracker!Angles
<1>3. CASE tracker!UnusableBlock
  <2>1. UNCHANGED <<last_errors, heard, steered, smoothed_error, command>>
    BY <1>3 DEF tracker!UnusableBlock, tracker!Note, tracker!Quiet, tracker!Unusable
  <2> QED
    BY <2>1 DEF ErrorsOK
<1>4. ASSUME NEW e \in Errors, tracker!MeasuredBlock(e)
      PROVE  ErrorsOK'
  <2> DEFINE errors == Append(last_errors, e)
  <2>1. tracker!Measures(e) # tracker!Quiet /\ tracker!Measures(e) # tracker!Unusable
          /\ tracker!Measures(e).error = e
    BY DEF tracker!Measures, tracker!Quiet, tracker!Unusable
  <2>2. /\ tracker!Note(tracker!Measures(e)) /\ tracker!Correct(errors)
             /\ smoothed_error' = tracker!Ema(e)
    BY <1>4 DEF tracker!MeasuredBlock
  <2>3. smoothed_error' \in tracker!Angles
    BY <2>2, Averages, ConstantsThere DEF tracker!Ema, ErrorsOK
  <2>4. heard' = IF Len(heard) < 3 THEN Append(heard, e) ELSE Append(Tail(heard), e)
    BY <2>1, <2>2 DEF tracker!Note
  <2>5. heard' \in Seq(Errors) /\ Len(heard') <= 3
    <3>1. heard \in Seq(Errors) /\ Len(heard) \in Nat /\ Len(heard) <= 3
      BY DEF ErrorsOK
    <3>2. CASE Len(heard) < 3
      BY <2>4, <3>1, <3>2, AppendProperties
    <3>3. CASE ~(Len(heard) < 3)
      <4>1. heard # <<>>
        BY <3>3
      <4>2. Tail(heard) \in Seq(Errors) /\ Len(Tail(heard)) = Len(heard) - 1
        BY <3>1, <4>1, HeadTailProperties
      <4> QED
        BY <2>4, <3>1, <3>3, <4>2, AppendProperties
    <3> QED
      BY <3>2, <3>3
  <2>6. errors \in Seq(Errors) /\ Len(errors) \in Nat /\ Len(errors) <= 6 /\ Len(errors) # 0
    BY AppendProperties DEF ErrorsOK
  <2> HIDE DEF errors
  <2>7. CASE tracker!Agree(errors)
    <3>1. last_errors' = <<>> /\ steered' = 3 /\ command' = tracker!Average(errors)
      BY <2>2, <2>7 DEF tracker!Correct
    <3>2. command' \in tracker!Angles
      BY <2>6, <2>7, <3>1, CorrectionInRange DEF tracker!Agree
    <3> QED
      BY <2>3, <2>5, <3>1, <3>2 DEF ErrorsOK
  <2>8. CASE ~tracker!Agree(errors)
    <3>1. /\ last_errors' = IF Len(errors) > 5 THEN Tail(errors) ELSE errors
          /\ command' = command /\ steered' = IF steered > 0 THEN steered - 1 ELSE 0
      BY <2>2, <2>8 DEF tracker!Correct
    <3>2. last_errors' \in Seq(Errors) /\ Len(last_errors') <= 5
      <4>1. CASE Len(errors) > 5
        <5>1. errors # <<>>
          BY <4>1
        <5>2. Tail(errors) \in Seq(Errors) /\ Len(Tail(errors)) = Len(errors) - 1
          BY <2>6, <5>1, HeadTailProperties
        <5> QED
          BY <2>6, <3>1, <4>1, <5>2
      <4>2. CASE ~(Len(errors) > 5)
        BY <2>6, <3>1, <4>2
      <4> QED
        BY <4>1, <4>2
    <3>3. steered' \in 0..3
      BY <3>1 DEF ErrorsOK
    <3> QED
      BY <2>3, <2>5, <3>1, <3>2, <3>3 DEF ErrorsOK
  <2> QED
    BY <2>7, <2>8
<1> QED
  BY <1>1, <1>2, <1>3, <1>4 DEF tracker!Next

\* A packet carries the time, the error, its average, the heading and the state.
LEMMA PacketOK ==
    ASSUME NEW valid \in BOOLEAN, NEW raw \in tracker!Angles \cup {tracker!None},
           NEW smoothed \in tracker!Angles, NEW state \in {"IDLE", "TRACKING", "LOCKED"},
           tracker!SendPacket(valid, raw, smoothed, state),
           now \in tracker!Times, tracker_heading_deg' \in HeadingsSent \cup {tracker!None}
    PROVE  packet' \in Telemetry
<1>1. tracker!imu_is_fresh \in BOOLEAN
  BY DEF tracker!imu_is_fresh
<1> QED
  BY <1>1 DEF tracker!SendPacket, Telemetry

LEMMA NextOutput ==
    ASSUME HostReading, TypeParts, ErrorsOK', [tracker!Next]_(tracker!vars)
    PROVE  OutputOK'
<1>1. tracker!Quiet \in tracker!Blocks /\ tracker!Unusable \in tracker!Blocks
        /\ \A e \in Errors : tracker!Measures(e) \in tracker!Blocks
  BY DEF tracker!Blocks
<1>2. CASE tracker!Tick \/ UNCHANGED tracker!vars
  BY <1>2 DEF tracker!Tick, tracker!vars, tracker!hostVars, tracker!noteVars, TypeParts,
     OutputOK
<1>3. CASE tracker!Arrive
  <2>1. PICK x \in tracker!Pieces : hostRx' = Append(hostRx, x)
    BY <1>3, HostPiecesApart DEF tracker!Arrive
  <2>2. UNCHANGED <<tracker_heading_deg, packet, block>> /\ Len(hostRx) < MaxRx
    BY <1>3 DEF tracker!Arrive, tracker!hostVars, tracker!noteVars
  <2>3. hostRx' \in Seq(tracker!Pieces) /\ Len(hostRx') = Len(hostRx) + 1 /\ Len(hostRx) \in Nat
    BY <2>1, AppendProperties DEF TypeParts, OutputOK
  <2>4. Len(hostRx') <= MaxRx
    BY <2>2, <2>3, ConstantsThere
  <2> QED
    BY <2>2, <2>3, <2>4 DEF TypeParts, OutputOK
<1>4. CASE tracker!Restart
  <2>1. /\ hostRx' = <<>> /\ tracker_heading_deg' = tracker!None
             /\ packet' = tracker!NoPacket /\ block' = tracker!Quiet
    BY <1>4 DEF tracker!Restart
  <2>2. 0 \in tracker!Times /\ 0 \in tracker!Angles /\ 0 <= MaxRx
    BY ConstantsThere DEF tracker!Angles
  <2>3. tracker!NoPacket \in Telemetry
    BY <2>2 DEF tracker!NoPacket, Telemetry
  <2> QED
    BY <1>1, <2>1, <2>2, <2>3 DEF OutputOK
<1>5. ASSUME tracker!Poll, line' = line, reported' = reported
      PROVE  tracker_heading_deg' \in HeadingsSent \cup {tracker!None} /\ hostRx' = <<>>
               /\ Len(hostRx') <= MaxRx
  <2>1. tracker_heading_deg' \in HeadingsSent \cup {tracker!None, tracker_heading_deg}
          /\ hostRx' = <<>>
    BY <1>5, PollReading
  <2> QED
    BY <2>1, ConstantsThere DEF TypeParts, OutputOK
<1>6. now \in tracker!Times
  BY ConstantsThere DEF TypeParts, TimesOK
<1>7. CASE tracker!QuietBlock
  <2> DEFINE d == tracker!derive_state(now - last_signal_time < IdleHold, FALSE, smoothed_error)
  <2>1. /\ tracker!Poll /\ line' = line /\ reported' = reported /\ block' = tracker!Quiet
        /\ tracker!SendPacket(FALSE, tracker!None, smoothed_error, d.state)
    BY <1>7 DEF tracker!QuietBlock, tracker!Note
  <2>2. d.state \in {"IDLE", "TRACKING", "LOCKED"} /\ smoothed_error \in tracker!Angles
    BY DEF tracker!derive_state, TypeParts, ErrorsOK
  <2> HIDE DEF d
  <2>3. packet' \in Telemetry
    BY <1>5, <1>6, <2>1, <2>2, PacketOK
  <2> QED
    BY <1>1, <1>5, <2>1, <2>3 DEF OutputOK
<1>8. CASE tracker!UnusableBlock
  <2>1. tracker!Poll /\ line' = line /\ reported' = reported
          /\ block' = tracker!Unusable /\ packet' = packet
    BY <1>8 DEF tracker!UnusableBlock, tracker!Note
  <2> QED
    BY <1>1, <1>5, <2>1 DEF TypeParts, OutputOK
<1>9. ASSUME NEW e \in Errors, tracker!MeasuredBlock(e)
      PROVE  OutputOK'
  <2> DEFINE d == tracker!derive_state(TRUE, TRUE, smoothed_error')
  <2>1. /\ tracker!Poll /\ line' = line /\ reported' = reported /\ block' = tracker!Measures(e)
        /\ tracker!SendPacket(TRUE, e, smoothed_error', d.state)
    BY <1>9 DEF tracker!MeasuredBlock, tracker!Note
  <2>2. /\ d.state \in {"IDLE", "TRACKING", "LOCKED"} /\ smoothed_error' \in tracker!Angles
        /\ e \in tracker!Angles
    BY ConstantsThere DEF tracker!derive_state, TypeParts, ErrorsOK
  <2> HIDE DEF d
  <2>3. packet' \in Telemetry
    BY <1>5, <1>6, <2>1, <2>2, PacketOK
  <2> QED
    BY <1>1, <1>5, <2>1, <2>3 DEF OutputOK
<1> QED
  BY <1>2, <1>3, <1>4, <1>7, <1>8, <1>9 DEF tracker!Next

\* Every variable keeps to its values: the averages to the angles, the errors that are kept
\* to five, and what waits of a line to its first piece.
THEOREM TrackerTypeOK == tracker!Spec => []tracker!TypeOK
<1>1. tracker!Init => HostReading /\ TypeParts
  <2> SUFFICES ASSUME tracker!Init
               PROVE  TypeParts
    BY InitReading
  <2>1. TimesOK
    BY ConstantsThere DEF tracker!Init, TimesOK
  <2>2. ErrorsOK
    BY DEF tracker!Init, ErrorsOK, tracker!Angles
  <2>3. OutputOK
    <3>1. 0 \in tracker!Times /\ 0 \in tracker!Angles /\ 0 <= MaxRx
      BY ConstantsThere DEF tracker!Angles
    <3>2. tracker!NoPacket \in Telemetry
      BY <3>1 DEF tracker!NoPacket, Telemetry
    <3> QED
      BY <3>1, <3>2 DEF tracker!Init, OutputOK, tracker!Blocks
  <2> QED
    BY <2>1, <2>2, <2>3 DEF TypeParts
<1>2. HostReading /\ TypeParts /\ [tracker!Next]_(tracker!vars) => HostReading' /\ TypeParts'
  BY NextReading, NextTimes, NextErrors, NextOutput DEF TypeParts
<1>3. HostReading /\ TypeParts => tracker!TypeOK
  BY DEF HostReading, HostLines, TypeParts, TimesOK, ErrorsOK, OutputOK, Telemetry,
     tracker!TypeOK
<1> QED
  BY <1>1, <1>2, <1>3, PTL DEF tracker!Spec

-----------------------------------------------------------------------------
\* The tracking loop of MCPrograms
LEMMA TrackerPart == MCSpec => tracker!Spec
<1>1. MCInit => tracker!Init
  BY DEF MCInit
<1>2. [MCNext]_allVars => [tracker!Next]_(tracker!vars)
  BY DEF MCNext, allVars, trackerVars, tracker!vars, tracker!hostVars, tracker!noteVars
<1> QED
  BY <1>1, <1>2, PTL DEF MCSpec, tracker!Spec

\* However the controller's lines are cut, the heading is the last complete line's.
THEOREM HeadingIsReported == MCSpec => []HeadingReported
<1>1. tracker!HeadingReported /\ tracker!TypeOK => HeadingReported
  BY DEF HeadingReported
<1> QED
  BY <1>1, TrackerPart, TrackerHeadingReported, TrackerTypeOK, PTL

\* LOCKED is reported only after LockHold in the band.
THEOREM LockIsEarned == MCSpec => LockEarned
BY TrackerPart, TrackerLockEarned DEF LockEarned

\* A correction is the average of three errors that agree and were not used before.
THEOREM CorrectionsDoAgree == MCSpec => CorrectionsAgree
BY TrackerPart, TrackerCorrectionsAgree DEF CorrectionsAgree

-----------------------------------------------------------------------------
\* Induction over the naturals, for a set of them
LEMMA SmallestThere ==
    ASSUME NEW T \in SUBSET Nat, T # {}
    PROVE  \E x \in T : \A y \in T : x <= y
<1> DEFINE R == {p \in Nat \X Nat : p[1] < p[2]}
<1>1. IsWellFoundedOn(R, Nat)
  BY NatLessThanWellFounded DEF OpToRel
<1>2. \A x, y \in Nat : <<y, x>> \in R <=> y < x
  OBVIOUS
<1> HIDE DEF R
<1>3. PICK x \in T : \A y \in T : <<y, x>> \notin R
  BY <1>1, WFMin
<1>4. \A y \in T : ~(y < x)
  BY <1>2, <1>3
<1> QED
  BY <1>4

LEMMA Induction ==
    ASSUME NEW S, 0 \in S, \A n \in Nat : n \in S => n + 1 \in S
    PROVE  Nat \subseteq S
<1> DEFINE T == {n \in Nat : n \notin S}
<1> SUFFICES ASSUME T # {} PROVE FALSE
  OBVIOUS
<1>1. PICK x \in T : \A y \in T : x <= y
  <2> HIDE DEF T
  <2> T \in SUBSET Nat
    BY DEF T
  <2> QED
    BY SmallestThere
<1>2. x # 0 /\ x - 1 \in Nat /\ x - 1 \notin T
  BY <1>1
<1> QED
  BY <1>1, <1>2

\* A fold over a sequence takes its last element first: f is the function on the sets of
\* places by which it is computed, G the step, b what it starts from.
Last(s) == CHOOSE x \in s : \A y \in s : x >= y
Folds(f, n, G, b) ==
    \A s \in SUBSET (1..n) : f[s] = IF s = {} THEN b ELSE G[<<f[s \ {Last(s)}], Last(s)>>]
HasFold(A, n, G, b) == \E f \in [SUBSET (1..n) -> A] : Folds(f, n, G, b)

LEMMA LastIn ==
    ASSUME NEW n \in Nat, NEW s \in SUBSET (1..n), s # {}
    PROVE  Last(s) \in s /\ \A y \in s : Last(s) >= y
<1> DEFINE T == {k \in Nat : \A y \in s : k >= y}
<1>1. n \in T
  OBVIOUS
<1>2. PICK k \in T : \A j \in T : k <= j
  <2> T \in SUBSET Nat
    OBVIOUS
  <2> HIDE DEF T
  <2> QED
    BY <1>1, SmallestThere
<1>3. k \in s
  <2> SUFFICES ASSUME k \notin s PROVE FALSE
    OBVIOUS
  <2>1. PICK x \in s : TRUE
    OBVIOUS
  <2>2. k - 1 \in Nat /\ \A y \in s : k - 1 >= y
    BY <1>2, <2>1
  <2>3. k - 1 \in T
    BY <2>2
  <2> QED
    BY <1>2, <2>3
<1>4. \E m \in s : \A y \in s : m >= y
  BY <1>2, <1>3
<1> QED
  BY <1>4 DEF Last

LEMMA LastOfInterval ==
    ASSUME NEW n \in Nat, n # 0
    PROVE  Last(1..n) = n /\ (1..n) \ {n} = 1..n - 1
<1>1. 1..n \in SUBSET (1..n) /\ 1..n # {} /\ n \in 1..n
  OBVIOUS
<1>2. Last(1..n) \in 1..n /\ \A y \in 1..n : Last(1..n) >= y
  BY <1>1, LastIn
<1>3. Last(1..n) = n
  BY <1>1, <1>2
<1> QED
  BY <1>3

LEMMA FoldExists ==
    ASSUME NEW A, NEW b \in A, NEW N \in Nat, NEW G \in [A \X (1..N) -> A]
    PROVE  HasFold(A, N, G, b)
<1>1. HasFold(A, 0, G, b)
  <2> DEFINE f == [s \in SUBSET (1..0) |-> b]
  <2>1. 1..0 = {}
    OBVIOUS
  <2>2. f \in [SUBSET (1..0) -> A] /\ Folds(f, 0, G, b)
    BY <2>1 DEF Folds
  <2> QED
    BY <2>2 DEF HasFold
<1>2. ASSUME NEW n \in Nat, HasFold(A, n, G, b), n + 1 <= N
      PROVE  HasFold(A, n + 1, G, b)
  <2>1. PICK f \in [SUBSET (1..n) -> A] : Folds(f, n, G, b)
    BY <1>2 DEF HasFold
  <2> DEFINE g == [s \in SUBSET (1..n + 1) |->
                     IF n + 1 \in s THEN G[<<f[s \ {n + 1}], n + 1>>] ELSE f[s]]
  <2>2. \A s \in SUBSET (1..n + 1) : s \ {n + 1} \in SUBSET (1..n)
    OBVIOUS
  <2>3. ASSUME NEW s \in SUBSET (1..n + 1)
        PROVE  g[s] \in A
    <3>1. s \ {n + 1} \in SUBSET (1..n)
      BY <2>2
    <3>2. CASE n + 1 \in s
      <4>1. n + 1 \in 1..N /\ f[s \ {n + 1}] \in A
        BY <1>2, <3>1
      <4>2. <<f[s \ {n + 1}], n + 1>> \in A \X (1..N)
        BY <4>1
      <4> QED
        BY <3>2, <4>2
    <3>3. CASE n + 1 \notin s
      <4>1. s \in SUBSET (1..n)
        BY <3>1, <3>3
      <4> QED
        BY <3>3, <4>1
    <3> QED
      BY <3>2, <3>3
  <2>4. ASSUME NEW s \in SUBSET (1..n + 1)
        PROVE  g[s] = IF s = {} THEN b ELSE G[<<g[s \ {Last(s)}], Last(s)>>]
    <3>1. CASE n + 1 \in s
      <4>1. n + 1 \in Nat /\ s # {}
        BY <3>1
      <4>2. Last(s) = n + 1
        <5>1. Last(s) \in s /\ \A y \in s : Last(s) >= y
          BY <4>1, LastIn
        <5>2. Last(s) \in 1..n + 1 /\ Last(s) >= n + 1
          BY <3>1, <5>1
        <5> QED
          BY <5>2
      <4>3. s \ {n + 1} \in SUBSET (1..n + 1) /\ n + 1 \notin s \ {n + 1}
        OBVIOUS
      <4>4. g[s \ {n + 1}] = f[s \ {n + 1}] /\ g[s] = G[<<f[s \ {n + 1}], n + 1>>]
        BY <3>1, <4>3
      <4> QED
        BY <4>1, <4>2, <4>4
    <3>2. CASE n + 1 \notin s
      <4>1. s \in SUBSET (1..n) /\ g[s] = f[s]
        BY <3>2, <2>2
      <4>2. f[s] = IF s = {} THEN b ELSE G[<<f[s \ {Last(s)}], Last(s)>>]
        BY <2>1, <4>1 DEF Folds
      <4>3. s \ {Last(s)} \in SUBSET (1..n + 1) /\ n + 1 \notin s \ {Last(s)}
        BY <3>2
      <4>4. g[s \ {Last(s)}] = f[s \ {Last(s)}]
        BY <4>3
      <4> QED
        BY <4>1, <4>2, <4>4
    <3> QED
      BY <3>1, <3>2
  <2>5. g \in [SUBSET (1..n + 1) -> A]
    BY <2>3
  <2>6. Folds(g, n + 1, G, b)
    <3> HIDE DEF g
    <3> QED
      BY <2>4 DEF Folds
  <2> QED
    BY <2>5, <2>6 DEF HasFold
<1> DEFINE S == {n \in Nat : n <= N => HasFold(A, n, G, b)}
<1>3. 0 \in S
  BY <1>1
<1>4. \A n \in Nat : n \in S => n + 1 \in S
  BY <1>2
<1>5. Nat \subseteq S
  <2> HIDE DEF S
  <2> QED
    BY <1>3, <1>4, Induction
<1> QED
  BY <1>5

-----------------------------------------------------------------------------
\* What the visualizer is sent, and what the bridge and the history hold of it
Packets ==
    [timestamp : Nat, sample : Samples, heading : HeadingsShown \cup {visualizer!None},
     imu : BOOLEAN]

Bridges ==
    [state : {"IDLE", "TRACKING", "LOCKED"}, state_since : Int, valid : BOOLEAN,
     raw : -90..90 \cup {visualizer!None}, smoothed : -90..90,
     heading : HeadingsShown \cup {visualizer!None}, imu : BOOLEAN, last_packet_time : Nat,
     dot : Int, initialized : BOOLEAN]

Points ==
    [timestamp : Nat, valid : BOOLEAN, state : {"IDLE", "TRACKING", "LOCKED"}, value : Int]

LEMMA DotTyped ==
    /\ \A h \in HeadingsShown : visualizer!DotTarget(h) \in Int
    /\ \A d, t \in Int : visualizer!Smooth(d, t) \in Int
<1>1. ASSUME NEW h \in HeadingsShown
      PROVE  visualizer!DotTarget(h) \in Int
  <2>1. h \in Int /\ EdgeHeading \in Nat \ {0}
    BY VisualizerAssumption DEF visualizer!DataAssumption
  <2>2. visualizer!wrap_signed_degrees(h) \in Int
    BY <2>1 DEF visualizer!wrap_signed_degrees
  <2> DEFINE x == (-100 * visualizer!wrap_signed_degrees(h)) \div EdgeHeading
  <2>3. x \in Int
    BY <2>1, <2>2
  <2> HIDE DEF x
  <2>4. visualizer!clamp(x, -100, 100) \in Int
    BY <2>3 DEF visualizer!clamp
  <2> QED
    BY <2>4 DEF visualizer!DotTarget, x
<1> QED
  BY <1>1 DEF visualizer!Smooth

LEMMA SampleTyped ==
    ASSUME NEW s \in Samples
    PROVE  /\ s.valid \in BOOLEAN /\ s.raw \in -90..90 \cup {visualizer!None}
           /\ s.smoothed \in -90..90 /\ s.state \in {"IDLE", "TRACKING", "LOCKED"}
BY VisualizerAssumption DEF visualizer!DataAssumption, visualizer!Sample

LEMMA ReceiveTyped ==
    ASSUME NEW b \in Bridges, NEW p \in Packets
    PROVE  visualizer!Receive(b, p) \in Bridges
<1>1. p.sample \in Samples /\ p.timestamp \in Nat /\ p.imu \in BOOLEAN
        /\ p.heading \in HeadingsShown \cup {visualizer!None}
  BY DEF Packets
<1>2. visualizer!StateSince(b, p) \in Int /\ visualizer!PacketTime(p) \in Nat
  BY <1>1 DEF visualizer!StateSince, visualizer!PacketTime, Bridges
<1>3. visualizer!Dot(b, p).at \in Int /\ visualizer!Dot(b, p).initialized \in BOOLEAN
  <2>1. CASE p.heading = visualizer!None
    BY <2>1 DEF visualizer!Dot
  <2>2. CASE p.heading # visualizer!None
    <3>1. visualizer!DotTarget(p.heading) \in Int /\ b.dot \in Int
      BY <1>1, <2>2, DotTyped DEF Bridges
    <3>2. visualizer!Smooth(b.dot, visualizer!DotTarget(p.heading)) \in Int
      BY <3>1, DotTyped
    <3> QED
      BY <2>2, <3>1, <3>2 DEF visualizer!Dot
  <2> QED
    BY <2>1, <2>2
<1> QED
  BY <1>1, <1>2, <1>3, SampleTyped DEF visualizer!Receive, Bridges

LEMMA PointTyped ==
    ASSUME NEW p \in Packets
    PROVE  visualizer!Point(p) \in Points /\ visualizer!Point(p).timestamp = p.timestamp
<1>1. p.sample \in Samples /\ p.timestamp \in Nat
  BY DEF Packets
<1>2. (IF p.sample.raw = visualizer!None THEN visualizer!None ELSE p.sample.smoothed) \in Int
  BY <1>1, SampleTyped DEF visualizer!None
<1> QED
  BY <1>1, <1>2, SampleTyped DEF visualizer!Point, Points

\* Receiving the packets of the queue, one after the other
LEMMA ReceivedOneByOne ==
    ASSUME NEW b \in Bridges, NEW q \in Seq(Packets)
    PROVE  \E f : /\ f[0] = b
                  /\ \A k \in 1..Len(q) : f[k] = visualizer!Receive(f[k - 1], q[k])
                  /\ visualizer!FoldLeft(visualizer!Receive, b, q) = f[Len(q)]
<1> DEFINE n == Len(q)
           Step(f, s) == IF s = {} THEN b
                         ELSE visualizer!Receive(f[s \ {Last(s)}], q[Last(s)])
           Iter(f) == f = [s \in SUBSET (1..n) |-> Step(f, s)]
           G == [p \in Bridges \X (1..n) |-> visualizer!Receive(p[1], q[p[2]])]
<1>1. n \in Nat /\ DOMAIN q = 1..n /\ \A k \in 1..n : q[k] \in Packets
  OBVIOUS
<1>2. G \in [Bridges \X (1..n) -> Bridges]
  BY <1>1, ReceiveTyped
<1>3. PICK g \in [SUBSET (1..n) -> Bridges] : Folds(g, n, G, b)
  <2> HIDE DEF G, n
  <2> QED
    BY <1>1, <1>2, FoldExists DEF HasFold
<1>4. Iter(g)
  <2>1. ASSUME NEW s \in SUBSET (1..n)
        PROVE  g[s] = Step(g, s)
    <3>1. CASE s = {}
      BY <1>3, <3>1 DEF Folds
    <3>2. CASE s # {}
      <4>1. Last(s) \in 1..n /\ s \ {Last(s)} \in SUBSET (1..n)
        BY <1>1, <3>2, LastIn
      <4>2. g[s \ {Last(s)}] \in Bridges
        BY <4>1
      <4>3. G[<<g[s \ {Last(s)}], Last(s)>>] = visualizer!Receive(g[s \ {Last(s)}], q[Last(s)])
        BY <4>1, <4>2
      <4> QED
        BY <1>3, <3>2, <4>3 DEF Folds
    <3> QED
      BY <3>1, <3>2
  <2> HIDE DEF Step
  <2> QED
    BY <2>1
<1> DEFINE h == CHOOSE f : Iter(f)
<1>5. Iter(h)
  <2> HIDE DEF Iter
  <2> QED
    BY <1>4
<1>6. visualizer!FoldLeft(visualizer!Receive, b, q) = h[1..n]
  BY <1>1, Zenon DEF visualizer!FoldLeft, visualizer!MapThenFoldSet, visualizer!Max, Last
<1> HIDE DEF h
<1> DEFINE f == [k \in 0..n |-> h[1..k]]
<1>7. f[0] = b
  <2>1. 1..0 = {} /\ 1..0 \in SUBSET (1..n) /\ 0 \in 0..n
    BY <1>1
  <2> QED
    BY <1>5, <2>1
<1>8. ASSUME NEW k \in 1..n
      PROVE  f[k] = visualizer!Receive(f[k - 1], q[k])
  <2>1. Last(1..k) = k /\ (1..k) \ {k} = 1..k - 1
    BY <1>1, LastOfInterval
  <2>2. k \in 1..k /\ 1..k \in SUBSET (1..n) /\ k \in 0..n /\ k - 1 \in 0..n
    BY <1>1
  <2>3. h[1..k] = Step(h, 1..k)
    <3> HIDE DEF Step
    <3> QED
      BY <1>5, <2>2
  <2>4. h[1..k] = visualizer!Receive(h[1..k - 1], q[k])
    BY <2>1, <2>2, <2>3
  <2> QED
    BY <2>2, <2>4
<1>9. n \in 0..n
  BY <1>1
<1>10. f[n] = h[1..n]
  BY <1>9
<1> HIDE DEF f
<1> QED
  BY <1>6, <1>7, <1>8, <1>10

-----------------------------------------------------------------------------
\* What the bridge knows after the packets s, started at t
StartsIn(s) ==
    {i \in 1..Len(s) : s[i].sample.state # IF i = 1 THEN "IDLE" ELSE s[i - 1].sample.state}
KnownSince(s) == {i \in 1..Len(s) : \A j \in i..Len(s) : s[j].heading # visualizer!None}

StateKnown(b, s, t) ==
    /\ b.state = IF s = <<>> THEN "IDLE" ELSE s[Len(s)].sample.state
    /\ b.state_since = IF StartsIn(s) = {} THEN t ELSE s[Last(StartsIn(s))].timestamp
    /\ b.last_packet_time = IF s = <<>> THEN 0 ELSE s[Len(s)].timestamp

DotKnown(b, s) ==
    /\ b.heading = IF s = <<>> THEN visualizer!None ELSE s[Len(s)].heading
    /\ b.initialized <=> b.heading # visualizer!None
    /\ IF KnownSince(s) = {} THEN b.dot = 0
       ELSE /\ \E i \in KnownSince(s) : visualizer!DotTarget(s[i].heading) <= b.dot
            /\ \E i \in KnownSince(s) : b.dot <= visualizer!DotTarget(s[i].heading)

Known(b, s, t) == StateKnown(b, s, t) /\ DotKnown(b, s)

LEMMA OneMore ==
    ASSUME NEW s \in Seq(Packets), NEW p \in Packets
    PROVE  /\ Append(s, p) \in Seq(Packets) /\ Append(s, p) # <<>>
           /\ Len(s) \in Nat /\ Len(Append(s, p)) = Len(s) + 1
           /\ Append(s, p)[Len(s) + 1] = p
           /\ \A i \in 1..Len(s) : Append(s, p)[i] = s[i] /\ s[i] \in Packets
           /\ s = <<>> <=> Len(s) = 0
BY AppendProperties

LEMMA StateStaysKnown ==
    ASSUME NEW b \in Bridges, NEW s \in Seq(Packets), NEW t, StateKnown(b, s, t),
           NEW p \in Packets
    PROVE  StateKnown(visualizer!Receive(b, p), Append(s, p), t)
<1> DEFINE r == visualizer!Receive(b, p)
           n == Len(s)
           q == Append(s, p)
<1>1. /\ r.state = p.sample.state /\ r.last_packet_time = p.timestamp
      /\ r.state_since = IF p.sample.state # b.state THEN p.timestamp ELSE b.state_since
  BY DEF visualizer!Receive, visualizer!StateSince, visualizer!PacketTime
<1> HIDE DEF r
<1>2. /\ n \in Nat /\ Len(q) = n + 1 /\ q # <<>> /\ q[n + 1] = p
      /\ \A i \in 1..n : q[i] = s[i]
      /\ s = <<>> <=> n = 0
  BY OneMore
<1> HIDE DEF n, q
<1>3. b.state = IF n + 1 = 1 THEN "IDLE" ELSE q[n + 1 - 1].sample.state
  <2>1. CASE n = 0
    BY <1>2, <2>1 DEF StateKnown
  <2>2. CASE n # 0
    <3>1. n \in 1..n /\ n + 1 - 1 = n /\ n + 1 # 1
      BY <1>2, <2>2
    <3> QED
      BY <1>2, <2>2, <3>1 DEF StateKnown, n
  <2> QED
    BY <2>1, <2>2
<1>4. \A i \in 1..n : i \in StartsIn(q) <=> i \in StartsIn(s)
  <2> SUFFICES ASSUME NEW i \in 1..n PROVE i \in StartsIn(q) <=> i \in StartsIn(s)
    OBVIOUS
  <2>1. q[i] = s[i] /\ (i # 1 => q[i - 1] = s[i - 1]) /\ i \in 1..Len(q) /\ i \in 1..Len(s)
    BY <1>2 DEF n
  <2> QED
    BY <2>1 DEF StartsIn
<1>5. n + 1 \in StartsIn(q) <=> p.sample.state # b.state
  BY <1>2, <1>3 DEF StartsIn
<1>6. StartsIn(q) \in SUBSET (1..n + 1) /\ StartsIn(s) \in SUBSET (1..n)
  BY <1>2 DEF StartsIn, n
<1>7. r.state_since = IF StartsIn(q) = {} THEN t ELSE q[Last(StartsIn(q))].timestamp
  <2>1. CASE p.sample.state # b.state
    <3>1. n + 1 \in StartsIn(q)
      BY <1>5, <2>1
    <3>2. Last(StartsIn(q)) \in StartsIn(q) /\ \A y \in StartsIn(q) : Last(StartsIn(q)) >= y
      <4>1. n + 1 \in Nat /\ StartsIn(q) # {}
        BY <1>2, <3>1
      <4> QED
        BY <1>6, <4>1, LastIn
    <3>3. Last(StartsIn(q)) \in 1..n + 1 /\ Last(StartsIn(q)) >= n + 1
      BY <1>6, <3>1, <3>2
    <3>4. Last(StartsIn(q)) = n + 1
      BY <1>2, <3>3
    <3> QED
      BY <1>1, <1>2, <2>1, <3>1, <3>4
  <2>2. CASE p.sample.state = b.state
    <3>1. StartsIn(q) = StartsIn(s)
      <4>1. n + 1 \notin StartsIn(q)
        BY <1>5, <2>2
      <4>2. \A i \in 1..n + 1 : i # n + 1 => i \in 1..n
        BY <1>2
      <4>3. \A i \in StartsIn(q) : i \in 1..n
        BY <1>6, <4>1, <4>2
      <4> QED
        BY <1>4, <1>6, <4>3
    <3>2. StartsIn(s) # {} => Last(StartsIn(s)) \in 1..n
      BY <1>2, <1>6, LastIn
    <3> QED
      BY <1>1, <1>2, <2>2, <3>1, <3>2 DEF StateKnown
  <2> QED
    BY <2>1, <2>2
<1>8. r.state = q[Len(q)].sample.state /\ r.last_packet_time = q[Len(q)].timestamp
  BY <1>1, <1>2
<1>9. StateKnown(r, q, t)
  BY <1>2, <1>7, <1>8 DEF StateKnown
<1> QED
  BY <1>9 DEF r, q

LEMMA Between ==
    ASSUME NEW d \in Int, NEW t \in Int
    PROVE  /\ d <= t => d <= visualizer!Smooth(d, t) /\ visualizer!Smooth(d, t) <= t
           /\ t <= d => t <= visualizer!Smooth(d, t) /\ visualizer!Smooth(d, t) <= d
BY DEF visualizer!Smooth

LEMMA DotStaysKnown ==
    ASSUME NEW b \in Bridges, NEW s \in Seq(Packets), DotKnown(b, s), NEW p \in Packets
    PROVE  DotKnown(visualizer!Receive(b, p), Append(s, p))
<1> DEFINE r == visualizer!Receive(b, p)
           n == Len(s)
           q == Append(s, p)
           target == visualizer!DotTarget(p.heading)
<1>1. /\ r.heading = p.heading
      /\ r.dot = visualizer!Dot(b, p).at /\ r.initialized = visualizer!Dot(b, p).initialized
  BY DEF visualizer!Receive
<1> HIDE DEF r
<1>2. /\ n \in Nat /\ Len(q) = n + 1 /\ q # <<>> /\ q[n + 1] = p
      /\ \A i \in 1..n : q[i] = s[i]
      /\ s = <<>> <=> n = 0
  BY OneMore
<1> HIDE DEF n, q
<1>3. CASE p.heading = visualizer!None
  <2>1. KnownSince(q) = {}
    <3> SUFFICES ASSUME NEW i \in KnownSince(q) PROVE FALSE
      OBVIOUS
    <3>1. i \in 1..n + 1 /\ n + 1 \in i..n + 1
      BY <1>2 DEF KnownSince
    <3> QED
      BY <1>2, <1>3, <3>1 DEF KnownSince
  <2>2. r.dot = 0 /\ ~r.initialized
    BY <1>1, <1>3 DEF visualizer!Dot
  <2>3. DotKnown(r, q)
    BY <1>1, <1>2, <1>3, <2>1, <2>2 DEF DotKnown
  <2> QED
    BY <2>3 DEF r, q
<1>4. CASE p.heading # visualizer!None
  <2>1. r.initialized /\ r.dot = IF b.heading = visualizer!None \/ ~b.initialized THEN target
                                 ELSE visualizer!Smooth(b.dot, target)
    BY <1>1, <1>4 DEF visualizer!Dot
  <2>2. p.heading \in HeadingsShown /\ target \in Int /\ b.dot \in Int
    BY <1>4, DotTyped DEF Packets, Bridges
  <2>3. n + 1 \in KnownSince(q) /\ q[n + 1].heading = p.heading
    BY <1>2, <1>4 DEF KnownSince
  <2>4. \A i \in KnownSince(s) : i \in KnownSince(q) /\ q[i].heading = s[i].heading
    <3> SUFFICES ASSUME NEW i \in KnownSince(s)
                 PROVE  i \in KnownSince(q) /\ q[i].heading = s[i].heading
      OBVIOUS
    <3>1. i \in 1..n /\ \A j \in i..n : s[j].heading # visualizer!None
      BY DEF KnownSince, n
    <3>2. i \in 1..n + 1
      BY <1>2, <3>1
    <3>3. \A j \in i..n + 1 : q[j].heading # visualizer!None
      <4> SUFFICES ASSUME NEW j \in i..n + 1 PROVE q[j].heading # visualizer!None
        OBVIOUS
      <4>1. CASE j = n + 1
        BY <1>2, <1>4, <4>1
      <4>2. CASE j # n + 1
        <5>1. j \in i..n /\ j \in 1..n
          BY <1>2, <3>1, <4>2
        <5> QED
          BY <1>2, <3>1, <5>1
      <4> QED
        BY <4>1, <4>2
    <3> QED
      BY <1>2, <3>1, <3>2, <3>3 DEF KnownSince
  <2>5. /\ \E i \in KnownSince(q) : visualizer!DotTarget(q[i].heading) <= r.dot
        /\ \E i \in KnownSince(q) : r.dot <= visualizer!DotTarget(q[i].heading)
    <3>1. CASE b.heading = visualizer!None \/ ~b.initialized
      <4>1. r.dot = visualizer!DotTarget(q[n + 1].heading) /\ r.dot \in Int
        BY <2>1, <2>2, <2>3, <3>1
      <4>2. visualizer!DotTarget(q[n + 1].heading) <= r.dot
              /\ r.dot <= visualizer!DotTarget(q[n + 1].heading)
        BY <4>1
      <4> QED
        BY <2>3, <4>2
    <3>2. CASE b.heading # visualizer!None /\ b.initialized
      <4>1. n \in KnownSince(s)
        <5>1. n # 0
          BY <1>2, <3>2 DEF DotKnown
        <5>2. s[n].heading # visualizer!None
          BY <1>2, <3>2, <5>1 DEF DotKnown, n
        <5>3. n \in 1..n /\ \A j \in n..n : j = n
          BY <1>2, <5>1
        <5> QED
          BY <5>2, <5>3 DEF KnownSince, n
      <4>2. PICK i \in KnownSince(s) : visualizer!DotTarget(s[i].heading) <= b.dot
        BY <4>1 DEF DotKnown
      <4>3. PICK j \in KnownSince(s) : b.dot <= visualizer!DotTarget(s[j].heading)
        BY <4>1 DEF DotKnown
      <4>4. \A k \in KnownSince(s) : visualizer!DotTarget(s[k].heading) \in Int
        <5> SUFFICES ASSUME NEW k \in KnownSince(s)
                     PROVE  visualizer!DotTarget(s[k].heading) \in Int
          OBVIOUS
        <5>1. k \in 1..Len(s) /\ k \in k..Len(s) /\ s[k].heading # visualizer!None
          BY DEF KnownSince
        <5>2. s[k] \in Packets
          BY <5>1, OneMore
        <5> QED
          BY <5>1, <5>2, DotTyped DEF Packets
      <4>5. r.dot = visualizer!Smooth(b.dot, target) /\ r.dot \in Int
        BY <2>1, <2>2, <3>2, DotTyped
      <4> DEFINE x == visualizer!DotTarget(s[i].heading)
                 y == visualizer!DotTarget(s[j].heading)
      <4>6. x \in Int /\ y \in Int /\ x <= b.dot /\ b.dot <= y
        BY <4>2, <4>3, <4>4
      <4>7. /\ i \in KnownSince(q) /\ visualizer!DotTarget(q[i].heading) = x
            /\ j \in KnownSince(q) /\ visualizer!DotTarget(q[j].heading) = y
            /\ visualizer!DotTarget(q[n + 1].heading) = target
        BY <2>3, <2>4
      <4> HIDE DEF x, y, target
      <4>8. CASE b.dot <= target
        <5>1. b.dot <= r.dot /\ r.dot <= target
          BY <2>2, <4>5, <4>8, Between
        <5>2. x <= r.dot
          BY <2>2, <4>5, <4>6, <5>1
        <5> QED
          BY <2>3, <4>7, <5>1, <5>2
      <4>9. CASE target <= b.dot
        <5>1. target <= r.dot /\ r.dot <= b.dot
          BY <2>2, <4>5, <4>9, Between
        <5>2. r.dot <= y
          BY <2>2, <4>5, <4>6, <5>1
        <5> QED
          BY <2>3, <4>7, <5>1, <5>2
      <4> QED
        BY <2>2, <4>8, <4>9
    <3> QED
      BY <3>1, <3>2
  <2>6. DotKnown(r, q)
    BY <1>1, <1>2, <1>4, <2>1, <2>3, <2>5 DEF DotKnown
  <2> QED
    BY <2>6 DEF r, q
<1> QED
  BY <1>3, <1>4

\* After the queue the bridge knows what was seen before and what waited there.
LEMMA PolledKnown ==
    ASSUME NEW b \in Bridges, NEW s \in Seq(Packets), NEW t, Known(b, s, t),
           NEW q \in Seq(Packets)
    PROVE  LET r == visualizer!FoldLeft(visualizer!Receive, b, q) IN
           r \in Bridges /\ Known(r, s \o q, t)
<1>1. PICK f : /\ f[0] = b
               /\ \A k \in 1..Len(q) : f[k] = visualizer!Receive(f[k - 1], q[k])
               /\ visualizer!FoldLeft(visualizer!Receive, b, q) = f[Len(q)]
  BY ReceivedOneByOne
<1> DEFINE Good(k) == f[k] \in Bridges /\ Known(f[k], s \o SubSeq(q, 1, k), t)
           S == {k \in Nat : k <= Len(q) => Good(k)}
<1>2. Len(q) \in Nat /\ \A k \in 1..Len(q) : q[k] \in Packets
  OBVIOUS
<1>3. s \o SubSeq(q, 1, 0) = s /\ SubSeq(q, 1, Len(q)) = q
  OBVIOUS
<1>4. 0 \in S
  BY <1>1, <1>3
<1>5. ASSUME NEW k \in Nat, k \in S, k + 1 <= Len(q)
      PROVE  Good(k + 1)
  <2>1. k + 1 \in 1..Len(q) /\ k + 1 - 1 = k
    BY <1>2, <1>5
  <2>2. Good(k)
    BY <1>2, <1>5
  <2> DEFINE u == s \o SubSeq(q, 1, k)
  <2>3. s \o SubSeq(q, 1, k + 1) = Append(u, q[k + 1])
    <3>1. SubSeq(q, 1, k + 1) = Append(SubSeq(q, 1, k), q[k + 1])
      BY <1>2, <2>1
    <3>2. SubSeq(q, 1, k) \in Seq(Packets)
      BY <1>2, <2>1
    <3> QED
      BY <1>2, <2>1, <3>1, <3>2
  <2>4. u \in Seq(Packets)
    BY <1>2, <2>1
  <2>5. f[k + 1] = visualizer!Receive(f[k], q[k + 1]) /\ q[k + 1] \in Packets
    BY <1>1, <1>2, <2>1
  <2>6. f[k] \in Bridges /\ StateKnown(f[k], u, t) /\ DotKnown(f[k], u)
    BY <2>2 DEF Known
  <2> HIDE DEF u
  <2>7. /\ StateKnown(f[k + 1], Append(u, q[k + 1]), t) /\ DotKnown(f[k + 1], Append(u, q[k + 1]))
        /\ f[k + 1] \in Bridges
    BY <2>4, <2>5, <2>6, StateStaysKnown, DotStaysKnown, ReceiveTyped
  <2> QED
    BY <2>3, <2>7 DEF Known
<1>6. Nat \subseteq S
  <2>1. \A k \in Nat : k \in S => k + 1 \in S
    <3> HIDE DEF Good
    <3> QED
      BY <1>2, <1>5
  <2> HIDE DEF S
  <2> QED
    BY <1>4, <2>1, Induction
<1>7. Good(Len(q))
  <2> HIDE DEF Good
  <2> QED
    BY <1>2, <1>6
<1> QED
  BY <1>1, <1>3, <1>7

-----------------------------------------------------------------------------
\* Building the history again, point by point
LEMMA KeptOneByOne ==
    ASSUME NEW q \in Seq(Points)
    PROVE  \E f : /\ f[0] = <<>>
                  /\ \A k \in 1..Len(q) : f[k] = visualizer!Keep(f[k - 1], q[k])
                  /\ visualizer!FoldLeft(visualizer!Keep, <<>>, q) = f[Len(q)]
<1> DEFINE n == Len(q)
           A == Seq(Points)
           Step(f, s) == IF s = {} THEN <<>>
                         ELSE visualizer!Keep(f[s \ {Last(s)}], q[Last(s)])
           Iter(f) == f = [s \in SUBSET (1..n) |-> Step(f, s)]
           G == [p \in A \X (1..n) |-> visualizer!Keep(p[1], q[p[2]])]
<1>1. n \in Nat /\ DOMAIN q = 1..n /\ \A k \in 1..n : q[k] \in Points
  OBVIOUS
<1>2. G \in [A \X (1..n) -> A]
  <2>1. \A a \in A, e \in Points : visualizer!Keep(a, e) \in A
    BY AppendProperties DEF visualizer!Keep
  <2> HIDE DEF A
  <2> QED
    BY <1>1, <2>1
<1>3. PICK g \in [SUBSET (1..n) -> A] : Folds(g, n, G, <<>>)
  <2>1. <<>> \in A
    OBVIOUS
  <2> HIDE DEF G, n, A
  <2>2. PICK b : b = <<>>
    OBVIOUS
  <2>3. HasFold(A, n, G, b)
    BY <1>1, <1>2, <2>1, <2>2, FoldExists
  <2> QED
    BY <2>2, <2>3 DEF HasFold
<1> HIDE DEF A
<1>4. Iter(g)
  <2>1. ASSUME NEW s \in SUBSET (1..n)
        PROVE  g[s] = Step(g, s)
    <3>1. CASE s = {}
      BY <1>3, <3>1 DEF Folds
    <3>2. CASE s # {}
      <4>1. Last(s) \in 1..n /\ s \ {Last(s)} \in SUBSET (1..n)
        BY <1>1, <3>2, LastIn
      <4>2. g[s \ {Last(s)}] \in A
        BY <4>1
      <4>3. G[<<g[s \ {Last(s)}], Last(s)>>] = visualizer!Keep(g[s \ {Last(s)}], q[Last(s)])
        BY <4>1, <4>2
      <4> QED
        BY <1>3, <3>2, <4>3 DEF Folds
    <3> QED
      BY <3>1, <3>2
  <2> HIDE DEF Step
  <2> QED
    BY <2>1
<1> DEFINE h == CHOOSE f : Iter(f)
<1>5. Iter(h)
  <2> HIDE DEF Iter
  <2> QED
    BY <1>4
<1>6. visualizer!FoldLeft(visualizer!Keep, <<>>, q) = h[1..n]
  BY <1>1, Zenon DEF visualizer!FoldLeft, visualizer!MapThenFoldSet, visualizer!Max, Last
<1> HIDE DEF h
<1> DEFINE f == [k \in 0..n |-> h[1..k]]
<1>7. f[0] = <<>>
  <2>1. 1..0 = {} /\ 1..0 \in SUBSET (1..n) /\ 0 \in 0..n
    BY <1>1
  <2> QED
    BY <1>5, <2>1
<1>8. ASSUME NEW k \in 1..n
      PROVE  f[k] = visualizer!Keep(f[k - 1], q[k])
  <2>1. Last(1..k) = k /\ (1..k) \ {k} = 1..k - 1
    BY <1>1, LastOfInterval
  <2>2. k \in 1..k /\ 1..k \in SUBSET (1..n) /\ k \in 0..n /\ k - 1 \in 0..n
    BY <1>1
  <2>3. h[1..k] = Step(h, 1..k)
    <3> HIDE DEF Step
    <3> QED
      BY <1>5, <2>2
  <2>4. h[1..k] = visualizer!Keep(h[1..k - 1], q[k])
    BY <2>1, <2>2, <2>3
  <2> QED
    BY <2>2, <2>4
<1>9. n \in 0..n
  BY <1>1
<1>10. f[n] = h[1..n]
  BY <1>9
<1> HIDE DEF f
<1> QED
  BY <1>6, <1>7, <1>8, <1>10

\* Of points that are first m old ones, then recent ones, the recent ones are kept.
LEMMA RecentKept ==
    ASSUME NEW q \in Seq(Points), NEW m \in 0..Len(q),
           \A i \in 1..Len(q) : q[i].timestamp >= time - Timeline <=> i > m
    PROVE  LET r == visualizer!FoldLeft(visualizer!Keep, <<>>, q) IN
           /\ r \in Seq(Points) /\ Len(r) = Len(q) - m
           /\ \A i \in 1..(Len(q) - m) : r[i] = q[m + i]
<1>1. PICK f : /\ f[0] = <<>>
               /\ \A k \in 1..Len(q) : f[k] = visualizer!Keep(f[k - 1], q[k])
               /\ visualizer!FoldLeft(visualizer!Keep, <<>>, q) = f[Len(q)]
  BY KeptOneByOne
<1> DEFINE Left(k) == IF k <= m THEN 0 ELSE k - m
           Good(k) == /\ f[k] \in Seq(Points) /\ Len(f[k]) = Left(k)
                      /\ \A i \in 1..Left(k) : f[k][i] = q[m + i]
           S == {k \in Nat : k <= Len(q) => Good(k)}
<1>2. Len(q) \in Nat /\ m \in Nat /\ m <= Len(q) /\ \A k \in 1..Len(q) : q[k] \in Points
  OBVIOUS
<1>3. 0 \in S
  <2>1. Left(0) = 0 /\ f[0] = <<>>
    BY <1>1, <1>2
  <2> HIDE DEF Left
  <2>2. f[0] \in Seq(Points) /\ Len(f[0]) = 0
    BY <2>1
  <2>3. \A i \in 1..Left(0) : FALSE
    BY <2>1
  <2> QED
    BY <2>1, <2>2, <2>3
<1>4. ASSUME NEW k \in Nat, k \in S, k + 1 <= Len(q)
      PROVE  Good(k + 1)
  <2>1. k + 1 \in 1..Len(q) /\ k + 1 - 1 = k
    BY <1>2, <1>4
  <2>2. Good(k)
    BY <1>2, <1>4
  <2>3. f[k + 1] = visualizer!Keep(f[k], q[k + 1]) /\ q[k + 1] \in Points
    BY <1>1, <1>2, <2>1
  <2>4. CASE k + 1 <= m
    <3>1. f[k + 1] = f[k]
      BY <1>2, <2>1, <2>3, <2>4 DEF visualizer!Keep
    <3>2. Left(k + 1) = Left(k)
      BY <1>2, <2>4
    <3> QED
      BY <2>2, <3>1, <3>2
  <2>5. CASE ~(k + 1 <= m)
    <3>1. f[k + 1] = Append(f[k], q[k + 1])
      BY <1>2, <2>1, <2>3, <2>5 DEF visualizer!Keep
    <3>2. Left(k) \in Nat /\ Left(k + 1) = Left(k) + 1 /\ m + Left(k) + 1 = k + 1
      BY <1>2, <2>5
    <3> HIDE DEF Left
    <3>3. /\ f[k + 1] \in Seq(Points) /\ Len(f[k + 1]) = Left(k) + 1
          /\ f[k + 1][Left(k) + 1] = q[k + 1]
          /\ \A i \in 1..Left(k) : f[k + 1][i] = f[k][i]
      BY <2>2, <2>3, <3>1, AppendProperties
    <3>4. \A i \in 1..(Left(k) + 1) : f[k + 1][i] = q[m + i]
      <4> SUFFICES ASSUME NEW i \in 1..(Left(k) + 1) PROVE f[k + 1][i] = q[m + i]
        OBVIOUS
      <4>1. CASE i = Left(k) + 1
        <5>1. m + i = k + 1
          BY <1>2, <3>2, <4>1
        <5> QED
          BY <3>3, <4>1, <5>1
      <4>2. CASE i # Left(k) + 1
        <5>1. i \in 1..Left(k)
          BY <3>2, <4>2
        <5> QED
          BY <2>2, <3>3, <5>1
      <4> QED
        BY <4>1, <4>2
    <3> QED
      BY <3>2, <3>3, <3>4
  <2> QED
    BY <2>4, <2>5
<1>5. Nat \subseteq S
  <2>1. ASSUME NEW k \in Nat, k \in S
        PROVE  k + 1 \in S
    <3>1. k + 1 <= Len(q) => Good(k + 1)
      BY <1>4, <2>1
    <3> HIDE DEF Good
    <3> QED
      BY <3>1
  <2> HIDE DEF S
  <2> QED
    BY <1>3, <2>1, Induction
<1>6. Good(Len(q))
  <2> HIDE DEF Good
  <2> QED
    BY <1>2, <1>5
<1>7. Left(Len(q)) = Len(q) - m
  BY <1>2
<1> HIDE DEF Left
<1> QED
  BY <1>1, <1>6, <1>7

\* Times that do not fall are first before a time c, then not.
LEMMA OrderSplits ==
    ASSUME NEW n \in Nat, NEW f, NEW c \in Int, \A i \in 1..n : f[i] \in Int,
           \A i, j \in 1..n : i <= j => f[i] <= f[j]
    PROVE  \E m \in 0..n : \A i \in 1..n : f[i] >= c <=> i > m
<1> DEFINE T == {m \in Nat : \A i \in 1..n : i > m => f[i] >= c}
<1>1. n \in T
  OBVIOUS
<1>2. PICK m \in T : \A k \in T : m <= k
  <2> T \in SUBSET Nat
    OBVIOUS
  <2> HIDE DEF T
  <2> QED
    BY <1>1, SmallestThere
<1>3. m \in 0..n
  BY <1>1, <1>2
<1>4. ASSUME NEW i \in 1..n, i <= m
      PROVE  f[i] < c
  <2>1. m - 1 \in Nat /\ m - 1 \notin T
    BY <1>2, <1>4
  <2>2. PICK j \in 1..n : j > m - 1 /\ ~(f[j] >= c)
    BY <2>1
  <2>3. ~(j > m)
    BY <1>2, <2>2
  <2>4. i <= j /\ f[i] <= f[j]
    BY <1>3, <1>4, <2>2, <2>3
  <2> QED
    BY <2>2, <2>4
<1>5. \A i \in 1..n : f[i] >= c <=> i > m
  <2> SUFFICES ASSUME NEW i \in 1..n PROVE f[i] >= c <=> i > m
    OBVIOUS
  <2>1. f[i] \in Int /\ (i > m => f[i] >= c) /\ (i <= m => f[i] < c)
    BY <1>2, <1>4
  <2> QED
    BY <1>3, <2>1
<1> QED
  BY <1>3, <1>5

-----------------------------------------------------------------------------
InOrder(s) == \A i, j \in 1..Len(s) : i <= j => s[i].timestamp <= s[j].timestamp
SentBy(s, t) == \A i \in 1..Len(s) : s[i].timestamp <= t

Timed ==
    /\ time \in Nat /\ polled \in Nat /\ polled <= time
    /\ sentAt \in Nat /\ sentAt <= time /\ started \in Int
    /\ heading \in HeadingsShown \cup {visualizer!None}

Queued ==
    /\ seen \in Seq(Packets) /\ queue \in Seq(Packets)
    /\ InOrder(seen \o queue) /\ SentBy(seen \o queue, sentAt)

Bridged == bridge \in Bridges /\ Known(bridge, seen, started)

Watching == Timed /\ Queued /\ Bridged /\ visualizer!HistoryComplete

LEMMA VisualizerConstants ==
    /\ AudioStale \in Nat /\ Timeline \in Nat /\ VisualizerTime \in Nat /\ MaxQueue \in Nat
BY VisualizerAssumption DEF visualizer!TimesAssumption

LEMMA NewKnown ==
    ASSUME time \in Nat
    PROVE  /\ visualizer!NewBridge \in Bridges
           /\ Known(visualizer!NewBridge, <<>>, time)
<1> DEFINE b == visualizer!NewBridge
<1>1. /\ b.state = "IDLE" /\ b.state_since = time /\ b.last_packet_time = 0
      /\ b.heading = visualizer!None /\ b.dot = 0 /\ b.initialized = FALSE
      /\ b \in Bridges
  BY DEF visualizer!NewBridge, Bridges, visualizer!None
<1> HIDE DEF b
<1>2. StartsIn(<<>>) = {} /\ KnownSince(<<>>) = {}
  BY DEF StartsIn, KnownSince
<1>3. StateKnown(b, <<>>, time)
  BY <1>1, <1>2 DEF StateKnown
<1>4. DotKnown(b, <<>>)
  BY <1>1, <1>2 DEF DotKnown
<1> QED
  BY <1>1, <1>3, <1>4 DEF Known, b

LEMMA NewHistory ==
    ASSUME seen = <<>>, history = <<>>
    PROVE  visualizer!HistoryComplete
<1>1. 0 \in 0..Len(seen) /\ \A i \in 1..Len(seen) : FALSE
  OBVIOUS
<1>2. history = [i \in 1..(Len(seen) - 0) |-> visualizer!Point(seen[0 + i])]
  <2>1. 1..(Len(seen) - 0) = {}
    OBVIOUS
  <2> QED
    BY <2>1
<1> QED
  BY <1>1, <1>2 DEF visualizer!HistoryComplete

LEMMA InitWatching == visualizer!Init => Watching
<1> SUFFICES ASSUME visualizer!Init PROVE Watching
  OBVIOUS
<1>1. /\ time = 1 /\ bridge = visualizer!NewBridge
      /\ history = <<>> /\ queue = <<>> /\ seen = <<>> /\ sentAt = 0
      /\ heading = visualizer!None /\ started = time /\ polled = time
  BY DEF visualizer!Init
<1>2. Timed
  BY <1>1 DEF Timed
<1>3. Queued
  <2>1. seen \o queue = <<>> /\ seen \in Seq(Packets) /\ queue \in Seq(Packets)
    BY <1>1
  <2> QED
    BY <2>1 DEF Queued, InOrder, SentBy
<1>4. Bridged
  BY <1>1, NewKnown DEF Bridged
<1> QED
  BY <1>1, <1>2, <1>3, <1>4, NewHistory DEF Watching

LEMMA NextTimed ==
    ASSUME Timed, [visualizer!Next]_(visualizer!vars)
    PROVE  Timed'
<1>1. CASE visualizer!Tick
  BY <1>1 DEF visualizer!Tick, Timed
<1>2. CASE visualizer!Send
  BY <1>2 DEF visualizer!Send, Timed
<1>3. CASE visualizer!TrackerRestart
  BY <1>3 DEF visualizer!TrackerRestart, Timed
<1>4. CASE visualizer!Restart
  BY <1>4 DEF visualizer!Restart, Timed
<1>5. CASE visualizer!poll_socket
  BY <1>5 DEF visualizer!poll_socket, Timed
<1>6. CASE UNCHANGED visualizer!vars
  BY <1>6 DEF visualizer!vars, Timed
<1> QED
  BY <1>1, <1>2, <1>3, <1>4, <1>5, <1>6 DEF visualizer!Next

LEMMA NextQueued ==
    ASSUME Timed, Queued, [visualizer!Next]_(visualizer!vars)
    PROVE  Queued'
<1>1. CASE visualizer!Tick \/ visualizer!TrackerRestart \/ UNCHANGED visualizer!vars
  BY <1>1 DEF visualizer!Tick, visualizer!TrackerRestart, visualizer!vars, Queued
<1>2. CASE visualizer!Send
  <2>1. sentAt' = time /\ sentAt < time /\ seen' = seen /\ time \in Nat /\ sentAt \in Nat
    BY <1>2 DEF visualizer!Send, Timed
  <2>2. PICK s \in Samples, imu \in BOOLEAN :
          queue' = IF Len(queue) = MaxQueue THEN queue
                   ELSE Append(queue, [timestamp |-> time, sample |-> s,
                                       heading |-> heading', imu |-> imu])
    BY <1>2 DEF visualizer!Send
  <2>3. heading' \in HeadingsShown \cup {visualizer!None}
    BY <1>2 DEF visualizer!Send
  <2> DEFINE p == [timestamp |-> time, sample |-> s, heading |-> heading', imu |-> imu]
  <2>4. PICK d : d = p
    OBVIOUS
  <2>5. d \in Packets /\ d.timestamp = time
    BY <2>1, <2>3, <2>4 DEF Packets
  <2> HIDE DEF p
  <2> DEFINE u == seen \o queue
             n == Len(seen \o queue)
  <2>6. /\ u \in Seq(Packets) /\ n \in Nat /\ \A i \in 1..n : u[i] \in Packets
        /\ InOrder(u) /\ SentBy(u, sentAt)
    BY DEF Queued
  <2>7. CASE Len(queue) = MaxQueue
    <3>1. queue' = queue
      BY <2>2, <2>7
    <3>2. SentBy(u, time)
      <4> SUFFICES ASSUME NEW i \in 1..Len(u) PROVE u[i].timestamp <= time
        BY DEF SentBy
      <4>1. u[i].timestamp <= sentAt /\ u[i].timestamp \in Nat
        BY <2>6 DEF SentBy, Packets
      <4> QED
        BY <2>1, <4>1
    <3> QED
      BY <2>1, <2>6, <3>1, <3>2 DEF Queued
  <2>8. CASE Len(queue) # MaxQueue
    <3>1. queue' = Append(queue, d)
      BY <2>2, <2>4, <2>8 DEF p
    <3>2. seen \o queue' = Append(u, d) /\ queue' \in Seq(Packets)
      BY <2>5, <3>1 DEF Queued
    <3>3. /\ Len(Append(u, d)) = n + 1 /\ Append(u, d)[n + 1] = d
          /\ \A i \in 1..n : Append(u, d)[i] = u[i]
      BY <2>5, <2>6, OneMore
    <3> DEFINE v == Append(u, d)
    <3> HIDE DEF v, u, n
    <3>4. \A i \in 1..n : v[i].timestamp <= time /\ v[i].timestamp \in Nat
      <4> SUFFICES ASSUME NEW i \in 1..n
                   PROVE  v[i].timestamp <= time /\ v[i].timestamp \in Nat
        OBVIOUS
      <4>1. v[i] = u[i] /\ u[i] \in Packets /\ i \in 1..Len(u)
        BY <2>6, <3>3 DEF v, n, u
      <4>2. u[i].timestamp <= sentAt /\ u[i].timestamp \in Nat
        BY <2>6, <4>1 DEF SentBy, Packets
      <4> QED
        BY <2>1, <4>1, <4>2
    <3>5. Len(v) = n + 1 /\ v[n + 1].timestamp = time /\ n \in Nat
      BY <2>5, <2>6, <3>3 DEF v
    <3>6. SentBy(v, time)
      <4> SUFFICES ASSUME NEW i \in 1..n + 1 PROVE v[i].timestamp <= time
        BY <3>5 DEF SentBy
      <4>1. CASE i = n + 1
        BY <2>1, <3>5, <4>1
      <4>2. CASE i # n + 1
        <5>1. i \in 1..n
          BY <3>5, <4>2
        <5> QED
          BY <3>4, <5>1
      <4> QED
        BY <4>1, <4>2
    <3>7. InOrder(v)
      <4> SUFFICES ASSUME NEW i \in 1..n + 1, NEW j \in 1..n + 1, i <= j
                   PROVE  v[i].timestamp <= v[j].timestamp
        BY <3>5 DEF InOrder
      <4>1. CASE j = n + 1
        BY <3>5, <3>6, <4>1 DEF SentBy
      <4>2. CASE j # n + 1
        <5>1. i \in 1..n /\ j \in 1..n /\ i \in 1..Len(u) /\ j \in 1..Len(u)
          BY <3>5, <4>2 DEF n, u
        <5>2. v[i] = u[i] /\ v[j] = u[j]
          BY <3>3, <5>1 DEF v
        <5> QED
          BY <2>6, <5>1, <5>2 DEF InOrder
      <4> QED
        BY <4>1, <4>2
    <3>8. seen \o queue' = v
      BY <3>2 DEF v
    <3> QED
      BY <2>1, <3>2, <3>6, <3>7, <3>8 DEF Queued
  <2> QED
    BY <2>7, <2>8
<1>3. CASE visualizer!Restart
  <2>1. seen' = <<>> /\ queue' = <<>>
    BY <1>3 DEF visualizer!Restart
  <2>2. seen' \o queue' = <<>> /\ seen' \in Seq(Packets) /\ queue' \in Seq(Packets)
    BY <2>1
  <2> QED
    BY <2>2 DEF Queued, InOrder, SentBy
<1>4. CASE visualizer!poll_socket
  <2>1. seen' = seen \o queue /\ queue' = <<>> /\ sentAt' = sentAt
    BY <1>4 DEF visualizer!poll_socket
  <2>2. seen \o queue \in Seq(Packets) /\ (seen \o queue) \o <<>> = seen \o queue
    BY DEF Queued
  <2>3. queue' \in Seq(Packets)
    BY <2>1
  <2> QED
    BY <2>1, <2>2, <2>3 DEF Queued
<1> QED
  BY <1>1, <1>2, <1>3, <1>4 DEF visualizer!Next

LEMMA NextBridged ==
    ASSUME Timed, Queued, Bridged, [visualizer!Next]_(visualizer!vars)
    PROVE  Bridged'
<1>1. CASE visualizer!Tick \/ visualizer!Send \/ visualizer!TrackerRestart
             \/ UNCHANGED visualizer!vars
  <2>1. UNCHANGED <<bridge, seen, started>>
    BY <1>1 DEF visualizer!Tick, visualizer!Send, visualizer!TrackerRestart, visualizer!vars
  <2> QED
    BY <2>1 DEF Bridged
<1>2. CASE visualizer!Restart
  <2>1. bridge' = visualizer!NewBridge /\ seen' = <<>> /\ started' = time
    BY <1>2 DEF visualizer!Restart
  <2>2. PICK b, t : b = visualizer!NewBridge /\ t = time
    OBVIOUS
  <2>3. b \in Bridges /\ Known(b, <<>>, t)
    BY <2>2, NewKnown DEF Timed
  <2>4. bridge' = b /\ started' = t
    BY <2>1, <2>2
  <2> QED
    BY <2>1, <2>3, <2>4 DEF Bridged
<1>3. CASE visualizer!poll_socket
  <2>1. /\ bridge' = visualizer!FoldLeft(visualizer!Receive, bridge, queue)
        /\ seen' = seen \o queue /\ started' = started
    BY <1>3 DEF visualizer!poll_socket
  <2>2. PICK b, s, q, t : b = bridge /\ s = seen /\ q = queue /\ t = started
    OBVIOUS
  <2>3. b \in Bridges /\ s \in Seq(Packets) /\ q \in Seq(Packets) /\ Known(b, s, t)
    BY <2>2 DEF Bridged, Queued
  <2>4. PICK r : r = visualizer!FoldLeft(visualizer!Receive, b, q)
    OBVIOUS
  <2>5. r \in Bridges /\ Known(r, s \o q, t)
    BY <2>3, <2>4, PolledKnown
  <2>6. PICK u : u = s \o q
    OBVIOUS
  <2>7. bridge' = r /\ seen' = u /\ started' = t /\ Known(r, u, t)
    BY <2>1, <2>2, <2>4, <2>5, <2>6
  <2> QED
    BY <2>5, <2>7 DEF Bridged
<1> QED
  BY <1>1, <1>2, <1>3 DEF visualizer!Next

LEMMA NextHistory ==
    ASSUME Watching, Queued', [visualizer!Next]_(visualizer!vars)
    PROVE  visualizer!HistoryComplete'
<1>1. CASE visualizer!Tick \/ visualizer!Send \/ visualizer!TrackerRestart
             \/ UNCHANGED visualizer!vars
  <2>1. UNCHANGED <<history, seen, polled>>
    BY <1>1 DEF visualizer!Tick, visualizer!Send, visualizer!TrackerRestart, visualizer!vars
  <2> QED
    BY <2>1 DEF Watching, visualizer!HistoryComplete
<1>2. CASE visualizer!Restart
  <2>1. seen' = <<>> /\ history' = <<>>
    BY <1>2 DEF visualizer!Restart
  <2>2. 0 \in 0..Len(seen') /\ \A i \in 1..Len(seen') : FALSE
    BY <2>1
  <2>3. history' = [i \in 1..(Len(seen') - 0) |-> visualizer!Point(seen'[0 + i])]
    <3>1. 1..(Len(seen') - 0) = {}
      BY <2>1
    <3> QED
      BY <2>1, <3>1
  <2> QED
    BY <2>2, <2>3 DEF visualizer!HistoryComplete, visualizer!Point
<1>3. CASE visualizer!poll_socket
  <2> DEFINE points == [i \in 1..Len(queue) |-> visualizer!Point(queue[i])]
  <2>1. /\ history' = visualizer!Trim(history \o points)
        /\ seen' = seen \o queue /\ polled' = time
    BY <1>3 DEF visualizer!poll_socket
  <2>2. /\ time \in Nat /\ polled \in Nat /\ polled <= time /\ Timeline \in Nat
    BY VisualizerConstants DEF Watching, Timed
  <2>3. PICK n \in 0..Len(seen) :
          /\ \A i \in 1..Len(seen) : seen[i].timestamp >= polled - Timeline <=> i > n
          /\ history = [i \in 1..(Len(seen) - n) |-> visualizer!Point(seen[n + i])]
    BY DEF Watching, visualizer!HistoryComplete
  <2> DEFINE u == seen \o queue
             q == history \o points
  <2>4. /\ seen \in Seq(Packets) /\ queue \in Seq(Packets) /\ u \in Seq(Packets)
        /\ Len(seen) \in Nat /\ Len(queue) \in Nat /\ Len(u) = Len(seen) + Len(queue)
        /\ \A i \in 1..Len(u) : u[i] \in Packets
        /\ \A i \in 1..Len(seen) : u[i] = seen[i]
        /\ \A i \in 1..Len(queue) : u[Len(seen) + i] = queue[i]
    BY DEF Watching, Queued
  <2>5. InOrder(u)
    BY DEF Watching, Queued
  <2>6. /\ q \in Seq(Points) /\ Len(q) = Len(u) - n
        /\ \A i \in 1..(Len(u) - n) : q[i] = visualizer!Point(u[n + i])
    <3>1. history \in Seq(Points) /\ Len(history) = Len(seen) - n
      <4>1. \A i \in 1..(Len(seen) - n) : visualizer!Point(seen[n + i]) \in Points
        <5> SUFFICES ASSUME NEW i \in 1..(Len(seen) - n)
                     PROVE  visualizer!Point(seen[n + i]) \in Points
          OBVIOUS
        <5>1. n + i \in 1..Len(seen)
          BY <2>3, <2>4
        <5>2. seen[n + i] \in Packets
          BY <2>4, <5>1
        <5> QED
          BY <5>2, PointTyped
      <4>9. Len(seen) - n \in Nat
        BY <2>3, <2>4
      <4>2. PICK k \in Nat : k = Len(seen) - n
        BY <4>9, Zenon
      <4>3. history \in [1..k -> Points]
        BY <2>3, <4>1, <4>2
      <4> QED
        BY <4>2, <4>3
    <3>2. points \in Seq(Points) /\ Len(points) = Len(queue)
      <4>1. \A i \in 1..Len(queue) : visualizer!Point(queue[i]) \in Points
        BY <2>4, PointTyped
      <4> QED
        BY <2>4, <4>1
    <3> HIDE DEF points
    <3>3. /\ q \in Seq(Points) /\ Len(q) = Len(history) + Len(points)
          /\ \A i \in 1..Len(history) : q[i] = history[i]
          /\ \A i \in 1..Len(points) : q[Len(history) + i] = points[i]
      BY <3>1, <3>2
    <3> HIDE DEF q, u
    <3>4. ASSUME NEW i \in 1..(Len(u) - n)
          PROVE  q[i] = visualizer!Point(u[n + i])
      <4>1. CASE i <= Len(seen) - n
        <5>1. i \in 1..(Len(seen) - n) /\ n + i \in 1..Len(seen)
          BY <2>3, <2>4, <4>1
        <5>2. q[i] = history[i]
          BY <3>1, <3>3, <5>1
        <5>3. history[i] = visualizer!Point(seen[n + i])
          BY <2>3, <5>1
        <5> QED
          BY <2>4, <5>1, <5>2, <5>3
      <4>2. CASE ~(i <= Len(seen) - n)
        <5>1. PICK k \in 1..Len(queue) : i = (Len(seen) - n) + k
          <6>1. i - (Len(seen) - n) \in 1..Len(queue)
            BY <2>3, <2>4, <4>2
          <6>2. i = (Len(seen) - n) + (i - (Len(seen) - n))
            BY <2>3, <2>4
          <6> QED
            BY <6>1, <6>2
        <5>2. q[i] = points[k]
          BY <3>1, <3>2, <3>3, <5>1
        <5>3. points[k] = visualizer!Point(queue[k])
          BY <5>1 DEF points
        <5>4. n + i = Len(seen) + k
          BY <2>3, <2>4, <5>1
        <5> QED
          BY <2>4, <5>2, <5>3, <5>4
      <4> QED
        BY <4>1, <4>2
    <3> QED
      BY <2>3, <2>4, <3>1, <3>2, <3>3, <3>4
  <2> DEFINE c == time - Timeline
  <2>7. PICK m \in 0..Len(u) : \A i \in 1..Len(u) : u[i].timestamp >= c <=> i > m
    <3> DEFINE f == [i \in 1..Len(u) |-> u[i].timestamp]
    <3>2. Len(u) \in Nat /\ c \in Int
      BY <2>2, <2>4
    <3> HIDE DEF c, u
    <3>3. \A i \in 1..Len(u) : f[i] = u[i].timestamp
      OBVIOUS
    <3> HIDE DEF f
    <3>5. \A i \in 1..Len(u) : u[i].timestamp \in Nat
      BY <2>4 DEF Packets
    <3>1. /\ \A i \in 1..Len(u) : f[i] \in Int
          /\ \A i, j \in 1..Len(u) : i <= j => f[i] <= f[j]
      BY <2>5, <3>3, <3>5 DEF InOrder
    <3>4. \E m \in 0..Len(u) : \A i \in 1..Len(u) : f[i] >= c <=> i > m
      BY <3>1, <3>2, OrderSplits
    <3> QED
      BY <3>3, <3>4
  <2>8. n <= m
    <3> SUFFICES ASSUME m < n PROVE FALSE
      BY <2>3, <2>4, <2>7
    <3>1. n \in 1..Len(seen) /\ n \in 1..Len(u)
      BY <2>3, <2>4, <2>7
    <3>2. ~(seen[n].timestamp >= polled - Timeline) /\ u[n] = seen[n]
      BY <2>3, <2>4, <3>1
    <3>3. u[n].timestamp >= c
      BY <2>7, <3>1
    <3>4. u[n].timestamp \in Nat
      BY <2>4, <3>1 DEF Packets
    <3> QED
      BY <2>2, <3>2, <3>3, <3>4
  <2>9. \A i \in 1..Len(q) : q[i].timestamp >= c <=> i > m - n
    <3> SUFFICES ASSUME NEW i \in 1..Len(q) PROVE q[i].timestamp >= c <=> i > m - n
      OBVIOUS
    <3> HIDE DEF q, u, c
    <3>1. i \in 1..(Len(u) - n) /\ n + i \in 1..Len(u)
      BY <2>3, <2>4, <2>6
    <3>2. q[i].timestamp = u[n + i].timestamp
      BY <2>4, <2>6, <3>1, PointTyped
    <3>3. u[n + i].timestamp >= c <=> n + i > m
      BY <2>7, <3>1
    <3> QED
      BY <2>3, <2>4, <2>7, <3>1, <3>2, <3>3
  <2>10. /\ history' \in Seq(Points) /\ Len(history') = Len(u) - m
         /\ \A i \in 1..(Len(u) - m) : history'[i] = q[(m - n) + i]
    <3>1. m - n \in 0..Len(q) /\ Len(q) - (m - n) = Len(u) - m /\ Len(q) \in Nat
      BY <2>3, <2>4, <2>6, <2>7, <2>8
    <3>2. CASE q # <<>> /\ q[1].timestamp < c
      <4>1. history' = visualizer!FoldLeft(visualizer!Keep, <<>>, q)
        BY <2>1, <3>2 DEF visualizer!Trim
      <4>2. PICK k \in 0..Len(q) : k = m - n
        BY <3>1
      <4>3. PICK r : r = visualizer!FoldLeft(visualizer!Keep, <<>>, q)
        OBVIOUS
      <4>4. PICK p : p = q
        OBVIOUS
      <4>5. p \in Seq(Points) /\ k \in 0..Len(p)
              /\ \A i \in 1..Len(p) : p[i].timestamp >= time - Timeline <=> i > k
        BY <2>6, <2>9, <4>2, <4>4
      <4>6. r = visualizer!FoldLeft(visualizer!Keep, <<>>, p)
        BY <4>3, <4>4
      <4> HIDE DEF q, u, c
      <4>7. /\ r \in Seq(Points) /\ Len(r) = Len(p) - k
            /\ \A i \in 1..(Len(p) - k) : r[i] = p[k + i]
        BY <4>5, <4>6, RecentKept
      <4> QED
        BY <3>1, <4>1, <4>2, <4>3, <4>4, <4>7
    <3>3. CASE q = <<>> \/ ~(q[1].timestamp < c)
      <4>1. history' = q
        BY <2>1, <3>3 DEF visualizer!Trim
      <4>2. m = n
        <5>1. CASE q = <<>>
          <6>1. Len(q) = 0
            BY <5>1
          <6> QED
            BY <2>3, <2>4, <2>6, <2>7, <2>8, <6>1
        <5>2. CASE q # <<>>
          <6>1. 1 \in 1..Len(q) /\ 1 \in 1..(Len(u) - n) /\ n + 1 \in 1..Len(u)
            BY <2>3, <2>4, <2>6, <5>2
          <6>2. q[1].timestamp = u[n + 1].timestamp /\ u[n + 1].timestamp \in Nat
            BY <2>4, <2>6, <6>1, PointTyped DEF Packets
          <6> HIDE DEF q, u
          <6>3. q[1].timestamp >= c
            <7>1. ~(q[1].timestamp < c)
              BY <3>3, <5>2
            <7> QED
              BY <2>2, <6>2, <7>1
          <6>4. 1 > m - n
            BY <2>9, <6>1, <6>3
          <6> QED
            BY <2>3, <2>7, <2>8, <6>4
        <5> QED
          BY <5>1, <5>2
      <4>3. Len(u) - m = Len(q) /\ \A i \in 1..Len(q) : (m - n) + i = i
        BY <2>3, <2>4, <2>6, <4>2
      <4> QED
        BY <2>6, <4>1, <4>3
    <3> QED
      BY <3>2, <3>3
  <2> HIDE DEF q, c
  <2>11. ASSUME NEW i \in 1..(Len(u) - m)
         PROVE  history'[i] = visualizer!Point(u[m + i])
    <3>1. (m - n) + i \in 1..(Len(u) - n) /\ n + ((m - n) + i) = m + i
      BY <2>3, <2>4, <2>7, <2>8
    <3> QED
      BY <2>6, <2>10, <3>1
  <2>12. history' = [i \in 1..(Len(u) - m) |-> visualizer!Point(u[m + i])]
    <3>1. DOMAIN history' = 1..(Len(u) - m)
      BY <2>10
    <3>2. history' = [i \in 1..(Len(u) - m) |-> history'[i]]
      BY <2>10, <3>1
    <3> QED
      BY <2>11, <3>2
  <2>13. \A i \in 1..Len(seen') : seen'[i].timestamp >= polled' - Timeline <=> i > m
    BY <2>1, <2>7 DEF c
  <2>14. history' = [i \in 1..(Len(seen') - m) |-> visualizer!Point(seen'[m + i])]
    BY <2>1, <2>12
  <2>15. m \in 0..Len(seen')
    BY <2>1, <2>7
  <2> HIDE DEF u
  <2> QED
    BY <2>13, <2>14, <2>15 DEF visualizer!HistoryComplete, visualizer!Point
<1> QED
  BY <1>1, <1>2, <1>3 DEF visualizer!Next

\* The visualizer knows what it was sent: each part of the bridge is that of the packets
\* received, which came in the order they were sent, and so is the history.
LEMMA VisualizerWatches == visualizer!Spec => []Watching
<1>1. Watching /\ [visualizer!Next]_(visualizer!vars) => Watching'
  BY NextTimed, NextQueued, NextBridged, NextHistory DEF Watching
<1> QED
  BY <1>1, InitWatching, PTL DEF visualizer!Spec

LEMMA SinceShown ==
    ASSUME Watching
    PROVE  visualizer!StateSinceFirst
BY DEF Watching, Bridged, Known, StateKnown, StartsIn, visualizer!StateSinceFirst,
   visualizer!Max, Last

LEMMA FreshShown ==
    ASSUME Watching
    PROVE  visualizer!FreshIsRecent
<1> SUFFICES ASSUME ~visualizer!audioStale
             PROVE  \E i \in 1..Len(seen) : time - seen[i].timestamp <= AudioStale
  BY DEF visualizer!FreshIsRecent
<1>1. bridge.last_packet_time # 0 /\ ~(time - bridge.last_packet_time > AudioStale)
  BY DEF visualizer!audioStale
<1>2. /\ bridge.last_packet_time = IF seen = <<>> THEN 0 ELSE seen[Len(seen)].timestamp
      /\ time \in Nat /\ bridge.last_packet_time \in Nat /\ AudioStale \in Nat
  BY VisualizerConstants DEF Watching, Timed, Bridged, Bridges, Known, StateKnown
<1>3. seen \in Seq(Packets) /\ seen # <<>>
  BY <1>1, <1>2 DEF Watching, Queued
<1>4. Len(seen) \in 1..Len(seen)
  BY <1>3
<1>5. time - seen[Len(seen)].timestamp <= AudioStale
  BY <1>1, <1>2, <1>3
<1> QED
  BY <1>4, <1>5

LEMMA DotShown ==
    ASSUME Watching
    PROVE  visualizer!DotAmongHeadings
<1> DEFINE targets == {visualizer!DotTarget(seen[i].heading) : i \in KnownSince(seen)}
<1>1. DotKnown(bridge, seen)
  BY DEF Watching, Bridged, Known
<1>2. KnownSince(seen) # {} => /\ \E t \in targets : t <= bridge.dot
                        /\ \E t \in targets : bridge.dot <= t
  BY <1>1 DEF DotKnown
<1>3. KnownSince(seen) = {} => bridge.dot = 0
  BY <1>1 DEF DotKnown
<1> QED
  BY <1>2, <1>3 DEF visualizer!DotAmongHeadings, KnownSince

\* The visualizer of MCPrograms
LEMMA VisualizerPart == MCSpec => visualizer!Spec
<1>1. MCInit => visualizer!Init
  BY DEF MCInit
<1>2. [MCNext]_allVars => [visualizer!Next]_(visualizer!vars)
  BY DEF MCNext, allVars, visualizerVars, visualizer!vars
<1> QED
  BY <1>1, <1>2, PTL DEF MCSpec, visualizer!Spec

\* The state shown is as old as the panel says, and what is not shown as stale is recent,
\* however long the packets waited at the socket and however many were lost there.
THEOREM StateIsSinceFirst == MCSpec => []StateSinceFirst
<1>1. Watching => StateSinceFirst
  BY SinceShown, FreshShown DEF StateSinceFirst
<1> QED
  BY <1>1, VisualizerPart, VisualizerWatches, PTL

\* The history holds the packets of the timeline, and no other, in their order; and the
\* dot never leaves the positions of the headings received since none was known last.
THEOREM HistoryIsComplete == MCSpec => []HistoryComplete
<1>1. Watching => HistoryComplete
  BY DotShown DEF HistoryComplete, Watching
<1> QED
  BY <1>1, VisualizerPart, VisualizerWatches, PTL
=============================================================================
