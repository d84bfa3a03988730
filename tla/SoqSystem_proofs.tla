--------------------------- MODULE SoqSystem_proofs --------------------------
(***************************************************************************)
(* Proofs about SoqSystem: for any errors, times and clock, and a port of  *)
(* any size, the controller works on the last line the host wrote.         *)
(***************************************************************************)
EXTENDS SoqSystem, SequenceTheorems, TLAPS

Angles == -90..90
Pieces == {pan!Part(v) : v \in Angles} \cup {pan!NewLine}

\* What the host wrote and the regulator does not work on yet
Stream == pan!Pending \o wire

\* Lines of two pieces each, all of them complete
WholeLines(s) ==
    /\ s # <<>> => s[1] # pan!NewLine /\ s[Len(s)] = pan!NewLine
    /\ \A i \in 1..(Len(s) - 1) : s[i] = pan!NewLine <=> s[i + 1] # pan!NewLine

\* The last line on the way, or else in effect, is the host's last command.
Says(s, c) == IF s = <<>> THEN error = pan!constrain(-c, -90, 90)
              ELSE s[Len(s) - 1] = pan!Part(c)

Received == serialBuffer \in Angles \cup {pan!None} /\ rx \in Seq(Pieces)

Commanded == last_errors \in Seq(Errors) /\ command \in Angles \cup {host!None}

Inv ==
    /\ Commanded
    /\ Received /\ wire \in Seq(Pieces)
    /\ WholeLines(Stream)
    /\ command # host!None => Says(Stream, command)

-----------------------------------------------------------------------------
LEMMA PiecesApart ==
    /\ pan!NewLine \in Pieces
    /\ \A v \in Angles : /\ pan!Part(v) \in Pieces /\ pan!Part(v) # pan!NewLine
                         /\ pan!Part(v).value = v
    /\ \A p \in Pieces : p # pan!NewLine => p = pan!Part(p.value) /\ p.value \in Angles
    /\ pan!None \notin Angles /\ host!None \notin Angles
BY DEF Pieces, Angles, pan!Part, pan!NewLine, pan!None, host!None

LEMMA PendingSeq ==
    ASSUME Received
    PROVE  pan!Pending \in Seq(Pieces)
<1>1. CASE serialBuffer = pan!None
  BY <1>1 DEF Received, pan!Pending
<1>2. CASE serialBuffer # pan!None
  <2>1. pan!Part(serialBuffer) \in Pieces
    BY <1>2, PiecesApart DEF Received
  <2> QED
    BY <1>2, <2>1 DEF Received, pan!Pending
<1> QED
  BY <1>1, <1>2

\* A piece that arrives comes last.
LEMMA PendingGrows ==
    ASSUME Received, NEW x \in Pieces, rx' = Append(rx, x), serialBuffer' = serialBuffer
    PROVE  Received' /\ pan!Pending' = Append(pan!Pending, x)
<1>1. Received'
  BY DEF Received
<1>2. CASE serialBuffer = pan!None
  <2>1. pan!Pending = rx /\ pan!Pending' = rx'
    BY <1>2, Zenon DEF pan!Pending
  <2> QED
    BY <1>1, <2>1, Zenon
<1>3. CASE serialBuffer # pan!None
  <2> DEFINE first == <<pan!Part(serialBuffer)>>
  <2>1. first \in Seq(Pieces) /\ rx \in Seq(Pieces) /\ <<x>> \in Seq(Pieces)
    BY <1>3, PiecesApart DEF Received
  <2>2. pan!Pending = first \o rx /\ pan!Pending' = first \o rx'
    BY <1>3, Zenon DEF pan!Pending
  <2> HIDE DEF first
  <2>3. first \o Append(rx, x) = Append(first \o rx, x)
    BY <2>1, AppendIsConcat, ConcatAssociative, ConcatProperties
  <2> QED
    BY <1>1, <2>2, <2>3
<1> QED
  BY <1>1, <1>2, <1>3

-----------------------------------------------------------------------------
\* A line written after whole lines
LEMMA LineWritten ==
    ASSUME NEW s \in Seq(Pieces), WholeLines(s), NEW v \in Angles,
           NEW t, t = s \o <<pan!Part(v), pan!NewLine>>
    PROVE  WholeLines(t) /\ t # <<>> /\ t[Len(t) - 1] = pan!Part(v)
<1>1. <<pan!Part(v), pan!NewLine>> \in Seq(Pieces) /\ Len(s) \in Nat
  BY PiecesApart
<1>2. /\ Len(t) = Len(s) + 2 /\ t[Len(s) + 1] = pan!Part(v) /\ t[Len(s) + 2] = pan!NewLine
      /\ \A i \in 1..Len(s) : t[i] = s[i]
  BY <1>1, ConcatProperties
<1>3. pan!Part(v) # pan!NewLine
  BY PiecesApart
<1>4. s # <<>> => Len(s) \in Nat \ {0}
  BY EmptySeq
<1>5. s = <<>> => Len(s) = 0
  OBVIOUS
<1>6. t # <<>>
  BY <1>1, <1>2
<1>7. t[1] # pan!NewLine
  BY <1>2, <1>3, <1>4, <1>5 DEF WholeLines
<1>8. ASSUME NEW i \in 1..(Len(t) - 1)
      PROVE  t[i] = pan!NewLine <=> t[i + 1] # pan!NewLine
  <2>1. CASE i < Len(s)
    BY <1>1, <1>2, <2>1 DEF WholeLines
  <2>2. CASE i = Len(s)
    <3>1. s # <<>>
      BY <1>5, <2>2
    <3>2. t[i] = pan!NewLine /\ t[i + 1] = pan!Part(v)
      BY <1>2, <2>2, <3>1 DEF WholeLines
    <3> QED
      BY <1>3, <3>2
  <2>3. CASE i = Len(s) + 1
    BY <1>2, <1>3, <2>3
  <2> QED
    BY <1>1, <1>2, <2>1, <2>2, <2>3
<1>9. Len(t) - 1 = Len(s) + 1 /\ t[Len(t)] = pan!NewLine
  BY <1>1, <1>2
<1> QED
  BY <1>2, <1>6, <1>7, <1>8, <1>9 DEF WholeLines

\* What is left of whole lines when some pieces were taken and the beginning of a
\* line is kept
LEMMA LinesLeft ==
    ASSUME NEW s \in Seq(Pieces), WholeLines(s), NEW k \in 0..(Len(s) - 1),
           k = 0 \/ s[k] = pan!NewLine,
           NEW t \in Seq(Pieces), Len(t) = Len(s) - k, \A i \in 1..Len(t) : t[i] = s[k + i]
    PROVE  WholeLines(t) /\ t # <<>> /\ t[Len(t) - 1] = s[Len(s) - 1]
<1>1. Len(s) \in Nat /\ Len(t) \in Nat \ {0} /\ s # <<>> /\ t # <<>>
  BY EmptySeq
<1>2. s[1] # pan!NewLine /\ s[Len(s)] = pan!NewLine
  BY <1>1 DEF WholeLines
<1>3. \A i \in 1..(Len(s) - 1) : s[i] = pan!NewLine <=> s[i + 1] # pan!NewLine
  BY DEF WholeLines
<1>4. t[1] = s[k + 1] /\ t[Len(t)] = s[Len(s)]
  BY <1>1
<1>5. t[1] # pan!NewLine
  BY <1>1, <1>2, <1>3, <1>4
<1>6. Len(t) # 1
  BY <1>2, <1>4, <1>5
<1>7. t[Len(t) - 1] = s[Len(s) - 1]
  BY <1>1, <1>6
<1>8. ASSUME NEW i \in 1..(Len(t) - 1)
      PROVE  t[i] = pan!NewLine <=> t[i + 1] # pan!NewLine
  <2>1. t[i] = s[k + i] /\ t[i + 1] = s[(k + i) + 1] /\ k + i \in 1..(Len(s) - 1)
    BY <1>1
  <2> QED
    BY <1>3, <2>1
<1> QED
  BY <1>1, <1>2, <1>4, <1>5, <1>7, <1>8 DEF WholeLines

LEMMA StreamSeq ==
    ASSUME Inv
    PROVE  /\ pan!Pending \in Seq(Pieces) /\ wire \in Seq(Pieces) /\ Stream \in Seq(Pieces)
           /\ Len(Stream) = Len(pan!Pending) + Len(wire)
           /\ Len(pan!Pending) \in Nat /\ Len(wire) \in Nat
           /\ \A i \in 1..Len(pan!Pending) : Stream[i] = pan!Pending[i]
           /\ \A i \in 1..Len(wire) : Stream[Len(pan!Pending) + i] = wire[i]
<1>1. pan!Pending \in Seq(Pieces) /\ wire \in Seq(Pieces)
  BY PendingSeq DEF Inv
<1> QED
  BY <1>1, ConcatProperties DEF Stream

\* A piece that goes from the wire to the port stays where it is in the stream.
LEMMA DeliverInv ==
    ASSUME Inv, Deliver
    PROVE  Inv'
<1> DEFINE x == Head(wire)
<1>1. /\ wire # <<>> /\ rx' = Append(rx, x) /\ wire' = Tail(wire)
      /\ UNCHANGED <<last_errors, command, serialBuffer, error>>
  BY DEF Deliver, hostVars
<1>2. x \in Pieces /\ wire' \in Seq(Pieces) /\ wire = <<x>> \o wire'
  BY <1>1, HeadTailProperties, ConcatProperties, StreamSeq
<1> HIDE DEF x
<1>3. Received' /\ pan!Pending' = Append(pan!Pending, x)
  BY <1>1, <1>2, PendingGrows DEF Inv
<1>4. Append(pan!Pending, x) \o wire' = pan!Pending \o (<<x>> \o wire')
  <2>1. Append(pan!Pending, x) = pan!Pending \o <<x>>
    BY <1>2, StreamSeq, AppendIsConcat
  <2>2. <<x>> \in Seq(Pieces)
    BY <1>2
  <2> QED
    BY <1>2, <2>1, <2>2, StreamSeq, ConcatAssociative
<1>5. Stream' = Stream
  BY <1>2, <1>3, <1>4 DEF Stream
<1> QED
  BY <1>1, <1>2, <1>3, <1>5 DEF Inv, Commanded, Says

\* loop() takes the complete lines and the beginning of the next one.
LEMMA LoopInv ==
    ASSUME Inv, PanLoop
    PROVE  Inv'
<1> DEFINE P == pan!Pending
           kept == IF serialBuffer' = pan!None THEN <<>> ELSE <<pan!Part(serialBuffer')>>
<1>1. /\ P \in Seq(Pieces) /\ wire \in Seq(Pieces) /\ Stream \in Seq(Pieces)
      /\ Len(P) \in Nat /\ Len(wire) \in Nat /\ Len(Stream) = Len(P) + Len(wire)
      /\ \A i \in 1..Len(P) : Stream[i] = P[i]
      /\ \A i \in 1..Len(wire) : Stream[Len(P) + i] = wire[i]
  BY StreamSeq
<1>2. /\ rx' = <<>>
      /\ error' = IF pan!Complete(P) = {} THEN error
                  ELSE pan!FromLine(P[pan!LastLine(P) - 1].value)
      /\ serialBuffer' = IF P = <<>> THEN pan!None
                         ELSE IF P[Len(P)] = pan!NewLine THEN pan!None ELSE P[Len(P)].value
      /\ UNCHANGED <<last_errors, command, wire>>
  BY DEF PanLoop, pan!Loop, pan!ReadIncomingError, hostVars
<1>3. Stream = P \o wire /\ WholeLines(Stream) /\ (command # host!None => Says(Stream, command))
  BY DEF Inv, Stream
<1>4. pan!Pending' = kept
  BY <1>2 DEF pan!Pending
<1>5. P # <<>> => P[Len(P)] \in Pieces
  BY <1>1, EmptySeq
<1> HIDE DEF P
<1>6. serialBuffer' \in Angles \cup {pan!None}
  BY <1>2, <1>5, PiecesApart
<1>7. Received' /\ kept \in Seq(Pieces)
  BY <1>2, <1>6, PiecesApart DEF Received
<1>8. Commanded' /\ wire' \in Seq(Pieces) /\ Stream' = kept \o wire
  BY <1>1, <1>2, <1>4 DEF Inv, Commanded, Stream
<1>9. CASE P = <<>>
  <2>1. pan!Complete(P) = {}
    <3>1. Len(P) = 0
      BY <1>9
    <3> QED
      BY <3>1 DEF pan!Complete
  <2>2. kept = <<>> /\ error' = error
    BY <1>2, <1>9, <2>1
  <2>3. Stream' = wire /\ Stream = wire
    BY <1>1, <1>3, <1>8, <1>9, <2>2, ConcatEmptySeq
  <2> QED
    BY <1>2, <1>3, <1>7, <1>8, <2>2, <2>3 DEF Inv, Says
<1>10. CASE P # <<>> /\ wire = <<>>
  <2>1. Stream = P /\ Len(P) \in Nat \ {0}
    BY <1>1, <1>3, <1>10, ConcatEmptySeq, EmptySeq
  <2>2. P[1] # pan!NewLine /\ P[Len(P)] = pan!NewLine
    BY <1>3, <1>10, <2>1 DEF WholeLines
  <2>3. Len(P) \in pan!Complete(P) /\ \A j \in pan!Complete(P) : j <= Len(P)
    BY <2>1, <2>2 DEF pan!Complete
  <2>4. pan!LastLine(P) = Len(P)
    <3>1. pan!Complete(P) \subseteq Int
      BY DEF pan!Complete
    <3> QED
      BY <2>3, <3>1 DEF pan!LastLine
  <2>5. kept = <<>>
    BY <1>2, <1>10, <2>2
  <2>6. Stream' = <<>>
    BY <1>8, <1>10, <2>5
  <2>7. WholeLines(<<>>)
    <3>1. Len(<<>>) = 0 /\ 1..(0 - 1) = {}
      OBVIOUS
    <3> QED
      BY <3>1 DEF WholeLines
  <2>8. command # host!None => error' = pan!constrain(-command, -90, 90)
    <3> SUFFICES ASSUME command # host!None
                 PROVE  error' = pan!constrain(-command, -90, 90)
      OBVIOUS
    <3>1. P[Len(P) - 1] = pan!Part(command)
      BY <1>3, <1>10, <2>1 DEF Says
    <3>2. pan!Part(command).value = command
      BY DEF pan!Part
    <3>3. error' = pan!FromLine(P[Len(P) - 1].value)
      BY <1>2, <2>3, <2>4
    <3> QED
      BY <3>1, <3>2, <3>3 DEF pan!FromLine
  <2> QED
    BY <1>2, <1>7, <1>8, <2>6, <2>7, <2>8 DEF Inv, Says
<1>11. CASE P # <<>> /\ wire # <<>>
  <2> DEFINE k == IF P[Len(P)] = pan!NewLine THEN Len(P) ELSE Len(P) - 1
  <2>1. Len(P) \in Nat \ {0} /\ Len(wire) \in Nat \ {0}
    BY <1>1, <1>11, EmptySeq
  <2>2. Stream' \in Seq(Pieces) /\ Len(Stream') = Len(Stream) - k
        /\ \A i \in 1..Len(Stream') : Stream'[i] = Stream[k + i]
    <3>1. CASE P[Len(P)] = pan!NewLine
      <4>1. kept = <<>> /\ k = Len(P)
        BY <1>2, <1>11, <3>1
      <4>2. Stream' = wire
        BY <1>1, <1>8, <4>1, ConcatEmptySeq
      <4> QED
        BY <1>1, <4>1, <4>2
    <3>2. CASE P[Len(P)] # pan!NewLine
      <4> DEFINE n == Len(P) - 1
      <4>1. kept = <<P[Len(P)]>> /\ k = n
        BY <1>2, <1>5, <1>11, <3>2, PiecesApart
      <4>2. kept \in Seq(Pieces) /\ Len(kept) = 1 /\ kept[1] = P[Len(P)]
        BY <1>7, <4>1
      <4>3. /\ Stream' \in Seq(Pieces) /\ Len(Stream') = 1 + Len(wire)
            /\ Stream'[1] = P[Len(P)] /\ \A i \in 1..Len(wire) : Stream'[1 + i] = wire[i]
        BY <1>1, <1>8, <4>2, ConcatProperties
      <4>4. ASSUME NEW i \in 1..Len(Stream')
            PROVE  Stream'[i] = Stream[n + i]
        <5>1. CASE i = 1
          <6>1. n + i = Len(P) /\ Len(P) \in 1..Len(P)
            BY <2>1, <5>1
          <6>2. Stream[Len(P)] = P[Len(P)]
            BY <1>1, <6>1
          <6> QED
            BY <4>3, <5>1, <6>1, <6>2
        <5>2. CASE i # 1
          <6> DEFINE j == i - 1
          <6>1. j \in 1..Len(wire) /\ i = 1 + j /\ n + i = Len(P) + j
            BY <1>1, <4>1, <4>3, <5>2
          <6> HIDE DEF j
          <6>2. Stream'[1 + j] = wire[j] /\ Stream[Len(P) + j] = wire[j]
            BY <1>1, <4>3, <6>1
          <6> QED
            BY <6>1, <6>2
        <5> QED
          BY <5>1, <5>2
      <4>5. Len(Stream') = Len(Stream) - n
        BY <1>1, <4>3
      <4> QED
        BY <4>1, <4>3, <4>4, <4>5, Zenon
    <3> QED
      BY <3>1, <3>2
  <2>3. k \in 0..(Len(Stream) - 1) /\ (k = 0 \/ Stream[k] = pan!NewLine)
    <3>1. k \in 0..(Len(Stream) - 1)
      BY <1>1, <2>1
    <3>2. CASE P[Len(P)] = pan!NewLine
      BY <1>1, <2>1, <3>2
    <3>3. CASE P[Len(P)] # pan!NewLine /\ k # 0
      <4>1. k = Len(P) - 1 /\ k \in 1..(Len(Stream) - 1) /\ k + 1 = Len(P)
        BY <2>1, <3>1, <3>3
      <4>2. Stream[k + 1] # pan!NewLine
        BY <1>1, <2>1, <3>3, <4>1
      <4> QED
        BY <1>3, <3>1, <4>1, <4>2 DEF WholeLines
    <3> QED
      BY <3>1, <3>2, <3>3
  <2> HIDE DEF k
  <2>4. WholeLines(Stream') /\ Stream' # <<>> /\ Stream'[Len(Stream') - 1] = Stream[Len(Stream) - 1]
    BY <1>1, <1>3, <2>2, <2>3, LinesLeft
  <2>5. Stream # <<>>
    BY <1>1, <2>1
  <2>6. WholeLines(Stream)' /\ (command' # host!None => Says(Stream, command)')
    BY <1>2, <1>3, <2>4, <2>5 DEF Says, WholeLines
  <2> QED
    BY <1>7, <1>8, <2>6 DEF Inv
<1> QED
  BY <1>9, <1>10, <1>11

-----------------------------------------------------------------------------
\* A new command is an angle, and a measured block makes one just when it forgets
\* the errors.
LEMMA Measured ==
    ASSUME Commanded, NEW e \in Errors, host!MeasuredBlock(e)
    PROVE  /\ last_errors' \in Seq(Errors)
           /\ IF last_errors' = <<>> THEN command' \in Angles ELSE command' = command
<1> DEFINE errors == Append(last_errors, e)
<1>1. errors \in Seq(Errors) /\ Len(errors) \in Nat \ {0}
  BY DEF Commanded
<1>2. IF host!Agree(errors)
      THEN command' = host!Average(errors) /\ last_errors' = <<>>
      ELSE /\ command' = command
           /\ last_errors' = IF Len(errors) > 5 THEN Tail(errors) ELSE errors
  BY DEF host!MeasuredBlock, host!Correct
<1> HIDE DEF errors
<1>3. CASE host!Agree(errors)
  <2> DEFINE last == host!Last3(errors)
             n == Len(errors)
             sum == last[1] + last[2] + last[3]
  <2>1. n \in Nat /\ n >= 3
    BY <1>1, <1>3 DEF host!Agree
  <2>2. last = SubSeq(errors, n - 2, n)
    BY DEF host!Last3
  <2>3. \A i \in (n - 2)..n : errors[i] \in Errors
    BY <1>1, <2>1, ElementOfSeq
  <2>4. \A i \in 1..3 : last[i] \in -90..90
    <3> SUFFICES ASSUME NEW i \in 1..3
                 PROVE  last[i] \in -90..90
      OBVIOUS
    <3> DEFINE at == (n - 2) + i - 1
    <3> HIDE DEF last
    <3>1. Len(errors) = n /\ n - 2 \in 1..n
      BY <2>1
    <3>2. last[i] = errors[at] /\ at \in (n - 2)..n
      BY <1>1, <2>1, <2>2, <3>1
    <3>3. Errors \subseteq -90..90
      BY HostAssumption DEF host!AnglesAssumption
    <3> HIDE DEF at, n
    <3> QED
      BY <2>3, <3>2, <3>3
  <2> HIDE DEF last
  <2>5. sum \in -270..270
    <3>1. last[1] \in -90..90 /\ last[2] \in -90..90 /\ last[3] \in -90..90
      BY <2>4
    <3>2. \A x, y, z \in -90..90 : x + y + z \in -270..270
      OBVIOUS
    <3> QED
      BY <3>1, <3>2
  <2>6. host!Average(errors) = IF sum < 0 THEN -((-sum) \div 3) ELSE sum \div 3
    BY DEF host!Average, last
  <2> HIDE DEF sum
  <2>7. host!Average(errors) \in Angles
    BY <2>5, <2>6 DEF Angles
  <2> QED
    BY <1>2, <1>3, <2>7
<1>4. CASE ~host!Agree(errors)
  <2>1. last_errors' \in Seq(Errors)
    BY <1>1, <1>2, <1>4
  <2>2. Len(last_errors') # 0
    BY <1>1, <1>2, <1>4
  <2> QED
    BY <1>2, <1>4, <2>1, <2>2
<1> QED
  BY <1>3, <1>4

\* A block writes a line just when it makes a command.
LEMMA BlockInv ==
    ASSUME Inv, NEW b \in host!Blocks, Block(b)
    PROVE  Inv'
<1> DEFINE text == <<pan!Part(command'), pan!NewLine>>
<1>1. UNCHANGED <<serialBuffer, rx, error>> /\ wire' = wire \o Written(b)
  BY DEF Block, panVars
<1>2. pan!Pending' = pan!Pending /\ Received'
  BY <1>1 DEF Inv, Received, pan!Pending
<1> DEFINE Made == /\ last_errors' \in Seq(Errors)
                   /\ \/ Written(b) = text /\ command' \in Angles
                      \/ Written(b) = <<>> /\ command' = command
<1>3. Made
  <2>1. CASE b = host!Quiet /\ host!QuietBlock
    <3>1. last_errors' = <<>> /\ command' = 0 /\ Written(b) = text
      BY <2>1 DEF host!QuietBlock, host!Forget, Written
    <3> QED
      BY <3>1 DEF Angles
  <2>2. CASE b = host!Unusable /\ host!UnusableBlock
    <3>1. b # host!Quiet
      BY <2>2 DEF host!Unusable, host!Quiet
    <3>2. Written(b) = <<>>
      BY <2>2, <3>1 DEF Written
    <3> QED
      BY <2>2, <3>2 DEF host!UnusableBlock, Inv, Commanded
  <2>3. ASSUME NEW e \in Errors, b = host!Measures(e), host!MeasuredBlock(e)
        PROVE  Made
    <3>1. b.kind = "measured" /\ host!Quiet.kind = "quiet" /\ host!Unusable.kind = "unusable"
      BY <2>3 DEF host!Measures, host!Quiet, host!Unusable
    <3>2. Written(b) = IF last_errors' = <<>> THEN text ELSE <<>>
      BY <3>1 DEF Written
    <3> QED
      BY <2>3, <3>2, Measured DEF Inv
  <2> QED
    BY <2>1, <2>2, <2>3 DEF Block
<1>4. pan!Pending \in Seq(Pieces) /\ wire \in Seq(Pieces)
  BY StreamSeq
<1>5. CASE Written(b) = text /\ command' \in Angles
  <2> HIDE DEF text
  <2>1. text \in Seq(Pieces)
    BY <1>5, PiecesApart DEF text
  <2>2. Stream' = Stream \o text /\ wire' \in Seq(Pieces)
    <3>1. pan!Pending \o (wire \o text) = (pan!Pending \o wire) \o text
      BY <1>4, <2>1, ConcatAssociative
    <3>2. wire' = wire \o text /\ wire \o text \in Seq(Pieces)
      BY <1>1, <1>4, <1>5, <2>1, ConcatProperties
    <3> QED
      BY <1>2, <3>1, <3>2, Zenon DEF Stream
  <2>3. /\ WholeLines(Stream') /\ Stream' # <<>>
        /\ Stream'[Len(Stream') - 1] = pan!Part(command')
    BY <1>5, <2>2, LineWritten, StreamSeq DEF Inv, text
  <2>4. WholeLines(Stream)' /\ Says(Stream, command)'
    BY <2>3 DEF WholeLines, Says
  <2> QED
    BY <1>2, <1>3, <1>5, <2>2, <2>4 DEF Inv, Commanded
<1>6. CASE Written(b) = <<>> /\ command' = command
  <2>1. wire' = wire
    BY <1>1, <1>4, <1>6, ConcatEmptySeq
  <2>2. Stream' = Stream
    BY <1>2, <2>1 DEF Stream
  <2> QED
    BY <1>1, <1>2, <1>3, <1>6, <2>1, <2>2 DEF Inv, Commanded, Says
<1> QED
  BY <1>3, <1>5, <1>6

LEMMA InitInv ==
    ASSUME Init
    PROVE  Inv
<1>1. /\ last_errors = <<>> /\ command = host!None
      /\ serialBuffer = pan!None /\ rx = <<>> /\ wire = <<>>
  BY DEF Init, host!Init, pan!Init
<1>2. pan!Pending = <<>> /\ Stream = <<>> /\ <<>> \in Seq(Pieces) /\ <<>> \in Seq(Errors)
  BY <1>1, ConcatEmptySeq DEF pan!Pending, Stream
<1>3. WholeLines(<<>>)
  <2>1. Len(<<>>) = 0 /\ 1..(0 - 1) = {}
    OBVIOUS
  <2> QED
    BY <2>1 DEF WholeLines
<1> QED
  BY <1>1, <1>2, <1>3 DEF Inv, Commanded, Received

LEMMA NextInv ==
    ASSUME Inv, [Next]_vars
    PROVE  Inv'
<1>1. CASE HostRestart
  <2>1. /\ last_errors' = <<>> /\ command' = host!None
        /\ UNCHANGED <<serialBuffer, rx, wire, error>>
    BY <1>1 DEF HostRestart, host!Restart, panVars
  <2>2. Stream' = Stream
    BY <2>1 DEF Stream, pan!Pending
  <2> QED
    BY <2>1, <2>2 DEF Inv, Commanded, Received, Says
<1>2. CASE PanTick \/ UNCHANGED vars
  <2>1. UNCHANGED <<last_errors, command, serialBuffer, rx, wire, error>>
    BY <1>2 DEF PanTick, pan!Tick, vars, hostVars, panVars
  <2>2. Stream' = Stream
    BY <2>1 DEF Stream, pan!Pending
  <2> QED
    BY <2>1, <2>2 DEF Inv, Commanded, Received, Says
<1> QED
  BY <1>1, <1>2, BlockInv, DeliverInv, LoopInv DEF Next

\* Whatever the port cuts, holds back or has read, and wherever the host is started
\* again: when nothing is on its way, the regulator works on the host's last line.
THEOREM SystemCommandInEffect == Spec => []CommandInEffect
<1>1. Inv => CommandInEffect
  <2> SUFFICES ASSUME Inv, wire = <<>>, rx = <<>>, command # host!None
               PROVE  error = pan!constrain(-command, -90, 90)
    BY DEF CommandInEffect
  <2>1. Stream = IF serialBuffer = pan!None THEN <<>> ELSE <<pan!Part(serialBuffer)>>
    BY DEF Stream, pan!Pending
  <2>2. CASE serialBuffer = pan!None
    BY <2>1, <2>2 DEF Inv, Says
  <2>3. CASE serialBuffer # pan!None
    <3>1. Len(Stream) = 1 /\ Stream[1] = pan!Part(serialBuffer) /\ Stream # <<>>
      BY <2>1, <2>3
    <3>2. Stream[1] = pan!NewLine
      BY <3>1 DEF Inv, WholeLines
    <3> QED
      BY <2>3, <3>1, <3>2, PiecesApart DEF Inv, Received
  <2> QED
    BY <2>2, <2>3
<1> QED
  BY <1>1, InitInv, NextInv, PTL DEF Spec
=============================================================================
