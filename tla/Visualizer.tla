----------------------------- MODULE Visualizer -----------------------------
(***************************************************************************)
(* The visualizer's bridge (visualizer.py): a timer polls the UDP socket,  *)
(* every packet that waits there updates what the panels show and extends  *)
(* the history, and the points that are too old are cut off.               *)
(*                                                                         *)
(* The tracking loop (external here, see Tracker) sends at most one packet *)
(* per tick.  The socket keeps MaxQueue packets and drops the rest; when   *)
(* no visualizer runs they are lost.  Levels and colours are left out; the *)
(* dot's position is in percent and rounded down.                          *)
(*                                                                         *)
(* An operator named X_Y right before the operator X is a wrong variant of *)
(* X, kept to show that the properties tell it from X.                     *)
(***************************************************************************)
EXTENDS Integers, Sequences, SequencesExt

CONSTANTS
    Samples,       \* what a packet says of the source: see Sample
    Headings,      \* the headings a packet can hold
    AudioStale,    \* AUDIO_STALE_SECONDS, in ticks
    Timeline,      \* TIMELINE_SECONDS
    EdgeHeading,   \* AUDIO_DOT_EDGE_HEADING_DEG
    MaxTime,       \* bound on the ticks
    MaxQueue       \* the packets the socket keeps

None == -1000
Sample == [valid : BOOLEAN, raw : -90..90 \cup {None}, smoothed : -90..90,
           state : {"IDLE", "TRACKING", "LOCKED"}]

TimesAssumption == {AudioStale, Timeline, MaxTime, MaxQueue} \subseteq Nat
DataAssumption ==
    /\ Headings \subseteq 0..359 /\ EdgeHeading \in Nat \ {0}
    /\ Samples \subseteq {s \in Sample : s.valid <=> s.raw # None}

VARIABLES
    now,
    bridge,        \* the fields of TelemetryBridge that a packet sets
    history,       \* _history
    queue,         \* the packets at the socket
    sentAt,        \* when the last packet was sent
    heading,       \* the heading the tracking loop knows
    seen,          \* the packets received since the visualizer was started
    started, polled   \* when it was started, and when it polled last

vars == <<now, bridge, history, queue, sentAt, heading, seen, started, polled>>

\* TelemetryBridge.__init__
NewBridge == [state |-> "IDLE", state_since |-> now, valid |-> FALSE, raw |-> None,
              smoothed |-> 0, heading |-> None, imu |-> FALSE, last_packet_time |-> 0,
              dot |-> 0, initialized |-> FALSE]

Init ==
    /\ now = 1
    /\ bridge = NewBridge
    /\ history = <<>> /\ queue = <<>> /\ seen = <<>>
    /\ sentAt = 0 /\ heading = None
    /\ started = now /\ polled = now

Tick ==
    /\ now < MaxTime
    /\ now' = now + 1
    /\ UNCHANGED <<bridge, history, queue, sentAt, heading, seen, started, polled>>

\* The tracking loop sends a packet; once it knows a heading it never forgets it.
Send ==
    /\ sentAt < now
    /\ sentAt' = now
    /\ heading' \in Headings \cup (IF heading = None THEN {None} ELSE {})
    /\ \E s \in Samples, imu \in BOOLEAN :
         /\ imu => heading' # None
         /\ queue' = IF Len(queue) = MaxQueue THEN queue
                     ELSE Append(queue, [timestamp |-> now, sample |-> s,
                                         heading |-> heading', imu |-> imu])
    /\ UNCHANGED <<now, bridge, history, seen, started, polled>>

\* The tracking loop is started again and knows no heading.
TrackerRestart ==
    /\ heading # None
    /\ heading' = None
    /\ UNCHANGED <<now, bridge, history, queue, sentAt, seen, started, polled>>

Restart ==
    /\ bridge' = NewBridge
    /\ history' = <<>> /\ queue' = <<>> /\ seen' = <<>>
    /\ started' = now /\ polled' = now
    /\ UNCHANGED <<now, sentAt, heading>>

-----------------------------------------------------------------------------
clamp(x, low, high) == IF x < low THEN low ELSE IF x > high THEN high ELSE x
wrap_signed_degrees(h) ==
    LET wrapped == ((h + 180) % 360) - 180 IN IF wrapped = -180 THEN 180 ELSE wrapped

\* heading_to_audio_dot_normalized, in percent, and the moving average
\* (AUDIO_DOT_POSITION_EMA_ALPHA = 0.22)
DotTarget(h) == clamp((-100 * wrap_signed_degrees(h)) \div EdgeHeading, -100, 100)
Smooth(dot, target) == (22 * target + 78 * dot) \div 100

Dot(b, p) ==
    IF p.heading = None THEN [at |-> 0, initialized |-> FALSE]
    ELSE [at |-> IF b.heading = None \/ ~b.initialized THEN DotTarget(p.heading)
                 ELSE Smooth(b.dot, DotTarget(p.heading)),
          initialized |-> TRUE]

\* One turn of the loop in poll_socket.
StateSince_Always(b, p) == p.timestamp
StateSince(b, p) == IF p.sample.state # b.state THEN p.timestamp ELSE b.state_since
PacketTime(p) == p.timestamp

Receive(b, p) ==
    [state |-> p.sample.state, state_since |-> StateSince(b, p),
     valid |-> p.sample.valid, raw |-> p.sample.raw, smoothed |-> p.sample.smoothed,
     heading |-> p.heading, imu |-> p.imu, last_packet_time |-> PacketTime(p),
     dot |-> Dot(b, p).at, initialized |-> Dot(b, p).initialized]

Point(p) ==
    [timestamp |-> p.timestamp, valid |-> p.sample.valid, state |-> p.sample.state,
     value |-> IF p.sample.raw = None THEN None ELSE p.sample.smoothed]

\* One turn of the loop that builds the history again
Keep(points, q) == IF q.timestamp >= now - Timeline THEN Append(points, q) ELSE points

\* The points older than the window are cut off, if the first one is.
Trim_First(points) ==
    IF points # <<>> /\ points[1].timestamp < now - Timeline THEN Tail(points) ELSE points

Trim(points) ==
    IF points # <<>> /\ points[1].timestamp < now - Timeline
    THEN FoldLeft(Keep, <<>>, points)
    ELSE points

poll_socket ==
    /\ bridge' = FoldLeft(Receive, bridge, queue)
    /\ history' = Trim(history \o [i \in 1..Len(queue) |-> Point(queue[i])])
    /\ seen' = seen \o queue
    /\ queue' = <<>>
    /\ polled' = now
    /\ UNCHANGED <<now, sentAt, heading, started>>

Next ==
    \/ Tick
    \/ Send
    \/ TrackerRestart
    \/ Restart
    \/ poll_socket

Spec == Init /\ [][Next]_vars

-----------------------------------------------------------------------------
\* What the panels read.
audioStale == bridge.last_packet_time = 0 \/ now - bridge.last_packet_time > AudioStale

\* The state has been shown since the first packet of the last run of packets with
\* this state; IDLE from the start, if nothing else came.
StateSinceFirst ==
    LET starts == {i \in 1..Len(seen) :
                     seen[i].sample.state # IF i = 1 THEN "IDLE" ELSE seen[i-1].sample.state}
    IN bridge.state_since = IF starts = {} THEN started ELSE seen[Max(starts)].timestamp

\* After a poll the packets received are first the n that are older than the window,
\* then those that are not, and the history holds a point for each of these, and no
\* other, in the order they were sent.
HistoryComplete ==
    \E n \in 0..Len(seen) :
      /\ \A i \in 1..Len(seen) : seen[i].timestamp >= polled - Timeline <=> i > n
      /\ history = [i \in 1..(Len(seen) - n) |-> Point(seen[n + i])]

\* The dot stays among the positions of the headings received since the heading
\* was unknown last: it never glides in from a position of an earlier run.
DotAmongHeadings ==
    LET run == {i \in 1..Len(seen) : \A j \in i..Len(seen) : seen[j].heading # None}
        targets == {DotTarget(seen[i].heading) : i \in run}
    IN IF run = {} THEN bridge.dot = 0
       ELSE /\ \E t \in targets : t <= bridge.dot
            /\ \E t \in targets : bridge.dot <= t

\* What is not shown as stale was sent a short time ago, however long the packets
\* waited at the socket.
FreshIsRecent == ~audioStale => \E i \in 1..Len(seen) : now - seen[i].timestamp <= AudioStale
=============================================================================
