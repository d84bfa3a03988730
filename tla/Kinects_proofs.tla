--------------------------- MODULE Kinects_proofs ---------------------------
(***************************************************************************)
(* Proofs about Device for any set of Kinects, of any models, and any      *)
(* number of devices; about Subdevices and FirmwareLoader for any buses,   *)
(* firmware files and sizes.  They are stated of MCKinects, which runs     *)
(* them side by side.                                                      *)
(***************************************************************************)
EXTENDS MCKinects, SequenceTheorems, FiniteSetTheorems, WellFoundedInduction, TLAPS

Structure ==
    [state : {"none", "open", "freed"}, kinect : Kinects, handles : SUBSET Subdevices,
     running : SUBSET Cameras, inFlight : SUBSET Cameras, tables : BOOLEAN, dead : BOOLEAN,
     depth : DepthModes, video : VideoModes]

\* What an open device is between calls: exactly the transfers of its running streams are
\* submitted, it streams only with a camera, and it has registration tables only while the
\* depth stream runs, then certainly if the format needs them.
Sound(r) ==
    r.state = "open" =>
      /\ r.inFlight = r.running
      /\ r.running # {} => "camera" \in r.handles
      /\ r.tables => "depth" \in r.running
      /\ "depth" \in r.running /\ NeedsTables(r.depth) => r.tables

\* DevicesSound alone is not inductive: a stop of the video stream keeps the tables, and
\* the closing of a device forgets it only if nothing is in flight.
IInv ==
    /\ enabled \subseteq Subdevices
    /\ firmware \subseteq Kinects
    /\ first \in Seq(Devs)
    /\ dev \in [Devs -> Structure]
    /\ ListExact
    /\ \A d \in Devs : Sound(dev[d])

-----------------------------------------------------------------------------
LEMMA NoDevSound ==
    NoDev \in Structure /\ Sound(NoDev) /\ NoDev.state = "none"
<1>1. (CHOOSE k \in Kinects : TRUE) \in Kinects
  BY KinectsAssumption
<1> QED
  BY <1>1 DEF NoDev, Structure, Sound, DepthModes, VideoModes, Subdevices, Cameras

\* A device that is opened has nothing in flight.
LEMMA OpenedSound ==
    ASSUME NEW k \in Kinects, NEW h \in SUBSET Subdevices,
           NEW r, r = [NoDev EXCEPT !.state = "open", !.kinect = k, !.handles = h]
    PROVE  r \in Structure /\ Sound(r) /\ r.state = "open"
BY NoDevSound DEF NoDev, Structure, Sound

\* The calls that stop streams leave a device sound.
LEMMA StoppedSound ==
    ASSUME NEW r \in Structure, Sound(r), NEW cs \in SUBSET Cameras
    PROVE  /\ Stopped(r, cs) \in Structure
           /\ Sound(Stopped(r, cs))
           /\ Stopped(r, cs).state = r.state
           /\ Stopped(r, cs).inFlight = r.inFlight \ (cs \cap r.running)
           /\ Stopped(r, cs).tables <=> r.tables /\ ~("depth" \in cs /\ "depth" \in r.running)
<1>1. /\ Stopped(r, cs) \in Structure
      /\ Stopped(r, cs).state = r.state /\ Stopped(r, cs).handles = r.handles
      /\ Stopped(r, cs).depth = r.depth
      /\ Stopped(r, cs).running = r.running \ cs
      /\ Stopped(r, cs).inFlight = r.inFlight \ (cs \cap r.running)
      /\ Stopped(r, cs).tables = (r.tables /\ ~("depth" \in cs /\ "depth" \in r.running))
  BY DEF Stopped, freenect_destroy_registration, Structure
<1>2. CASE r.state = "open"
  BY <1>1, <1>2 DEF Sound
<1>3. CASE r.state # "open"
  BY <1>1, <1>3 DEF Sound
<1> QED
  BY <1>1, <1>2, <1>3

\* Closing an open device with one stream, or none, leaves nothing of it.
LEMMA ClosedSound ==
    ASSUME NEW r \in Structure, Sound(r), r.state = "open"
    PROVE  /\ Closed(r) \in Structure
           /\ Closed(r).state # "open"
           /\ Closed(r).state = "freed" => r.running = Cameras
<1> DEFINE remains == IF "camera" \in r.handles THEN Teardown(r) ELSE r
<1>1. /\ r.inFlight = r.running /\ r.running \in SUBSET {"depth", "video"}
      /\ r.running # {} => "camera" \in r.handles
      /\ r.tables \in BOOLEAN /\ (r.tables => "depth" \in r.running)
  BY DEF Sound, Structure, Cameras
<1>2. /\ remains \in Structure
      /\ (remains.inFlight = {} /\ ~remains.tables) \/ r.running = Cameras
  <2>1. CASE "camera" \notin r.handles
    BY <1>1, <2>1
  <2>2. CASE "camera" \in r.handles /\ "depth" \in r.running
    <3>1. remains = Stopped(r, {"depth"})
      BY <2>2 DEF Teardown
    <3>2. remains \in Structure
      BY <3>1, StoppedSound DEF Cameras
    <3>3. remains.inFlight = r.inFlight \ {"depth"} /\ ~remains.tables
      BY <1>1, <2>2, <3>1, StoppedSound DEF Cameras
    <3> QED
      BY <1>1, <2>2, <3>2, <3>3 DEF Cameras
  <2>3. CASE "camera" \in r.handles /\ "depth" \notin r.running /\ "video" \in r.running
    <3>1. remains = Stopped(r, {"video"})
      BY <2>3 DEF Teardown
    <3>2. remains \in Structure
      BY <3>1, StoppedSound DEF Cameras
    <3>3. remains.inFlight = r.inFlight \ {"video"} /\ ~remains.tables
      BY <1>1, <2>3, <3>1, StoppedSound DEF Cameras
    <3> QED
      BY <1>1, <2>3, <3>2, <3>3
  <2>4. CASE "camera" \in r.handles /\ "depth" \notin r.running /\ "video" \notin r.running
    <3>1. remains = [r EXCEPT !.tables = FALSE]
      BY <2>4 DEF Teardown, freenect_destroy_registration
    <3>2. remains \in Structure
      BY <3>1 DEF Structure
    <3>3. remains.inFlight = r.inFlight /\ ~remains.tables
      BY <3>1 DEF Structure
    <3> QED
      BY <1>1, <2>4, <3>2, <3>3
  <2> QED
    BY <2>1, <2>2, <2>3, <2>4
<1>3. Closed(r) = IF remains.inFlight = {} /\ ~remains.tables THEN NoDev
                  ELSE [remains EXCEPT !.state = "freed", !.handles = {}]
  BY DEF Closed
<1> HIDE DEF remains
<1>4. CASE remains.inFlight = {} /\ ~remains.tables
  BY <1>3, <1>4, NoDevSound
<1>5. CASE ~(remains.inFlight = {} /\ ~remains.tables)
  <2>1. Closed(r) = [remains EXCEPT !.state = "freed", !.handles = {}]
    BY <1>3, <1>5
  <2>2. Closed(r) \in Structure /\ Closed(r).state = "freed"
    BY <1>2, <2>1 DEF Structure
  <2> QED
    BY <1>2, <1>5, <2>2
<1> QED
  BY <1>4, <1>5

\* Unlinking an element of a list.
LEMMA Unlinked ==
    ASSUME NEW S, NEW s \in Seq(S), NEW i \in 1..Len(s)
    PROVE  /\ RemoveAt(s, i) \in Seq(S)
           /\ Len(RemoveAt(s, i)) = Len(s) - 1
           /\ \A j \in 1..Len(s) - 1 :
                RemoveAt(s, i)[j] = IF j < i THEN s[j] ELSE s[j + 1]
<1> DEFINE before == SubSeq(s, 1, i - 1)
           after == SubSeq(s, i + 1, Len(s))
<1>1. Len(s) \in Nat /\ \A j \in 1..Len(s) : s[j] \in S
  OBVIOUS
<1>2. before \in Seq(S) /\ Len(before) = i - 1 /\ \A j \in 1..i - 1 : before[j] = s[j]
  BY <1>1, SubSeqProperties
<1>3. /\ after \in Seq(S) /\ Len(after) = Len(s) - i
      /\ \A j \in 1..Len(s) - i : after[j] = s[i + j]
  <2>1. \A j \in i + 1..Len(s) : s[j] \in S
    BY <1>1
  <2> QED
    BY <1>1, <2>1, SubSeqProperties
<1>4. RemoveAt(s, i) = before \o after
  BY DEF RemoveAt
<1> HIDE DEF before, after
<1>5. /\ before \o after \in Seq(S) /\ Len(before \o after) = i - 1 + (Len(s) - i)
      /\ \A j \in 1..Len(s) - 1 :
           (before \o after)[j] = IF j <= i - 1 THEN before[j] ELSE after[j - (i - 1)]
  <2>1. /\ before \o after \in Seq(S) /\ Len(before \o after) = Len(before) + Len(after)
        /\ \A j \in 1..Len(before) + Len(after) :
             (before \o after)[j] = IF j <= Len(before) THEN before[j] ELSE after[j - Len(before)]
    BY <1>2, <1>3, ConcatProperties, Zenon
  <2>2. Len(before) = i - 1 /\ Len(after) = Len(s) - i /\ i - 1 + (Len(s) - i) = Len(s) - 1
    BY <1>1, <1>2, <1>3
  <2> QED
    BY <2>1, <2>2, Zenon
<1>6. ASSUME NEW j \in 1..Len(s) - 1
      PROVE  (before \o after)[j] = IF j < i THEN s[j] ELSE s[j + 1]
  <2>1. CASE j < i
    BY <1>1, <1>2, <1>5, <2>1
  <2>2. CASE ~(j < i)
    <3>1. j - (i - 1) \in 1..Len(s) - i /\ i + (j - (i - 1)) = j + 1
      BY <1>1, <2>2
    <3> QED
      BY <1>1, <1>3, <1>5, <2>2, <3>1
  <2> QED
    BY <2>1, <2>2
<1>7. i - 1 + (Len(s) - i) = Len(s) - 1
  BY <1>1
<1>8. Len(RemoveAt(s, i)) = Len(s) - 1
  BY <1>4, <1>5, <1>7, Zenon
<1>9. \A j \in 1..Len(s) - 1 : RemoveAt(s, i)[j] = IF j < i THEN s[j] ELSE s[j + 1]
  BY <1>4, <1>6, Zenon
<1> QED
  BY <1>4, <1>5, <1>8, <1>9, Zenon

-----------------------------------------------------------------------------
LEMMA InitInv == Init => IInv
BY NoDevSound DEF Init, IInv, Subdevices, ListExact, Open

\* A step that changes one device, open before and after, in no way that matters to the list.
LEMMA ChangedInv ==
    ASSUME IInv, NEW d \in Devs, NEW r \in Structure, Sound(r), r.state = dev[d].state,
           dev' = [dev EXCEPT ![d] = r], UNCHANGED <<enabled, first, firmware>>
    PROVE  IInv'
<1>1. dev' \in [Devs -> Structure] /\ \A e \in Devs : Sound(dev'[e])
  BY DEF IInv
<1>2. \A e \in Devs : Open(e)' <=> Open(e)
  BY DEF IInv, Open
<1> QED
  BY <1>1, <1>2 DEF IInv, ListExact

LEMMA OpenInv ==
    ASSUME IInv, NEW k \in Kinects, NEW d \in Devs, dev[d].state = "none",
           NEW h \in SUBSET Subdevices,
           dev' = [dev EXCEPT ![d] = [NoDev EXCEPT !.state = "open", !.kinect = k, !.handles = h]],
           AppendDev(d), enabled' \subseteq Subdevices, firmware' \subseteq Kinects
    PROVE  IInv'
<1>1. dev' \in [Devs -> Structure] /\ \A e \in Devs : Sound(dev'[e])
  BY OpenedSound DEF IInv
<1>2. dev'[d].state = "open" /\ \A e \in Devs : e # d => dev'[e] = dev[e]
  BY OpenedSound DEF IInv
<1>3. first' \in Seq(Devs) /\ Len(first') = Len(first) + 1 /\ first'[Len(first')] = d
      /\ \A i \in 1..Len(first) : first'[i] = first[i]
  BY DEF AppendDev, IInv
<1>4. \A i \in 1..Len(first) : first[i] \in Devs /\ first[i] # d
  BY DEF IInv, ListExact, Open
<1>5. ListExact'
  <2>1. \A e \in Devs : Open(e)' <=> Open(e) \/ e = d
    BY <1>2 DEF Open
  <2>2. \A e \in Devs : (\E i \in 1..Len(first') : first'[i] = e)
                        <=> (\E i \in 1..Len(first) : first[i] = e) \/ e = d
    BY <1>3 DEF IInv
  <2>3. \A i, j \in 1..Len(first') : first'[i] = first'[j] => i = j
    BY <1>3, <1>4 DEF IInv, ListExact
  <2> QED
    BY <2>1, <2>2, <2>3 DEF IInv, ListExact
<1> QED
  BY <1>1, <1>3, <1>5 DEF IInv

LEMMA CloseInv ==
    ASSUME IInv, NEW d \in Devs, freenect_close_device(d)
    PROVE  IInv'
<1>1. Open(d) /\ dev' = [dev EXCEPT ![d] = Closed(dev[d])]
  BY DEF freenect_close_device
<1>2. Closed(dev[d]) \in Structure /\ Closed(dev[d]).state # "open"
  BY <1>1, ClosedSound DEF IInv, Open
<1>3. dev' \in [Devs -> Structure] /\ \A e \in Devs : Sound(dev'[e])
  BY <1>1, <1>2 DEF IInv, Sound
<1>4. ~Open(d)' /\ \A e \in Devs : e # d => (Open(e)' <=> Open(e))
  BY <1>1, <1>2 DEF IInv, Open
<1>5. PICK i \in 1..Len(first) : first[i] = d /\ first' = RemoveAt(first, i)
  BY DEF freenect_close_device
<1>6. /\ first' \in Seq(Devs)
      /\ Len(first) \in Nat /\ Len(first') = Len(first) - 1
      /\ \A j \in 1..Len(first) - 1 : first'[j] = IF j < i THEN first[j] ELSE first[j + 1]
  <2>1. first \in Seq(Devs) /\ Len(first) \in Nat
    BY DEF IInv
  <2> QED
    BY <1>5, <2>1, Unlinked
<1>7. ListExact'
  <2>1. ASSUME NEW e \in Devs, Open(e)'
        PROVE  \E j \in 1..Len(first') : first'[j] = e
    <3>1. PICK j \in 1..Len(first) : first[j] = e
      BY <1>4, <2>1 DEF IInv, ListExact
    <3>2. j # i
      BY <1>4, <1>5, <2>1, <3>1
    <3>3. CASE j < i
      BY <1>6, <3>1, <3>3
    <3>4. CASE j > i
      <4>1. j - 1 \in 1..Len(first') /\ first'[j - 1] = first[j]
        BY <1>6, <3>4
      <4> QED
        BY <3>1, <4>1
    <3> QED
      BY <3>2, <3>3, <3>4
  <2>2. ASSUME NEW e \in Devs, NEW j \in 1..Len(first'), first'[j] = e
        PROVE  Open(e)'
    <3>1. PICK n \in 1..Len(first) : first'[j] = first[n] /\ n # i
      BY <1>6
    <3>2. e # d /\ Open(e)
      BY <1>5, <2>2, <3>1 DEF IInv, ListExact
    <3> QED
      BY <1>4, <3>2
  <2>3. ASSUME NEW j \in 1..Len(first'), NEW n \in 1..Len(first'), first'[j] = first'[n]
        PROVE  j = n
    BY <1>5, <1>6, <2>3 DEF IInv, ListExact
  <2> QED
    BY <2>1, <2>2, <2>3 DEF ListExact
<1> QED
  BY <1>3, <1>6, <1>7 DEF IInv, freenect_close_device

LEMMA ShutdownInv ==
    ASSUME IInv, freenect_shutdown
    PROVE  IInv'
<1>1. ASSUME NEW d \in Devs
      PROVE  dev'[d] \in Structure /\ dev'[d].state # "open"
  <2>1. dev'[d] = IF \E i \in 1..Len(first) : first[i] = d THEN Closed(dev[d]) ELSE dev[d]
    BY DEF freenect_shutdown
  <2>2. CASE Open(d)
    BY <2>1, <2>2, ClosedSound DEF IInv, ListExact, Open
  <2>3. CASE ~Open(d)
    BY <2>1, <2>3 DEF IInv, ListExact, Open
  <2> QED
    BY <2>2, <2>3
<1>2. dev' \in [Devs -> Structure]
  BY <1>1 DEF freenect_shutdown
<1>3. first' = <<>> /\ enabled' \subseteq Subdevices /\ firmware' = firmware
  BY DEF freenect_shutdown, Subdevices
<1>4. ListExact' /\ \A d \in Devs : Sound(dev[d])'
  BY <1>1, <1>3 DEF ListExact, Open, Sound
<1> QED
  BY <1>2, <1>3, <1>4 DEF IInv

LEMMA EventsInv ==
    ASSUME IInv, freenect_process_events
    PROVE  IInv'
<1>1. ASSUME NEW d \in Devs
      PROVE  dev'[d] \in Structure /\ dev'[d].state = dev[d].state /\ Sound(dev'[d])
  <2>1. dev'[d] = IF d \in Culled /\ dev[d].dead THEN Stopped(dev[d], Cameras) ELSE dev[d]
    BY DEF freenect_process_events
  <2> QED
    BY <2>1, StoppedSound DEF IInv
<1>2. dev' \in [Devs -> Structure]
  BY <1>1 DEF freenect_process_events
<1> QED
  BY <1>1, <1>2 DEF freenect_process_events, IInv, ListExact, Open

-----------------------------------------------------------------------------
LEMMA StreamsInv ==
    ASSUME IInv, NEW d \in Devs,
           \/ \E m : freenect_set_depth_mode(d, m)
           \/ \E m : freenect_set_video_mode(d, m)
           \/ freenect_start_depth(d) \/ freenect_start_video(d)
           \/ \E c \in Cameras : Stop(d, c)
           \/ Dies(d)
    PROVE  IInv'
<1>1. dev[d] \in Structure /\ Sound(dev[d])
  BY DEF IInv
<1>2. ASSUME NEW m, freenect_set_depth_mode(d, m)
      PROVE  IInv'
  <2> DEFINE r == [dev[d] EXCEPT !.depth = m]
  <2>1. r \in Structure /\ r.state = dev[d].state
    BY <1>1, <1>2 DEF Structure, freenect_set_depth_mode
  <2>2. Sound(r)
    <3>1. r.inFlight = dev[d].inFlight /\ r.running = dev[d].running
          /\ r.handles = dev[d].handles /\ (r.tables <=> dev[d].tables)
      BY <1>1 DEF Structure
    <3>2. "depth" \notin dev[d].running
      BY <1>2 DEF freenect_set_depth_mode, Running
    <3> QED
      BY <1>1, <2>1, <3>1, <3>2 DEF Sound
  <2>3. dev' = [dev EXCEPT ![d] = r] /\ UNCHANGED <<enabled, first, firmware>>
    BY <1>2 DEF freenect_set_depth_mode
  <2> QED
    BY <2>1, <2>2, <2>3, ChangedInv
<1>3. ASSUME NEW m, freenect_set_video_mode(d, m)
      PROVE  IInv'
  <2> DEFINE r == [dev[d] EXCEPT !.video = m]
  <2>1. r \in Structure /\ r.state = dev[d].state
    BY <1>1, <1>3 DEF Structure, freenect_set_video_mode
  <2>2. Sound(r)
    BY <1>1 DEF Sound, Structure
  <2>3. dev' = [dev EXCEPT ![d] = r] /\ UNCHANGED <<enabled, first, firmware>>
    BY <1>3 DEF freenect_set_video_mode
  <2> QED
    BY <2>1, <2>2, <2>3, ChangedInv
<1>4. ASSUME NEW c \in Cameras, NEW t \in BOOLEAN, Starts(d, c, [dev[d] EXCEPT !.tables = t]),
             t => dev[d].tables \/ c = "depth",
             c = "depth" => (NeedsTables(dev[d].depth) => t),
             c # "depth" => (dev[d].tables => t)
      PROVE  IInv'
  <2> DEFINE r == [dev[d] EXCEPT !.running = @ \cup {c}, !.inFlight = @ \cup {c}, !.tables = t]
  <2>1. r \in Structure /\ r.state = dev[d].state
    BY <1>1 DEF Structure
  <2>2. Sound(r)
    <3>1. /\ r.inFlight = dev[d].inFlight \cup {c} /\ r.running = dev[d].running \cup {c}
          /\ r.handles = dev[d].handles /\ r.depth = dev[d].depth
      BY <1>1 DEF Structure
    <3>2. r.tables <=> t
      BY <1>1 DEF Structure
    <3>3. "camera" \in dev[d].handles /\ dev[d].state = "open"
      BY <1>4 DEF Starts, Open
    <3>4. /\ dev[d].inFlight = dev[d].running
          /\ dev[d].tables => "depth" \in dev[d].running
          /\ "depth" \in dev[d].running /\ NeedsTables(dev[d].depth) => dev[d].tables
      BY <1>1, <3>3 DEF Sound
    <3>5. /\ r.inFlight = r.running /\ "camera" \in r.handles
      BY <3>1, <3>3, <3>4
    <3>6. t => "depth" \in r.running
      BY <1>4, <3>1, <3>4
    <3>7. "depth" \in r.running /\ NeedsTables(r.depth) => t
      BY <1>4, <3>1, <3>4
    <3> QED
      BY <3>2, <3>5, <3>6, <3>7, Zenon DEF Sound
  <2>3. dev' = [dev EXCEPT ![d] = r] /\ UNCHANGED <<enabled, first, firmware>>
    <3>1. [[dev[d] EXCEPT !.tables = t] EXCEPT !.running = @ \cup {c}, !.inFlight = @ \cup {c}] = r
      BY <1>1 DEF Structure
    <3> QED
      BY <1>4, <3>1 DEF Starts
  <2> QED
    BY <2>1, <2>2, <2>3, ChangedInv
<1>5. CASE freenect_start_depth(d)
  <2> DEFINE t == dev[d].tables \/ NeedsTables(dev[d].depth)
  <2>1. t \in BOOLEAN
    BY <1>1 DEF Structure, NeedsTables
  <2>2. Starts(d, "depth", [dev[d] EXCEPT !.tables = t])
    <3>1. CASE NeedsTables(dev[d].depth)
      <4>1. freenect_init_registration(dev[d]) = [dev[d] EXCEPT !.tables = t]
        BY <3>1 DEF freenect_init_registration
      <4> QED
        BY <1>5, <3>1, <4>1 DEF freenect_start_depth
    <3>2. CASE ~NeedsTables(dev[d].depth)
      <4>1. dev[d] = [dev[d] EXCEPT !.tables = t]
        BY <1>1, <3>2 DEF Structure
      <4> QED
        BY <1>5, <3>2, <4>1 DEF freenect_start_depth
    <3> QED
      BY <3>1, <3>2
  <2> QED
    BY <1>4, <2>1, <2>2 DEF Cameras
<1>6. CASE freenect_start_video(d)
  <2>1. Starts(d, "video", [dev[d] EXCEPT !.tables = dev[d].tables]) /\ dev[d].tables \in BOOLEAN
    <3>1. [dev[d] EXCEPT !.tables = dev[d].tables] = dev[d] /\ dev[d].tables \in BOOLEAN
      BY <1>1 DEF Structure
    <3> QED
      BY <1>6, <3>1 DEF freenect_start_video
  <2> QED
    BY <1>4, <2>1 DEF Cameras
<1>7. ASSUME NEW c \in Cameras, Stop(d, c)
      PROVE  IInv'
  <2>1. dev' = [dev EXCEPT ![d] = Stopped(dev[d], {c})] /\ UNCHANGED <<enabled, first, firmware>>
    BY <1>7 DEF Stop
  <2> QED
    BY <1>1, <2>1, StoppedSound, ChangedInv
<1>8. CASE Dies(d)
  <2> DEFINE r == [dev[d] EXCEPT !.dead = TRUE]
  <2>1. r \in Structure /\ r.state = dev[d].state
    BY <1>1 DEF Structure
  <2>2. Sound(r)
    BY <1>1 DEF Sound, Structure
  <2>3. dev' = [dev EXCEPT ![d] = r] /\ UNCHANGED <<enabled, first, firmware>>
    BY <1>8 DEF Dies
  <2> QED
    BY <2>1, <2>2, <2>3, ChangedInv
<1> QED
  BY <1>2, <1>3, <1>5, <1>6, <1>7, <1>8

LEMMA WantedSubdevices ==
    ASSUME IInv, NEW k \in Kinects
    PROVE  Wanted(k) \in SUBSET Subdevices
BY DEF Wanted, IInv, Subdevices

LEMMA NextInv ==
    ASSUME IInv, [Next]_vars
    PROVE  IInv'
<1>1. ASSUME NEW flags, freenect_select_subdevices(flags)
      PROVE  IInv'
  BY <1>1 DEF freenect_select_subdevices, Masked, IInv, ListExact, Open
<1>2. ASSUME NEW k \in Kinects, NEW d \in Devs, freenect_open_device(k, d)
      PROVE  IInv'
  <2>1. /\ dev[d].state = "none" /\ AppendDev(d)
        /\ dev' = [dev EXCEPT ![d] = [NoDev EXCEPT !.state = "open", !.kinect = k,
                                                  !.handles = Wanted(k)]]
        /\ enabled' \subseteq Subdevices /\ firmware' \subseteq Kinects
    BY <1>2, WantedSubdevices DEF freenect_open_device, IInv
  <2> QED
    BY <2>1, WantedSubdevices, OpenInv
<1>3. ASSUME NEW k \in Kinects, NEW d \in Devs, OpenWithoutAudio(k, d)
      PROVE  IInv'
  <2>1. /\ dev[d].state = "none" /\ AppendDev(d)
        /\ dev' = [dev EXCEPT ![d] = [NoDev EXCEPT !.state = "open", !.kinect = k, !.handles = {}]]
        /\ enabled' \subseteq Subdevices /\ firmware' \subseteq Kinects
    BY <1>3, WantedSubdevices DEF OpenWithoutAudio, IInv
  <2> QED
    BY <2>1, OpenInv
<1>4. ASSUME NEW k \in Kinects, OpenFails(k)
      PROVE  IInv'
  BY <1>4, WantedSubdevices DEF OpenFails, IInv, ListExact, Open
<1>5. ASSUME NEW k \in Kinects, Replug(k)
      PROVE  IInv'
  BY <1>5 DEF Replug, IInv, ListExact, Open
<1>6. CASE UNCHANGED vars
  BY <1>6 DEF vars, IInv, ListExact, Open
<1> QED
  BY <1>1, <1>2, <1>3, <1>4, <1>5, <1>6, StreamsInv, CloseInv, EventsInv, ShutdownInv DEF Next

\* The list of a context holds its open devices, each once, and registered depth has its
\* tables, for any Kinects and however devices are opened, streamed, lost and closed.
THEOREM DevicesAreSound == Spec => []DevicesSound
<1>1. Init => IInv
  BY InitInv
<1>2. IInv /\ [Next]_vars => IInv'
  BY NextInv
<1>3. IInv => DevicesSound
  <2> SUFFICES ASSUME IInv
               PROVE  DevicesSound
    OBVIOUS
  <2>1. TypeOK
    BY DEF IInv, TypeOK, Structure
  <2>2. TablesPresent
    BY DEF IInv, Sound, TablesPresent, Open, Running
  <2> QED
    BY <2>1, <2>2 DEF IInv, DevicesSound
<1> QED
  BY <1>1, <1>2, <1>3, PTL DEF Spec

\* freenect_close_device leaves transfers in flight only if both cameras ran: the finding
\* of CloseDrains is the only way in which it does.
THEOREM DevicesDrained == Spec => OneStreamDrained
<1> DEFINE Drained == \A d \in Devs :
             Open(d) /\ dev'[d].state = "freed" => dev[d].running = Cameras
<1>1. Init => IInv
  BY InitInv
<1>2. IInv /\ [Next]_vars => IInv'
  BY NextInv
<1>3. IInv /\ [Next]_vars => [Drained]_vars
  <2> SUFFICES ASSUME IInv, [Next]_vars, NEW d \in Devs, Open(d), dev'[d].state = "freed"
               PROVE  dev[d].running = Cameras
    BY DEF Open
  <2>1. dev[d] \in Structure /\ Sound(dev[d]) /\ dev[d].state = "open"
    BY DEF IInv, Open
  <2>2. CASE dev'[d] = Closed(dev[d])
    BY <2>1, <2>2, ClosedSound
  <2>3. CASE dev'[d].state = dev[d].state
    BY <2>1, <2>3
  <2>4. CASE freenect_shutdown
    <3>1. dev'[d] = Closed(dev[d])
      BY <2>4 DEF freenect_shutdown, IInv, ListExact
    <3> QED
      BY <2>2, <3>1
  <2>5. ASSUME NEW e \in Devs, freenect_close_device(e)
        PROVE  dev'[d] = Closed(dev[d]) \/ dev'[d].state = dev[d].state
    BY <2>5 DEF freenect_close_device, IInv
  <2>6. ASSUME freenect_process_events
        PROVE  dev'[d].state = dev[d].state
    BY <2>1, <2>6, StoppedSound DEF freenect_process_events
  <2>7. ASSUME NEW e \in Devs, NEW k \in Kinects, freenect_open_device(k, e) \/ OpenWithoutAudio(k, e)
        PROVE  dev'[d].state = dev[d].state
    BY <2>1, <2>7 DEF freenect_open_device, OpenWithoutAudio, IInv
  <2>8. ASSUME NEW e \in Devs,
               \/ \E m : freenect_set_depth_mode(e, m)
               \/ \E m : freenect_set_video_mode(e, m)
               \/ Dies(e)
        PROVE  dev'[d].state = dev[d].state
    BY <2>1, <2>8 DEF freenect_set_depth_mode, freenect_set_video_mode, Dies, IInv, Structure
  <2>9. ASSUME NEW e \in Devs, freenect_start_depth(e) \/ freenect_start_video(e)
        PROVE  dev'[d].state = dev[d].state
    <3>1. dev[e] \in Structure /\ dev[d] \in Structure
      BY DEF IInv
    <3>2. freenect_init_registration(dev[e]) \in Structure
          /\ freenect_init_registration(dev[e]).state = dev[e].state
      BY <3>1 DEF freenect_init_registration, Structure
    <3>3. PICK c, r : Starts(e, c, r) /\ r \in Structure /\ r.state = dev[e].state
      BY <2>9, <3>1, <3>2 DEF freenect_start_depth, freenect_start_video
    <3>4. dev' = [dev EXCEPT ![e] = [r EXCEPT !.running = @ \cup {c}, !.inFlight = @ \cup {c}]]
      BY <3>3 DEF Starts
    <3> QED
      BY <3>1, <3>3, <3>4 DEF IInv, Structure
  <2>10. ASSUME NEW e \in Devs, NEW c \in Cameras, Stop(e, c)
         PROVE  dev'[d].state = dev[d].state
    <3>1. dev' = [dev EXCEPT ![e] = Stopped(dev[e], {c})] /\ dev[e] \in Structure /\ Sound(dev[e])
      BY <2>10 DEF Stop, IInv
    <3> QED
      BY <2>1, <3>1, StoppedSound DEF IInv
  <2>11. CASE UNCHANGED dev
    BY <2>1, <2>11
  <2> QED
    BY <2>2, <2>3, <2>4, <2>5, <2>6, <2>7, <2>8, <2>9, <2>10, <2>11
    DEF Next, freenect_select_subdevices, OpenFails, Replug, vars
<1>4. Spec => [][Drained]_vars
  BY <1>1, <1>2, <1>3, PTL DEF Spec
<1> QED
  BY <1>4 DEF OneStreamDrained

-----------------------------------------------------------------------------
(***************************************************************************)
(* The upload of the firmware, and the opening of subdevices it is part of *)
(***************************************************************************)
Uploading == {"page", "data", "reply", "launch"}

\* Where an upload is: l bytes of the b of the image are left of those read, t were sent,
\* n of the r of the page at address a
Progress(pc, l, t, r, n, a, b, z) ==
    /\ pc = "page"   => l + t = b /\ a = t
    /\ pc = "data"   => n < r /\ a + n = t /\ l + t + (r - n) = b
    /\ pc = "reply"  => a + r = t /\ l + t = b
    /\ pc = "launch" => t = z /\ l + t = b

Upload == [pc : {"idle", "done"} \cup Uploading, left : Nat, total : Nat, read : Nat,
           inPage : Nat, addr : Nat, res : {0, -1}]

At(u, pc, l, t, r, n, a) ==
    /\ u \in Upload
    /\ u.pc = pc /\ u.left = l /\ u.total = t /\ u.read = r /\ u.inPage = n /\ u.addr = a

\* The first n bytes were sent to their addresses.
SentUpTo(n) == \A a \in 0..n - 1 : <<a, a>> \in sent

\* The inductive invariant of the upload: no byte was ever sent to another address than
\* its own, by this upload or one before it that failed.
LoaderInv ==
    /\ launched \in BOOLEAN
    /\ up \in Upload
    /\ \A p \in sent : \E a \in Nat : p = <<a, a>>
    /\ up.pc \in Uploading =>
         /\ ~launched /\ image \in Images
         /\ Progress(up.pc, up.left, up.total, up.read, up.inPage, up.addr, image.bytes, image.size)
         /\ SentUpTo(up.total)
    /\ launched => image \in Images /\ image.size <= image.bytes /\ SentUpTo(image.size)

LEMMA LeastOfThree ==
    ASSUME NEW a \in Int, NEW b \in Int, NEW c \in Int
    PROVE  LET m == sub!Loader!Min({a, b, c}) IN
           m \in Int /\ m <= a /\ m <= b /\ m <= c /\ (m = a \/ m = b \/ m = c)
<1>1. \E x \in {a, b, c} : \A y \in {a, b, c} : x <= y
  <2>1. CASE a <= b /\ a <= c
    BY <2>1
  <2>2. CASE b <= a /\ b <= c
    BY <2>2
  <2>3. CASE c <= a /\ c <= b
    BY <2>3
  <2> QED
    BY <2>1, <2>2, <2>3
<1> QED
  BY <1>1 DEF sub!Loader!Min

\* A return ends the upload.
LEMMA UploadReturned ==
    ASSUME LoaderInv, NEW x \in {0, -1}, sub!Loader!Return(x), UNCHANGED sent,
           launched => UNCHANGED image,
           UNCHANGED launched \/ (launched' = TRUE /\ up.pc = "launch" /\ UNCHANGED image)
    PROVE  LoaderInv'
<1>1. up' \in Upload /\ up'.pc = "done"
  BY DEF LoaderInv, sub!Loader!Return, Upload
<1>2. launched' \in BOOLEAN /\ \A p \in sent' : \E a \in Nat : p = <<a, a>>
  BY DEF LoaderInv
<1>3. ASSUME launched'
      PROVE  image' \in Images /\ image'.size <= image'.bytes /\ SentUpTo(image.size)'
  <2>1. CASE launched
    BY <2>1 DEF LoaderInv, SentUpTo
  <2>2. CASE up.pc = "launch" /\ UNCHANGED image
    <3> DEFINE l == up.left
               t == up.total
               b == image.bytes
               z == image.size
    <3>1. image \in Images /\ t = z /\ l + t = b /\ l \in Nat /\ t \in Nat /\ SentUpTo(t)
      BY <2>2 DEF LoaderInv, Upload, Uploading, Progress
    <3> HIDE DEF l, t, b, z
    <3>2. z <= b /\ SentUpTo(z)
      BY <3>1
    <3> QED
      BY <2>2, <3>1, <3>2 DEF b, z, SentUpTo
  <2> QED
    BY <1>3, <2>1, <2>2
<1> QED
  BY <1>1, <1>2, <1>3 DEF LoaderInv, Uploading

\* A step from one command or transfer of an upload to the next
LEMMA UploadGoesOn ==
    ASSUME LoaderInv, NEW pc \in Uploading, NEW l \in Nat, NEW t \in Nat, NEW r \in Nat,
           NEW n \in Nat, NEW a \in Nat, At(up', pc, l, t, r, n, a),
           ~launched, UNCHANGED launched, image' \in Images,
           Progress(pc, l, t, r, n, a, image'.bytes, image'.size),
           \A k \in 0..t - 1 : <<k, k>> \in sent',
           \A p \in sent' : \E k \in Nat : p = <<k, k>>
    PROVE  LoaderInv'
<1>1. up' \in Upload
  BY DEF At
<1>2. /\ up'.pc = pc /\ up'.left = l /\ up'.total = t /\ up'.read = r
      /\ up'.inPage = n /\ up'.addr = a
  BY DEF At
<1>3. SentUpTo(up.total)'
  BY <1>2 DEF SentUpTo
<1> QED
  BY <1>1, <1>2, <1>3 DEF LoaderInv, Progress

LEMMA UploadStarts ==
    ASSUME LoaderInv, sub!Loader!NoFirmware \/ \E i \in Images : ~launched /\ sub!Loader!upload_firmware(i)
    PROVE  LoaderInv'
<1>1. CASE sub!Loader!NoFirmware
  BY <1>1, UploadReturned DEF sub!Loader!NoFirmware
<1>2. ASSUME NEW i \in Images, ~launched, sub!Loader!upload_firmware(i)
      PROVE  LoaderInv'
  <2>1. CASE i.bytes < Header
    <3>1. PICK x \in {0, -1} : sub!Loader!Return(x)
      BY <1>2, <2>1 DEF sub!Loader!upload_firmware
    <3> QED
      BY <1>2, <3>1, UploadReturned DEF sub!Loader!upload_firmware
  <2>2. CASE ~(i.bytes < Header)
    <3> DEFINE b == i.bytes
    <3>1. At(up', "page", b, 0, 0, 0, 0)
      <4>1. up' = [sub!Loader!Idle EXCEPT !.pc = "page", !.left = b]
        BY <1>2, <2>2 DEF sub!Loader!upload_firmware
      <4>2. sub!Loader!Idle \in Upload /\ b \in Nat
        BY LoaderAssumption DEF sub!Loader!ImagesAssumption, sub!Loader!Idle, Upload
      <4> HIDE DEF b
      <4> QED
        BY <4>1, <4>2 DEF At, Upload, Uploading, sub!Loader!Idle
    <3>2. image' = i /\ UNCHANGED <<sent, launched>>
      BY <1>2 DEF sub!Loader!upload_firmware
    <3>3. b \in Nat
      BY LoaderAssumption DEF sub!Loader!ImagesAssumption
    <3>4. Progress("page", b, 0, 0, 0, 0, image'.bytes, image'.size)
      <4> HIDE DEF b
      <4>1. b + 0 = b
        BY <3>3
      <4> QED
        BY <3>2, <4>1 DEF Progress, b
    <3>5. \A k \in 0..0 - 1 : <<k, k>> \in sent'
      OBVIOUS
    <3>6. \A p \in sent' : \E k \in Nat : p = <<k, k>>
      BY <3>2 DEF LoaderInv
    <3> HIDE DEF b
    <3> QED
      BY <1>2, <3>1, <3>2, <3>3, <3>4, <3>5, <3>6, UploadGoesOn DEF Uploading
  <2> QED
    BY <2>1, <2>2
<1> QED
  BY <1>1, <1>2

LEMMA UploadTransfers ==
    ASSUME LoaderInv, sub!Loader!Transfer
    PROVE  LoaderInv'
<1> DEFINE l == up.left
           t == up.total
           r == up.read
           n == up.inPage
           a == up.addr
           b == image.bytes
           z == image.size
<1>1. up.pc \in Uploading /\ up \in Upload /\ UNCHANGED image
  BY DEF LoaderInv, Upload, Uploading, sub!Loader!Transfer, sub!Loader!PageCommand,
         sub!Loader!SendChunk, sub!Loader!PageReply, sub!Loader!Launch
<1>2. /\ l \in Nat /\ t \in Nat /\ r \in Nat /\ n \in Nat /\ a \in Nat
      /\ Page \in Nat \ {0} /\ Chunk \in Nat \ {0} /\ b \in Nat /\ z \in Nat
  <2>1. image \in Images
    BY <1>1 DEF LoaderInv
  <2> QED
    BY <1>1, <2>1, LoaderAssumption
    DEF Upload, sub!Loader!ImagesAssumption, sub!Loader!SizesAssumption
<1>3. /\ ~launched /\ image' \in Images /\ Progress(up.pc, l, t, r, n, a, b, z)
      /\ \A k \in 0..t - 1 : <<k, k>> \in sent
      /\ \A p \in sent : \E k \in Nat : p = <<k, k>>
  BY <1>1 DEF LoaderInv, SentUpTo
<1>4. image'.bytes = b /\ image'.size = z
  BY <1>1
<1> HIDE DEF l, t, r, n, a, b, z
<1>5. ASSUME NEW pc \in Uploading, NEW l1 \in Nat, NEW r1 \in Nat, NEW n1 \in Nat, NEW a1 \in Nat,
             At(up', pc, l1, t, r1, n1, a1),
             Progress(pc, l1, t, r1, n1, a1, b, z), UNCHANGED <<sent, launched>>
      PROVE  LoaderInv'
  BY <1>2, <1>3, <1>4, <1>5, UploadGoesOn
<1>6. CASE sub!Loader!PageCommand
  <2> DEFINE m == sub!Loader!PageBytes
  <2>1. m \in Int /\ m <= l
    <3> DEFINE c == z - t
    <3>1. m = sub!Loader!Min({Page, c, l})
      BY DEF sub!Loader!PageBytes, z, t, l
    <3>2. c \in Int /\ Page \in Int /\ l \in Int
      BY <1>2
    <3> HIDE DEF c, m
    <3> QED
      BY <3>1, <3>2, LeastOfThree
  <2>2. up.pc = "page" /\ l + t = b /\ a = t
    BY <1>3, <1>6 DEF sub!Loader!PageCommand, Progress
  <2>3. UNCHANGED <<sent, launched>>
    BY <1>6 DEF sub!Loader!PageCommand
  <2> HIDE DEF m
  <2>4. CASE sub!Loader!Return(-1)
    BY <1>1, <2>3, <2>4, UploadReturned
  <2>5. CASE ~sub!Loader!Truncated /\ up' = [up EXCEPT !.pc = "launch"]
    <3>1. t = z
      BY <2>5 DEF sub!Loader!Truncated, t, z
    <3>2. Progress("launch", l, t, r, n, a, b, z)
      BY <2>2, <3>1 DEF Progress
    <3>3. At(up', "launch", l, t, r, n, a)
      BY <1>1, <2>5 DEF At, Upload, Uploading, l, t, r, n, a
    <3> QED
      BY <1>2, <1>5, <2>3, <3>2, <3>3 DEF Uploading
  <2>6. CASE m > 0 /\ up' = [up EXCEPT !.pc = "data", !.read = m, !.inPage = 0, !.left = @ - m]
    <3>1. m \in Nat /\ l - m \in Nat /\ 0 < m /\ a + 0 = t /\ (l - m) + t + (m - 0) = b
      BY <1>2, <2>1, <2>2, <2>6
    <3>2. Progress("data", l - m, t, m, 0, a, b, z)
      BY <3>1 DEF Progress
    <3>3. At(up', "data", l - m, t, m, 0, a)
      <4> DEFINE d == l - m
      <4>1. up' = [up EXCEPT !.pc = "data", !.read = m, !.inPage = 0, !.left = d]
        BY <2>6 DEF l
      <4>2. d \in Nat
        BY <3>1
      <4> HIDE DEF d
      <4>3. At(up', "data", d, t, m, 0, a)
        BY <1>1, <3>1, <4>1, <4>2 DEF At, Upload, Uploading, t, a
      <4> QED
        BY <4>3 DEF d
    <3> QED
      BY <1>2, <1>5, <2>3, <3>1, <3>2, <3>3 DEF Uploading
  <2> QED
    BY <1>6, <2>4, <2>5, <2>6 DEF sub!Loader!PageCommand, m
<1>7. CASE sub!Loader!SendChunk
  <2> DEFINE m == sub!Loader!ToSend
             pc == IF n + m < r THEN "data" ELSE "reply"
  <2>1. n < r /\ a + n = t /\ l + t + (r - n) = b /\ UNCHANGED launched
    BY <1>3, <1>7 DEF sub!Loader!SendChunk, Progress
  <2>2. m \in Int /\ m <= r - n /\ (m = Chunk \/ m = r - n)
    <3> DEFINE c == r - n
    <3>1. m = sub!Loader!Min({Chunk, c, c})
      BY DEF sub!Loader!ToSend, r, n
    <3>2. c \in Int /\ Chunk \in Int
      BY <1>2
    <3> HIDE DEF c, m
    <3>3. m \in Int /\ m <= c /\ (m = Chunk \/ m = c)
      BY <3>1, <3>2, LeastOfThree
    <3> QED
      BY <3>3 DEF c
  <2> HIDE DEF m
  <2>3. m \in Nat /\ m > 0 /\ n + m \in Nat /\ t + m \in Nat /\ n + m <= r
    BY <1>2, <2>1, <2>2
  <2>4. CASE sub!Loader!Return(-1) /\ UNCHANGED sent
    BY <1>1, <2>1, <2>4, UploadReturned
  <2>5. CASE /\ up' = [up EXCEPT !.pc = pc, !.inPage = n + m, !.total = t + m]
             /\ sent' = sent \cup {<<a + n + k, t + k>> : k \in 0..m - 1}
    <3>1. At(up', pc, l, t + m, r, n + m, a)
      <4> DEFINE d == t + m
                 e == n + m
      <4>1. up' = [up EXCEPT !.pc = pc, !.inPage = e, !.total = d]
        BY <2>5
      <4>2. d \in Nat /\ e \in Nat /\ pc \in {"data", "reply"}
        BY <2>3
      <4> HIDE DEF d, e, pc
      <4>3. At(up', pc, l, d, r, e, a)
        BY <1>1, <4>1, <4>2 DEF At, Upload, Uploading, l, r, a
      <4> QED
        BY <4>3 DEF d, e
    <3>2. Progress(pc, l, t + m, r, n + m, a, b, z)
      <4>1. CASE n + m < r
        <5>1. a + (n + m) = t + m /\ l + (t + m) + (r - (n + m)) = b
          BY <1>2, <2>1, <2>3
        <5> QED
          BY <4>1, <5>1 DEF Progress
      <4>2. CASE ~(n + m < r)
        <5>1. a + r = t + m /\ l + (t + m) = b
          BY <1>2, <2>1, <2>3, <4>2
        <5> QED
          BY <4>2, <5>1 DEF Progress
      <4> QED
        BY <4>1, <4>2
    <3>3. ASSUME NEW k \in 0..m - 1
          PROVE  a + n + k = t + k /\ t + k \in Nat
      BY <1>2, <2>1, <2>3
    <3>4. \A p \in sent' : \E k \in Nat : p = <<k, k>>
      BY <1>3, <2>5, <3>3
    <3>5. \A k \in 0..(t + m) - 1 : <<k, k>> \in sent'
      <4> SUFFICES ASSUME NEW k \in 0..(t + m) - 1 PROVE <<k, k>> \in sent'
        OBVIOUS
      <4>1. CASE k < t
        <5>1. k \in 0..t - 1
          BY <1>2, <2>3, <4>1
        <5> QED
          BY <1>3, <2>5, <5>1
      <4>2. CASE ~(k < t)
        <5>1. k - t \in 0..m - 1 /\ t + (k - t) = k
          BY <1>2, <2>3, <4>2
        <5> QED
          BY <2>5, <3>3, <5>1
      <4> QED
        BY <4>1, <4>2
    <3>6. pc \in Uploading
      BY DEF Uploading
    <3> DEFINE d == t + m
               e == n + m
    <3> HIDE DEF pc
    <3>7. At(up', pc, l, d, r, e, a) /\ d \in Nat /\ e \in Nat
      BY <2>3, <3>1
    <3>8. Progress(pc, l, d, r, e, a, image'.bytes, image'.size)
      <4> HIDE DEF d, e
      <4>1. Progress(pc, l, d, r, e, a, b, z)
        BY <3>2 DEF d, e
      <4> QED
        BY <1>4, <4>1
    <3>9. \A k \in 0..d - 1 : <<k, k>> \in sent'
      BY <1>2, <2>3, <3>5
    <3> HIDE DEF d, e
    <3> QED
      BY <1>2, <1>3, <2>1, <3>4, <3>6, <3>7, <3>8, <3>9, UploadGoesOn
  <2> QED
    BY <1>7, <2>4, <2>5 DEF sub!Loader!SendChunk, m, n, r, t, a
<1>8. CASE sub!Loader!PageReply
  <2>1. /\ up' = [up EXCEPT !.pc = "page", !.addr = a + r]
        /\ a + r = t /\ l + t = b /\ UNCHANGED <<sent, launched>>
    BY <1>1, <1>3, <1>8 DEF sub!Loader!PageReply, Progress, Upload, a, r
  <2>2. At(up', "page", l, t, r, n, a + r)
    <3> DEFINE d == a + r
    <3>1. up' = [up EXCEPT !.pc = "page", !.addr = d]
      BY <2>1
    <3>2. d \in Nat
      BY <1>2
    <3> HIDE DEF d
    <3>3. At(up', "page", l, t, r, n, d)
      BY <1>1, <3>1, <3>2 DEF At, Upload, Uploading, l, t, r, n
    <3> QED
      BY <3>3 DEF d
  <2>3. Progress("page", l, t, r, n, a + r, b, z) /\ a + r \in Nat
    BY <1>2, <2>1 DEF Progress
  <2> QED
    BY <1>2, <1>5, <2>1, <2>2, <2>3 DEF Uploading
<1>9. CASE sub!Loader!Launch
  BY <1>1, <1>9, UploadReturned DEF sub!Loader!Launch
<1> QED
  BY <1>6, <1>7, <1>8, <1>9 DEF sub!Loader!Transfer

\* The actions of Subdevices that leave the upload alone
LEMMA NoUpload ==
    ASSUME sub!Next
    PROVE  \/ UNCHANGED <<image, up, sent, launched>>
           \/ sub!Upload \/ sub!UploadReturns \/ sub!Leave
BY DEF sub!Next, sub!freenect_open_device_by_camera_serial, sub!OpenIndex, sub!OpenCamera,
       sub!KeepAliveLed, sub!Claim, sub!OpenSibling, sub!Interfaces, sub!LookAgain, sub!Finish,
       sub!freenect_close_device, sub!freenect_select_subdevices, sub!Return, sub!loaderVars

LEMMA LoaderStep == LoaderInv /\ [sub!Next]_subVars => LoaderInv'
<1> SUFFICES ASSUME LoaderInv, [sub!Next]_subVars PROVE LoaderInv'
  OBVIOUS
<1>1. CASE UNCHANGED <<image, up, sent, launched>>
  BY <1>1 DEF LoaderInv, SentUpTo
<1>2. CASE sub!Upload
  BY <1>2, UploadStarts, UploadTransfers DEF sub!Upload
<1>3. CASE sub!UploadReturns
  <2>1. up' = sub!Loader!Idle /\ UNCHANGED <<image, sent, launched>>
    BY <1>3 DEF sub!UploadReturns
  <2>2. up' \in Upload /\ up'.pc = "idle"
    BY <2>1 DEF sub!Loader!Idle, Upload
  <2> QED
    BY <2>1, <2>2 DEF LoaderInv, SentUpTo, Uploading
<1>4. CASE sub!Leave
  <2>1. launched /\ launched' = FALSE /\ sent' = {} /\ UNCHANGED <<image, up>>
    BY <1>4 DEF sub!Leave
  <2>2. up.pc \notin Uploading /\ up \in Upload
    BY <2>1 DEF LoaderInv
  <2> QED
    BY <2>1, <2>2 DEF LoaderInv
<1> QED
  BY <1>1, <1>2, <1>3, <1>4, NoUpload DEF subVars

LEMMA LoaderInit == sub!Init => LoaderInv
<1> SUFFICES ASSUME sub!Init PROVE LoaderInv
  OBVIOUS
<1>1. up = sub!Loader!Idle /\ sent = {} /\ launched = FALSE
  BY DEF sub!Init, sub!Loader!Init
<1>2. up \in Upload /\ up.pc = "idle"
  BY <1>1 DEF sub!Loader!Idle, Upload
<1> QED
  BY <1>1, <1>2 DEF LoaderInv, Uploading

\* Every step of the two parts is one of the subdevices, or leaves them alone.
LEMMA SubPart == MCSpec => sub!Init /\ [][sub!Next]_subVars
<1>1. MCInit => sub!Init
  BY DEF MCInit
<1>2. [MCNext]_allVars => [sub!Next]_subVars
  BY DEF MCNext, allVars, subVars
<1> QED
  BY <1>1, <1>2, PTL DEF MCSpec

\* A firmware is launched only when every byte of the image was sent to its own address,
\* whatever transfers failed in this upload or in those before it, for any image, page
\* and chunk.
THEOREM FirmwareWhole == MCSpec => []LaunchedWhole
<1>1. sub!Init => LoaderInv
  BY LoaderInit
<1>2. LoaderInv /\ [sub!Next]_subVars => LoaderInv'
  BY LoaderStep
<1>3. LoaderInv => LaunchedWhole
  <2> SUFFICES ASSUME LoaderInv, launched, NEW a \in 0..image.size - 1
               PROVE  {b \in 0..image.bytes : <<a, b>> \in sent} = {a}
    BY DEF LaunchedWhole, sub!LaunchedWhole, sub!Loader!LaunchedWhole
  <2>1. image.size \in Nat /\ image.bytes \in Nat /\ image.size <= image.bytes
    BY LoaderAssumption DEF LoaderInv, sub!Loader!ImagesAssumption
  <2>2. a \in 0..image.bytes
    BY <2>1
  <2>3. <<a, a>> \in sent
    BY DEF LoaderInv, SentUpTo
  <2>4. ASSUME NEW b, <<a, b>> \in sent PROVE b = a
    BY <2>4 DEF LoaderInv
  <2> QED
    BY <2>2, <2>3, <2>4
<1> QED
  BY <1>1, <1>2, <1>3, SubPart, PTL

-----------------------------------------------------------------------------
UsbDevs == sub!UsbDevices
Nothing == [k \in sub!Kinds |-> sub!None]

\* The handle of u that the field of its kind holds, and the one that is open besides
Held(f, u) == IF f[Desc[u].kind] = u THEN 1 ELSE 0
Lit(led, u) == IF u = led THEN 1 ELSE 0

\* Of every device libusb has open the handle in its field, the one that lights the LED,
\* and those that were left.
Account(op, f, led, lost) ==
    /\ op \in [UsbDevs -> Int]
    /\ \A u \in UsbDevs :
         /\ op[u] - (Held(f, u) + Lit(led, u)) \in 0..MaxOpen
         /\ u \notin lost => op[u] - (Held(f, u) + Lit(led, u)) = 0

Steps == {"none", "open", "camera", "led", "reset", "lit", "claimCamera", "motor", "claimMotor",
          "audio", "claimAudio", "interfaces", "upload", "wait", "finish"}
Early == {"none", "camera"}
Cameras1 == {"led", "reset", "lit", "claimCamera", "motor"}

Opening == [pc : Steps, field : [sub!Kinds -> UsbDevs \cup {sub!None}], viaAudio : BOOLEAN,
            devs : Seq(UsbDevs), camera : UsbDevs \cup {sub!None}, flashing : sub!Audios \cup {sub!None},
            loops : 0..Loops, asked : {Desc[u].serial : u \in UsbDevs} \cup {sub!None}]

\* The audio device that lights the LED while it is open for it
Sibling(o) == sub!fnusb_find_sibling_device(o.devs, o.camera, "audio")
Lights == {"reset", "lit"}
Led(o) == IF o.pc \in Lights THEN Sibling(o) ELSE sub!None

\* Each field is set by its step, which finds it empty, to a device of its kind.
Fields(o) ==
    /\ \A k \in sub!Kinds : o.field[k] # sub!None => Desc[o.field[k]].kind = k
    /\ o.pc \in Early => o.field["camera"] = sub!None
    /\ o.pc \in Early \cup Cameras1 => o.field["motor"] = sub!None
    /\ o.pc \in Early \cup Cameras1 \cup {"claimMotor", "audio", "wait"}
         => o.field["audio"] = sub!None
    /\ o.pc \in {"claimAudio", "interfaces", "upload"} => o.field["audio"] # sub!None
    /\ o.pc = "camera" => o.camera # sub!None /\ Desc[o.camera].kind = "camera"

\* The inductive invariant of the opening of subdevices
HandlesInv ==
    /\ twoIfaces \subseteq sub!Audios
    /\ subEnabled \subseteq sub!Kinds
    /\ bus \in Seq(UsbDevs)
    /\ opening \in Opening
    /\ Fields(opening)
    /\ opening.pc \in Lights => Sibling(opening) # sub!None
    /\ Account(opened, opening.field, Led(opening), left)

LEMMA HoldsIs ==
    ASSUME HandlesInv, NEW u \in UsbDevs
    PROVE  sub!Holds(u) = Held(opening.field, u)
<1> DEFINE f == opening.field
           at == {k \in sub!Kinds : f[k] = u}
<1>1. Desc[u].kind \in sub!Kinds /\ u # sub!None
  BY SubdevicesAssumption DEF sub!DescAssumption, UsbDevs
<1>2. \A k \in sub!Kinds : f[k] = u => k = Desc[u].kind
  BY <1>1 DEF HandlesInv, Fields
<1>3. sub!Holds(u) = Cardinality(at)
  BY DEF sub!Holds, sub!Cardinality, Cardinality
<1>4. CASE f[Desc[u].kind] = u
  <2>1. at = {Desc[u].kind}
    BY <1>1, <1>2, <1>4
  <2> QED
    BY <1>3, <1>4, <2>1, FS_Singleton DEF Held
<1>5. CASE f[Desc[u].kind] # u
  <2>1. at = {}
    BY <1>1, <1>2, <1>5
  <2> QED
    BY <1>3, <1>5, <2>1, FS_EmptySet DEF Held
<1> QED
  BY <1>4, <1>5

LEMMA LeastPlace ==
    ASSUME NEW n \in Nat, NEW P \in SUBSET (1..n), P # {}
    PROVE  sub!Min(P) \in P
<1> DEFINE R == {ss \in Nat \X Nat : ss[1] < ss[2]}
<1>1. IsWellFoundedOn(R, Nat)
  BY NatLessThanWellFounded, Zenon DEF OpToRel
<1>2. P \subseteq Nat
  OBVIOUS
<1>3. PICK x \in P : \A y \in P : ~(<<y, x>> \in R)
  <2> HIDE DEF R
  <2> QED
    BY <1>1, <1>2, WFMin
<1>4. ASSUME NEW y \in P PROVE x <= y
  <2>1. x \in Nat /\ y \in Nat /\ <<y, x>> \notin R
    BY <1>2, <1>3
  <2>2. ~(y < x)
    <3> SUFFICES ASSUME y < x PROVE FALSE
      OBVIOUS
    <3>1. <<y, x>> \in Nat \X Nat /\ <<y, x>>[1] = y /\ <<y, x>>[2] = x
      BY <2>1
    <3> QED
      BY <2>1, <3>1
  <2> QED
    BY <2>1, <2>2
<1> QED
  BY <1>4 DEF sub!Min

LEMMA SiblingFound ==
    ASSUME NEW list \in Seq(UsbDevs), NEW cam, NEW k,
           NEW a, a = sub!fnusb_find_sibling_device(list, cam, k), a # sub!None
    PROVE  a \in UsbDevs /\ Desc[a].kind = k
<1>1. Len(list) \in Nat /\ \A n \in 1..Len(list) : list[n] \in UsbDevs
  OBVIOUS
<1>2. ASSUME NEW P \in SUBSET sub!Matching(list, k), P # {}
      PROVE  list[sub!Min(P)] \in UsbDevs /\ Desc[list[sub!Min(P)]].kind = k
  <2>1. P \in SUBSET (1..Len(list)) /\ \A n \in P : Desc[list[n]].kind = k
    BY DEF sub!Matching
  <2>2. sub!Min(P) \in P
    BY <1>1, <1>2, <2>1, LeastPlace
  <2> QED
    BY <1>1, <2>1, <2>2
<1>3. ASSUME NEW P \in SUBSET sub!Matching(list, k), sub!The(list, P) # sub!None
      PROVE  sub!The(list, P) \in UsbDevs /\ Desc[sub!The(list, P)].kind = k
  <2>1. (\E n \in P : P = {n}) /\ sub!The(list, P) = list[sub!Min(P)]
    BY <1>3 DEF sub!The
  <2> QED
    BY <1>2, <2>1
<1> DEFINE onBus == {n \in sub!Matching(list, k) : Desc[list[n]].bus = Desc[cam].bus}
           kin == {n \in onBus : Desc[list[n]].parent = Desc[cam].parent /\ Desc[cam].parent # sub!None}
<1>4. a = IF kin # {} THEN list[sub!Min(kin)]
          ELSE IF sub!The(list, onBus) # sub!None THEN sub!The(list, onBus)
          ELSE sub!The(list, sub!Matching(list, k))
  BY DEF sub!fnusb_find_sibling_device
<1>5. onBus \in SUBSET sub!Matching(list, k) /\ kin \in SUBSET sub!Matching(list, k)
  OBVIOUS
<1> HIDE DEF onBus, kin
<1> QED
  BY <1>2, <1>3, <1>4, <1>5

\* What is open besides the fields and the LED is the same, or is of a device that is left.
LEMMA AccountKept ==
    ASSUME NEW op, NEW f, NEW led, NEW lost, Account(op, f, led, lost),
           NEW op1 \in [UsbDevs -> Int], NEW f1, NEW led1,
           \A u \in UsbDevs : op1[u] - (Held(f1, u) + Lit(led1, u)) = op[u] - (Held(f, u) + Lit(led, u))
    PROVE  Account(op1, f1, led1, lost)
BY DEF Account

LEMMA AccountOpens ==
    ASSUME NEW op, NEW f \in [sub!Kinds -> UsbDevs \cup {sub!None}], NEW lost,
           Account(op, f, sub!None, lost),
           NEW u \in UsbDevs, NEW k \in sub!Kinds, Desc[u].kind = k, f[k] = sub!None
    PROVE  Account([op EXCEPT ![u] = @ + 1], [f EXCEPT ![k] = u], sub!None, lost)
<1> DEFINE op1 == [op EXCEPT ![u] = @ + 1]
           f1 == [f EXCEPT ![k] = u]
<1>1. sub!None \notin UsbDevs /\ \A v \in UsbDevs : Desc[v].kind \in sub!Kinds
  BY SubdevicesAssumption DEF sub!DescAssumption, UsbDevs
<1>2. op \in [UsbDevs -> Int] /\ op1 \in [UsbDevs -> Int]
  BY DEF Account
<1>3. ASSUME NEW v \in UsbDevs
      PROVE  op1[v] - (Held(f1, v) + Lit(sub!None, v)) = op[v] - (Held(f, v) + Lit(sub!None, v))
  <2>1. Lit(sub!None, v) = 0
    BY <1>1 DEF Lit
  <2>2. CASE v = u
    <3>1. Held(f, v) = 0 /\ Held(f1, v) = 1
      BY <1>1, <2>2 DEF Held
    <3>2. op1[v] = op[v] + 1 /\ op[v] \in Int
      BY <1>2, <2>2
    <3> QED
      BY <2>1, <3>1, <3>2
  <2>3. CASE v # u
    <3>1. Held(f1, v) = Held(f, v)
      BY <1>1, <2>3 DEF Held
    <3>2. op1[v] = op[v]
      BY <1>2, <2>3
    <3> QED
      BY <3>1, <3>2
  <2> QED
    BY <2>2, <2>3
<1> HIDE DEF op1, f1
<1>4. Account(op1, f1, sub!None, lost)
  BY <1>2, <1>3, AccountKept
<1> QED
  BY <1>4 DEF op1, f1

LEMMA HeldNothing ==
    ASSUME NEW f, NEW u \in UsbDevs, f[Desc[u].kind] = sub!None
    PROVE  Held(f, u) = 0
BY SubdevicesAssumption DEF sub!DescAssumption, UsbDevs, Held

LEMMA NothingHeld ==
    ASSUME NEW u \in UsbDevs
    PROVE  Held(Nothing, u) = 0 /\ Lit(sub!None, u) = 0
<1>1. Desc[u].kind \in sub!Kinds /\ u # sub!None
  BY SubdevicesAssumption DEF sub!DescAssumption, UsbDevs
<1> QED
  BY <1>1 DEF Held, Lit, Nothing

\* A step that neither opens nor closes a handle
LEMMA GoesStep ==
    ASSUME HandlesInv, NEW o \in Opening, Fields(o), opening' = o,
           o.field = opening.field, Led(o) = Led(opening),
           o.pc \in Lights => Sibling(o) # sub!None,
           UNCHANGED <<opened, left>>, twoIfaces' \subseteq sub!Audios,
           subEnabled' \subseteq sub!Kinds, bus' \in Seq(UsbDevs)
    PROVE  HandlesInv'
<1>1. Account(opened', o.field, Led(o), left')
  BY DEF HandlesInv
<1>2. Account(opened, opening.field, Led(opening), left)'
  BY <1>1
<1> QED
  BY <1>2 DEF HandlesInv

LEMMA FailureStep ==
    ASSUME HandlesInv, opening.pc \notin Lights, NEW res \in {0, -1}, sub!Failure(res),
           UNCHANGED <<twoIfaces, bus, left, subEnabled>>
    PROVE  HandlesInv'
<1> DEFINE f == opening.field
<1>1. opening' \in Opening /\ opening'.field = Nothing /\ opening'.pc \in {"none", "open"}
  <2>1. sub!NoDevice \in Opening /\ sub!NoDevice.field = Nothing /\ sub!NoDevice.pc = "none"
    <3>1. <<>> \in Seq(UsbDevs) /\ 0 \in 0..Loops
      BY SubdevicesAssumption DEF sub!LoopsAssumption
    <3> QED
      BY <3>1 DEF sub!NoDevice, Opening, Steps, Nothing
  <2>2. CASE opening' = sub!NoDevice
    BY <2>1, <2>2
  <2>3. CASE opening' = [opening EXCEPT !.pc = "open", !.field = sub!NoDevice.field]
    BY <2>1, <2>3 DEF HandlesInv, Opening, Steps
  <2> QED
    BY <2>2, <2>3 DEF sub!Failure
<1>2. Fields(opening') /\ Led(opening') = sub!None /\ opening'.pc \notin Lights
  BY <1>1 DEF Fields, Led, Lights, Nothing, Early, Cameras1, sub!Kinds
<1>3. Account(opened', Nothing, sub!None, left)
  <2>1. Account(opened, f, sub!None, left) /\ opened \in [UsbDevs -> Int]
    BY DEF HandlesInv, Led, Account
  <2>2. opened' = [u \in UsbDevs |-> opened[u] - Held(f, u)]
    BY HoldsIs DEF sub!Failure, UsbDevs
  <2>3. \A u \in UsbDevs : Held(f, u) \in Int
    BY DEF Held
  <2>4. opened' \in [UsbDevs -> Int]
    BY <2>1, <2>2, <2>3
  <2> HIDE DEF f
  <2>5. ASSUME NEW u \in UsbDevs
        PROVE  opened'[u] - (Held(Nothing, u) + Lit(sub!None, u))
                 = opened[u] - (Held(f, u) + Lit(sub!None, u))
    <3>1. opened'[u] = opened[u] - Held(f, u) /\ opened[u] \in Int
      BY <2>1, <2>2
    <3> QED
      BY <2>3, <3>1, NothingHeld
  <2> QED
    BY <2>1, <2>4, <2>5, AccountKept
<1>4. Account(opened', opening'.field, Led(opening'), left')
  BY <1>1, <1>2, <1>3
<1> QED
  BY <1>1, <1>2, <1>4 DEF HandlesInv

LEMMA OpensStep ==
    ASSUME HandlesInv, opening.pc \notin Lights, NEW u \in UsbDevs, NEW k \in sub!Kinds,
           Desc[u].kind = k, opening.field[k] = sub!None, NEW p \in Steps \ Lights,
           sub!Opens(k, u, p), Fields(opening'),
           UNCHANGED <<twoIfaces, bus, left>>, subEnabled' \subseteq sub!Kinds
    PROVE  HandlesInv'
<1> DEFINE f == opening.field
<1>1. opening' = [opening EXCEPT !.field = [f EXCEPT ![k] = u], !.pc = p]
  BY DEF sub!Opens, HandlesInv, Opening
<1>2. f \in [sub!Kinds -> UsbDevs \cup {sub!None}]
  BY DEF HandlesInv, Opening
<1>3. [f EXCEPT ![k] = u] \in [sub!Kinds -> UsbDevs \cup {sub!None}]
  BY <1>2
<1>4. opening' \in Opening /\ opening'.field = [f EXCEPT ![k] = u] /\ opening'.pc = p
  BY <1>1, <1>3 DEF HandlesInv, Opening
<1>5. Led(opening') = sub!None /\ opening'.pc \notin Lights
  BY <1>4 DEF Led
<1>6. Account(opened, f, sub!None, left)
  BY DEF HandlesInv, Led
<1> HIDE DEF f
<1>7. Account([opened EXCEPT ![u] = @ + 1], [f EXCEPT ![k] = u], sub!None, left)
  BY <1>2, <1>6, AccountOpens DEF f
<1>8. Account(opened', opening'.field, Led(opening'), left')
  BY <1>4, <1>5, <1>7 DEF sub!Opens
<1> QED
  BY <1>4, <1>5, <1>8 DEF HandlesInv

\* Going on to another step
LEMMA PcStep ==
    ASSUME HandlesInv, NEW p \in Steps \ Lights, opening.pc \notin Lights,
           opening' = [opening EXCEPT !.pc = p], Fields([opening EXCEPT !.pc = p]),
           UNCHANGED <<opened, left, twoIfaces, bus, subEnabled>>
    PROVE  HandlesInv'
<1> DEFINE o == [opening EXCEPT !.pc = p]
<1>1. o \in Opening /\ o.field = opening.field /\ o.pc = p
  BY DEF HandlesInv, Opening
<1>2. Led(o) = Led(opening) /\ o.pc \notin Lights
  BY <1>1 DEF Led
<1>3. twoIfaces' \subseteq sub!Audios /\ subEnabled' \subseteq sub!Kinds /\ bus' \in Seq(UsbDevs)
  BY DEF HandlesInv
<1> HIDE DEF o
<1> QED
  BY <1>1, <1>2, <1>3, GoesStep DEF o

LEMMA OpenIndexStep ==
    ASSUME HandlesInv, NEW i, NEW t \in {Desc[u].serial : u \in UsbDevs} \cup {sub!None},
           sub!OpenIndex(i, t)
    PROVE  HandlesInv'
<1>1. PICK n \in sub!Matching(bus, "camera") :
        opening' = [sub!NoDevice EXCEPT !.pc = IF "camera" \in subEnabled THEN "camera" ELSE "motor",
                                       !.devs = bus, !.camera = bus[n], !.asked = t]
  BY DEF sub!OpenIndex
<1>2. bus \in Seq(UsbDevs) /\ bus[n] \in UsbDevs /\ Desc[bus[n]].kind = "camera" /\ bus[n] # sub!None
  <2>1. bus \in Seq(UsbDevs) /\ n \in 1..Len(bus) /\ Desc[bus[n]].kind = "camera"
    BY DEF HandlesInv, sub!Matching
  <2>2. bus[n] \in UsbDevs
    BY <2>1
  <2> QED
    BY <2>1, <2>2, SubdevicesAssumption DEF sub!DescAssumption, UsbDevs
<1>3. opening.pc = "none" /\ UNCHANGED <<bus, twoIfaces, subEnabled, opened, left>>
  BY DEF sub!OpenIndex
<1>4. /\ opening' \in Opening /\ opening'.field = Nothing /\ opening'.pc \in {"camera", "motor"}
      /\ opening'.camera = bus[n]
  <2>1. 0 \in 0..Loops
    BY SubdevicesAssumption DEF sub!LoopsAssumption
  <2> QED
    BY <1>1, <1>2, <2>1 DEF sub!NoDevice, Opening, Steps, Nothing
<1>5. Fields(opening') /\ opening'.pc \notin Lights /\ Led(opening') = sub!None
  BY <1>2, <1>4 DEF Fields, Led, Lights, Nothing, Early, Cameras1, sub!Kinds
<1>6. Account(opened', Nothing, sub!None, left)
  <2>1. Account(opened, opening.field, sub!None, left) /\ opened \in [UsbDevs -> Int]
    BY <1>3 DEF HandlesInv, Led, Lights, Account
  <2>2. ASSUME NEW u \in UsbDevs
        PROVE  Held(opening.field, u) = 0
    <3>1. opening.field["camera"] = sub!None /\ opening.field["motor"] = sub!None
          /\ opening.field["audio"] = sub!None /\ Desc[u].kind \in {"camera", "motor", "audio"}
      BY <1>3, SubdevicesAssumption
      DEF HandlesInv, Fields, Early, sub!DescAssumption, sub!Kinds, UsbDevs
    <3> QED
      BY <3>1, HeldNothing
  <2>3. opened' = opened
    BY <1>3
  <2>4. \A u \in UsbDevs : opened'[u] - (Held(Nothing, u) + Lit(sub!None, u))
                         = opened[u] - (Held(opening.field, u) + Lit(sub!None, u))
    BY <2>2, <2>3, NothingHeld
  <2> QED
    BY <2>1, <2>3, <2>4, AccountKept
<1>7. Account(opened', opening'.field, Led(opening'), left')
  BY <1>3, <1>4, <1>5, <1>6
<1> QED
  BY <1>3, <1>4, <1>5, <1>7 DEF HandlesInv

LEMMA OpenCameraStep ==
    ASSUME HandlesInv, sub!OpenCamera
    PROVE  HandlesInv'
<1>1. opening.pc = "camera" /\ UNCHANGED <<bus, twoIfaces, left>>
  BY DEF sub!OpenCamera
<1>2. CASE sub!Failure(-1) /\ UNCHANGED subEnabled
  BY <1>1, <1>2, FailureStep DEF Lights
<1>3. CASE ~(sub!Failure(-1) /\ UNCHANGED subEnabled)
  <2> DEFINE p == IF sub!Newer(opening.camera) THEN "led" ELSE "claimCamera"
  <2>1. sub!Opens("camera", opening.camera, p) /\ subEnabled' \subseteq sub!Kinds
    BY <1>1, <1>3 DEF sub!OpenCamera, HandlesInv, sub!Kinds
  <2>2. /\ opening.camera \in UsbDevs /\ Desc[opening.camera].kind = "camera"
        /\ opening.field["camera"] = sub!None /\ opening.field["motor"] = sub!None
        /\ opening.field["audio"] = sub!None /\ "camera" \in sub!Kinds
        /\ opening.field \in [sub!Kinds -> UsbDevs \cup {sub!None}]
    BY <1>1 DEF HandlesInv, Fields, Opening, Early, sub!Kinds
  <2>3. p \in Steps \ Lights /\ p \in {"led", "claimCamera"}
    BY DEF Steps, Lights
  <2> HIDE DEF p
  <2>4. /\ opening'.pc = p /\ opening'.camera = opening.camera
        /\ opening'.field = [opening.field EXCEPT !["camera"] = opening.camera]
    BY <2>1 DEF sub!Opens, HandlesInv, Opening
  <2>5. Fields(opening')
    BY <2>2, <2>3, <2>4 DEF Fields, Early, Cameras1, sub!Kinds
  <2> QED
    BY <1>1, <2>1, <2>2, <2>3, <2>5, OpensStep DEF Lights
<1> QED
  BY <1>2, <1>3

LEMMA ClaimStep ==
    ASSUME HandlesInv, sub!Claim
    PROVE  HandlesInv'
<1>1. /\ opening.pc \in {"claimCamera", "claimMotor", "claimAudio"} /\ opening.pc \notin Lights
      /\ UNCHANGED <<bus, twoIfaces, subEnabled, left>>
  BY DEF sub!Claim, Lights
<1>2. CASE sub!Failure(-1)
  BY <1>1, <1>2, FailureStep
<1>3. ASSUME NEW p \in {"motor", "audio", "interfaces"},
             \/ opening.pc = "claimCamera" /\ p = "motor"
             \/ opening.pc = "claimMotor" /\ p = "audio"
             \/ opening.pc = "claimAudio" /\ p = "interfaces",
             sub!Goes(p)
      PROVE  HandlesInv'
  <2> DEFINE o == [opening EXCEPT !.pc = p]
  <2>1. o.pc = p /\ o.field = opening.field
    BY DEF HandlesInv, Opening
  <2>2. Fields(o)
    BY <1>3, <2>1 DEF HandlesInv, Fields, Early, Cameras1
  <2>3. p \in Steps \ Lights
    BY <1>3 DEF Steps, Lights
  <2> QED
    BY <1>1, <1>3, <2>2, <2>3, PcStep DEF sub!Goes
<1>4. CASE opening.pc = "claimCamera" /\ sub!Goes("motor")
  BY <1>3, <1>4
<1>5. CASE opening.pc = "claimMotor" /\ sub!Goes("audio")
  BY <1>3, <1>5
<1>6. CASE opening.pc = "claimAudio" /\ sub!Goes("interfaces")
  BY <1>3, <1>6
<1> QED
  BY <1>2, <1>4, <1>5, <1>6 DEF sub!Claim

LEMMA OpenSiblingStep ==
    ASSUME HandlesInv, NEW k, NEW c, NEW q,
           \/ k = "motor" /\ c = "claimMotor" /\ q = "audio"
           \/ k = "audio" /\ c = "claimAudio" /\ q = "finish",
           sub!OpenSibling(k, c, q)
    PROVE  HandlesInv'
<1> DEFINE u == sub!fnusb_find_sibling_device(opening.devs, opening.camera, k)
<1>1. opening.pc = k /\ k \notin Lights /\ UNCHANGED <<bus, twoIfaces, subEnabled, left>>
  BY DEF sub!OpenSibling, Lights
<1>2. CASE sub!Failure(-1)
  BY <1>1, <1>2, FailureStep
<1>3. CASE sub!Goes(q)
  <2> DEFINE o == [opening EXCEPT !.pc = q]
  <2>1. o.pc = q /\ o.field = opening.field
    BY DEF HandlesInv, Opening
  <2>2. Fields(o)
    BY <1>1, <2>1 DEF HandlesInv, Fields, Early, Cameras1
  <2>3. q \in Steps \ Lights
    BY DEF Steps, Lights
  <2> QED
    BY <1>1, <1>3, <2>2, <2>3, PcStep DEF sub!Goes
<1>4. CASE u # sub!None /\ sub!Opens(k, u, c)
  <2>1. u \in UsbDevs /\ Desc[u].kind = k
    <3>1. opening.devs \in Seq(UsbDevs)
      BY DEF HandlesInv, Opening
    <3> QED
      BY <1>4, <3>1, SiblingFound
  <2> HIDE DEF u
  <2>2. opening.field[k] = sub!None /\ k \in sub!Kinds
        /\ opening.field \in [sub!Kinds -> UsbDevs \cup {sub!None}]
    BY <1>1 DEF HandlesInv, Opening, Fields, Early, Cameras1, sub!Kinds
  <2>3. c \in Steps \ Lights
    BY DEF Steps, Lights
  <2>4. /\ opening'.pc = c /\ opening'.field = [opening.field EXCEPT ![k] = u]
    BY <1>4 DEF sub!Opens, HandlesInv, Opening
  <2>5. Fields(opening')
    <3>1. u # sub!None /\ \A j \in sub!Kinds : opening'.field[j] = IF j = k THEN u ELSE opening.field[j]
      BY <1>4, <2>2, <2>4
    <3>2. \A j \in sub!Kinds : opening'.field[j] # sub!None => Desc[opening'.field[j]].kind = j
      BY <2>1, <3>1 DEF HandlesInv, Fields
    <3>3. k = "motor" => opening'.field["audio"] = sub!None
      BY <1>1, <3>1 DEF HandlesInv, Fields, Early, Cameras1, sub!Kinds
    <3>4. k = "audio" => opening'.field["audio"] # sub!None
      BY <3>1 DEF sub!Kinds
    <3> QED
      BY <2>4, <3>2, <3>3, <3>4 DEF Fields, Early, Cameras1
  <2>6. subEnabled' \subseteq sub!Kinds
    BY <1>1 DEF HandlesInv
  <2> QED
    BY <1>1, <1>4, <2>1, <2>2, <2>3, <2>5, <2>6, OpensStep
<1> QED
  BY <1>2, <1>3, <1>4 DEF sub!OpenSibling

LEMMA InterfacesStep ==
    ASSUME HandlesInv, sub!Interfaces
    PROVE  HandlesInv'
<1> DEFINE a == opening.field["audio"]
<1>1. opening.pc = "interfaces" /\ UNCHANGED <<bus, twoIfaces, subEnabled, left>>
  BY DEF sub!Interfaces
<1>2. CASE sub!Failure(-1)
  BY <1>1, <1>2, FailureStep DEF Lights
<1>3. CASE ~sub!Failure(-1)
  <2>1. UNCHANGED opened /\ \/ opening' = [opening EXCEPT !.pc = "finish", !.viaAudio = sub!Does]
                            \/ opening' = [opening EXCEPT !.pc = "upload", !.flashing = a]
    BY <1>3 DEF sub!Interfaces
  <2>2. /\ sub!Does \in BOOLEAN /\ a \in sub!Audios \cup {sub!None}
        /\ {"finish", "upload"} \subseteq Steps
    BY DEF HandlesInv, Opening, Fields, Steps, sub!Audios, UsbDevs, sub!Kinds, sub!Does, sub!Newer
  <2>3. /\ opening' \in Opening /\ opening'.field = opening.field
        /\ opening'.pc \in {"finish", "upload"}
    BY <2>1, <2>2 DEF HandlesInv, Opening
  <2>4. Fields(opening')
    BY <1>1, <2>3 DEF HandlesInv, Fields, Early, Cameras1
  <2>5. opening'.pc \notin Lights /\ Led(opening') = Led(opening)
    BY <1>1, <2>3 DEF Lights, Led
  <2>6. twoIfaces' \subseteq sub!Audios /\ subEnabled' \subseteq sub!Kinds /\ bus' \in Seq(UsbDevs)
    BY <1>1 DEF HandlesInv
  <2> QED
    BY <1>1, <2>1, <2>3, <2>4, <2>5, <2>6, GoesStep
<1> QED
  BY <1>2, <1>3

\* The audio device is open for its LED in the steps "reset" and "lit", and not after them.
LEMMA LedStep ==
    ASSUME HandlesInv, sub!KeepAliveLed
    PROVE  HandlesInv'
<1> DEFINE a == Sibling(opening)
           f == opening.field
           none == sub!None
<1>1. UNCHANGED <<bus, twoIfaces, subEnabled, left>> /\ twoIfaces' \subseteq sub!Audios
      /\ subEnabled' \subseteq sub!Kinds /\ bus' \in Seq(UsbDevs)
  BY DEF sub!KeepAliveLed, HandlesInv
<1>2. /\ none \notin UsbDevs /\ (a # none => a \in UsbDevs) /\ opened \in [UsbDevs -> Int]
      /\ \A u \in UsbDevs : Held(f, u) \in Int /\ opened[u] \in Int
  <2>1. none \notin UsbDevs
    BY SubdevicesAssumption DEF sub!DescAssumption, UsbDevs
  <2>2. opening.devs \in Seq(UsbDevs)
    BY DEF HandlesInv, Opening
  <2> QED
    BY <2>1, <2>2, SiblingFound DEF Held, Sibling, HandlesInv, Account
<1>3. ASSUME NEW p \in {"claimCamera", "reset", "lit"}, opening' = [opening EXCEPT !.pc = p],
             opening.pc \in {"led", "reset", "lit"}
      PROVE  /\ opening' \in Opening /\ opening'.field = f /\ opening'.pc = p
             /\ Fields(opening') /\ Sibling(opening') = a
  <2>1. p \in Steps
    BY DEF Steps
  <2>2. /\ opening' \in Opening /\ opening'.field = f /\ opening'.pc = p
        /\ opening'.devs = opening.devs /\ opening'.camera = opening.camera
    BY <1>3, <2>1 DEF HandlesInv, Opening
  <2>3. Fields(opening')
    BY <1>3, <2>2 DEF HandlesInv, Fields, Early, Cameras1
  <2> QED
    BY <2>2, <2>3 DEF Sibling
<1>4. \A u \in UsbDevs : Lit(none, u) = 0 /\ Lit(a, u) = IF u = a THEN 1 ELSE 0
  BY <1>2 DEF Lit
<1> HIDE DEF f, none, a
<1>5. CASE opening.pc = "led" /\ sub!Goes("claimCamera")
  BY <1>1, <1>3, <1>5, GoesStep DEF sub!Goes, Led, Lights, f
<1>6. CASE /\ opening.pc = "led" /\ a # none
           /\ opening' = [opening EXCEPT !.pc = "reset"] /\ opened' = [opened EXCEPT ![a] = @ + 1]
  <2>1. Account(opened, f, none, left)
    BY <1>6 DEF HandlesInv, Led, Lights, f, none
  <2>2. opened' \in [UsbDevs -> Int]
    BY <1>2, <1>6
  <2>3. ASSUME NEW u \in UsbDevs
        PROVE  opened'[u] - (Held(f, u) + Lit(a, u)) = opened[u] - (Held(f, u) + Lit(none, u))
    <3>1. opened'[u] = IF u = a THEN opened[u] + 1 ELSE opened[u]
      BY <1>2, <1>6
    <3> QED
      BY <1>2, <1>4, <3>1
  <2>4. Account(opened', f, a, left)
    BY <2>1, <2>2, <2>3, AccountKept
  <2>5. Led(opening') = a /\ opening'.pc = "reset" /\ opening'.field = f /\ opening' \in Opening
        /\ Fields(opening') /\ Sibling(opening') = a
    BY <1>3, <1>6 DEF Led, Lights
  <2>6. Account(opened', opening'.field, Led(opening'), left')
    BY <1>1, <2>4, <2>5
  <2> QED
    BY <1>1, <1>6, <2>5, <2>6 DEF HandlesInv, none
<1>7. CASE opening.pc = "reset" /\ sub!Goes("lit")
  BY <1>1, <1>3, <1>7, GoesStep DEF sub!Goes, Led, Lights, f, a, HandlesInv
<1>8. CASE /\ opening.pc \in {"reset", "lit"}
           /\ opening' = [opening EXCEPT !.pc = "claimCamera"]
           /\ opened' = [opened EXCEPT ![a] = @ - 1]
  <2>1. Account(opened, f, a, left) /\ a # none
    BY <1>8 DEF HandlesInv, Led, Lights, f, a, none
  <2>2. opened' \in [UsbDevs -> Int]
    BY <1>2, <1>8, <2>1
  <2>3. ASSUME NEW u \in UsbDevs
        PROVE  opened'[u] - (Held(f, u) + Lit(none, u)) = opened[u] - (Held(f, u) + Lit(a, u))
    <3>1. opened'[u] = IF u = a THEN opened[u] - 1 ELSE opened[u]
      BY <1>2, <1>8
    <3> QED
      BY <1>2, <1>4, <3>1
  <2>4. Account(opened', f, none, left)
    BY <2>1, <2>2, <2>3, AccountKept
  <2>5. /\ Led(opening') = none /\ opening'.pc = "claimCamera" /\ opening'.field = f
        /\ opening' \in Opening /\ Fields(opening')
    BY <1>3, <1>8 DEF Led, Lights, none
  <2>6. Account(opened', opening'.field, Led(opening'), left')
    BY <1>1, <2>4, <2>5
  <2> QED
    BY <1>1, <2>5, <2>6 DEF HandlesInv, Lights
<1> QED
  <2>1. ASSUME opened' = [opened EXCEPT ![a] = @ + -1], opened \in [UsbDevs -> Int], a \in UsbDevs
        PROVE  opened' = [opened EXCEPT ![a] = @ - 1]
    <3>1. opened[a] + -1 = opened[a] - 1
      BY <2>1
    <3> QED
      BY <2>1, <3>1
  <2>2. opening.pc \in {"reset", "lit"} => a \in UsbDevs
    BY <1>2 DEF HandlesInv, Lights, none, a
  <2> QED
    BY <1>2, <1>5, <1>6, <1>7, <1>8, <2>1, <2>2 DEF sub!KeepAliveLed, Sibling, a, none

\* The bootloader is talked to; a successful upload closes the handle of the audio device.
LEMMA UploadStep ==
    ASSUME HandlesInv, sub!Upload \/ sub!UploadReturns
    PROVE  HandlesInv'
<1> DEFINE f == opening.field
           a == opening.field["audio"]
<1>1. UNCHANGED <<bus, twoIfaces, subEnabled, left>> /\ opening.pc = "upload"
  BY DEF sub!Upload, sub!UploadReturns
<1>2. CASE UNCHANGED <<opening, opened>>
  <2>1. Account(opened', opening'.field, Led(opening'), left')
    BY <1>1, <1>2 DEF HandlesInv
  <2> QED
    BY <1>1, <1>2, <2>1 DEF HandlesInv
<1>3. CASE sub!Failure(-1)
  BY <1>1, <1>3, FailureStep DEF Lights
<1>4. CASE /\ opening' = [opening EXCEPT !.pc = "wait", !.field = [f EXCEPT !["audio"] = sub!None]]
           /\ opened' = [opened EXCEPT ![a] = opened[a] - 1]
  <2> DEFINE f1 == [f EXCEPT !["audio"] = sub!None]
  <2>1. /\ a \in UsbDevs /\ Desc[a].kind = "audio" /\ sub!None \notin UsbDevs
        /\ f \in [sub!Kinds -> UsbDevs \cup {sub!None}] /\ opened \in [UsbDevs -> Int]
    BY <1>1, SubdevicesAssumption
    DEF HandlesInv, Opening, Fields, Account, sub!Kinds, sub!DescAssumption, UsbDevs
  <2>2. f1 \in [sub!Kinds -> UsbDevs \cup {sub!None}]
    BY <2>1
  <2>3. /\ opening' \in Opening /\ opening'.field = f1 /\ opening'.pc = "wait"
    <3> HIDE DEF f1
    <3> QED
      BY <1>4, <2>2 DEF HandlesInv, Opening, Steps, f1
  <2>4. /\ f1["audio"] = sub!None /\ f1["camera"] = f["camera"] /\ f1["motor"] = f["motor"]
        /\ \A k \in sub!Kinds : f1[k] = sub!None \/ f1[k] = f[k]
    BY <2>1 DEF sub!Kinds
  <2>5. Fields(opening')
    <3> HIDE DEF f1
    <3>1. \A k \in sub!Kinds : f1[k] # sub!None => Desc[f1[k]].kind = k
      BY <2>4 DEF HandlesInv, Fields
    <3> QED
      BY <2>3, <2>4, <3>1 DEF Fields, Early, Cameras1
  <2>6. opened' \in [UsbDevs -> Int]
    BY <1>4, <2>1
  <2>7. ASSUME NEW u \in UsbDevs
        PROVE  opened'[u] - (Held(f1, u) + Lit(sub!None, u)) = opened[u] - (Held(f, u) + Lit(sub!None, u))
    <3>1. Desc[u].kind \in sub!Kinds /\ opened[u] \in Int /\ Lit(sub!None, u) = 0
      BY <2>1, SubdevicesAssumption DEF sub!DescAssumption, UsbDevs, Lit
    <3>2. CASE u = a
      <4>1. Held(f, u) = 1 /\ Held(f1, u) = 0
        BY <2>1, <2>4, <3>2, HeldNothing DEF Held
      <4>2. opened'[u] = opened[u] - 1
        BY <1>4, <2>1, <3>2
      <4> QED
        BY <3>1, <4>1, <4>2
    <3>3. CASE u # a
      <4>1. Held(f1, u) = Held(f, u)
        <5>1. CASE Desc[u].kind = "audio"
          BY <2>1, <2>4, <3>3, <5>1 DEF Held
        <5>2. CASE Desc[u].kind # "audio"
          BY <2>1, <3>1, <5>2 DEF Held
        <5> QED
          BY <5>1, <5>2
      <4>2. opened'[u] = opened[u]
        BY <1>4, <2>1, <3>3
      <4> QED
        BY <4>1, <4>2
    <3> QED
      BY <3>2, <3>3
  <2>8. Account(opened, f, sub!None, left)
    BY <1>1 DEF HandlesInv, Led, Lights
  <2> HIDE DEF f, f1
  <2>9. Account(opened', f1, sub!None, left)
    BY <2>6, <2>7, <2>8, AccountKept
  <2>10. Led(opening') = sub!None /\ opening'.pc \notin Lights
    BY <2>3 DEF Led, Lights
  <2>11. Account(opened', opening'.field, Led(opening'), left')
    BY <1>1, <2>3, <2>9, <2>10
  <2> QED
    BY <1>1, <2>3, <2>5, <2>10, <2>11 DEF HandlesInv
<1> QED
  <2>1. sub!Upload => UNCHANGED <<opening, opened>>
    BY DEF sub!Upload
  <2>2. ASSUME opening' = [opening EXCEPT !.pc = "wait", !.field["audio"] = sub!None]
        PROVE  opening' = [opening EXCEPT !.pc = "wait", !.field = [f EXCEPT !["audio"] = sub!None]]
    BY <2>2 DEF HandlesInv, Opening
  <2> QED
    BY <1>2, <1>3, <1>4, <2>1, <2>2 DEF sub!UploadReturns

\* A look through the bus leaves open the devices it met with another serial.
LEMMA LookStep ==
    ASSUME HandlesInv, NEW duds, sub!LookAgain(duds)
    PROVE  HandlesInv'
<1> DEFINE audios  == {n \in sub!Matching(bus, "audio") : bus[n] \notin duds}
           ours(n) == Desc[bus[n]].serial = Desc[opening.flashing].serial
           hits    == {n \in audios : ours(n) /\ bus[n] \in twoIfaces}
           others  == {bus[n] : n \in {m \in audios : ~ours(m) /\ (hits = {} \/ m < sub!Min(hits))}}
           dropped == [u \in UsbDevs |-> opened[u] + (IF u \in others THEN 1 ELSE 0)]
           hit == bus[sub!Min(hits)]
           f == opening.field
           none == sub!None
<1>1. /\ opening.pc = "wait" /\ opening.loops < Loops /\ left' = left \cup others
      /\ \A u \in UsbDevs : dropped[u] <= MaxOpen
      /\ UNCHANGED <<bus, twoIfaces, subEnabled>>
      /\ IF hits # {}
         THEN /\ opening' = [opening EXCEPT !.field["audio"] = hit, !.viaAudio = sub!Does, !.pc = "finish"]
              /\ opened' = [dropped EXCEPT ![hit] = @ + 1]
         ELSE opening' = [opening EXCEPT !.loops = @ + 1] /\ opened' = dropped
  BY DEF sub!LookAgain, UsbDevs
<1>2. hits # {} => hit \in UsbDevs /\ Desc[hit].kind = "audio"
  <2> SUFFICES ASSUME hits # {} PROVE hit \in UsbDevs /\ Desc[hit].kind = "audio"
    OBVIOUS
  <2>1. bus \in Seq(UsbDevs) /\ Len(bus) \in Nat /\ hits \in SUBSET (1..Len(bus))
    BY DEF HandlesInv, sub!Matching
  <2>2. \A n \in hits : Desc[bus[n]].kind = "audio"
    BY DEF sub!Matching
  <2> HIDE DEF hits
  <2>3. sub!Min(hits) \in hits
    BY <2>1, LeastPlace
  <2>4. sub!Min(hits) \in 1..Len(bus)
    BY <2>1, <2>3
  <2>5. bus[sub!Min(hits)] \in UsbDevs
    BY <2>1, <2>4
  <2> QED
    BY <2>2, <2>3, <2>5
<1>3. /\ none \notin UsbDevs /\ opened \in [UsbDevs -> Int] /\ Account(opened, f, none, left)
      /\ f \in [sub!Kinds -> UsbDevs \cup {none}] /\ f["audio"] = none /\ opening.loops \in 0..Loops
      /\ MaxOpen \in Nat /\ Loops \in Nat /\ "audio" \in sub!Kinds
  BY <1>1, SubdevicesAssumption
  DEF HandlesInv, Opening, Fields, Account, sub!Kinds, sub!DescAssumption, sub!LoopsAssumption,
      UsbDevs, Led, Lights
<1> HIDE DEF audios, hits, others, hit, f, none
<1>4. Account(dropped, f, none, left')
  <2>1. dropped \in [UsbDevs -> Int]
    BY <1>3
  <2>2. ASSUME NEW u \in UsbDevs
        PROVE  /\ dropped[u] - (Held(f, u) + Lit(none, u)) \in 0..MaxOpen
               /\ u \notin left' => dropped[u] - (Held(f, u) + Lit(none, u)) = 0
    <3>1. /\ Held(f, u) \in {0, 1} /\ Lit(none, u) = 0 /\ opened[u] \in Int
          /\ opened[u] - (Held(f, u) + Lit(none, u)) \in 0..MaxOpen
          /\ u \notin left => opened[u] - (Held(f, u) + Lit(none, u)) = 0
      BY <1>3 DEF Account, Held, Lit
    <3>2. CASE u \in others
      <4>1. dropped[u] = opened[u] + 1 /\ dropped[u] <= MaxOpen /\ u \in left'
        BY <1>1, <3>2
      <4> HIDE DEF dropped
      <4> QED
        BY <1>3, <3>1, <4>1
    <3>3. CASE u \notin others
      <4>1. dropped[u] = opened[u] /\ (u \notin left' => u \notin left)
        BY <1>1, <3>1, <3>3
      <4> HIDE DEF dropped
      <4> QED
        BY <3>1, <4>1
    <3> QED
      BY <3>2, <3>3
  <2> QED
    BY <2>1, <2>2 DEF Account
<1> HIDE DEF dropped
<1>5. twoIfaces' \subseteq sub!Audios /\ subEnabled' \subseteq sub!Kinds /\ bus' \in Seq(UsbDevs)
  BY <1>1 DEF HandlesInv
<1>6. CASE hits = {}
  <2> DEFINE n == opening.loops + 1
  <2>1. n \in 0..Loops
    BY <1>1, <1>3
  <2>2. opening' = [opening EXCEPT !.loops = n] /\ opened' = dropped
    BY <1>1, <1>6
  <2> HIDE DEF n
  <2>3. opening' \in Opening /\ opening'.field = f /\ opening'.pc = "wait"
    BY <1>1, <2>1, <2>2 DEF HandlesInv, Opening, f
  <2>4. Fields(opening') /\ Led(opening') = none /\ opening'.pc \notin Lights
    BY <1>1, <2>3 DEF HandlesInv, Fields, Early, Cameras1, Led, Lights, f, none
  <2>5. Account(opened', opening'.field, Led(opening'), left')
    BY <1>4, <2>2, <2>3, <2>4
  <2> QED
    BY <1>5, <2>3, <2>4, <2>5 DEF HandlesInv
<1>7. CASE hits # {}
  <2> DEFINE f1 == [f EXCEPT !["audio"] = hit]
  <2>1. opening' = [opening EXCEPT !.field = f1, !.viaAudio = sub!Does, !.pc = "finish"]
    BY <1>1, <1>7 DEF HandlesInv, Opening, f
  <2>2. f1 \in [sub!Kinds -> UsbDevs \cup {none}] /\ sub!Does \in BOOLEAN
    BY <1>2, <1>3, <1>7 DEF sub!Does, sub!Newer
  <2>3. /\ \A k \in sub!Kinds : f1[k] # none => Desc[f1[k]].kind = k
    <3>1. \A k \in sub!Kinds : f1[k] = IF k = "audio" THEN hit ELSE f[k]
      BY <1>3
    <3>2. \A k \in sub!Kinds : f[k] # none => Desc[f[k]].kind = k
      BY DEF HandlesInv, Fields, f, none
    <3> HIDE DEF f1
    <3> QED
      BY <1>2, <1>7, <3>1, <3>2
  <2> HIDE DEF f1
  <2>4. opening' \in Opening /\ opening'.field = f1 /\ opening'.pc = "finish"
    BY <2>1, <2>2 DEF HandlesInv, Opening, Steps, none
  <2>5. Fields(opening') /\ Led(opening') = none /\ opening'.pc \notin Lights
    BY <2>3, <2>4 DEF Fields, Early, Cameras1, Led, Lights, none
  <2>6. Account([dropped EXCEPT ![hit] = @ + 1], f1, none, left')
    BY <1>2, <1>3, <1>4, <1>7, AccountOpens DEF f1, none
  <2>7. Account(opened', opening'.field, Led(opening'), left')
    BY <1>1, <1>7, <2>4, <2>5, <2>6
  <2> QED
    BY <1>5, <2>4, <2>5, <2>7 DEF HandlesInv
<1> QED
  BY <1>6, <1>7

LEMMA FinishStep ==
    ASSUME HandlesInv, sub!Finish \/ sub!freenect_close_device
    PROVE  HandlesInv'
<1>1. /\ opening.pc \in {"finish", "wait", "open"} /\ opening.pc \notin Lights
      /\ UNCHANGED <<bus, twoIfaces, subEnabled, left>>
  BY DEF sub!Finish, sub!Ends, sub!freenect_close_device, Lights
<1>2. ASSUME NEW res \in {0, -1}, sub!Failure(res) PROVE HandlesInv'
  BY <1>1, <1>2, FailureStep
<1>3. CASE sub!Goes("open")
  <2> DEFINE o == [opening EXCEPT !.pc = "open"]
  <2>1. o.pc = "open" /\ o.field = opening.field
    BY DEF HandlesInv, Opening
  <2>2. Fields(o)
    BY <1>1, <2>1 DEF HandlesInv, Fields, Early, Cameras1
  <2>3. "open" \in Steps \ Lights
    BY DEF Steps, Lights
  <2> QED
    BY <1>1, <1>3, <2>2, <2>3, PcStep DEF sub!Goes
<1> QED
  BY <1>2, <1>3 DEF sub!Finish, sub!freenect_close_device

\* What happens on the bus, and the choice of subdevices, touch no handle.
LEMMA BusStep ==
    ASSUME HandlesInv,
           \/ \E flags \in SUBSET sub!Kinds : sub!freenect_select_subdevices(flags)
           \/ sub!Leave \/ \E u \in UsbDevs : sub!Return(u)
           \/ UNCHANGED subVars
    PROVE  HandlesInv'
<1>1. UNCHANGED <<opening, opened, left>>
  BY DEF sub!freenect_select_subdevices, sub!Leave, sub!Return, subVars
<1>2. subEnabled' \subseteq sub!Kinds
  BY DEF HandlesInv, sub!freenect_select_subdevices, sub!Leave, sub!Return, subVars
<1>3. bus' \in Seq(UsbDevs) /\ twoIfaces' \subseteq sub!Audios
  <2>1. CASE UNCHANGED <<bus, twoIfaces>>
    BY <2>1 DEF HandlesInv
  <2>2. ASSUME NEW u \in UsbDevs, sub!Return(u)
        PROVE  bus' \in Seq(UsbDevs) /\ twoIfaces' \subseteq sub!Audios
    BY <2>2 DEF sub!Return, HandlesInv
  <2>3. CASE sub!Leave
    <3>1. PICK n \in 1..Len(bus) : bus[n] = opening.flashing /\ bus' = sub!RemoveAt(bus, n)
      BY <2>3 DEF sub!Leave
    <3>2. bus' = RemoveAt(bus, n)
      BY <3>1 DEF sub!RemoveAt, RemoveAt
    <3>3. bus \in Seq(UsbDevs) /\ opening.flashing \in sub!Audios
      <4>1. bus \in Seq(UsbDevs) /\ bus[n] \in UsbDevs
        BY DEF HandlesInv
      <4>2. bus[n] # sub!None
        BY <4>1, SubdevicesAssumption DEF sub!DescAssumption, UsbDevs
      <4> QED
        BY <3>1, <4>1, <4>2 DEF HandlesInv, Opening
    <3>4. bus' \in Seq(UsbDevs)
      BY <3>2, <3>3, Unlinked
    <3> QED
      BY <2>3, <3>3, <3>4 DEF sub!Leave, HandlesInv
  <2> QED
    BY <2>1, <2>2, <2>3 DEF sub!freenect_select_subdevices, subVars
<1>4. Account(opened', opening'.field, Led(opening'), left')
  BY <1>1 DEF HandlesInv
<1> QED
  BY <1>1, <1>2, <1>3, <1>4 DEF HandlesInv

LEMMA HandlesInit == sub!Init => HandlesInv
<1> SUFFICES ASSUME sub!Init PROVE HandlesInv
  OBVIOUS
<1>1. bus \in Seq(UsbDevs) /\ twoIfaces \subseteq sub!Audios /\ subEnabled \subseteq sub!Kinds
  <2>1. twoIfaces \in SUBSET {u \in UsbDevs : Desc[u].kind = "audio"}
    BY DEF sub!Init, UsbDevs
  <2> QED
    BY <2>1, SubdevicesAssumption
    DEF sub!Init, sub!DescAssumption, sub!Audios, sub!Kinds, UsbDevs
<1>2. /\ opening \in Opening /\ opening.field = Nothing /\ opening.pc = "none"
  <2>1. <<>> \in Seq(UsbDevs) /\ 0 \in 0..Loops
    BY SubdevicesAssumption DEF sub!LoopsAssumption
  <2> QED
    BY <2>1 DEF sub!Init, sub!NoDevice, Opening, Steps, Nothing
<1>3. Fields(opening) /\ Led(opening) = sub!None /\ opening.pc \notin Lights
  BY <1>2 DEF Fields, Led, Lights, Nothing, Early, Cameras1, sub!Kinds
<1>4. Account(opened, Nothing, sub!None, left)
  <2>1. opened = [u \in UsbDevs |-> 0]
    BY DEF sub!Init, UsbDevs
  <2>2. MaxOpen \in Nat
    BY SubdevicesAssumption DEF sub!LoopsAssumption
  <2>3. \A u \in UsbDevs : opened[u] - (Held(Nothing, u) + Lit(sub!None, u)) = 0
    BY <2>1, NothingHeld
  <2> QED
    BY <2>1, <2>2, <2>3 DEF Account
<1>5. Account(opened, opening.field, Led(opening), left)
  BY <1>2, <1>3, <1>4
<1> QED
  BY <1>1, <1>2, <1>3, <1>5 DEF HandlesInv

LEMMA HandlesStep == HandlesInv /\ [sub!Next]_subVars => HandlesInv'
<1> SUFFICES ASSUME HandlesInv, [sub!Next]_subVars PROVE HandlesInv'
  OBVIOUS
<1>1. ASSUME NEW i, NEW t \in {Desc[u].serial : u \in UsbDevs} \cup {sub!None}, sub!OpenIndex(i, t)
      PROVE  HandlesInv'
  BY <1>1, OpenIndexStep
<1>2. ASSUME NEW t \in {Desc[u].serial : u \in UsbDevs}, NEW unreadable,
             sub!freenect_open_device_by_camera_serial(t, unreadable)
      PROVE  HandlesInv'
  <2>1. \E i : sub!OpenIndex(i, t)
    BY <1>2 DEF sub!freenect_open_device_by_camera_serial
  <2> QED
    BY <1>1, <2>1
<1>3. CASE sub!OpenCamera \/ sub!KeepAliveLed \/ sub!Claim \/ sub!Interfaces
           \/ sub!Upload \/ sub!UploadReturns \/ sub!Finish \/ sub!freenect_close_device
  BY <1>3, OpenCameraStep, LedStep, ClaimStep, InterfacesStep, UploadStep, FinishStep
<1>4. CASE sub!OpenSibling("motor", "claimMotor", "audio") \/ sub!OpenSibling("audio", "claimAudio", "finish")
  BY <1>4, OpenSiblingStep
<1>5. ASSUME NEW duds, sub!LookAgain(duds) PROVE HandlesInv'
  BY <1>5, LookStep
<1>6. CASE \/ \E flags \in SUBSET sub!Kinds : sub!freenect_select_subdevices(flags)
           \/ sub!Leave \/ \E u \in UsbDevs : sub!Return(u)
           \/ UNCHANGED subVars
  BY <1>6, BusStep
<1> QED
  BY <1>1, <1>2, <1>3, <1>4, <1>5, <1>6 DEF sub!Next, UsbDevs

\* Between calls every handle that libusb opened is held by the device structure, whatever
\* failed on the way, for any buses and devices; only handles of audio devices that told
\* another serial are left open.
THEOREM HandlesAreAccounted == MCSpec => []HandlesAccounted
<1>1. sub!Init => HandlesInv
  BY HandlesInit
<1>2. HandlesInv /\ [sub!Next]_subVars => HandlesInv'
  BY HandlesStep
<1>3. HandlesInv => HandlesAccounted
  <2> SUFFICES ASSUME HandlesInv PROVE sub!TypeOK /\ sub!HandlesAccounted
    BY DEF HandlesAccounted
  <2>1. Account(opened, opening.field, Led(opening), left) /\ MaxOpen \in Nat
    BY SubdevicesAssumption DEF HandlesInv, sub!LoopsAssumption
  <2>2. ASSUME NEW u \in UsbDevs
        PROVE  Held(opening.field, u) + Lit(Led(opening), u) \in {0, 1}
    <3>1. CASE opening.pc \in Lights
      <4>1. opening.field["audio"] = sub!None /\ Led(opening) # sub!None
            /\ Led(opening) = Sibling(opening)
        BY <3>1 DEF HandlesInv, Fields, Early, Cameras1, Led, Lights
      <4>2. Desc[Led(opening)].kind = "audio"
        <5>1. opening.devs \in Seq(UsbDevs)
          BY DEF HandlesInv, Opening
        <5> QED
          BY <4>1, <5>1, SiblingFound DEF Sibling
      <4>3. u = Led(opening) => Held(opening.field, u) = 0
        BY <4>1, <4>2, HeldNothing
      <4>4. Held(opening.field, u) \in {0, 1}
        BY DEF Held
      <4> QED
        BY <4>3, <4>4 DEF Lit
    <3>2. CASE opening.pc \notin Lights
      <4>1. Lit(Led(opening), u) = 0 /\ Held(opening.field, u) \in {0, 1}
        BY <3>2, NothingHeld DEF Led, Held
      <4> QED
        BY <4>1
    <3> QED
      BY <3>1, <3>2
  <2>3. sub!TypeOK
    <3>1. opened \in [UsbDevs -> 0..MaxOpen + 1]
      <4>1. ASSUME NEW u \in UsbDevs PROVE opened[u] \in 0..MaxOpen + 1
        <5> DEFINE h == Held(opening.field, u) + Lit(Led(opening), u)
        <5>1. opened[u] \in Int /\ opened[u] - h \in 0..MaxOpen /\ h \in {0, 1}
          BY <2>1, <2>2 DEF Account
        <5> HIDE DEF h
        <5> QED
          BY <2>1, <5>1
      <4> QED
        BY <2>1, <4>1 DEF Account
    <3> QED
      BY <3>1 DEF sub!TypeOK, HandlesInv, Opening, UsbDevs
  <2>4. sub!HandlesAccounted
    <3> SUFFICES ASSUME opening.pc \in {"none", "open"}, NEW u \in UsbDevs \ left
                 PROVE  opened[u] = Held(opening.field, u)
      BY HoldsIs DEF sub!HandlesAccounted, UsbDevs
    <3> DEFINE h == Held(opening.field, u)
    <3>1. opened[u] \in Int /\ opened[u] - (h + 0) = 0 /\ h \in {0, 1}
      <4>1. Lit(Led(opening), u) = 0
        BY NothingHeld DEF Led, Lights
      <4>2. opened[u] - (h + Lit(Led(opening), u)) = 0 /\ opened[u] \in Int /\ h \in {0, 1}
        BY <2>1 DEF Account, Held
      <4> HIDE DEF h
      <4> QED
        BY <4>1, <4>2
    <3> HIDE DEF h
    <3>2. opened[u] = h
      BY <3>1
    <3> QED
      BY <3>2 DEF h
  <2> QED
    BY <2>3, <2>4
<1> QED
  BY <1>1, <1>2, <1>3, SubPart, PTL

\* A device is handed out with every subdevice that is enabled or with none at all.
THEOREM SubdevicesAllOrNone == MCSpec => AllOrNone
<1> DEFINE A == opening.pc # "open" /\ opening'.pc = "open" =>
                  sub!AllOpen(opening'.field) \/ opening'.field = sub!NoDevice.field
<1>1. sub!Init => HandlesInv
  BY HandlesInit
<1>2. HandlesInv /\ [sub!Next]_subVars => HandlesInv'
  BY HandlesStep
<1>3. HandlesInv /\ [sub!Next]_subVars => [A]_(sub!vars)
  <2> SUFFICES ASSUME HandlesInv, [sub!Next]_subVars, opening.pc # "open", opening'.pc = "open"
               PROVE  sub!AllOpen(opening'.field) \/ opening'.field = sub!NoDevice.field
    OBVIOUS
  <2>1. opening \in Opening
    BY DEF HandlesInv
  <2>2. ASSUME NEW res, sub!Failure(res) PROVE opening'.field = sub!NoDevice.field
    BY <2>1, <2>2 DEF sub!Failure, Opening
  <2>3. CASE sub!Finish
    <3>1. CASE sub!AllOpen(opening.field) /\ sub!Goes("open")
      <4>1. opening'.field = opening.field
        BY <2>1, <3>1 DEF sub!Goes, Opening
      <4> QED
        BY <3>1, <4>1
    <3> QED
      BY <2>2, <2>3, <3>1 DEF sub!Finish
  <2>4. CASE UNCHANGED opening
    BY <2>4
  <2>5. CASE \E p : p # "open" /\ opening'.pc = p
    BY <2>5
  <2>6. ASSUME NEW p, sub!Goes(p) PROVE opening'.pc = p
    BY <2>1, <2>6 DEF sub!Goes, Opening
  <2>7. ASSUME NEW p, NEW u, NEW k, sub!Opens(k, u, p) PROVE opening'.pc = p
    BY <2>1, <2>7 DEF sub!Opens, Opening
  <2>8. sub!OpenCamera => \/ \E p : p # "open" /\ opening'.pc = p
                          \/ opening'.field = sub!NoDevice.field
    BY <2>2, <2>7 DEF sub!OpenCamera
  <2>9. ASSUME NEW i, NEW t, sub!OpenIndex(i, t) PROVE opening'.pc # "open"
    BY <2>9 DEF sub!OpenIndex, sub!NoDevice
  <2>10. sub!KeepAliveLed => opening'.pc # "open"
    BY <2>1, <2>6 DEF sub!KeepAliveLed, Opening
  <2>11. sub!Claim => opening'.pc # "open" \/ opening'.field = sub!NoDevice.field
    BY <2>2, <2>6 DEF sub!Claim
  <2>12. ASSUME NEW k, NEW c \in {"claimMotor", "claimAudio"}, NEW q \in {"audio", "finish"},
                sub!OpenSibling(k, c, q)
         PROVE  opening'.pc # "open" \/ opening'.field = sub!NoDevice.field
    BY <2>2, <2>6, <2>7, <2>12 DEF sub!OpenSibling
  <2>13. sub!Interfaces => opening'.pc # "open" \/ opening'.field = sub!NoDevice.field
    BY <2>1, <2>2 DEF sub!Interfaces, Opening
  <2>14. sub!UploadReturns => opening'.pc # "open" \/ opening'.field = sub!NoDevice.field
    BY <2>1, <2>2 DEF sub!UploadReturns, Opening
  <2>15. ASSUME NEW duds, sub!LookAgain(duds) PROVE opening'.pc # "open"
    <3>1. opening.pc = "wait" /\ \/ \E a : opening' = [opening EXCEPT !.field["audio"] = a,
                                                 !.viaAudio = sub!Does, !.pc = "finish"]
                                 \/ \E n : opening' = [opening EXCEPT !.loops = n]
      BY <2>15 DEF sub!LookAgain
    <3> QED
      BY <2>1, <3>1 DEF Opening
  <2>16. sub!Upload \/ sub!Leave \/ (\E u : sub!Return(u))
         \/ (\E g : sub!freenect_select_subdevices(g)) \/ UNCHANGED subVars => UNCHANGED opening
    BY DEF sub!Upload, sub!Leave, sub!Return, sub!freenect_select_subdevices, subVars
  <2>17. ASSUME NEW t, NEW x, sub!freenect_open_device_by_camera_serial(t, x) PROVE opening'.pc # "open"
    BY <2>9, <2>17 DEF sub!freenect_open_device_by_camera_serial
  <2>18. sub!freenect_close_device => FALSE
    BY DEF sub!freenect_close_device
  <2> QED
    BY <2>3, <2>4, <2>8, <2>9, <2>10, <2>11, <2>12, <2>13, <2>14, <2>15, <2>16, <2>17, <2>18
    DEF sub!Next
<1>4. sub!Init /\ [][sub!Next]_subVars => [][A]_(sub!vars)
  BY <1>1, <1>2, <1>3, PTL
<1> QED
  BY <1>4, SubPart, PTL DEF AllOrNone, sub!AllOrNone
=============================================================================
