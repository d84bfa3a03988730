---------------------------- MODULE Clients_proofs ---------------------------
(***************************************************************************)
(* Proofs about MCClients: about OpenNIDriver on CxxWrapper for any bus,   *)
(* any number of openings and any clock, about Motor for any Kinects,      *)
(* about Fakenect for any readings and recordings of any length, and about *)
(* CameraCommand for registers of any width and any flags.                 *)
(***************************************************************************)
EXTENDS MCClients, SequenceTheorems, FiniteSetTheorems, TLAPS

Shutting == app = InShutdown \/ (app.pc = "~Device" /\ app.then = InShutdown)

NewStreams == [made : {TRUE}, running : BOOLEAN, registration : BOOLEAN, prev : Nat, last : Nat]
StreamStates == {NoStream} \cup NewStreams
Streams == [Kinds -> StreamStates]
Names == {"11BIT", "MM", "REGISTERED", "RGB"}
Devices ==
    [index : Indexes, dead : BOOLEAN, running : [Kinds -> BOOLEAN],
     format : [Kinds -> Names], m_format : [Kinds -> Names]]

Shape ==
    /\ dev \in Seq(Devices) /\ Len(dev) <= MaxOpens
    /\ stream \in Seq(Streams) /\ Len(stream) = Len(dev)
    /\ m_devices \in [Indexes -> Ids \cup {None}]
    /\ devices \in [Indexes -> Ids \cup {None, Absent}]
    /\ loop \in [pc : {"events", "walk", "lost", "ended"}, at : Ids \cup {None}, res : {-1, 0}]
    /\ time \in 0..MaxTime

\* No device is in the context's list twice.
Listed ==
    /\ ctx \in Seq(Ids)
    /\ Open \subseteq 1..Len(dev)
    /\ \A p, q \in 1..Len(ctx) : ctx[p] = ctx[q] => p = q

\* Where the application can be: the devices it is at the middle of are there.
Somewhere ==
    \/ app = Idle \/ app = InShutdown
    \/ \E d \in 1..Len(dev) : app = [pc |-> "close", d |-> d]
    \/ \E i \in Indexes : app = [pc |-> "try", i |-> i]
    \/ \E d \in 1..Len(dev), then \in {Idle, InShutdown} : app = Deleting(d, then)
    \/ \E d \in 1..Len(dev), k \in Kinds : \/ app = [pc |-> "new", d |-> d, k |-> k]
                                           \/ app = [pc |-> "delete", d |-> d, k |-> k]

\* Every open device is in the wrapper's map, but the one that is only listed; the driver's
\* map may have forgotten the one that is being deleted.
Reachable ==
    /\ \A i \in Indexes : m_devices[i] # None =>
          m_devices[i] \in Open /\ dev[m_devices[i]].index = i
    /\ \A d \in Open : m_devices[dev[d].index] = d \/ (app.pc = "close" /\ app.d = d)
    /\ \A i \in Indexes :
          /\ devices[i] = Absent => m_devices[i] = None
          /\ devices[i] \in Ids => devices[i] = m_devices[i] \/ Shutting
          /\ devices[i] = None =>
               m_devices[i] = None \/ (app.pc = "~Device" /\ app.then = Idle /\ m_devices[i] = app.d)
    /\ app.pc = "close" => app.d \in Open /\ m_devices[dev[app.d].index] = None
    /\ app.pc = "try" => devices[app.i] \in Ids
    /\ app.pc = "~Device" =>
          /\ app.d \in Open /\ m_devices[dev[app.d].index] = app.d
          /\ app.then = Idle => devices[dev[app.d].index] = None

\* The formats are the cameras', and a depth stream reports the mode of its format.
Formats ==
    /\ \A d \in 1..Len(dev) :
         /\ dev[d].m_format = dev[d].format
         /\ Made(d, "depth") =>
              (stream[d]["depth"].registration <=> dev[d].format["depth"] = "REGISTERED")
    /\ app.pc = "new" /\ app.k = "depth" => dev[app.d].format["depth"] # "REGISTERED"

\* A camera runs with no stream made for it only while the stream is constructed.
Targets ==
    \A d \in 1..Len(dev), k \in Kinds :
      dev[d].running[k] /\ ~Made(d, k) => app = [pc |-> "new", d |-> d, k |-> k]

\* The extended time is the camera's, by whole rounds of the clock.
Clocks ==
    \A d \in 1..Len(dev), k \in Kinds :
      Made(d, k) => /\ stream[d][k].prev % Wrap = stream[d][k].last % Wrap
                    /\ stream[d][k].last <= time

-----------------------------------------------------------------------------
LEMMA DivMod ==
    ASSUME NEW m \in Nat \ {0}, NEW a \in Int
    PROVE  /\ a % m \in 0..(m - 1) /\ a \div m \in Int
           /\ a = m * (a \div m) + (a % m)
OBVIOUS

LEMMA ModUnique ==
    ASSUME NEW m \in Nat \ {0}, NEW a \in Int, NEW q \in Int, NEW r \in 0..(m - 1),
           a = m * q + r
    PROVE  a % m = r
<1>1. a = m * (a \div m) + (a % m) /\ a % m \in 0..(m - 1) /\ a \div m \in Int
  BY DivMod
<1>2. m * (q - a \div m) = (a % m) - r
  BY <1>1
<1>3. CASE q = a \div m
  BY <1>1, <1>3
<1>4. CASE q > a \div m
  <2>1. q - a \div m >= 1
    BY <1>1, <1>4
  <2>2. m * (q - a \div m) >= m
    BY <1>1, <2>1
  <2> QED
    BY <1>1, <1>2, <2>2
<1>5. CASE q < a \div m
  <2>1. q - a \div m <= -1
    BY <1>1, <1>5
  <2>2. m * (q - a \div m) <= -m
    BY <1>1, <2>1
  <2> QED
    BY <1>1, <1>2, <2>2
<1> QED
  BY <1>1, <1>3, <1>4, <1>5

\* The extended time keeps the timestamp, and goes on by what the camera's clock went on if
\* that is less than a round.
LEMMA ExtendedRight ==
    ASSUME NEW prev \in Nat, NEW last \in Nat, NEW t \in Nat, last < t,
           prev % Wrap = last % Wrap
    PROVE  /\ Extended(prev, t % Wrap) \in Nat
           /\ Extended(prev, t % Wrap) % Wrap = t % Wrap
           /\ t - last < Wrap => Extended(prev, t % Wrap) - prev = t - last
<1> DEFINE m == Wrap
           r == last % m
           s == t % m
           p == prev \div m
<1>1. m \in Nat \ {0}
  BY ClockAssumption
<1>2. /\ r \in 0..(m - 1) /\ last = m * (last \div m) + r /\ last \div m \in Int
      /\ s \in 0..(m - 1) /\ t = m * (t \div m) + s /\ t \div m \in Int
      /\ prev = m * p + r /\ p \in Int
  <2>1. r \in 0..(m - 1) /\ last = m * (last \div m) + r /\ last \div m \in Int
    BY <1>1, DivMod
  <2>2. s \in 0..(m - 1) /\ t = m * (t \div m) + s /\ t \div m \in Int
    BY <1>1, DivMod
  <2>3. prev = m * p + (prev % m) /\ p \in Int
    BY <1>1, DivMod
  <2> QED
    BY <2>1, <2>2, <2>3
<1>3. p >= 0
  BY <1>1, <1>2
<1> HIDE DEF m, r, s, p
<1>4. t - last < m => t - last = (s - r) % m
  <2> SUFFICES ASSUME t - last < m
               PROVE  (s - r) % m = t - last
    OBVIOUS
  <2> DEFINE q == (last \div m) - (t \div m)
  <2>1. s - r = m * q + (t - last) /\ q \in Int /\ t - last \in 0..(m - 1) /\ s - r \in Int
    BY <1>1, <1>2
  <2> HIDE DEF q
  <2> QED
    BY <1>1, <2>1, ModUnique
<1>5. CASE s < prev
  <2> DEFINE e == prev + ((s - r) % m)
             k == p - (s - r) \div m
  <2>1. Extended(prev, t % Wrap) = e
    BY <1>5 DEF Extended, m, r, s
  <2>2. (s - r) % m \in 0..(m - 1) /\ (s - r) \div m \in Int
        /\ s - r = m * ((s - r) \div m) + ((s - r) % m)
    <3>1. s - r \in Int
      BY <1>1, <1>2
    <3> QED
      BY <1>1, <3>1, DivMod
  <2>3. e = m * k + s /\ k \in Int /\ e \in Nat
    BY <1>1, <1>2, <2>2
  <2>5. t - last < m => e - prev = t - last
    BY <1>4
  <2> HIDE DEF e, k
  <2>4. e % m = s
    BY <1>1, <1>2, <2>3, ModUnique
  <2> QED
    BY <2>1, <2>3, <2>4, <2>5 DEF m, s
<1>6. CASE ~(s < prev)
  <2>1. Extended(prev, t % Wrap) = s
    BY <1>6 DEF Extended, s, m
  <2>2. p = 0 /\ prev = r
    <3>1. m * p < m
      BY <1>1, <1>2, <1>6
    <3> QED
      BY <1>1, <1>2, <1>3, <3>1
  <2>3. s % m = s
    <3>1. s = m * 0 + s
      BY <1>1, <1>2
    <3> QED
      BY <1>1, <1>2, <3>1, ModUnique
  <2>4. s - r \in 0..(m - 1) /\ (s - r) % m = s - r
    <3>1. s - r \in 0..(m - 1)
      BY <1>1, <1>2, <1>6, <2>2
    <3>2. s - r = m * 0 + (s - r)
      BY <1>1, <3>1
    <3> QED
      BY <1>1, <3>1, <3>2, ModUnique
  <2> QED
    BY <1>2, <1>4, <2>1, <2>2, <2>3, <2>4 DEF m, s
<1> QED
  BY <1>1, <1>2, <1>5, <1>6

\* Unlinking an element of a list.
LEMMA Unlinked ==
    ASSUME NEW S, NEW s \in Seq(S), NEW i \in 1..Len(s)
    PROVE  /\ RemoveAt(s, i) \in Seq(S)
           /\ Len(RemoveAt(s, i)) = Len(s) - 1
           /\ \A j \in 1..Len(s) - 1 :
                RemoveAt(s, i)[j] = IF j < i THEN s[j] ELSE s[j + 1]
<1> DEFINE before == SubSeq(s, 1, i - 1)
           after == SubSeq(s, i + 1, Len(s))
<1>1. Len(s) \in Nat /\ \A j \in 1..Len(s) : s[j] \in S
  OBVIOUS
<1>2. before \in Seq(S) /\ Len(before) = i - 1 /\ \A j \in 1..i - 1 : before[j] = s[j]
  BY <1>1, SubSeqProperties
<1>3. /\ after \in Seq(S) /\ Len(after) = Len(s) - i
      /\ \A j \in 1..Len(s) - i : after[j] = s[i + j]
  <2>1. \A j \in i + 1..Len(s) : s[j] \in S
    BY <1>1
  <2> QED
    BY <1>1, <2>1, SubSeqProperties
<1>4. RemoveAt(s, i) = before \o after
  BY DEF RemoveAt
<1> HIDE DEF before, after
<1>5. /\ before \o after \in Seq(S) /\ Len(before \o after) = i - 1 + (Len(s) - i)
      /\ \A j \in 1..Len(s) - 1 :
           (before \o after)[j] = IF j <= i - 1 THEN before[j] ELSE after[j - (i - 1)]
  <2>1. /\ before \o after \in Seq(S) /\ Len(before \o after) = Len(before) + Len(after)
        /\ \A j \in 1..Len(before) + Len(after) :
             (before \o after)[j] = IF j <= Len(before) THEN before[j] ELSE after[j - Len(before)]
    BY <1>2, <1>3, ConcatProperties, Zenon
  <2>2. Len(before) = i - 1 /\ Len(after) = Len(s) - i /\ i - 1 + (Len(s) - i) = Len(s) - 1
    BY <1>1, <1>2, <1>3
  <2> QED
    BY <2>1, <2>2, Zenon
<1>6. ASSUME NEW j \in 1..Len(s) - 1
      PROVE  (before \o after)[j] = IF j < i THEN s[j] ELSE s[j + 1]
  <2>1. CASE j < i
    BY <1>1, <1>2, <1>5, <2>1
  <2>2. CASE ~(j < i)
    <3>1. j - (i - 1) \in 1..Len(s) - i /\ i + (j - (i - 1)) = j + 1
      BY <1>1, <2>2
    <3> QED
      BY <1>1, <1>3, <1>5, <2>2, <3>1
  <2> QED
    BY <2>1, <2>2
<1>7. i - 1 + (Len(s) - i) = Len(s) - 1
  BY <1>1
<1>8. Len(RemoveAt(s, i)) = Len(s) - 1
  BY <1>4, <1>5, <1>7, Zenon
<1>9. \A j \in 1..Len(s) - 1 : RemoveAt(s, i)[j] = IF j < i THEN s[j] ELSE s[j + 1]
  BY <1>4, <1>6, Zenon
<1> QED
  BY <1>4, <1>5, <1>8, <1>9, Zenon

-----------------------------------------------------------------------------
\* A device that is opened is put at the end of the list, and of those allocated.
LEMMA ListGrows ==
    ASSUME Listed, Len(dev) \in Nat, CanOpen, ctx' = Append(ctx, NewId), Len(dev') = NewId
    PROVE  Listed' /\ Open' = Open \cup {NewId} /\ NewId \notin Open /\ NewId \in Ids
<1>1. NewId \in Ids
  BY OpensAssumption DEF CanOpen, NewId, Ids
<1>2. /\ ctx' \in Seq(Ids) /\ Len(ctx') = Len(ctx) + 1
      /\ \A p \in 1..Len(ctx) : ctx'[p] = ctx[p]
      /\ ctx'[Len(ctx) + 1] = NewId
  BY <1>1, AppendProperties DEF Listed
<1>3. Len(ctx) \in Nat
  BY DEF Listed
<1>4. Open' = Open \cup {NewId}
  <2>1. \A x : x \in Open' <=> \E p \in 1..Len(ctx) + 1 : ctx'[p] = x
    BY <1>2 DEF Open, ToSet
  <2>2. \A x : x \in Open <=> \E p \in 1..Len(ctx) : ctx[p] = x
    BY DEF Listed, Open, ToSet
  <2>3. \A p \in 1..Len(ctx) + 1 : p \in 1..Len(ctx) \/ p = Len(ctx) + 1
    BY <1>3
  <2>4. \A p \in 1..Len(ctx) : p \in 1..Len(ctx) + 1
    BY <1>3
  <2>5. Len(ctx) + 1 \in 1..Len(ctx) + 1
    BY <1>3
  <2> QED
    BY <1>2, <2>1, <2>2, <2>3, <2>4, <2>5, Zenon
<1>5. NewId \notin Open
  BY DEF Listed, NewId
<1>6. Open' \subseteq 1..Len(dev')
  <2>1. 1..Len(dev) \subseteq 1..Len(dev') /\ NewId \in 1..Len(dev')
    BY DEF NewId
  <2> QED
    BY <1>4, <2>1 DEF Listed
<1>7. ASSUME NEW p \in 1..Len(ctx'), NEW q \in 1..Len(ctx'), ctx'[p] = ctx'[q] PROVE p = q
  <2>1. \A n \in 1..Len(ctx) : ctx'[n] # NewId
    BY <1>2, <1>5 DEF Open, ToSet, Listed
  <2> QED
    BY <1>2, <1>3, <1>7, <2>1 DEF Listed
<1> QED
  BY <1>1, <1>2, <1>4, <1>5, <1>6, <1>7 DEF Listed

\* A device that is closed is in the list no more.
LEMMA ListShrinks ==
    ASSUME Listed, NEW d \in Open, freenect_close_device(d), Len(dev') = Len(dev)
    PROVE  Listed' /\ Open' = Open \ {d}
<1> DEFINE n == CHOOSE p \in 1..Len(ctx) : ctx[p] = d
<1>1. n \in 1..Len(ctx) /\ ctx[n] = d
  BY DEF Listed, Open, ToSet
<1>2. ctx' = RemoveAt(ctx, n)
  BY DEF freenect_close_device
<1> HIDE DEF n
<1>3. /\ ctx' \in Seq(Ids) /\ Len(ctx') = Len(ctx) - 1
      /\ \A p \in 1..Len(ctx) - 1 : ctx'[p] = IF p < n THEN ctx[p] ELSE ctx[p + 1]
  BY <1>1, <1>2, Unlinked DEF Listed
<1>4. Len(ctx) \in Nat /\ n \in Nat /\ n >= 1 /\ n <= Len(ctx)
  BY <1>1 DEF Listed
<1>5. ASSUME NEW p \in 1..Len(ctx) - 1 PROVE ctx'[p] \in Open /\ ctx'[p] # d
  <2> DEFINE q == IF p < n THEN p ELSE p + 1
  <2>1. q \in 1..Len(ctx) /\ q # n
    BY <1>4
  <2>2. ctx'[p] = ctx[q]
    BY <1>3
  <2> HIDE DEF q
  <2> QED
    BY <1>1, <2>1, <2>2 DEF Listed, Open, ToSet
<1>6. ASSUME NEW x \in Open, x # d PROVE \E p \in 1..Len(ctx) - 1 : ctx'[p] = x
  <2>1. PICK q \in 1..Len(ctx) : ctx[q] = x
    BY DEF Listed, Open, ToSet
  <2>2. CASE q < n
    BY <1>3, <1>4, <2>1, <2>2
  <2>3. CASE q > n
    <3>1. q - 1 \in 1..Len(ctx) - 1 /\ ~(q - 1 < n) /\ q - 1 + 1 = q
      BY <1>4, <2>3
    <3> QED
      BY <1>3, <2>1, <3>1
  <2> QED
    BY <1>1, <1>6, <2>1, <2>2, <2>3
<1>7. Open' = Open \ {d}
  <2>1. \A x : x \in Open' <=> \E p \in 1..Len(ctx) - 1 : ctx'[p] = x
    BY <1>3 DEF Open, ToSet
  <2> QED
    BY <1>5, <1>6, <2>1
<1>8. ASSUME NEW p \in 1..Len(ctx'), NEW q \in 1..Len(ctx'), ctx'[p] = ctx'[q] PROVE p = q
  <2> DEFINE P == IF p < n THEN p ELSE p + 1
             Q == IF q < n THEN q ELSE q + 1
  <2>1. P \in 1..Len(ctx) /\ Q \in 1..Len(ctx) /\ (P = Q => p = q)
    BY <1>3, <1>4
  <2>2. ctx'[p] = ctx[P] /\ ctx'[q] = ctx[Q]
    BY <1>3
  <2> HIDE DEF P, Q
  <2> QED
    BY <1>8, <2>1, <2>2 DEF Listed
<1> QED
  BY <1>3, <1>7, <1>8 DEF Listed

-----------------------------------------------------------------------------
Inv == Shape /\ Listed /\ Somewhere /\ Reachable /\ Formats /\ Targets /\ Clocks

\* The application is where no device is being closed.
Plain == {"idle", "new", "delete"}

\* Nothing is opened or closed, and each device stays the Kinect it is: the maps are as
\* right as before.
LEMMA MapsKept ==
    ASSUME Shape, Listed, Somewhere, Reachable, UNCHANGED <<ctx, m_devices, devices>>,
           Len(dev') = Len(dev), \A d \in 1..Len(dev) : dev'[d].index = dev[d].index,
           \/ app' = app
           \/ app.pc \in Plain /\ app'.pc \in Plain /\ Somewhere'
    PROVE  Listed' /\ Somewhere' /\ Reachable'
<1>1. Listed' /\ Open' = Open /\ Open \subseteq 1..Len(dev)
  BY DEF Listed, Open
<1>2. CASE app' = app
  <2>1. Somewhere'
    BY <1>2 DEF Somewhere
  <2>2. /\ \A i \in Indexes : m_devices'[i] # None =>
              m_devices'[i] \in Open' /\ dev'[m_devices'[i]].index = i
        /\ \A d \in Open' : m_devices'[dev'[d].index] = d \/ (app'.pc = "close" /\ app'.d = d)
    BY <1>1, <1>2 DEF Reachable
  <2>3. \A i \in Indexes :
          /\ devices'[i] = Absent => m_devices'[i] = None
          /\ devices'[i] \in Ids => devices'[i] = m_devices'[i] \/ Shutting'
          /\ devices'[i] = None =>
               m_devices'[i] = None
                 \/ (app'.pc = "~Device" /\ app'.then = Idle /\ m_devices'[i] = app'.d)
    BY <1>2 DEF Reachable, Shutting
  <2>4. /\ app'.pc = "close" => app'.d \in Open' /\ m_devices'[dev'[app'.d].index] = None
        /\ app'.pc = "try" => devices'[app'.i] \in Ids
        /\ app'.pc = "~Device" =>
              /\ app'.d \in Open' /\ m_devices'[dev'[app'.d].index] = app'.d
              /\ app'.then = Idle => devices'[dev'[app'.d].index] = None
    BY <1>1, <1>2 DEF Reachable
  <2> QED
    BY <1>1, <2>1, <2>2, <2>3, <2>4 DEF Reachable
<1>3. CASE app.pc \in Plain /\ app'.pc \in Plain /\ Somewhere'
  <2>1. ~Shutting /\ app.pc \notin {"close", "try", "~Device"}
        /\ app'.pc \notin {"close", "try", "~Device"}
    BY <1>3 DEF Plain, Shutting, InShutdown
  <2>2. /\ \A i \in Indexes : m_devices'[i] # None =>
              m_devices'[i] \in Open' /\ dev'[m_devices'[i]].index = i
        /\ \A d \in Open' : m_devices'[dev'[d].index] = d
    BY <1>1, <2>1 DEF Reachable
  <2>3. \A i \in Indexes :
          /\ devices'[i] = Absent => m_devices'[i] = None
          /\ devices'[i] \in Ids => devices'[i] = m_devices'[i]
          /\ devices'[i] = None => m_devices'[i] = None
    BY <2>1 DEF Reachable
  <2> QED
    BY <1>1, <1>3, <2>1, <2>2, <2>3 DEF Reachable
<1> QED
  BY <1>2, <1>3

\* The application is left alone, no camera starts and no format changes.
LEMMA Calmer ==
    ASSUME Inv, UNCHANGED <<ctx, m_devices, driver>>,
           dev' \in Seq(Devices), Len(dev') = Len(dev),
           \A d \in 1..Len(dev) :
             /\ dev'[d].index = dev[d].index
             /\ dev'[d].format = dev[d].format /\ dev'[d].m_format = dev[d].m_format
             /\ \A k \in Kinds : dev'[d].running[k] => dev[d].running[k],
           loop' \in [pc : {"events", "walk", "lost", "ended"}, at : Ids \cup {None}, res : {-1, 0}]
    PROVE  Inv'
<1>1. Shape'
  BY DEF Inv, Shape, driver
<1>2. Listed' /\ Somewhere' /\ Reachable'
  BY MapsKept DEF Inv, driver
<1>3. Formats'
  <2>1. \A d \in 1..Len(dev) :
         /\ dev'[d].m_format = dev'[d].format
         /\ Made(d, "depth")' =>
              (stream'[d]["depth"].registration <=> dev'[d].format["depth"] = "REGISTERED")
    BY DEF Inv, Formats, Made, driver
  <2>2. app.pc = "new" => app.d \in 1..Len(dev)
    BY DEF Inv, Somewhere, Idle, InShutdown, Deleting
  <2> QED
    BY <2>1, <2>2 DEF Inv, Formats, driver
<1>4. Targets'
  BY DEF Inv, Targets, Made, driver
<1>5. Clocks'
  BY DEF Inv, Clocks, Made, driver
<1> QED
  BY <1>1, <1>2, <1>3, <1>4, <1>5 DEF Inv

\* One device is changed.
LEMMA OneDevice ==
    ASSUME dev \in Seq(Devices), NEW d \in 1..Len(dev), NEW r \in Devices,
           dev' = [dev EXCEPT ![d] = r]
    PROVE  /\ dev' \in Seq(Devices) /\ Len(dev') = Len(dev)
           /\ dev'[d] = r
           /\ \A e \in 1..Len(dev) : e # d => dev'[e] = dev[e]
BY ExceptSeq

\* One stream is changed.
LEMMA OneStream ==
    ASSUME stream \in Seq(Streams), NEW d \in 1..Len(stream), NEW w \in Streams,
           stream' = [stream EXCEPT ![d] = w]
    PROVE  /\ stream' \in Seq(Streams) /\ Len(stream') = Len(stream)
           /\ stream'[d] = w
           /\ \A e \in 1..Len(stream) : e # d => stream'[e] = stream[e]
BY ExceptSeq

LEMMA StoppedDevice ==
    ASSUME NEW r \in Devices, NEW k \in Kinds
    PROVE  /\ Stopped(r, k) \in Devices /\ Stopped(r, k).index = r.index
           /\ Stopped(r, k).format = r.format /\ Stopped(r, k).m_format = r.m_format
           /\ ~Stopped(r, k).running[k]
           /\ \A j \in Kinds : j # k => Stopped(r, k).running[j] = r.running[j]
BY DEF Stopped, Devices

LEMMA StartedDevice ==
    ASSUME NEW r \in Devices, NEW k \in Kinds
    PROVE  /\ Started(r, k) \in Devices /\ Started(r, k).index = r.index
           /\ Started(r, k).format = r.format /\ Started(r, k).m_format = r.m_format
           /\ \A j \in Kinds : j # k => Started(r, k).running[j] = r.running[j]
BY DEF Started, Devices

\* The mode that is set is the camera's and the one remembered.
LEMMA ModeSet ==
    ASSUME NEW r \in Devices, r.m_format = r.format, NEW k \in Kinds, NEW on \in BOOLEAN
    PROVE  LET s == setVideoMode(r, k, on) IN
           /\ s \in Devices /\ s.index = r.index /\ s.running = r.running
           /\ s.m_format = s.format
           /\ \A j \in Kinds : j # k => s.format[j] = r.format[j]
           /\ k = "depth" => (on <=> s.format["depth"] = "REGISTERED")
<1> DEFINE f == CASE k = "video" -> "RGB"
                  [] k = "depth" /\ on -> "REGISTERED"
                  [] OTHER -> "MM"
           s == setVideoMode(r, k, on)
<1>1. f \in Names /\ (k = "depth" => (on <=> f = "REGISTERED"))
  <2>1. CASE k = "video"
    <3>1. f = "RGB"
      BY <2>1
    <3> QED
      BY <2>1, <3>1 DEF Names
  <2>2. CASE k = "depth" /\ on
    <3>1. f = "REGISTERED"
      BY <2>2
    <3> QED
      BY <2>2, <3>1 DEF Names
  <2>3. CASE k = "depth" /\ ~on
    <3>1. f = "MM"
      BY <2>3
    <3> QED
      BY <2>3, <3>1 DEF Names
  <2> QED
    BY <2>1, <2>2, <2>3 DEF Kinds
<1>2. s = IF f = r.m_format[k] THEN r ELSE [r EXCEPT !.format[k] = f, !.m_format[k] = f]
  BY DEF setVideoMode, setFormat
<1> HIDE DEF f, s
<1> SUFFICES /\ s \in Devices /\ s.index = r.index /\ s.running = r.running
             /\ s.m_format = s.format
             /\ \A j \in Kinds : j # k => s.format[j] = r.format[j]
             /\ k = "depth" => (on <=> s.format["depth"] = "REGISTERED")
  BY DEF s
<1>3. CASE f = r.m_format[k]
  <2>1. s = r
    BY <1>2, <1>3
  <2> QED
    BY <1>1, <1>3, <2>1
<1>4. CASE f # r.m_format[k]
  <2>1. s = [r EXCEPT !.format[k] = f, !.m_format[k] = f]
    BY <1>2, <1>4
  <2>2. /\ s \in Devices /\ s.index = r.index /\ s.running = r.running
        /\ s.format = [r.format EXCEPT ![k] = f] /\ s.m_format = [r.m_format EXCEPT ![k] = f]
        /\ r.format \in [Kinds -> Names] /\ r.m_format \in [Kinds -> Names]
    BY <1>1, <2>1 DEF Devices
  <2>3. s.format[k] = f /\ \A j \in Kinds : j # k => s.format[j] = r.format[j]
    BY <2>2
  <2> QED
    BY <1>1, <2>2, <2>3
<1> QED
  BY <1>3, <1>4

-----------------------------------------------------------------------------
LEMMA InitInv == Init => Inv
<1> SUFFICES ASSUME Init PROVE Inv
  OBVIOUS
<1> USE DEF Init, WrapperInit
<1>1. Shape
  BY EmptySeq, ClockAssumption, OpensAssumption DEF Shape, Ids, None, Absent
<1>2. Listed /\ Open = {}
  BY EmptySeq DEF Listed, Open, ToSet
<1>3. Somewhere
  BY DEF Somewhere
<1>4. Reachable
  BY <1>2 DEF Reachable, Idle, None, Absent, Ids
<1>5. Formats /\ Targets /\ Clocks
  BY EmptySeq DEF Formats, Targets, Clocks, Idle
<1> QED
  BY <1>1, <1>2, <1>3, <1>4, <1>5 DEF Inv

LEMMA EventsKeep == Inv /\ Events /\ UNCHANGED driver => Inv'
<1> SUFFICES ASSUME Inv, Events, UNCHANGED driver PROVE Inv'
  OBVIOUS
<1> DEFINE Loops == [pc : {"events", "walk", "lost", "ended"}, at : Ids \cup {None}, res : {-1, 0}]
<1>1. loop \in Loops /\ dev \in Seq(Devices) /\ ctx \in Seq(Ids) /\ Open \subseteq 1..Len(dev)
  BY DEF Inv, Shape, Listed
<1>2. CASE Unplug
  <2>1. PICK d \in Open : dev' = [dev EXCEPT ![d].dead = TRUE]
    BY <1>2 DEF Unplug
  <2> DEFINE r == [dev[d] EXCEPT !.dead = TRUE]
  <2>2. d \in 1..Len(dev) /\ dev[d] \in Devices
    BY <1>1
  <2>3. /\ r \in Devices /\ r.index = dev[d].index /\ r.format = dev[d].format
        /\ r.m_format = dev[d].m_format /\ r.running = dev[d].running
    BY <2>2 DEF Devices
  <2>4. dev' = [dev EXCEPT ![d] = r]
    BY <2>1
  <2> HIDE DEF r
  <2>5. /\ dev' \in Seq(Devices) /\ Len(dev') = Len(dev) /\ dev'[d] = r
        /\ \A e \in 1..Len(dev) : e # d => dev'[e] = dev[e]
    BY <1>1, <2>2, <2>3, <2>4, OneDevice
  <2>6. UNCHANGED <<ctx, m_devices, loop>>
    BY <1>2 DEF Unplug
  <2> QED
    BY <1>1, <2>3, <2>5, <2>6, Calmer
<1>3. CASE WalkFirst
  <2>1. loop' \in Loops
    <3>1. ctx # <<>> => ctx[1] \in Ids
      BY <1>1, EmptySeq
    <3> QED
      BY <1>3, <3>1 DEF WalkFirst
  <2>2. UNCHANGED <<ctx, dev, m_devices>>
    BY <1>3 DEF WalkFirst
  <2> QED
    BY <1>1, <2>1, <2>2, Calmer
<1>4. CASE WalkDevice
  <2>1. UNCHANGED <<ctx, m_devices>>
    BY <1>4 DEF WalkDevice
  <2>2. CASE loop.at \notin Open
    <3>1. loop' \in Loops /\ dev' = dev
      BY <1>1, <1>4, <2>2 DEF WalkDevice
    <3> QED
      BY <1>1, <2>1, <3>1, Calmer
  <2>3. CASE loop.at \in Open
    <3> DEFINE d == loop.at
               p == CHOOSE n \in 1..Len(ctx) : ctx[n] = d
               r == [dev[d] EXCEPT !.running = [k \in Kinds |-> FALSE]]
    <3>1. p \in 1..Len(ctx) /\ ctx[p] = d
      BY <1>1, <2>3 DEF Open, ToSet
    <3>2. /\ loop' = [loop EXCEPT !.at = IF p = Len(ctx) THEN None ELSE ctx[p + 1],
                                   !.res = IF dev[ctx[p]].dead THEN -1 ELSE @]
          /\ dev' = IF dev[d].dead THEN [dev EXCEPT ![d].running = [k \in Kinds |-> FALSE]] ELSE dev
      BY <1>4, <2>3 DEF WalkDevice
    <3>3. loop' \in Loops
      <4>1. p # Len(ctx) => ctx[p + 1] \in Ids
        BY <1>1, <3>1
      <4> QED
        BY <1>1, <3>2, <4>1
    <3>4. d \in 1..Len(dev) /\ dev[d] \in Devices
      <4>1. d \in 1..Len(dev)
        BY <1>1, <2>3
      <4> HIDE DEF d
      <4> QED
        BY <1>1, <4>1
    <3>5. /\ r \in Devices /\ r.index = dev[d].index /\ r.format = dev[d].format
          /\ r.m_format = dev[d].m_format /\ \A k \in Kinds : ~r.running[k]
      BY <3>4 DEF Devices
    <3>6. dev' = [dev EXCEPT ![d] = r] \/ dev' = dev
      BY <3>2
    <3> HIDE DEF d, p, r
    <3>7. CASE dev' = dev
      BY <1>1, <2>1, <3>3, <3>7, Calmer
    <3>8. CASE dev' = [dev EXCEPT ![d] = r]
      <4>1. /\ dev' \in Seq(Devices) /\ Len(dev') = Len(dev) /\ dev'[d] = r
            /\ \A e \in 1..Len(dev) : e # d => dev'[e] = dev[e]
        BY <1>1, <3>4, <3>5, <3>8, OneDevice
      <4> QED
        BY <1>1, <2>1, <3>3, <3>5, <4>1, Calmer
    <3> QED
      BY <3>6, <3>7, <3>8
  <2> QED
    BY <2>2, <2>3
<1>5. CASE Again
  <2>1. loop' \in Loops /\ UNCHANGED <<ctx, dev, m_devices>>
    BY <1>1, <1>5 DEF Again
  <2> QED
    BY <1>1, <2>1, Calmer
<1> QED
  BY <1>2, <1>3, <1>4, <1>5 DEF Events

-----------------------------------------------------------------------------
\* What opening a device adds to the lists: nothing runs, and it has no streams.
LEMMA Allocated ==
    ASSUME Inv, CanOpen, NEW i \in Indexes, FreenectDevice(i),
           stream' = Append(stream, [k \in Kinds |-> NoStream])
    PROVE  /\ Listed' /\ Open' = Open \cup {NewId} /\ NewId \in Ids /\ NewId \notin Open
           /\ NewId = Len(dev) + 1 /\ Len(dev) \in Nat
           /\ dev' \in Seq(Devices) /\ Len(dev') = NewId /\ Len(dev') <= MaxOpens
           /\ stream' \in Seq(Streams) /\ Len(stream') = NewId
           /\ dev'[NewId].index = i
           /\ dev'[NewId].m_format = dev'[NewId].format
           /\ \A k \in Kinds : ~dev'[NewId].running[k] /\ ~stream'[NewId][k].made
           /\ \A d \in 1..Len(dev) : dev'[d] = dev[d] /\ stream'[d] = stream[d]
<1> DEFINE r == [index |-> i, dead |-> FALSE, running |-> [k \in Kinds |-> FALSE],
                 format |-> [depth |-> "11BIT", video |-> "RGB"],
                 m_format |-> [depth |-> "11BIT", video |-> "RGB"]]
           w == [k \in Kinds |-> NoStream]
<1>1. r \in Devices /\ r.index = i /\ r.m_format = r.format /\ \A k \in Kinds : ~r.running[k]
  BY DEF Devices, Names, Kinds
<1>2. w \in Streams /\ \A k \in Kinds : ~w[k].made
  BY DEF Streams, StreamStates, NoStream
<1>3. /\ dev \in Seq(Devices) /\ stream \in Seq(Streams) /\ Len(stream) = Len(dev)
      /\ Len(dev) \in Nat /\ Listed
  BY DEF Inv, Shape
<1>4. dev' = Append(dev, r) /\ stream' = Append(stream, w) /\ ctx' = Append(ctx, NewId)
  BY DEF FreenectDevice
<1> HIDE DEF r, w
<1>5. /\ dev' \in Seq(Devices) /\ Len(dev') = Len(dev) + 1
      /\ dev'[Len(dev) + 1] = r /\ \A d \in 1..Len(dev) : dev'[d] = dev[d]
  BY <1>1, <1>3, <1>4, AppendProperties
<1>6. /\ stream' \in Seq(Streams) /\ Len(stream') = Len(stream) + 1
      /\ stream'[Len(stream) + 1] = w /\ \A d \in 1..Len(stream) : stream'[d] = stream[d]
  BY <1>2, <1>3, <1>4, AppendProperties
<1>7. Listed' /\ Open' = Open \cup {NewId} /\ NewId \notin Open /\ NewId \in Ids
  BY <1>3, <1>4, <1>5, ListGrows DEF NewId
<1>8. Len(dev) + 1 <= MaxOpens
  BY <1>3, OpensAssumption DEF CanOpen
<1> QED
  BY <1>1, <1>2, <1>3, <1>5, <1>6, <1>7, <1>8 DEF NewId, Made

\* A device is opened, and the application is not in the middle of a stream.
LEMMA AllocatedKeeps ==
    ASSUME Inv, CanOpen, NEW i \in Indexes, FreenectDevice(i),
           stream' = Append(stream, [k \in Kinds |-> NoStream]),
           app = Idle, app'.pc # "new", UNCHANGED time
    PROVE  Formats' /\ Targets' /\ Clocks'
<1>1. /\ Len(dev') = Len(dev) + 1 /\ Len(dev) \in Nat
      /\ dev'[Len(dev) + 1].m_format = dev'[Len(dev) + 1].format
      /\ \A k \in Kinds : ~dev'[Len(dev) + 1].running[k] /\ ~stream'[Len(dev) + 1][k].made
      /\ \A d \in 1..Len(dev) : dev'[d] = dev[d] /\ stream'[d] = stream[d]
  BY Allocated DEF NewId
<1>2. \A d \in 1..Len(dev') : d \in 1..Len(dev) \/ d = Len(dev) + 1
  BY <1>1
<1>3. "depth" \in Kinds /\ app.pc # "new"
  BY DEF Kinds, Idle
<1>4. Formats'
  BY <1>1, <1>2, <1>3 DEF Inv, Formats, Made
<1>5. Targets'
  <2>1. \A d \in 1..Len(dev), k \in Kinds : dev[d].running[k] => stream[d][k].made
    BY <1>3 DEF Inv, Targets, Made
  <2> QED
    BY <1>1, <1>2, <2>1 DEF Targets, Made
<1>6. Clocks'
  BY <1>1, <1>2 DEF Inv, Clocks, Made
<1> QED
  BY <1>4, <1>5, <1>6

LEMMA initializeKeeps == Inv /\ initialize => Inv'
<1> SUFFICES ASSUME Inv, initialize PROVE Inv'
  OBVIOUS
<1> DEFINE i == CHOOSE j \in Indexes : devices[j] = Absent
<1>1. i \in Indexes /\ devices[i] = Absent
  BY DEF initialize
<1>2. /\ app = Idle /\ devices' = [devices EXCEPT ![i] = None]
      /\ UNCHANGED <<m_devices, loop, time>>
      /\ \/ /\ CanOpen /\ FreenectDevice(i)
            /\ stream' = Append(stream, [k \in Kinds |-> NoStream])
            /\ app' = [pc |-> "close", d |-> NewId]
         \/ UNCHANGED <<dev, ctx, stream, app>>
  BY DEF initialize
<1> HIDE DEF i
<1>3. devices' \in [Indexes -> Ids \cup {None, Absent}]
      /\ \A j \in Indexes : devices'[j] = IF j = i THEN None ELSE devices[j]
  BY <1>1, <1>2 DEF Inv, Shape
<1>4. m_devices[i] = None
  BY <1>1 DEF Inv, Reachable
<1>5. app.pc = "idle" /\ ~Shutting
  BY <1>2 DEF Idle, Shutting, InShutdown
<1>6. Absent # None /\ None \notin Ids /\ Absent \notin Ids
  BY OpensAssumption DEF Absent, None, Ids
<1>7. CASE /\ CanOpen /\ FreenectDevice(i)
           /\ stream' = Append(stream, [k \in Kinds |-> NoStream])
           /\ app' = [pc |-> "close", d |-> NewId]
  <2>1. /\ Listed' /\ Open' = Open \cup {NewId} /\ NewId \in Ids /\ NewId \notin Open
        /\ NewId = Len(dev) + 1 /\ Len(dev) \in Nat
        /\ dev' \in Seq(Devices) /\ Len(dev') = NewId /\ Len(dev') <= MaxOpens
        /\ stream' \in Seq(Streams) /\ Len(stream') = NewId
        /\ dev'[NewId].index = i
        /\ \A d \in 1..Len(dev) : dev'[d] = dev[d]
    BY <1>1, <1>7, Allocated, Zenon
  <2>2. app'.pc = "close" /\ app'.d = NewId
    BY <1>7
  <2>3. Formats' /\ Targets' /\ Clocks'
    BY <1>1, <1>2, <1>7, <2>2, AllocatedKeeps
  <2>4. Shape'
    BY <1>2, <1>3, <2>1 DEF Inv, Shape
  <2>5. Somewhere'
    <3>1. NewId \in 1..Len(dev')
      BY <2>1
    <3> QED
      BY <1>7, <3>1 DEF Somewhere
  <2>6. \A d \in Open : d \in 1..Len(dev) /\ d # NewId /\ dev'[d] = dev[d]
    BY <2>1 DEF Inv, Listed
  <2>7. /\ \A j \in Indexes : m_devices[j] # None =>
              m_devices[j] \in Open' /\ dev'[m_devices[j]].index = j
        /\ \A d \in Open' : m_devices[dev'[d].index] = d \/ d = NewId
    BY <1>5, <2>1, <2>6 DEF Inv, Reachable
  <2>8. \A j \in Indexes :
          /\ devices'[j] = Absent => m_devices[j] = None
          /\ devices'[j] \in Ids => devices'[j] = m_devices[j]
          /\ devices'[j] = None => m_devices[j] = None
    BY <1>3, <1>4, <1>5, <1>6 DEF Inv, Reachable
  <2>9. NewId \in Open' /\ m_devices[dev'[NewId].index] = None
    BY <1>4, <2>1
  <2> QED
    BY <1>2, <2>1, <2>2, <2>3, <2>4, <2>5, <2>7, <2>8, <2>9 DEF Inv, Reachable
<1>8. CASE UNCHANGED <<dev, ctx, stream, app>>
  <2>1. Shape' /\ Listed' /\ Somewhere'
    BY <1>2, <1>3, <1>8 DEF Inv, Shape, Listed, Open, Somewhere
  <2>2. Reachable'
    <3>1. \A j \in Indexes :
          /\ devices'[j] = Absent => m_devices[j] = None
          /\ devices'[j] \in Ids => devices'[j] = m_devices[j]
          /\ devices'[j] = None => m_devices[j] = None
      BY <1>3, <1>4, <1>5, <1>6 DEF Inv, Reachable
    <3> QED
      BY <1>2, <1>5, <1>8, <3>1 DEF Inv, Reachable, Open
  <2>3. Formats' /\ Targets' /\ Clocks'
    BY <1>2, <1>8 DEF Inv, Formats, Targets, Clocks, Made
  <2> QED
    BY <2>1, <2>2, <2>3 DEF Inv
<1> QED
  BY <1>2, <1>7, <1>8

\* The operation that opens a device for the application, and what it does then.
LEMMA createDeviceKeeps ==
    ASSUME Inv, app = Idle, NEW i \in Indexes, devices[i] = None, NEW then,
           createDevice(i, then), UNCHANGED <<loop, time>>,
           then = Idle \/ then = [pc |-> "try", i |-> i]
    PROVE  Inv'
<1>1. app.pc = "idle" /\ ~Shutting
  BY DEF Idle, Shutting, InShutdown
<1>2. Absent # None /\ None \notin Ids /\ Absent \notin Ids
  BY OpensAssumption DEF Absent, None, Ids
<1>3. CASE UNCHANGED <<dev, ctx, m_devices, devices, stream, app>>
  <2>1. Listed' /\ Somewhere' /\ Reachable'
    BY <1>3, MapsKept DEF Inv
  <2> QED
    BY <1>3, <2>1 DEF Inv, Shape, Formats, Targets, Clocks, Made
<1>4. CASE /\ CanOpen /\ FreenectDevice(i)
           /\ m_devices' = [m_devices EXCEPT ![i] = NewId]
           /\ devices' = [devices EXCEPT ![i] = NewId]
           /\ stream' = Append(stream, [k \in Kinds |-> NoStream])
           /\ app' = then
  <2>1. /\ Listed' /\ Open' = Open \cup {NewId} /\ NewId \in Ids /\ NewId \notin Open
        /\ NewId = Len(dev) + 1 /\ Len(dev) \in Nat
        /\ dev' \in Seq(Devices) /\ Len(dev') = NewId /\ Len(dev') <= MaxOpens
        /\ stream' \in Seq(Streams) /\ Len(stream') = NewId
        /\ dev'[NewId].index = i
        /\ \A d \in 1..Len(dev) : dev'[d] = dev[d]
    BY <1>4, Allocated, Zenon
  <2>2. app'.pc \in {"idle", "try"} /\ (app'.pc = "try" => app'.i = i) /\ ~Shutting'
    BY <1>4 DEF Idle, Shutting, InShutdown
  <2>3. /\ devices' \in [Indexes -> Ids \cup {None, Absent}]
        /\ m_devices' \in [Indexes -> Ids \cup {None}]
        /\ \A j \in Indexes :
              /\ devices'[j] = IF j = i THEN NewId ELSE devices[j]
              /\ m_devices'[j] = IF j = i THEN NewId ELSE m_devices[j]
    BY <1>4, <2>1 DEF Inv, Shape
  <2>4. Formats' /\ Targets' /\ Clocks'
    BY <1>4, <2>2, AllocatedKeeps
  <2>5. Shape'
    BY <2>1, <2>3 DEF Inv, Shape
  <2>6. Somewhere'
    BY <1>4 DEF Somewhere
  <2>7. \A d \in Open : d \in 1..Len(dev) /\ d # NewId /\ dev'[d] = dev[d]
    BY <2>1 DEF Inv, Listed
  <2>8. m_devices[i] = None
    BY DEF createDevice
  <2>9. /\ \A j \in Indexes : m_devices'[j] # None =>
              m_devices'[j] \in Open' /\ dev'[m_devices'[j]].index = j
        /\ \A d \in Open' : m_devices'[dev'[d].index] = d
    <3>1. \A d \in Open : m_devices[dev[d].index] = d /\ dev[d].index \in Indexes
      <4>1. \A d \in Open : dev[d] \in Devices
        BY <2>7 DEF Inv, Shape
      <4> QED
        BY <1>1, <4>1 DEF Inv, Reachable, Devices
    <3>2. \A d \in Open : d # None /\ dev[d].index # i
      BY <1>2, <2>8, <3>1 DEF Inv, Listed, Ids, None
    <3>3. \A j \in Indexes : m_devices[j] # None =>
             m_devices[j] \in Open /\ dev[m_devices[j]].index = j
      BY DEF Inv, Reachable
    <3> QED
      BY <2>1, <2>3, <2>7, <3>1, <3>2, <3>3
  <2>10. \A j \in Indexes :
          /\ devices'[j] = Absent => m_devices'[j] = None
          /\ devices'[j] \in Ids => devices'[j] = m_devices'[j]
          /\ devices'[j] = None => m_devices'[j] = None
    BY <1>1, <1>2, <2>1, <2>3 DEF Inv, Reachable
  <2>11. app'.pc = "try" => devices'[app'.i] \in Ids
    BY <2>1, <2>2, <2>3
  <2> QED
    BY <2>1, <2>2, <2>4, <2>5, <2>6, <2>9, <2>10, <2>11 DEF Inv, Reachable
<1> QED
  BY <1>3, <1>4 DEF createDevice

\* A device is closed: it is in neither map any more.
LEMMA CloseProbedKeeps == Inv /\ CloseProbed => Inv'
<1> SUFFICES ASSUME Inv, CloseProbed PROVE Inv'
  OBVIOUS
<1>1. /\ app.pc = "close" /\ freenect_close_device(app.d) /\ app' = Idle
      /\ UNCHANGED <<dev, m_devices, loop, devices, stream, time>>
  BY DEF CloseProbed
<1>2. app.d \in Open /\ m_devices[dev[app.d].index] = None /\ ~Shutting
  BY <1>1 DEF Inv, Reachable, Shutting, InShutdown
<1>3. Listed' /\ Open' = Open \ {app.d}
  BY <1>1, <1>2, ListShrinks DEF Inv
<1>4. app'.pc = "idle"
  BY <1>1 DEF Idle
<1>5. Shape' /\ Somewhere'
  BY <1>1 DEF Inv, Shape, Somewhere
<1>6. Formats' /\ Targets' /\ Clocks'
  <2>1. \A d \in 1..Len(dev), k \in Kinds : dev[d].running[k] => Made(d, k)
    BY <1>1 DEF Inv, Targets
  <2> QED
    BY <1>1, <1>4, <2>1 DEF Inv, Formats, Targets, Clocks, Made
<1>7. /\ \A i \in Indexes : m_devices[i] # None =>
            m_devices[i] \in Open' /\ dev[m_devices[i]].index = i
      /\ \A d \in Open' : m_devices[dev[d].index] = d
  <2>1. app.d # None
    BY <1>2 DEF Inv, Listed, None
  <2> QED
    BY <1>1, <1>2, <1>3, <2>1 DEF Inv, Reachable
<1>8. \A i \in Indexes :
        /\ devices[i] = Absent => m_devices[i] = None
        /\ devices[i] \in Ids => devices[i] = m_devices[i]
        /\ devices[i] = None => m_devices[i] = None
  BY <1>1, <1>2 DEF Inv, Reachable
<1> QED
  BY <1>1, <1>3, <1>4, <1>5, <1>6, <1>7, <1>8 DEF Inv, Reachable

\* The driver forgets a device and begins to delete it.
LEMMA ForgetKeeps ==
    ASSUME Inv, NEW i \in Indexes, devices[i] \in Ids, app.pc \in {"idle", "try"},
           devices' = [devices EXCEPT ![i] = None], app' = Deleting(devices[i], Idle),
           UNCHANGED <<ctx, dev, m_devices, loop, stream, time>>
    PROVE  Inv'
<1>1. Absent # None /\ None \notin Ids /\ Absent \notin Ids
  BY OpensAssumption DEF Absent, None, Ids
<1>2. ~Shutting
  BY DEF Shutting, InShutdown
<1>3. m_devices[i] = devices[i] /\ m_devices[i] \in Open /\ dev[m_devices[i]].index = i
  BY <1>1, <1>2 DEF Inv, Reachable
<1>4. m_devices[i] \in 1..Len(dev)
  BY <1>3 DEF Inv, Listed
<1>5. app'.pc = "~Device" /\ app'.d = m_devices[i] /\ app'.then = Idle
  BY <1>3 DEF Deleting
<1>6. devices' \in [Indexes -> Ids \cup {None, Absent}]
      /\ \A j \in Indexes : devices'[j] = IF j = i THEN None ELSE devices[j]
  BY DEF Inv, Shape
<1>7. Shape' /\ Listed' /\ Open' = Open
  BY <1>6 DEF Inv, Shape, Listed, Open
<1>8. Somewhere'
  BY <1>3, <1>4 DEF Somewhere
<1>9. Formats' /\ Targets' /\ Clocks'
  <2>1. \A d \in 1..Len(dev), k \in Kinds : dev[d].running[k] => Made(d, k)
    BY DEF Inv, Targets
  <2> QED
    BY <1>5, <2>1 DEF Inv, Formats, Targets, Clocks, Made
<1>10. \A j \in Indexes :
        /\ devices'[j] = Absent => m_devices[j] = None
        /\ devices'[j] \in Ids => devices'[j] = m_devices[j]
        /\ devices'[j] = None => m_devices[j] = None \/ m_devices[j] = app'.d
  BY <1>1, <1>2, <1>5, <1>6 DEF Inv, Reachable
<1>11. /\ \A j \in Indexes : m_devices[j] # None =>
            m_devices[j] \in Open' /\ dev[m_devices[j]].index = j
       /\ \A d \in Open' : m_devices[dev[d].index] = d
  BY <1>7 DEF Inv, Reachable
<1>12. /\ app'.d \in Open' /\ m_devices[dev[app'.d].index] = app'.d
       /\ devices'[dev[app'.d].index] = None
  BY <1>3, <1>5, <1>6, <1>7
<1> QED
  BY <1>5, <1>7, <1>8, <1>9, <1>10, <1>11, <1>12 DEF Inv, Reachable

\* A stream is destroyed with its device, or the process ends.
LEMMA DestroyOneKeeps == Inv /\ DestroyOne => Inv'
<1> SUFFICES ASSUME Inv, DestroyOne PROVE Inv'
  OBVIOUS
<1>1. app.pc = "~Device" /\ UNCHANGED <<ctx, m_devices, devices, app, time>>
  BY DEF DestroyOne
<1>2. app.d \in 1..Len(dev)
  BY <1>1 DEF Inv, Reachable, Listed
<1>3. PICK k \in Kinds :
        IF CanStop(app.d, k)
        THEN /\ dev' = [dev EXCEPT ![app.d] = Stopped(@, k)]
             /\ stream' = [stream EXCEPT ![app.d][k] = NoStream]
             /\ UNCHANGED loop
        ELSE /\ loop' = [loop EXCEPT !.pc = "ended"]
             /\ UNCHANGED <<dev, stream>>
  BY DEF DestroyOne
<1> DEFINE d == app.d
           r == Stopped(dev[d], k)
<1>4. CASE CanStop(app.d, k)
  <2>1. dev[d] \in Devices /\ dev \in Seq(Devices) /\ stream \in Seq(Streams)
        /\ d \in 1..Len(dev) /\ Len(stream) = Len(dev)
    <3> HIDE DEF d
    <3>1. d \in 1..Len(dev)
      BY <1>2 DEF d
    <3> QED
      BY <3>1 DEF Inv, Shape
  <2>2. /\ r \in Devices /\ r.index = dev[d].index
        /\ r.format = dev[d].format /\ r.m_format = dev[d].m_format
        /\ ~r.running[k] /\ \A j \in Kinds : j # k => r.running[j] = dev[d].running[j]
    BY <2>1, StoppedDevice
  <2>3. /\ dev' = [dev EXCEPT ![d] = r]
        /\ stream' = [stream EXCEPT ![d][k] = NoStream] /\ loop' = loop
    BY <1>3, <1>4
  <2>4. app.pc = "~Device" /\ app' = app
    BY <1>1
  <2> HIDE DEF d, r
  <2>5. /\ dev' \in Seq(Devices) /\ Len(dev') = Len(dev) /\ dev'[d] = r
        /\ \A e \in 1..Len(dev) : e # d => dev'[e] = dev[e]
    BY <2>1, <2>2, <2>3, OneDevice
  <2>6. /\ stream' \in Seq(Streams) /\ Len(stream') = Len(stream) /\ stream'[d][k] = NoStream
        /\ \A e \in 1..Len(stream), j \in Kinds :
              e # d \/ j # k => stream'[e][j] = stream[e][j]
    <3> DEFINE w == [stream[d] EXCEPT ![k] = NoStream]
    <3>1. d \in 1..Len(stream) /\ stream[d] \in Streams
      BY <2>1
    <3>2. w \in Streams /\ w[k] = NoStream /\ \A j \in Kinds : j # k => w[j] = stream[d][j]
      BY <3>1 DEF Streams, StreamStates
    <3>3. stream' = [stream EXCEPT ![d] = w]
      BY <2>3
    <3> HIDE DEF w
    <3>4. /\ stream' \in Seq(Streams) /\ Len(stream') = Len(stream) /\ stream'[d] = w
          /\ \A e \in 1..Len(stream) : e # d => stream'[e] = stream[e]
      BY <2>1, <3>1, <3>2, <3>3, OneStream
    <3> QED
      BY <3>2, <3>4
  <2>7. Shape'
    BY <1>1, <2>1, <2>3, <2>5, <2>6 DEF Inv, Shape
  <2>8. \A e \in 1..Len(dev) : /\ dev'[e].index = dev[e].index /\ dev'[e].format = dev[e].format
                               /\ dev'[e].m_format = dev[e].m_format
    BY <2>2, <2>5
  <2>9. Listed' /\ Somewhere' /\ Reachable'
    BY <1>1, <2>5, <2>8, MapsKept DEF Inv
  <2>10. \A e \in 1..Len(dev), j \in Kinds :
           Made(e, j)' => Made(e, j) /\ stream'[e][j] = stream[e][j]
    BY <2>1, <2>6 DEF Made, NoStream
  <2>11. Formats'
    BY <2>4, <2>5, <2>8, <2>10 DEF Inv, Formats, Kinds
  <2>12. Targets'
    <3>1. \A e \in 1..Len(dev), j \in Kinds : dev[e].running[j] => Made(e, j)
      BY <2>4 DEF Inv, Targets
    <3>2. ASSUME NEW e \in 1..Len(dev), NEW j \in Kinds, dev'[e].running[j] PROVE Made(e, j)'
      BY <2>1, <2>2, <2>5, <2>6, <3>1, <3>2 DEF Made
    <3> QED
      BY <2>5, <3>2 DEF Targets
  <2>13. Clocks'
    BY <1>1, <2>5, <2>10 DEF Inv, Clocks
  <2> QED
    BY <2>7, <2>9, <2>11, <2>12, <2>13 DEF Inv
<1>5. CASE ~CanStop(app.d, k)
  <2>1. loop' = [loop EXCEPT !.pc = "ended"] /\ UNCHANGED <<dev, stream>>
    BY <1>3, <1>5
  <2>2. UNCHANGED driver
    BY <1>1, <2>1 DEF driver
  <2> QED
    BY <1>1, <2>1, <2>2, Calmer DEF Inv, Shape
<1> QED
  BY <1>4, <1>5

\* The device is gone, from the context and from the wrapper's map.
LEMMA CloseDeletedKeeps == Inv /\ CloseDeleted => Inv'
<1> SUFFICES ASSUME Inv, CloseDeleted PROVE Inv'
  OBVIOUS
<1>1. /\ app.pc = "~Device" /\ freenect_close_device(app.d) /\ app' = app.then
      /\ m_devices' = [m_devices EXCEPT ![dev[app.d].index] = None]
      /\ UNCHANGED <<dev, loop, devices, stream, time>>
  BY DEF CloseDeleted
<1>2. /\ app.d \in Open /\ m_devices[dev[app.d].index] = app.d
      /\ app.then = Idle => devices[dev[app.d].index] = None
  BY <1>1 DEF Inv, Reachable
<1>3. app.then \in {Idle, InShutdown}
  BY <1>1 DEF Inv, Somewhere, Idle, InShutdown, Deleting
<1> DEFINE d == app.d
           i == dev[d].index
<1>4. d \in 1..Len(dev) /\ i \in Indexes /\ d # None
  <2>1. d \in 1..Len(dev) /\ d # None
    <3>1. Open \subseteq 1..Len(dev)
      BY DEF Inv, Listed
    <3>2. d \in 1..Len(dev)
      BY <1>2, <3>1
    <3> HIDE DEF d
    <3> QED
      BY <3>2 DEF None
  <2>2. dev[d] \in Devices
    <3> HIDE DEF d
    <3> QED
      BY <2>1 DEF Inv, Shape
  <2> QED
    BY <2>1, <2>2 DEF Devices
<1>5. Listed' /\ Open' = Open \ {d}
  BY <1>1, <1>2, ListShrinks DEF Inv
<1>6. app' \in {Idle, InShutdown} /\ app'.pc \in {"idle", "shutdown"}
  BY <1>1, <1>3 DEF Idle, InShutdown
<1>7. /\ m_devices' \in [Indexes -> Ids \cup {None}]
      /\ \A j \in Indexes : m_devices'[j] = IF j = i THEN None ELSE m_devices[j]
  BY <1>1, <1>4 DEF Inv, Shape
<1>8. Shape' /\ Somewhere'
  BY <1>1, <1>6, <1>7 DEF Inv, Shape, Somewhere
<1>9. Formats' /\ Targets' /\ Clocks'
  <2>1. \A e \in 1..Len(dev), k \in Kinds : dev[e].running[k] => Made(e, k)
    BY <1>1 DEF Inv, Targets
  <2> QED
    BY <1>1, <1>6, <2>1 DEF Inv, Formats, Targets, Clocks, Made
<1>10. /\ \A j \in Indexes : m_devices'[j] # None =>
             m_devices'[j] \in Open' /\ dev[m_devices'[j]].index = j
       /\ \A e \in Open' : m_devices'[dev[e].index] = e
  <2>1. ASSUME NEW j \in Indexes, m_devices'[j] # None
        PROVE  m_devices'[j] \in Open' /\ dev[m_devices'[j]].index = j
    <3>1. j # i /\ m_devices'[j] = m_devices[j]
      BY <1>7, <2>1
    <3>2. m_devices[j] \in Open /\ dev[m_devices[j]].index = j
      BY <2>1, <3>1 DEF Inv, Reachable
    <3> QED
      BY <1>5, <3>1, <3>2
  <2>2. ASSUME NEW e \in Open' PROVE m_devices'[dev[e].index] = e
    <3>1. e \in Open /\ e # d /\ m_devices[dev[e].index] = e
      BY <1>1, <1>5 DEF Inv, Reachable
    <3>2. dev[e].index \in Indexes
      <4>1. e \in 1..Len(dev)
        BY <3>1 DEF Inv, Listed
      <4>2. dev[e] \in Devices
        BY <4>1 DEF Inv, Shape
      <4> QED
        BY <4>2 DEF Devices
    <3> QED
      BY <1>2, <1>7, <3>1, <3>2
  <2> QED
    BY <2>1, <2>2
<1>11. \A j \in Indexes :
        /\ devices[j] = Absent => m_devices'[j] = None
        /\ devices[j] \in Ids => devices[j] = m_devices'[j] \/ Shutting'
        /\ devices[j] = None => m_devices'[j] = None
  <2>1. CASE app.then = Idle
    <3>1. ~Shutting /\ devices[i] = None
      BY <1>1, <1>2, <2>1 DEF Shutting, InShutdown, Idle
    <3>2. None \notin Ids /\ Absent # None
      BY OpensAssumption DEF None, Ids, Absent
    <3>3. \A j \in Indexes : devices[j] = None => m_devices[j] = None \/ m_devices[j] = d
      BY <1>1 DEF Inv, Reachable
    <3>4. \A j \in Indexes : m_devices[j] = d => j = i
      BY <1>4 DEF Inv, Reachable
    <3>5. \A j \in Indexes : devices[j] \in Ids => devices[j] = m_devices[j]
      BY <3>1 DEF Inv, Reachable
    <3> QED
      BY <1>7, <3>1, <3>2, <3>3, <3>4, <3>5 DEF Inv, Reachable
  <2>2. CASE app.then = InShutdown
    <3>1. Shutting'
      BY <1>1, <2>2 DEF Shutting
    <3>2. \A j \in Indexes : devices[j] = None => m_devices[j] = None
      BY <1>1, <2>2 DEF Inv, Reachable, Idle, InShutdown
    <3> QED
      BY <1>7, <3>1, <3>2 DEF Inv, Reachable
  <2> QED
    BY <1>3, <2>1, <2>2
<1> QED
  BY <1>1, <1>5, <1>6, <1>8, <1>9, <1>10, <1>11 DEF Inv, Reachable

LEMMA shutdownKeeps == Inv /\ shutdown => Inv'
<1> SUFFICES ASSUME Inv, shutdown PROVE Inv'
  OBVIOUS
<1>1. app \in {Idle, InShutdown} /\ UNCHANGED <<ctx, dev, m_devices, loop, stream, time>>
  BY DEF shutdown
<1>2. app.pc \in {"idle", "shutdown"}
  BY <1>1 DEF Idle, InShutdown
<1>3. \A d \in 1..Len(dev), k \in Kinds : dev[d].running[k] => Made(d, k)
  BY <1>2 DEF Inv, Targets
<1>4. /\ \A d \in Open : d \in 1..Len(dev) /\ d # None /\ dev[d].index \in Indexes
      /\ \A d \in Open : m_devices[dev[d].index] = d
  <2>1. \A d \in Open : d \in 1..Len(dev) /\ d # None
    BY DEF Inv, Listed, None
  <2>2. \A d \in Open : dev[d] \in Devices
    BY <2>1 DEF Inv, Shape
  <2> QED
    BY <1>2, <2>1, <2>2 DEF Inv, Reachable, Devices
<1>5. Listed' /\ Open' = Open
  BY <1>1 DEF Inv, Listed, Open
<1>6. CASE /\ \A i \in Indexes : m_devices[i] = None
           /\ devices' = [i \in Indexes |-> Absent] /\ app' = Idle
  <2>1. Open = {} /\ app'.pc = "idle"
    BY <1>4, <1>6 DEF Idle
  <2>2. Shape' /\ Somewhere'
    BY <1>1, <1>6 DEF Inv, Shape, Somewhere
  <2>3. Formats' /\ Targets' /\ Clocks'
    BY <1>1, <1>3, <2>1 DEF Inv, Formats, Targets, Clocks, Made
  <2>4. Reachable'
    <3>1. Absent # None /\ Absent \notin Ids
      BY OpensAssumption DEF Absent, None, Ids
    <3> QED
      BY <1>1, <1>5, <1>6, <2>1, <3>1 DEF Reachable
  <2> QED
    BY <1>5, <2>2, <2>3, <2>4 DEF Inv
<1>7. ASSUME NEW i \in Indexes, m_devices[i] # None, app' = Deleting(m_devices[i], InShutdown),
             devices' = devices
      PROVE  Inv'
  <2>1. m_devices[i] \in Open /\ dev[m_devices[i]].index = i
    BY <1>7 DEF Inv, Reachable
  <2>2. app'.pc = "~Device" /\ app'.d = m_devices[i] /\ app'.then = InShutdown /\ Shutting'
    BY <1>7 DEF Deleting, Shutting
  <2>3. Shape' /\ Somewhere'
    BY <1>1, <1>4, <1>7, <2>1 DEF Inv, Shape, Somewhere
  <2>4. Formats' /\ Targets' /\ Clocks'
    BY <1>1, <1>3, <2>2 DEF Inv, Formats, Targets, Clocks, Made
  <2>5. \A j \in Indexes :
          /\ devices[j] = Absent => m_devices[j] = None
          /\ devices[j] = None => m_devices[j] = None
    BY <1>2 DEF Inv, Reachable
  <2>6. \A j \in Indexes : m_devices[j] # None =>
          m_devices[j] \in Open' /\ dev[m_devices[j]].index = j
    BY <1>5 DEF Inv, Reachable
  <2>7. InShutdown # Idle
    BY DEF InShutdown, Idle
  <2> QED
    BY <1>1, <1>4, <1>5, <1>7, <2>1, <2>2, <2>3, <2>4, <2>5, <2>6, <2>7 DEF Inv, Reachable
<1> QED
  BY <1>6, <1>7 DEF shutdown

-----------------------------------------------------------------------------
\* A device that the application has open: it is in the list.
LEMMA OpenDevice ==
    ASSUME Inv, app = Idle, NEW i \in Indexes, devices[i] \in Ids
    PROVE  devices[i] \in 1..Len(dev) /\ dev[devices[i]] \in Devices
<1>1. devices[i] = m_devices[i] /\ devices[i] # None
  BY OpensAssumption DEF Inv, Reachable, Shutting, Idle, InShutdown, None, Ids
<1>2. devices[i] \in 1..Len(dev)
  BY <1>1 DEF Inv, Reachable, Listed
<1> QED
  BY <1>2 DEF Inv, Shape

\* The camera runs before the device points to the stream.
LEMMA createStreamKeeps ==
    ASSUME Inv, NEW d \in 1..Len(dev), NEW k \in Kinds, createStream(d, k)
    PROVE  Inv'
<1> DEFINE s == setVideoMode(dev[d], k, FALSE)
           r == Started(s, k)
<1>1. /\ app = Idle /\ ~Made(d, k) /\ dev' = [dev EXCEPT ![d] = r]
      /\ app' = [pc |-> "new", d |-> d, k |-> k]
      /\ UNCHANGED <<ctx, m_devices, loop, devices, stream, time>>
  BY DEF createStream
<1>2. /\ dev \in Seq(Devices) /\ dev[d] \in Devices /\ dev[d].m_format = dev[d].format
  BY DEF Inv, Shape, Formats
<1>3. /\ s \in Devices /\ s.index = dev[d].index /\ s.running = dev[d].running
      /\ s.m_format = s.format
      /\ \A j \in Kinds : j # k => s.format[j] = dev[d].format[j]
      /\ k = "depth" => s.format["depth"] # "REGISTERED"
  BY <1>2, ModeSet
<1>4. /\ r \in Devices /\ r.index = dev[d].index /\ r.format = s.format
      /\ r.m_format = s.m_format
      /\ \A j \in Kinds : j # k => r.running[j] = dev[d].running[j]
  <2>1. /\ r \in Devices /\ r.index = s.index /\ r.format = s.format /\ r.m_format = s.m_format
        /\ \A j \in Kinds : j # k => r.running[j] = s.running[j]
    BY <1>3, StartedDevice, Zenon
  <2> HIDE DEF s, r
  <2> QED
    BY <1>3, <2>1
<1> HIDE DEF s, r
<1>5. /\ dev' \in Seq(Devices) /\ Len(dev') = Len(dev) /\ dev'[d] = r
      /\ \A e \in 1..Len(dev) : e # d => dev'[e] = dev[e]
  BY <1>1, <1>2, <1>4, OneDevice
<1>6. app'.pc = "new" /\ app'.d = d /\ app'.k = k /\ app.pc = "idle"
  BY <1>1 DEF Idle
<1>7. Shape'
  BY <1>1, <1>5 DEF Inv, Shape
<1>8. Listed' /\ Somewhere' /\ Reachable'
  <2>1. Somewhere'
    BY <1>1, <1>5 DEF Somewhere
  <2>2. \A e \in 1..Len(dev) : dev'[e].index = dev[e].index
    BY <1>4, <1>5
  <2> QED
    BY <1>1, <1>5, <1>6, <2>1, <2>2, MapsKept DEF Inv, Plain
<1>9. Formats'
  <2>1. \A e \in 1..Len(dev) : dev'[e].m_format = dev'[e].format
    BY <1>3, <1>4, <1>5 DEF Inv, Formats
  <2>2. ASSUME NEW e \in 1..Len(dev), Made(e, "depth")
        PROVE  stream[e]["depth"].registration <=> dev'[e].format["depth"] = "REGISTERED"
    <3>1. stream[e]["depth"].registration <=> dev[e].format["depth"] = "REGISTERED"
      BY <2>2 DEF Inv, Formats
    <3>2. CASE e # d
      BY <1>5, <3>1, <3>2
    <3>3. CASE e = d
      <4>1. k # "depth"
        BY <1>1, <2>2, <3>3
      <4> QED
        BY <1>3, <1>4, <1>5, <3>1, <3>3, <4>1 DEF Kinds
    <3> QED
      BY <3>2, <3>3
  <2>3. app'.k = "depth" => dev'[app'.d].format["depth"] # "REGISTERED"
    BY <1>3, <1>4, <1>5, <1>6
  <2> QED
    BY <1>1, <1>5, <2>1, <2>2, <2>3 DEF Formats, Made
<1>10. Targets'
  <2>1. \A e \in 1..Len(dev), j \in Kinds : dev[e].running[j] => Made(e, j)
    BY <1>6 DEF Inv, Targets
  <2>2. ASSUME NEW e \in 1..Len(dev), NEW j \in Kinds, dev'[e].running[j], ~Made(e, j)
        PROVE  e = d /\ j = k
    BY <1>4, <1>5, <2>1, <2>2
  <2> QED
    BY <1>1, <1>5, <2>2 DEF Targets, Made
<1>11. Clocks'
  BY <1>1, <1>5 DEF Inv, Clocks, Made
<1> QED
  BY <1>7, <1>8, <1>9, <1>10, <1>11 DEF Inv

LEMMA ConstructedKeeps == Inv /\ Constructed => Inv'
<1> SUFFICES ASSUME Inv, Constructed PROVE Inv'
  OBVIOUS
<1>1. /\ app.pc = "new" /\ app' = Idle
      /\ stream' = [stream EXCEPT ![app.d][app.k] = NewStream]
      /\ UNCHANGED <<ctx, dev, m_devices, loop, devices, time>>
  BY DEF Constructed
<1>2. PICK d \in 1..Len(dev), k \in Kinds : app = [pc |-> "new", d |-> d, k |-> k]
  BY <1>1 DEF Inv, Somewhere, Idle, InShutdown, Deleting
<1>3. app.d = d /\ app.k = k /\ app'.pc = "idle"
  BY <1>1, <1>2 DEF Idle
<1>4. NewStream \in NewStreams /\ NewStream.made /\ ~NewStream.registration
      /\ NewStream.prev = 0 /\ NewStream.last = 0
  BY DEF NewStream, NewStreams
<1>5. stream \in Seq(Streams) /\ Len(stream) = Len(dev) /\ d \in 1..Len(stream) /\ time \in Nat
  BY ClockAssumption DEF Inv, Shape
<1>6. /\ stream' \in Seq(Streams) /\ Len(stream') = Len(stream) /\ stream'[d][k] = NewStream
      /\ \A e \in 1..Len(stream), j \in Kinds :
            e # d \/ j # k => stream'[e][j] = stream[e][j]
  <2> DEFINE w == [stream[d] EXCEPT ![k] = NewStream]
  <2>1. stream[d] \in Streams
    BY <1>5
  <2>2. w \in Streams /\ w[k] = NewStream /\ \A j \in Kinds : j # k => w[j] = stream[d][j]
    BY <1>4, <2>1 DEF Streams, StreamStates
  <2>3. stream' = [stream EXCEPT ![d] = w]
    BY <1>1, <1>3
  <2> HIDE DEF w
  <2>4. /\ stream' \in Seq(Streams) /\ Len(stream') = Len(stream) /\ stream'[d] = w
        /\ \A e \in 1..Len(stream) : e # d => stream'[e] = stream[e]
    BY <1>5, <2>2, <2>3, OneStream
  <2> QED
    BY <2>2, <2>4
<1>7. Shape'
  BY <1>1, <1>5, <1>6 DEF Inv, Shape
<1>8. Listed' /\ Somewhere' /\ Reachable'
  <2>1. Somewhere'
    BY <1>1 DEF Somewhere
  <2> QED
    BY <1>1, <1>3, <2>1, MapsKept DEF Inv, Plain
<1>9. Formats'
  <2>1. \A e \in 1..Len(dev) : e # d \/ k # "depth" => stream'[e]["depth"] = stream[e]["depth"]
    BY <1>5, <1>6 DEF Kinds
  <2>2. k = "depth" => dev[d].format["depth"] # "REGISTERED"
    BY <1>1, <1>3 DEF Inv, Formats
  <2> QED
    BY <1>1, <1>3, <1>4, <1>6, <2>1, <2>2 DEF Inv, Formats, Made
<1>10. Targets'
  <2>1. \A e \in 1..Len(dev), j \in Kinds :
          dev[e].running[j] /\ ~Made(e, j) => e = d /\ j = k
    BY <1>2 DEF Inv, Targets
  <2>2. ASSUME NEW e \in 1..Len(dev), NEW j \in Kinds, dev[e].running[j] PROVE Made(e, j)'
    BY <1>4, <1>5, <1>6, <2>1, <2>2 DEF Made
  <2> QED
    BY <1>1, <2>2 DEF Targets
<1>11. Clocks'
  <2>1. ASSUME NEW e \in 1..Len(dev), NEW j \in Kinds, Made(e, j)'
        PROVE  stream'[e][j].prev % Wrap = stream'[e][j].last % Wrap /\ stream'[e][j].last <= time
    <3>1. CASE e = d /\ j = k
      BY <1>4, <1>5, <1>6, <3>1
    <3>2. CASE e # d \/ j # k
      <4>1. stream'[e][j] = stream[e][j] /\ Made(e, j)
        BY <1>5, <1>6, <2>1, <3>2 DEF Made
      <4> QED
        BY <4>1 DEF Inv, Clocks
    <3> QED
      BY <3>1, <3>2
  <2> QED
    BY <1>1, <2>1 DEF Clocks
<1> QED
  BY <1>7, <1>8, <1>9, <1>10, <1>11 DEF Inv

\* The camera is stopped before the stream goes.
LEMMA destroyStreamKeeps ==
    ASSUME Inv, NEW d \in 1..Len(dev), NEW k \in Kinds, destroyStream(d, k)
    PROVE  Inv'
<1> DEFINE r == Stopped(dev[d], k)
<1>1. /\ app = Idle /\ dev' = [dev EXCEPT ![d] = r]
      /\ app' = [pc |-> "delete", d |-> d, k |-> k]
      /\ UNCHANGED <<ctx, m_devices, loop, devices, stream, time>>
  BY DEF destroyStream
<1>2. dev \in Seq(Devices) /\ dev[d] \in Devices
  BY DEF Inv, Shape
<1>3. /\ r \in Devices /\ r.index = dev[d].index
      /\ r.format = dev[d].format /\ r.m_format = dev[d].m_format
      /\ \A j \in Kinds : r.running[j] => dev[d].running[j]
  BY <1>2, StoppedDevice
<1> HIDE DEF r
<1>4. /\ dev' \in Seq(Devices) /\ Len(dev') = Len(dev) /\ dev'[d] = r
      /\ \A e \in 1..Len(dev) : e # d => dev'[e] = dev[e]
  BY <1>1, <1>2, <1>3, OneDevice
<1>5. app'.pc = "delete" /\ app.pc = "idle"
  BY <1>1 DEF Idle
<1>6. \A e \in 1..Len(dev) : /\ dev'[e].index = dev[e].index /\ dev'[e].format = dev[e].format
                             /\ dev'[e].m_format = dev[e].m_format
                             /\ \A j \in Kinds : dev'[e].running[j] => dev[e].running[j]
  BY <1>3, <1>4
<1>7. Shape'
  BY <1>1, <1>4 DEF Inv, Shape
<1>8. Listed' /\ Somewhere' /\ Reachable'
  <2>1. Somewhere'
    BY <1>1, <1>4 DEF Somewhere
  <2> QED
    BY <1>1, <1>4, <1>5, <1>6, <2>1, MapsKept DEF Inv, Plain
<1>9. Formats'
  BY <1>1, <1>4, <1>5, <1>6 DEF Inv, Formats, Made
<1>10. Targets'
  <2>1. \A e \in 1..Len(dev), j \in Kinds : dev[e].running[j] => Made(e, j)
    BY <1>5 DEF Inv, Targets
  <2> QED
    BY <1>1, <1>4, <1>6, <2>1 DEF Targets, Made
<1>11. Clocks'
  BY <1>1, <1>4 DEF Inv, Clocks, Made
<1> QED
  BY <1>7, <1>8, <1>9, <1>10, <1>11 DEF Inv

LEMMA DeleteKeeps == Inv /\ Delete => Inv'
<1> SUFFICES ASSUME Inv, Delete PROVE Inv'
  OBVIOUS
<1>1. /\ app.pc = "delete" /\ app' = Idle
      /\ stream' = [stream EXCEPT ![app.d][app.k] = NoStream]
      /\ dev' = [dev EXCEPT ![app.d] = Stopped(@, app.k)]
      /\ UNCHANGED <<ctx, m_devices, loop, devices, time>>
  BY DEF Delete
<1>2. PICK d \in 1..Len(dev), k \in Kinds : app = [pc |-> "delete", d |-> d, k |-> k]
  BY <1>1 DEF Inv, Somewhere, Idle, InShutdown, Deleting
<1>3. app.d = d /\ app.k = k /\ app'.pc = "idle"
  BY <1>1, <1>2 DEF Idle
<1> DEFINE r == Stopped(dev[d], k)
           w == [stream[d] EXCEPT ![k] = NoStream]
<1>4. /\ dev \in Seq(Devices) /\ dev[d] \in Devices /\ stream \in Seq(Streams)
      /\ Len(stream) = Len(dev) /\ d \in 1..Len(stream) /\ stream[d] \in Streams
  BY DEF Inv, Shape
<1>5. /\ r \in Devices /\ r.index = dev[d].index
      /\ r.format = dev[d].format /\ r.m_format = dev[d].m_format
      /\ ~r.running[k] /\ \A j \in Kinds : j # k => r.running[j] = dev[d].running[j]
  BY <1>4, StoppedDevice
<1>6. w \in Streams /\ w[k] = NoStream /\ \A j \in Kinds : j # k => w[j] = stream[d][j]
  BY <1>4 DEF Streams, StreamStates
<1>7. dev' = [dev EXCEPT ![d] = r] /\ stream' = [stream EXCEPT ![d] = w]
  BY <1>1, <1>3
<1> HIDE DEF r, w
<1>8. /\ dev' \in Seq(Devices) /\ Len(dev') = Len(dev) /\ dev'[d] = r
      /\ \A e \in 1..Len(dev) : e # d => dev'[e] = dev[e]
  BY <1>4, <1>5, <1>7, OneDevice
<1>9. /\ stream' \in Seq(Streams) /\ Len(stream') = Len(stream) /\ stream'[d] = w
      /\ \A e \in 1..Len(stream) : e # d => stream'[e] = stream[e]
  BY <1>4, <1>6, <1>7, OneStream
<1>10. Shape'
  BY <1>1, <1>4, <1>8, <1>9 DEF Inv, Shape
<1>11. \A e \in 1..Len(dev) : /\ dev'[e].index = dev[e].index /\ dev'[e].format = dev[e].format
                              /\ dev'[e].m_format = dev[e].m_format
  BY <1>5, <1>8
<1>12. Listed' /\ Somewhere' /\ Reachable'
  <2>1. Somewhere'
    BY <1>1 DEF Somewhere
  <2> QED
    BY <1>1, <1>3, <1>8, <1>11, <2>1, MapsKept DEF Inv, Plain
<1>13. \A e \in 1..Len(dev), j \in Kinds :
         stream'[e][j].made => Made(e, j) /\ stream'[e][j] = stream[e][j]
  BY <1>4, <1>6, <1>9 DEF Made, NoStream
<1>14. Formats'
  BY <1>3, <1>8, <1>11, <1>13 DEF Inv, Formats, Kinds, Made
<1>15. Targets'
  <2>1. \A e \in 1..Len(dev), j \in Kinds :
          dev[e].running[j] /\ ~Made(e, j) => FALSE
    BY <1>1 DEF Inv, Targets
  <2>2. ASSUME NEW e \in 1..Len(dev), NEW j \in Kinds, dev'[e].running[j]
        PROVE  stream'[e][j].made
    BY <1>4, <1>5, <1>6, <1>8, <1>9, <2>1, <2>2 DEF Made
  <2> QED
    BY <1>8, <2>2 DEF Targets, Made
<1>16. Clocks'
  BY <1>1, <1>8, <1>13 DEF Inv, Clocks, Made
<1> QED
  BY <1>10, <1>12, <1>14, <1>15, <1>16 DEF Inv

\* The registration mode: the stream and the camera change together.
LEMMA setImageRegistrationModeKeeps ==
    ASSUME Inv, NEW d \in 1..Len(dev), NEW on \in BOOLEAN, setImageRegistrationMode(d, on)
    PROVE  Inv'
<1>1. app = Idle /\ UNCHANGED <<ctx, m_devices, devices, app, time>>
  BY DEF setImageRegistrationMode
<1>2. CASE ~Made(d, "depth")
  <2>1. loop' = [loop EXCEPT !.pc = "ended"] /\ UNCHANGED <<stream, dev>>
    BY <1>2 DEF setImageRegistrationMode
  <2> QED
    BY <1>1, <2>1, Calmer DEF Inv, Shape, driver
<1>3. CASE Made(d, "depth")
  <2> DEFINE r == setVideoMode(dev[d], "depth", on)
             v == [stream[d]["depth"] EXCEPT !.registration = on]
             w == [stream[d] EXCEPT !["depth"] = v]
  <2>1. /\ dev \in Seq(Devices) /\ dev[d] \in Devices /\ dev[d].m_format = dev[d].format
        /\ stream \in Seq(Streams) /\ Len(stream) = Len(dev)
        /\ d \in 1..Len(stream) /\ stream[d] \in Streams
    BY DEF Inv, Shape, Formats
  <2>2. "depth" \in Kinds
    BY DEF Kinds
  <2>3. /\ r \in Devices /\ r.index = dev[d].index /\ r.running = dev[d].running
        /\ r.m_format = r.format
        /\ (on <=> r.format["depth"] = "REGISTERED")
    BY <2>1, <2>2, ModeSet
  <2>4. stream[d]["depth"] \in NewStreams
    BY <1>3, <2>1, <2>2 DEF Streams, StreamStates, Made, NoStream
  <2>5. /\ v \in NewStreams /\ v.made /\ v.registration = on
        /\ v.prev = stream[d]["depth"].prev /\ v.last = stream[d]["depth"].last
    BY <2>4 DEF NewStreams
  <2>6. stream' = [stream EXCEPT ![d]["depth"].registration = on]
        /\ dev' = [dev EXCEPT ![d] = setVideoMode(@, "depth", on)] /\ loop' = loop
    BY <1>3 DEF setImageRegistrationMode
  <2>7. dev' = [dev EXCEPT ![d] = r] /\ stream' = [stream EXCEPT ![d] = w]
    BY <2>6
  <2> HIDE DEF r, v
  <2>8. w \in Streams /\ w["depth"] = v /\ \A j \in Kinds : j # "depth" => w[j] = stream[d][j]
    BY <2>1, <2>2, <2>5 DEF Streams, StreamStates
  <2> HIDE DEF w
  <2>9. /\ dev' \in Seq(Devices) /\ Len(dev') = Len(dev) /\ dev'[d] = r
        /\ \A e \in 1..Len(dev) : e # d => dev'[e] = dev[e]
    BY <2>1, <2>3, <2>7, OneDevice
  <2>10. /\ stream' \in Seq(Streams) /\ Len(stream') = Len(stream) /\ stream'[d] = w
         /\ \A e \in 1..Len(stream) : e # d => stream'[e] = stream[e]
    BY <2>1, <2>7, <2>8, OneStream
  <2>11. Shape'
    BY <1>1, <2>1, <2>6, <2>9, <2>10 DEF Inv, Shape
  <2>12. \A e \in 1..Len(dev) : /\ dev'[e].index = dev[e].index
                                /\ dev'[e].running = dev[e].running
    BY <2>3, <2>9
  <2>13. Listed' /\ Somewhere' /\ Reachable'
    BY <1>1, <2>9, <2>12, MapsKept DEF Inv
  <2>14. \A e \in 1..Len(dev), j \in Kinds :
           /\ stream'[e][j].made <=> stream[e][j].made
           /\ stream'[e][j].made => stream'[e][j].prev = stream[e][j].prev
                                     /\ stream'[e][j].last = stream[e][j].last
    <3>1. stream[d]["depth"].made
      BY <1>3 DEF Made
    <3> QED
      BY <2>1, <2>5, <2>8, <2>10, <3>1
  <2>15. Formats'
    <3>1. app.pc = "idle"
      BY <1>1 DEF Idle
    <3>2. \A e \in 1..Len(dev) : dev'[e].m_format = dev'[e].format
      BY <2>3, <2>9 DEF Inv, Formats
    <3>3. ASSUME NEW e \in 1..Len(dev), stream'[e]["depth"].made
          PROVE  stream'[e]["depth"].registration <=> dev'[e].format["depth"] = "REGISTERED"
      <4>1. CASE e = d
        BY <2>3, <2>5, <2>8, <2>9, <2>10, <4>1
      <4>2. CASE e # d
        <5>1. dev'[e] = dev[e] /\ stream'[e] = stream[e]
          BY <2>1, <2>9, <2>10, <4>2
        <5> QED
          BY <3>3, <5>1 DEF Inv, Formats, Made
      <4> QED
        BY <4>1, <4>2
    <3> QED
      BY <1>1, <2>9, <3>1, <3>2, <3>3 DEF Formats, Made
  <2>16. Targets'
    BY <1>1, <2>9, <2>12, <2>14 DEF Inv, Targets, Made
  <2>17. Clocks'
    BY <1>1, <2>9, <2>14 DEF Inv, Clocks, Made
  <2> QED
    BY <2>11, <2>13, <2>15, <2>16, <2>17 DEF Inv
<1> QED
  BY <1>2, <1>3

\* A change of one stream that leaves it made, in its mode, with a right clock.
LEMMA StreamKeeps ==
    ASSUME Inv, NEW d \in 1..Len(dev), NEW k \in Kinds, NEW v \in NewStreams, Made(d, k),
           stream' = [stream EXCEPT ![d][k] = v],
           v.registration = stream[d][k].registration,
           v.prev % Wrap = v.last % Wrap, v.last <= time', time <= time', time' \in 0..MaxTime,
           UNCHANGED <<ctx, dev, m_devices, loop, devices, app>>
    PROVE  Inv'
<1> DEFINE w == [stream[d] EXCEPT ![k] = v]
<1>1. /\ stream \in Seq(Streams) /\ Len(stream) = Len(dev)
      /\ d \in 1..Len(stream) /\ stream[d] \in Streams
  BY DEF Inv, Shape
<1>2. w \in Streams /\ w[k] = v /\ \A j \in Kinds : j # k => w[j] = stream[d][j]
  BY <1>1 DEF Streams, StreamStates
<1>3. stream' = [stream EXCEPT ![d] = w]
  OBVIOUS
<1> HIDE DEF w
<1>4. /\ stream' \in Seq(Streams) /\ Len(stream') = Len(stream) /\ stream'[d] = w
      /\ \A e \in 1..Len(stream) : e # d => stream'[e] = stream[e]
  BY <1>1, <1>2, <1>3, OneStream
<1>5. Shape'
  BY <1>1, <1>4 DEF Inv, Shape
<1>6. Listed' /\ Somewhere' /\ Reachable'
  BY MapsKept DEF Inv
<1>7. v.made /\ stream'[d][k] = v
  BY <1>2, <1>4 DEF NewStreams
<1>8. \A e \in 1..Len(dev), j \in Kinds : e # d \/ j # k => stream'[e][j] = stream[e][j]
  BY <1>1, <1>2, <1>4
<1>9. \A e \in 1..Len(dev), j \in Kinds :
        /\ stream'[e][j].made <=> stream[e][j].made
        /\ stream'[e][j].made => stream'[e][j].registration = stream[e][j].registration
  BY <1>7, <1>8 DEF Made
<1>10. Formats'
  BY <1>9 DEF Inv, Formats, Made, Kinds
<1>11. Targets'
  BY <1>9 DEF Inv, Targets, Made
<1>12. Clocks'
  <2>1. ASSUME NEW e \in 1..Len(dev), NEW j \in Kinds, stream'[e][j].made
        PROVE  stream'[e][j].prev % Wrap = stream'[e][j].last % Wrap /\ stream'[e][j].last <= time'
    <3>1. CASE e = d /\ j = k
      BY <1>7, <3>1
    <3>2. CASE e # d \/ j # k
      <4>1. stream'[e][j] = stream[e][j] /\ Made(e, j)
        BY <1>8, <2>1, <3>2 DEF Made
      <4>2. stream[e][j].prev % Wrap = stream[e][j].last % Wrap /\ stream[e][j].last <= time
        BY <4>1 DEF Inv, Clocks
      <4>3. stream[e][j].last \in Nat /\ time \in Nat /\ time' \in Nat
        <5>1. stream[e] \in Streams
          BY DEF Inv, Shape
        <5>2. stream[e][j] \in NewStreams
          BY <4>1, <5>1 DEF Streams, StreamStates, Made, NoStream
        <5>3. stream[e][j].last \in Nat
          BY <5>2 DEF NewStreams
        <5>4. time \in Nat /\ time' \in Nat
          BY ClockAssumption DEF Inv, Shape
        <5> QED
          BY <5>3, <5>4
      <4> HIDE DEF Inv
      <4> DEFINE x == stream[e][j].last
      <4>4. x <= time'
        <5> HIDE DEF x
        <5>1. x <= time /\ x \in Nat
          BY <4>2, <4>3 DEF x
        <5> QED
          BY <4>3, <5>1
      <4> QED
        BY <4>1, <4>2, <4>4
    <3> QED
      BY <3>1, <3>2
  <2> QED
    BY <2>1 DEF Clocks, Made
<1> QED
  BY <1>5, <1>6, <1>10, <1>11, <1>12 DEF Inv

LEMMA RunKeeps ==
    ASSUME Inv, NEW d \in 1..Len(dev), NEW k \in Kinds, NEW on \in BOOLEAN, Run(d, k, on)
    PROVE  Inv' /\ (\A e \in 1..Len(dev), j \in Kinds : stream'[e][j].last = stream[e][j].last)
<1> DEFINE v == [stream[d][k] EXCEPT !.running = on]
<1>1. /\ Made(d, k) /\ stream' = [stream EXCEPT ![d][k].running = on]
      /\ UNCHANGED <<ctx, dev, m_devices, loop, devices, app, time>>
  BY DEF Run
<1>2. stream \in Seq(Streams) /\ stream[d] \in Streams /\ Len(stream) = Len(dev)
  BY DEF Inv, Shape
<1>3. stream[d][k] \in NewStreams
  BY <1>1, <1>2 DEF Streams, StreamStates, Made, NoStream
<1>4. /\ v \in NewStreams /\ v.registration = stream[d][k].registration
      /\ v.prev = stream[d][k].prev /\ v.last = stream[d][k].last
  BY <1>3 DEF NewStreams
<1>5. stream' = [stream EXCEPT ![d][k] = v]
  BY <1>1
<1>6. v.prev % Wrap = v.last % Wrap /\ v.last <= time
  <2>1. stream[d][k].prev % Wrap = stream[d][k].last % Wrap /\ stream[d][k].last <= time
    BY <1>1 DEF Inv, Clocks
  <2> HIDE DEF v
  <2> QED
    BY <1>4, <2>1
<1>7. time \in 0..MaxTime /\ time <= time
  BY ClockAssumption DEF Inv, Shape
<1> HIDE DEF v
<1>8. Inv'
  BY <1>1, <1>4, <1>5, <1>6, <1>7, StreamKeeps
<1>9. ASSUME NEW e \in 1..Len(dev), NEW j \in Kinds PROVE stream'[e][j].last = stream[e][j].last
  <2> DEFINE w == [stream[d] EXCEPT ![k] = v]
  <2>1. w \in Streams /\ w[k] = v /\ \A n \in Kinds : n # k => w[n] = stream[d][n]
    BY <1>2, <1>4 DEF Streams, StreamStates
  <2>2. stream' = [stream EXCEPT ![d] = w]
    BY <1>5
  <2> HIDE DEF w
  <2>3. stream'[d] = w /\ \A n \in 1..Len(stream) : n # d => stream'[n] = stream[n]
    BY <1>2, <2>1, <2>2, OneStream
  <2> QED
    BY <1>2, <1>4, <2>1, <2>3
<1> QED
  BY <1>8, <1>9

\* What the clock property says of one step.
Counted(d, k) ==
    Made(d, k) /\ stream'[d][k].made
      /\ stream'[d][k].last # stream[d][k].last /\ stream[d][k].last > 0
      /\ stream'[d][k].last - stream[d][k].last < Wrap =>
    stream'[d][k].prev - stream[d][k].prev = stream'[d][k].last - stream[d][k].last

LEMMA buildFrameKeeps ==
    ASSUME Inv, NEW d \in 1..Len(dev), NEW k \in Kinds, buildFrame(d, k)
    PROVE  Inv' /\ \A e \in 1..Len(dev), j \in Kinds : Counted(e, j)
<1>1. loop.pc = "events" /\ UNCHANGED <<ctx, dev, m_devices, devices, app>>
  BY DEF buildFrame
<1>2. CASE ~Made(d, k)
  <2>1. loop' = [loop EXCEPT !.pc = "lost"] /\ UNCHANGED <<stream, time>>
    BY <1>2 DEF buildFrame
  <2>2. Inv'
    BY <1>1, <2>1, Calmer DEF Inv, Shape, driver
  <2> QED
    BY <2>1, <2>2 DEF Counted
<1>3. CASE Made(d, k)
  <2> DEFINE p == stream[d][k].prev
             n == stream[d][k].last
             t == time'
             x == Extended(p, t % Wrap)
             v == [stream[d][k] EXCEPT !.prev = x, !.last = t]
  <2>1. /\ t \in (time + 1)..MaxTime /\ loop' = loop
        /\ stream' = [stream EXCEPT ![d][k].prev = Extended(@, t % Wrap), ![d][k].last = t]
    BY <1>3 DEF buildFrame
  <2>2. stream \in Seq(Streams) /\ stream[d] \in Streams /\ Len(stream) = Len(dev)
    BY DEF Inv, Shape
  <2>3. stream[d][k] \in NewStreams
    BY <1>3, <2>2 DEF Streams, StreamStates, Made, NoStream
  <2>4. p \in Nat /\ n \in Nat
    BY <2>3 DEF NewStreams
  <2>5. p % Wrap = n % Wrap /\ n <= time
    BY <1>3 DEF Inv, Clocks
  <2>6. stream' = [stream EXCEPT ![d][k] = v]
    BY <2>1
  <2>7. time \in 0..MaxTime
    BY DEF Inv, Shape
  <2> HIDE DEF p, n, t
  <2>8. t \in Nat /\ n < t /\ t \in 0..MaxTime /\ time <= t /\ t <= t
    BY <2>1, <2>4, <2>5, <2>7, ClockAssumption
  <2>9. x \in Nat /\ x % Wrap = t % Wrap /\ (t - n < Wrap => x - p = t - n)
    BY <2>4, <2>5, <2>8, ExtendedRight
  <2> HIDE DEF x
  <2>10. /\ v \in NewStreams /\ v.registration = stream[d][k].registration
         /\ v.prev = x /\ v.last = t
    BY <2>3, <2>8, <2>9 DEF NewStreams
  <2> HIDE DEF v
  <2>11. Inv'
    <3>1. /\ v.prev % Wrap = v.last % Wrap /\ v.last <= time'
          /\ time <= time' /\ time' \in 0..MaxTime
      BY <2>8, <2>9, <2>10 DEF t
    <3> QED
      BY <1>1, <1>3, <2>1, <2>6, <2>10, <3>1, StreamKeeps
  <2>12. ASSUME NEW e \in 1..Len(dev), NEW j \in Kinds PROVE Counted(e, j)
    <3> DEFINE w == [stream[d] EXCEPT ![k] = v]
    <3>1. w \in Streams /\ w[k] = v /\ \A i \in Kinds : i # k => w[i] = stream[d][i]
      BY <2>2, <2>10 DEF Streams, StreamStates
    <3>2. stream' = [stream EXCEPT ![d] = w]
      BY <2>6
    <3> HIDE DEF w
    <3>3. stream'[d] = w /\ \A i \in 1..Len(stream) : i # d => stream'[i] = stream[i]
      BY <2>2, <3>1, <3>2, OneStream
    <3>4. CASE e # d \/ j # k
      <4>1. stream'[e][j] = stream[e][j]
        BY <2>2, <3>1, <3>3, <3>4
      <4> QED
        BY <4>1 DEF Counted
    <3>5. CASE e = d /\ j = k
      <4>1. stream'[e][j] = v /\ stream[e][j] = stream[d][k]
        BY <3>1, <3>3, <3>5
      <4>2. /\ stream'[e][j].last = t /\ stream'[e][j].prev = x
            /\ stream[e][j].last = n /\ stream[e][j].prev = p
        BY <2>10, <4>1 DEF n, p
      <4> QED
        BY <2>9, <4>2 DEF Counted
    <3> QED
      BY <3>4, <3>5
  <2> QED
    BY <2>11, <2>12
<1> QED
  BY <1>2, <1>3

-----------------------------------------------------------------------------
\* The stream that is constructed is not yet there.
Unbuilt == app.pc = "new" => ~Made(app.d, app.k)

AllCounted == \A d \in 1..Len(dev), k \in Kinds : Counted(d, k)

\* A device is opened or not: the streams stay as they are.
LEMMA SameStreams ==
    ASSUME Inv, NEW i \in Indexes,
           \/ /\ CanOpen /\ FreenectDevice(i)
              /\ stream' = Append(stream, [k \in Kinds |-> NoStream])
           \/ UNCHANGED stream
    PROVE  AllCounted
<1>1. \A d \in 1..Len(dev) : stream'[d] = stream[d]
  BY Allocated
<1> QED
  BY <1>1 DEF AllCounted, Counted

\* The operations that open, close and list devices.
LEMMA MapsStep ==
    ASSUME Inv, Unbuilt,
           \/ Events /\ UNCHANGED driver
           \/ initialize \/ CloseProbed \/ TryCloses \/ DestroyOne \/ CloseDeleted \/ shutdown
           \/ AppDevice
    PROVE  Inv' /\ Unbuilt' /\ AllCounted
<1>1. CASE Events /\ UNCHANGED driver
  BY <1>1, EventsKeep DEF Unbuilt, AllCounted, Counted, Made, driver
<1>2. CASE initialize
  <2>1. app'.pc # "new"
    BY <1>2 DEF initialize, Idle
  <2>2. AllCounted
    <3> DEFINE i == CHOOSE j \in Indexes : devices[j] = Absent
    <3>1. i \in Indexes
      BY <1>2 DEF initialize
    <3>2. \/ /\ CanOpen /\ FreenectDevice(i)
             /\ stream' = Append(stream, [k \in Kinds |-> NoStream])
          \/ UNCHANGED stream
      BY <1>2 DEF initialize
    <3> HIDE DEF i
    <3> QED
      BY <3>1, <3>2, SameStreams
  <2> QED
    BY <1>2, <2>1, <2>2, initializeKeeps DEF Unbuilt
<1>3. CASE CloseProbed
  BY <1>3, CloseProbedKeeps DEF CloseProbed, Idle, Unbuilt, AllCounted, Counted, Made
<1>4. CASE TryCloses
  <2>1. app.i \in Indexes /\ devices[app.i] \in Ids
    BY <1>4 DEF TryCloses, Inv, Reachable, Somewhere, Idle, InShutdown, Deleting
  <2>2. Inv'
    BY <1>4, <2>1, ForgetKeeps DEF TryCloses
  <2> QED
    BY <1>4, <2>2 DEF TryCloses, Deleting, Unbuilt, AllCounted, Counted, Made
<1>5. CASE DestroyOne
  <2>1. app.pc = "~Device" /\ app' = app /\ app.d \in 1..Len(dev)
    BY <1>5 DEF DestroyOne, Inv, Reachable, Listed
  <2>2. AllCounted
    <3>1. CASE UNCHANGED stream
      BY <3>1 DEF AllCounted, Counted
    <3>2. CASE ~UNCHANGED stream
      <4>1. PICK k \in Kinds : stream' = [stream EXCEPT ![app.d][k] = NoStream]
        BY <1>5, <3>2 DEF DestroyOne
      <4> DEFINE d == app.d
                 w == [stream[d] EXCEPT ![k] = NoStream]
      <4>2. d \in 1..Len(dev)
        BY <2>1
      <4>3. stream' = [stream EXCEPT ![d] = w]
        BY <4>1
      <4> HIDE DEF d
      <4>4. stream \in Seq(Streams) /\ d \in 1..Len(stream) /\ stream[d] \in Streams
            /\ Len(stream) = Len(dev)
        BY <4>2 DEF Inv, Shape
      <4>5. w \in Streams /\ ~w[k].made /\ \A j \in Kinds : j # k => w[j] = stream[d][j]
        BY <4>4 DEF Streams, StreamStates, NoStream
      <4> HIDE DEF w
      <4>6. stream'[d] = w /\ \A e \in 1..Len(stream) : e # d => stream'[e] = stream[e]
        BY <4>3, <4>4, <4>5, OneStream
      <4>7. \A e \in 1..Len(dev), j \in Kinds :
              stream'[e][j].made => stream'[e][j] = stream[e][j]
        BY <4>4, <4>5, <4>6
      <4> QED
        BY <4>7 DEF AllCounted, Counted
    <3> QED
      BY <3>1, <3>2
  <2> QED
    BY <1>5, <2>1, <2>2, DestroyOneKeeps DEF Unbuilt
<1>6. CASE CloseDeleted
  <2>1. app'.pc # "new"
    <3>1. app.then \in {Idle, InShutdown}
      BY <1>6 DEF CloseDeleted, Inv, Somewhere, Idle, InShutdown, Deleting
    <3> QED
      BY <1>6, <3>1 DEF CloseDeleted, Idle, InShutdown
  <2> QED
    BY <1>6, <2>1, CloseDeletedKeeps DEF CloseDeleted, Unbuilt, AllCounted, Counted
<1>7. CASE shutdown
  <2>1. app'.pc # "new"
    BY <1>7 DEF shutdown, Idle, Deleting
  <2> QED
    BY <1>7, <2>1, shutdownKeeps DEF shutdown, Unbuilt, AllCounted, Counted
<1>8. CASE AppDevice
  <2>1. PICK i \in Indexes : deviceOpen(i) \/ deviceClose(i) \/ tryDevice(i)
    BY <1>8 DEF AppDevice
  <2>2. app.pc = "idle"
    BY <2>1 DEF deviceOpen, deviceClose, tryDevice, Idle
  <2>3. CASE deviceClose(i)
    <3>1. Inv'
      BY <2>2, <2>3, ForgetKeeps DEF deviceClose
    <3> QED
      BY <2>3, <3>1 DEF deviceClose, Deleting, Unbuilt, AllCounted, Counted
  <2>4. ASSUME NEW then, then = Idle \/ then = [pc |-> "try", i |-> i], app = Idle,
               devices[i] = None, createDevice(i, then), UNCHANGED <<loop, time>>
        PROVE  Inv' /\ Unbuilt' /\ AllCounted
    <3>1. Inv'
      BY <2>4, createDeviceKeeps
    <3>2. AllCounted
      BY <2>4, SameStreams DEF createDevice
    <3>3. app'.pc # "new"
      BY <2>4 DEF createDevice, Idle
    <3> QED
      BY <3>1, <3>2, <3>3 DEF Unbuilt
  <2>5. CASE deviceOpen(i)
    BY <2>4, <2>5 DEF deviceOpen
  <2>6. CASE tryDevice(i)
    BY <2>4, <2>6 DEF tryDevice
  <2> QED
    BY <2>1, <2>3, <2>5, <2>6
<1> QED
  BY <1>1, <1>2, <1>3, <1>4, <1>5, <1>6, <1>7, <1>8

\* The operations on streams, and the callbacks.
LEMMA StreamsStep ==
    ASSUME Inv, Unbuilt,
           \/ AppStream \/ Constructed \/ Delete
           \/ \E d \in 1..Len(dev), k \in Kinds : buildFrame(d, k)
    PROVE  Inv' /\ Unbuilt' /\ AllCounted
<1>1. CASE AppStream
  <2>1. PICK i \in Indexes : devices[i] \in Ids /\
          \/ \E k \in Kinds : \/ createStream(devices[i], k)
                              \/ destroyStream(devices[i], k)
                              \/ \E on \in BOOLEAN : Run(devices[i], k, on)
          \/ \E on \in BOOLEAN : setImageRegistrationMode(devices[i], on)
    BY <1>1 DEF AppStream
  <2> DEFINE d == devices[i]
  <2>2. app = Idle /\ app.pc = "idle"
    <3>1. /\ \A k \in Kinds : createStream(d, k) \/ destroyStream(d, k) => app = Idle
          /\ \A k \in Kinds, on \in BOOLEAN : Run(d, k, on) => app = Idle
          /\ \A on \in BOOLEAN : setImageRegistrationMode(d, on) => app = Idle
      BY DEF createStream, destroyStream, Run, setImageRegistrationMode
    <3>2. app = Idle
      BY <2>1, <3>1
    <3> QED
      BY <3>2 DEF Idle
  <2>3. d \in 1..Len(dev)
    BY <2>1, <2>2, OpenDevice
  <2> HIDE DEF d
  <2>4. ASSUME NEW k \in Kinds, createStream(d, k) PROVE Inv' /\ Unbuilt' /\ AllCounted
    <3>1. Inv'
      BY <2>3, <2>4, createStreamKeeps
    <3>2. stream' = stream /\ app' = [pc |-> "new", d |-> d, k |-> k] /\ ~Made(d, k)
      BY <2>4 DEF createStream
    <3>3. Unbuilt' /\ AllCounted
      BY <3>2 DEF Unbuilt, Made, AllCounted, Counted
    <3> QED
      BY <3>1, <3>3
  <2>5. ASSUME NEW k \in Kinds, destroyStream(d, k) PROVE Inv' /\ Unbuilt' /\ AllCounted
    <3>1. Inv'
      BY <2>3, <2>5, destroyStreamKeeps
    <3>2. stream' = stream /\ app'.pc = "delete"
      BY <2>5 DEF destroyStream
    <3> QED
      BY <3>1, <3>2 DEF Unbuilt, AllCounted, Counted
  <2>6. ASSUME NEW k \in Kinds, NEW on \in BOOLEAN, Run(d, k, on)
        PROVE  Inv' /\ Unbuilt' /\ AllCounted
    <3>1. Inv' /\ \A e \in 1..Len(dev), j \in Kinds : stream'[e][j].last = stream[e][j].last
      BY <2>3, <2>6, RunKeeps
    <3>2. app'.pc = "idle"
      BY <2>2, <2>6 DEF Run
    <3> QED
      BY <3>1, <3>2 DEF Unbuilt, AllCounted, Counted
  <2>7. ASSUME NEW on \in BOOLEAN, setImageRegistrationMode(d, on)
        PROVE  Inv' /\ Unbuilt' /\ AllCounted
    <3>1. Inv'
      BY <2>3, <2>7, setImageRegistrationModeKeeps
    <3>2. app'.pc = "idle"
      BY <2>2, <2>7 DEF setImageRegistrationMode
    <3>3. AllCounted
      <4>1. CASE UNCHANGED stream
        BY <4>1 DEF AllCounted, Counted
      <4>2. CASE ~UNCHANGED stream
        <5> DEFINE v == [stream[d]["depth"] EXCEPT !.registration = on]
                   w == [stream[d] EXCEPT !["depth"] = v]
        <5>1. Made(d, "depth") /\ stream' = [stream EXCEPT ![d] = w]
          BY <2>7, <4>2 DEF setImageRegistrationMode
        <5>2. stream \in Seq(Streams) /\ d \in 1..Len(stream) /\ stream[d] \in Streams
              /\ Len(stream) = Len(dev) /\ "depth" \in Kinds
          BY <2>3 DEF Inv, Shape, Kinds
        <5>3. stream[d]["depth"] \in NewStreams
          BY <5>1, <5>2 DEF Streams, StreamStates, Made, NoStream
        <5>4. v \in NewStreams /\ v.last = stream[d]["depth"].last
          BY <5>3 DEF NewStreams
        <5> HIDE DEF v
        <5>5. /\ w \in Streams /\ w["depth"] = v
              /\ \A j \in Kinds : j # "depth" => w[j] = stream[d][j]
          BY <5>2, <5>4 DEF Streams, StreamStates
        <5> HIDE DEF w
        <5>6. stream'[d] = w /\ \A e \in 1..Len(stream) : e # d => stream'[e] = stream[e]
          BY <5>1, <5>2, <5>5, OneStream
        <5>7. \A e \in 1..Len(dev), j \in Kinds : stream'[e][j].last = stream[e][j].last
          BY <5>2, <5>4, <5>5, <5>6
        <5> QED
          BY <5>7 DEF AllCounted, Counted
      <4> QED
        BY <4>1, <4>2
    <3> QED
      BY <3>1, <3>2, <3>3 DEF Unbuilt
  <2> QED
    BY <2>1, <2>4, <2>5, <2>6, <2>7 DEF d
<1>2. CASE Constructed
  <2>1. app.pc = "new" /\ app' = Idle /\ stream' = [stream EXCEPT ![app.d][app.k] = NewStream]
    BY <1>2 DEF Constructed
  <2>2. PICK d \in 1..Len(dev), k \in Kinds : app = [pc |-> "new", d |-> d, k |-> k]
    BY <2>1 DEF Inv, Somewhere, Idle, InShutdown, Deleting
  <2> DEFINE w == [stream[d] EXCEPT ![k] = NewStream]
  <2>3. ~Made(d, k) /\ stream' = [stream EXCEPT ![d] = w]
    BY <2>1, <2>2 DEF Unbuilt
  <2>4. stream \in Seq(Streams) /\ d \in 1..Len(stream) /\ stream[d] \in Streams
        /\ Len(stream) = Len(dev)
    BY DEF Inv, Shape
  <2>5. w \in Streams /\ \A j \in Kinds : j # k => w[j] = stream[d][j]
    BY <2>4 DEF Streams, StreamStates, NewStream, NewStreams
  <2> HIDE DEF w
  <2>6. stream'[d] = w /\ \A e \in 1..Len(stream) : e # d => stream'[e] = stream[e]
    BY <2>3, <2>4, <2>5, OneStream
  <2>7. \A e \in 1..Len(dev), j \in Kinds : Made(e, j) => stream'[e][j] = stream[e][j]
    BY <2>3, <2>4, <2>5, <2>6 DEF Made
  <2>8. AllCounted
    BY <2>7 DEF AllCounted, Counted
  <2> QED
    BY <1>2, <2>1, <2>8, ConstructedKeeps DEF Unbuilt, Idle
<1>3. CASE Delete
  <2>1. app.pc = "delete" /\ app' = Idle /\ stream' = [stream EXCEPT ![app.d][app.k] = NoStream]
    BY <1>3 DEF Delete
  <2>2. PICK d \in 1..Len(dev), k \in Kinds : app = [pc |-> "delete", d |-> d, k |-> k]
    BY <2>1 DEF Inv, Somewhere, Idle, InShutdown, Deleting
  <2> DEFINE w == [stream[d] EXCEPT ![k] = NoStream]
  <2>3. stream' = [stream EXCEPT ![d] = w]
    BY <2>1, <2>2
  <2>4. stream \in Seq(Streams) /\ d \in 1..Len(stream) /\ stream[d] \in Streams
        /\ Len(stream) = Len(dev)
    BY DEF Inv, Shape
  <2>5. w \in Streams /\ ~w[k].made /\ \A j \in Kinds : j # k => w[j] = stream[d][j]
    BY <2>4 DEF Streams, StreamStates, NoStream
  <2> HIDE DEF w
  <2>6. stream'[d] = w /\ \A e \in 1..Len(stream) : e # d => stream'[e] = stream[e]
    BY <2>3, <2>4, <2>5, OneStream
  <2>7. \A e \in 1..Len(dev), j \in Kinds : stream'[e][j].made => stream'[e][j] = stream[e][j]
    BY <2>4, <2>5, <2>6
  <2>8. AllCounted
    BY <2>7 DEF AllCounted, Counted
  <2> QED
    BY <1>3, <2>1, <2>8, DeleteKeeps DEF Unbuilt, Idle
<1>4. CASE \E d \in 1..Len(dev), k \in Kinds : buildFrame(d, k)
  <2>1. PICK d \in 1..Len(dev), k \in Kinds : buildFrame(d, k)
    BY <1>4
  <2>2. Inv' /\ AllCounted
    BY <2>1, buildFrameKeeps DEF AllCounted
  <2>3. app' = app
    BY <2>1 DEF buildFrame
  <2>4. Unbuilt'
    <3>1. CASE app.pc = "new"
      <4>1. PICK e \in 1..Len(dev), j \in Kinds : app = [pc |-> "new", d |-> e, k |-> j]
        BY <3>1 DEF Inv, Somewhere, Idle, InShutdown, Deleting
      <4>2. ~Made(e, j)
        BY <4>1 DEF Unbuilt
      <4>3. CASE UNCHANGED stream
        BY <2>3, <4>3 DEF Unbuilt, Made
      <4>4. CASE ~UNCHANGED stream
        <5> DEFINE v == [stream[d][k] EXCEPT !.prev = Extended(@, time' % Wrap), !.last = time']
                   w == [stream[d] EXCEPT ![k] = v]
        <5>1. Made(d, k) /\ stream' = [stream EXCEPT ![d] = w]
          <6>1. Made(d, k)
            BY <2>1, <4>4 DEF buildFrame
          <6>2. stream' = [stream EXCEPT ![d][k].prev = Extended(@, time' % Wrap),
                                         ![d][k].last = time']
            BY <2>1, <6>1 DEF buildFrame
          <6> QED
            BY <6>1, <6>2
        <5>2. d # e \/ k # j
          BY <4>2, <5>1
        <5>3. stream \in Seq(Streams) /\ d \in 1..Len(stream) /\ stream[d] \in Streams
              /\ Len(stream) = Len(dev)
          BY DEF Inv, Shape
        <5> HIDE DEF v
        <5>4. \A i \in 1..Len(stream) : stream'[i] = IF i = d THEN w ELSE stream[i]
          BY <5>1, <5>3
        <5>5. \A i \in Kinds : i # k => w[i] = stream[d][i]
          BY <5>3 DEF Streams
        <5> HIDE DEF w
        <5>6. stream'[e][j] = stream[e][j]
          BY <5>2, <5>3, <5>4, <5>5
        <5> QED
          BY <2>3, <4>1, <4>2, <5>6 DEF Unbuilt, Made
      <4> QED
        BY <4>3, <4>4
    <3>2. CASE app.pc # "new"
      BY <2>3, <3>2 DEF Unbuilt
    <3> QED
      BY <3>1, <3>2
  <2> QED
    BY <2>2, <2>4
<1> QED
  BY <1>1, <1>2, <1>3, <1>4

-----------------------------------------------------------------------------
LEMMA Step == Inv /\ Unbuilt /\ [Next]_vars => Inv' /\ Unbuilt' /\ AllCounted
<1> SUFFICES ASSUME Inv, Unbuilt, [Next]_vars PROVE Inv' /\ Unbuilt' /\ AllCounted
  OBVIOUS
<1>1. CASE Next
  BY <1>1, MapsStep, StreamsStep DEF Next
<1>2. CASE UNCHANGED vars
  <2>1. UNCHANGED <<ctx, dev, m_devices, loop, devices, stream, app, time>>
    BY <1>2 DEF vars
  <2>2. Inv'
    BY <2>1, Calmer DEF driver, Inv, Shape
  <2> QED
    BY <2>1, <2>2 DEF Unbuilt, Made, AllCounted, Counted
<1> QED
  BY <1>1, <1>2

LEMMA Invariant == MCSpec => [](Inv /\ Unbuilt)
<1>1. MCInit => Inv /\ Unbuilt
  BY InitInv DEF MCInit, Init, Unbuilt, Idle
<1>2. [MCNext]_allVars => [Next]_vars
  BY DEF MCNext, allVars
<1>3. Inv /\ Unbuilt /\ [Next]_vars => (Inv /\ Unbuilt)'
  BY Step
<1> QED
  BY <1>1, <1>2, <1>3, PTL DEF MCSpec

LEMMA Maps == Inv => TypeOK /\ MapsAgree /\ FormatsTrue
<1> SUFFICES ASSUME Inv PROVE TypeOK /\ MapsAgree /\ FormatsTrue
  OBVIOUS
<1>1. TypeOK
  BY DEF Inv, Shape, Listed, TypeOK
<1>2. ASSUME app = Idle PROVE MapsAgree
  <2>1. ~Shutting /\ app.pc = "idle"
    BY <1>2 DEF Shutting, Idle, InShutdown
  <2>2. ASSUME NEW i \in Indexes, devices[i] # Absent PROVE devices[i] = m_devices[i]
    BY <2>1, <2>2 DEF Inv, Shape, Reachable
  <2>3. \A d \in Open : m_devices[dev[d].index] = d /\ dev[d].index \in Indexes /\ d # None
    <3>1. \A d \in Open : d \in 1..Len(dev)
      BY DEF Inv, Listed
    <3>2. \A d \in Open : dev[d] \in Devices
      BY <3>1 DEF Inv, Shape
    <3>3. \A d \in Open : d # None
      BY <3>1 DEF None
    <3> QED
      BY <2>1, <3>2, <3>3 DEF Inv, Reachable, Devices
  <2>4. \A i \in Indexes : m_devices[i] # None => m_devices[i] \in Open
    BY DEF Inv, Reachable
  <2> QED
    BY <2>2, <2>3, <2>4 DEF MapsAgree
<1>3. FormatsTrue
  BY DEF Inv, Formats, Listed, FormatsTrue
<1> QED
  BY <1>1, <1>2, <1>3 DEF MapsAgree

\* The maps of the driver and of the wrapper hold the devices of the context, and the formats
\* they remember are the cameras': for any bus, however often devices are opened, closed and
\* pulled out.
THEOREM MapsAreTrue == MCSpec => []MapsTrue
<1>1. Inv => MapsTrue
  BY Maps DEF MapsTrue
<1> QED
  BY <1>1, Invariant, PTL

\* A callback finds its stream, but for the time in which the stream is constructed.
THEOREM TargetsAreThere == MCSpec => TargetsThere
<1>1. [MCNext]_allVars => [Next]_vars
  BY DEF MCNext, allVars
<1>2. Inv =>
        ((\E d \in 1..Len(dev), k \in Kinds : buildFrame(d, k)) /\ loop'.pc = "lost" =>
            app.pc = "new")
  <2> SUFFICES ASSUME Inv, NEW d \in 1..Len(dev), NEW k \in Kinds, buildFrame(d, k),
                      loop'.pc = "lost"
               PROVE  app.pc = "new"
    OBVIOUS
  <2>1. ~Made(d, k) /\ dev[d].running[k]
    BY DEF buildFrame
  <2> QED
    BY <2>1 DEF Inv, Targets
<1> QED
  BY <1>1, <1>2, Invariant, PTL DEF MCSpec, TargetsThere

\* The times given to OpenNI go on as the camera's clock does, for any width of the clock.
THEOREM ClockIsTrue == MCSpec => ClockTrue
<1>1. [MCNext]_allVars => [Next]_vars
  BY DEF MCNext, allVars
<1>2. Inv /\ Unbuilt /\ [Next]_vars =>
        \A d \in 1..Len(dev), k \in Kinds :
          d <= Len(stream) /\ Made(d, k) /\ stream'[d][k].made
            /\ stream'[d][k].last # stream[d][k].last /\ stream[d][k].last > 0
            /\ stream'[d][k].last - stream[d][k].last < Wrap =>
          stream'[d][k].prev - stream[d][k].prev = stream'[d][k].last - stream[d][k].last
  BY Step DEF AllCounted, Counted
<1> QED
  BY <1>1, <1>2, Invariant, PTL DEF MCSpec, ClockTrue

-----------------------------------------------------------------------------
(* The calls to the motor.  Until a call gave a Kinect up, what is on the way to it and    *)
(* from it is what belongs to the call under way, and nothing else.                        *)

Evens == {2 * n : n \in Int}

\* The commands that go out on an audio handle: a tilt is in whole degrees.
EvenCommands ==
    [op : {"tilt"}, arg : Evens]
      \cup [op : {"led"}, arg : {"off", "green", "red", "blink_green"}]
      \cup [op : {"state"}, arg : {0}]

Transfers == [bytes : {12, 104}, tag : Nat, arg : Int]
Kinect == [tilt : Int, led : Leds \cup {"off", "green", "red", "blink_green"}]
Ops == {"none", "tilt", "led", "state"}
NoDev == CHOOSE d \in Devs : TRUE
Calls ==
    [op : Ops, dev : Devs \cup {NoDev}, pc : {"idle", "data", "reply", "crashed"},
     tag : Nat, got : Nat, res : Int]

\* What a Kinect sends.
Data(t, tilt) == [bytes |-> 104, tag |-> t, arg |-> tilt]
Status(t, a) == [bytes |-> 12, tag |-> t, arg |-> a]

Busy(d) == motorCall.pc \in {"data", "reply"} /\ motorCall.dev = d

\* The stages of a call: the Kinect has the command; it has answered; it has told its state,
\* and the call has read that.
Sent(d) ==
    /\ motorCall.pc = "data" <=> motorCall.op = "state"
    /\ \E c \in EvenCommands : c.op = motorCall.op /\ work[d] = <<<<c, motorCall.tag>>>>
    /\ pipe[d] = <<>>
Answered(d) ==
    /\ motorCall.pc = "reply" /\ motorCall.op # "state"
    /\ work[d] = <<>> /\ \E a \in {0, 1} : pipe[d] = <<Status(motorCall.tag, a)>>
Told(d) ==
    /\ motorCall.pc = "data" /\ motorCall.op = "state" /\ work[d] = <<>>
    /\ \E a \in {0, 1} :
         pipe[d] = <<Data(motorCall.tag, hw[d].tilt), Status(motorCall.tag, a)>>
Known(d) ==
    /\ motorCall.pc = "reply" /\ motorCall.op = "state" /\ raw[d] = hw[d].tilt
    /\ work[d] = <<>> /\ \E a \in {0, 1} : pipe[d] = <<Status(motorCall.tag, a)>>

Exchange(d) ==
    IF Busy(d) THEN Sent(d) \/ Answered(d) \/ Told(d) \/ Known(d)
    ELSE work[d] = <<>> /\ pipe[d] = <<>>

MotorTypes ==
    /\ handles \in [Devs -> Handles]
    /\ raw \in [Devs -> Int]
    /\ tag_seq \in Nat
    /\ motorCall \in Calls
    /\ hw \in [Devs -> Kinect]
    /\ work \in [Devs -> Seq(EvenCommands \X Nat)]
    /\ pipe \in [Devs -> Seq(Transfers)]

MotorInv ==
    /\ MotorTypes
    /\ \A d \in Devs : handles[d].viaAudio => hw[d].tilt \in Evens
    /\ motorCall.pc \in {"data", "reply"} =>
         motorCall.dev \in Devs /\ handles[motorCall.dev].viaAudio
    /\ \A d \in Devs \ missed : Exchange(d)

LEMMA OneElement ==
    ASSUME NEW S, NEW x \in S
    PROVE  /\ <<x>> \in Seq(S) /\ <<x>> # <<>> /\ Head(<<x>>) = x /\ Tail(<<x>>) = <<>>
           /\ Append(<<>>, x) = <<x>> /\ <<>> \o <<x>> = <<x>>
<1>1. <<x>> \in Seq(S) /\ Len(<<x>>) = 1 /\ <<x>>[1] = x
  OBVIOUS
<1>2. Tail(<<x>>) \in Seq(S) /\ Len(Tail(<<x>>)) = 0
  BY <1>1, HeadTailProperties
<1>3. Tail(<<x>>) = <<>>
  BY <1>2, EmptySeq
<1>4. <<>> \in Seq(S)
  BY EmptySeq
<1>5. Append(<<>>, x) = <<x>>
  <2>1. Append(<<>>, x) \in Seq(S) /\ Len(Append(<<>>, x)) = 1 /\ Append(<<>>, x)[1] = x
    BY <1>4, AppendProperties, EmptySeq
  <2> QED
    BY <1>1, <2>1, SeqEqual
<1>6. <<>> \o <<x>> = <<x>>
  BY <1>1, ConcatEmptySeq
<1> QED
  BY <1>1, <1>3, <1>5, <1>6

LEMMA TwoElements ==
    ASSUME NEW S, NEW x \in S, NEW y \in S
    PROVE  /\ <<x, y>> \in Seq(S) /\ <<x, y>> # <<>>
           /\ Head(<<x, y>>) = x /\ Tail(<<x, y>>) = <<y>>
           /\ (<<>> \o <<x>>) \o <<y>> = <<x, y>>
<1>1. <<x, y>> \in Seq(S) /\ Len(<<x, y>>) = 2 /\ <<x, y>>[1] = x /\ <<x, y>>[2] = y
  OBVIOUS
<1>2. <<x>> \in Seq(S) /\ Len(<<x>>) = 1 /\ <<x>>[1] = x
  OBVIOUS
<1>3. <<y>> \in Seq(S) /\ Len(<<y>>) = 1 /\ <<y>>[1] = y
  OBVIOUS
<1>4. Tail(<<x, y>>) = <<y>>
  <2>1. Tail(<<x, y>>) \in Seq(S) /\ Len(Tail(<<x, y>>)) = 1 /\ Tail(<<x, y>>)[1] = y
    BY <1>1, HeadTailProperties
  <2> QED
    BY <1>3, <2>1, SeqEqual
<1>5. (<<>> \o <<x>>) \o <<y>> = <<x, y>>
  <2>1. <<>> \o <<x>> = <<x>>
    BY <1>2, ConcatEmptySeq
  <2>2. <<x>> \o <<y>> = <<x, y>>
    <3>1. /\ <<x>> \o <<y>> \in Seq(S) /\ Len(<<x>> \o <<y>>) = 2
          /\ (<<x>> \o <<y>>)[1] = x /\ (<<x>> \o <<y>>)[2] = y
      BY <1>2, <1>3, ConcatProperties
    <3>2. \A i \in 1..2 : i = 1 \/ i = 2
      OBVIOUS
    <3> QED
      BY <1>1, <3>1, <3>2, SeqEqual
  <2> QED
    BY <2>1, <2>2
<1> QED
  BY <1>1, <1>4, <1>5

LEMMA ClampInt == ASSUME NEW a \in Int PROVE motor!Clamp(a) \in Int
BY DEF motor!Clamp, motor!MAX_TILT_ANGLE

LEMMA DegreesEven == ASSUME NEW a \in Int PROVE 2 * motor!Degrees(a) \in Evens
<1>1. motor!Degrees(a) \in Int
  BY DEF motor!Degrees
<1> QED
  BY <1>1 DEF Evens

\* The reading of the state keeps whole degrees.
LEMMA EvenKept ==
    ASSUME NEW a \in Evens
    PROVE  a \in Int /\ (a \div 2) * 2 = a
<1>1. PICK n \in Int : a = 2 * n
  BY DEF Evens
<1> QED
  BY <1>1

LEMMA EvensInt == Evens \subseteq Int
BY DEF Evens

\* What a command leaves of a Kinect.
LEMMA DoneKinect ==
    ASSUME NEW h \in Kinect, NEW c, c.op \in {"tilt", "led", "state"},
           c.op = "tilt" => c.arg \in Int,
           c.op = "led" => c.arg \in Leds \cup {"off", "green", "red", "blink_green"}
    PROVE  /\ motor!Done(h, c) \in Kinect
           /\ motor!Done(h, c).tilt = IF c.op = "tilt" THEN c.arg ELSE h.tilt
<1>1. CASE c.op = "tilt"
  BY <1>1 DEF motor!Done, Kinect
<1>2. CASE c.op = "led"
  BY <1>2 DEF motor!Done, Kinect
<1>3. CASE c.op = "state"
  BY <1>3 DEF motor!Done, Kinect
<1> QED
  BY <1>1, <1>2, <1>3

LEMMA NoCallIs ==
    motor!NoCall = [op |-> "none", dev |-> NoDev, pc |-> "idle", tag |-> 0, got |-> 0, res |-> 0]
BY DEF motor!NoCall, NoDev

\* The end of a call.
LEMMA CallEnds ==
    ASSUME NEW x \in Calls, NEW g \in Nat, NEW r \in Int
    PROVE  /\ [x EXCEPT !.pc = "idle", !.got = g, !.res = r] \in Calls
           /\ [x EXCEPT !.pc = "idle", !.res = r] \in Calls
           /\ [x EXCEPT !.pc = "idle", !.got = g, !.res = r].pc = "idle"
           /\ [x EXCEPT !.pc = "idle", !.got = g, !.res = r].dev = x.dev
           /\ [x EXCEPT !.pc = "idle", !.got = g, !.res = r].op = x.op
           /\ [x EXCEPT !.pc = "idle", !.got = g, !.res = r].got = g
           /\ [x EXCEPT !.pc = "idle", !.res = r].pc = "idle"
           /\ [x EXCEPT !.pc = "idle", !.res = r].dev = x.dev
BY DEF Calls

\* A call that needs no reply.
LEMMA Answered0 ==
    ASSUME NEW d \in Devs, NEW o \in Ops, NEW r \in Int
    PROVE  /\ [motor!NoCall EXCEPT !.op = o, !.dev = d, !.res = r] \in Calls
           /\ [motor!NoCall EXCEPT !.op = o, !.dev = d, !.res = r].pc = "idle"
BY NoCallIs DEF Calls

LEMMA MotorInit == motor!Init => MotorInv
<1> SUFFICES ASSUME motor!Init PROVE MotorInv
  OBVIOUS
<1> USE DEF motor!Init
<1>1. motorCall \in Calls /\ motorCall.pc = "idle"
  BY NoCallIs DEF Calls, Ops
<1>2. MotorTypes
  BY <1>1, EmptySeq DEF MotorTypes, Kinect
<1>3. 0 \in Evens
  BY DEF Evens
<1> QED
  BY <1>1, <1>2, <1>3 DEF MotorInv, Exchange, Busy

\* No call is under way before, and none after.
LEMMA NoCallKeeps ==
    ASSUME MotorInv, motorCall.pc = "idle", motorCall' \in Calls,
           motorCall'.pc \in {"idle", "crashed"},
           raw' \in [Devs -> Int], hw' \in [Devs -> Kinect],
           \A d \in Devs : handles[d].viaAudio => hw'[d] = hw[d],
           tag_seq' \in Nat, missed \subseteq missed', UNCHANGED <<handles, pipe>>,
           work' \in [Devs -> Seq(EvenCommands \X Nat)],
           \A d \in Devs \ missed' : work'[d] = work[d]
    PROVE  MotorInv'
<1>1. MotorTypes'
  BY DEF MotorInv, MotorTypes
<1>2. \A d \in Devs \ missed : work[d] = <<>> /\ pipe[d] = <<>>
  BY DEF MotorInv, Exchange, Busy
<1>3. \A d \in Devs \ missed' : work'[d] = <<>> /\ pipe'[d] = <<>>
  BY <1>2
<1> QED
  BY <1>1, <1>3 DEF MotorInv, Exchange, Busy

LEMMA ViaMotorKeeps ==
    ASSUME MotorInv, NEW d \in Devs, NEW c \in motor!Commands,
           motor!MotorOff(d, c) \/ motor!ViaMotor(d, c) \/ motor!NullMotor(d, c)
    PROVE  MotorInv'
<1>1. MotorTypes /\ c.op \in {"tilt", "led", "state"} /\ c.op \in Ops
  BY DEF MotorInv, motor!Commands, Ops
<1>2. motorCall.pc = "idle" /\ UNCHANGED <<handles, tag_seq, work, pipe, missed>>
  BY DEF motor!MotorOff, motor!ViaMotor, motor!NullMotor
<1>3. motorCall' \in Calls /\ motorCall'.pc \in {"idle", "crashed"}
  <2>1. \/ motorCall' = [motor!NoCall EXCEPT !.op = c.op, !.dev = d, !.res = 0]
        \/ motorCall' = [motor!NoCall EXCEPT !.op = c.op, !.dev = d, !.res = -1]
        \/ motorCall' = [motor!NoCall EXCEPT !.op = c.op, !.dev = d, !.pc = "crashed"]
    BY DEF motor!MotorOff, motor!ViaMotor, motor!NullMotor, motor!Answers
  <2>2. -1 \in Int /\ 0 \in Int
    OBVIOUS
  <2>3. CASE motorCall' = [motor!NoCall EXCEPT !.op = c.op, !.dev = d, !.pc = "crashed"]
    <3>1. motorCall' = [op |-> c.op, dev |-> d, pc |-> "crashed", tag |-> 0, got |-> 0, res |-> 0]
      BY <2>3, NoCallIs
    <3> QED
      BY <1>1, <3>1 DEF Calls
  <2>4. CASE motorCall' = [motor!NoCall EXCEPT !.op = c.op, !.dev = d, !.res = 0]
    BY <1>1, <2>2, <2>4, Answered0
  <2>5. CASE motorCall' = [motor!NoCall EXCEPT !.op = c.op, !.dev = d, !.res = -1]
    BY <1>1, <2>2, <2>5, Answered0
  <2> QED
    BY <2>1, <2>3, <2>4, <2>5
<1>4. CASE UNCHANGED <<raw, hw>>
  BY <1>1, <1>2, <1>3, <1>4, NoCallKeeps DEF MotorTypes
<1>5. CASE motor!ViaMotor(d, c) /\ ~UNCHANGED <<raw, hw>>
  <2> DEFINE s == IF c.op = "tilt" THEN [c EXCEPT !.arg = motor!Clamp(@)] ELSE c
  <2>1. /\ ~handles[d].viaAudio
        /\ hw' = [hw EXCEPT ![d] = motor!Done(@, s)]
        /\ raw' = IF c.op = "state" THEN [raw EXCEPT ![d] = hw[d].tilt] ELSE raw
    BY <1>5 DEF motor!ViaMotor
  <2>2. /\ s.op \in {"tilt", "led", "state"} /\ (s.op = "tilt" => s.arg \in Int)
        /\ s.op = "led" => s.arg \in Leds \cup {"off", "green", "red", "blink_green"}
    <3>1. CASE c.op = "tilt"
      <4>1. c \in [op : {"tilt"}, arg : Angles]
        BY <3>1 DEF motor!Commands
      <4>2. c.arg \in Int
        BY <4>1, MotorAssumption DEF motor!BoundsAssumption
      <4>3. s.op = "tilt" /\ s.arg = motor!Clamp(c.arg)
        BY <3>1, <4>1
      <4> QED
        BY <4>2, <4>3, ClampInt
    <3>2. CASE c.op # "tilt"
      BY <1>1, <3>2 DEF motor!Commands
    <3> QED
      BY <3>1, <3>2
  <2> HIDE DEF s
  <2>3. hw[d] \in Kinect /\ hw[d].tilt \in Int
    BY <1>1 DEF MotorTypes, Kinect
  <2>4. motor!Done(hw[d], s) \in Kinect
    BY <2>2, <2>3, DoneKinect
  <2>5. hw' \in [Devs -> Kinect] /\ \A e \in Devs : handles[e].viaAudio => hw'[e] = hw[e]
    BY <1>1, <2>1, <2>4 DEF MotorTypes
  <2>6. raw' \in [Devs -> Int]
    BY <1>1, <2>1, <2>3 DEF MotorTypes
  <2> QED
    BY <1>1, <1>2, <1>3, <2>5, <2>6, NoCallKeeps DEF MotorTypes
<1> QED
  BY <1>4, <1>5 DEF motor!MotorOff, motor!NullMotor

\* A command goes out: it is the only thing between the host and the Kinect.
LEMMA ViaAudioKeeps ==
    ASSUME MotorInv, NEW d \in Devs, NEW c \in motor!Commands, motor!ViaAudio(d, c)
    PROVE  MotorInv'
<1> DEFINE alt == CASE c.op = "tilt" -> [c EXCEPT !.arg = 2 * motor!Degrees(@)]
                    [] c.op = "led" -> [c EXCEPT !.arg = motor!AltLed(@)]
                    [] OTHER -> c
           job == <<alt, tag_seq>>
<1>1. MotorTypes /\ c.op \in {"tilt", "led", "state"} /\ c.op \in Ops
  BY DEF MotorInv, motor!Commands, Ops
<1>2. /\ motorCall.pc = "idle" /\ handles[d].viaAudio
      /\ UNCHANGED <<handles, raw, hw, pipe>>
  BY DEF motor!ViaAudio
<1>3. alt \in EvenCommands /\ alt.op = c.op
  <2>1. CASE c.op = "tilt"
    <3>1. c \in [op : {"tilt"}, arg : Angles]
      BY <2>1 DEF motor!Commands
    <3>2. c.arg \in Int
      BY <3>1, MotorAssumption DEF motor!BoundsAssumption
    <3>3. 2 * motor!Degrees(c.arg) \in Evens
      BY <3>2, DegreesEven
    <3>4. alt = [c EXCEPT !.arg = 2 * motor!Degrees(@)]
      BY <2>1
    <3> HIDE DEF alt
    <3>5. alt = [op |-> "tilt", arg |-> 2 * motor!Degrees(c.arg)]
      BY <3>1, <3>4
    <3> QED
      BY <2>1, <3>3, <3>5 DEF EvenCommands
  <2>2. CASE c.op = "led"
    <3>1. c \in [op : {"led"}, arg : Leds]
      BY <2>2 DEF motor!Commands
    <3>2. motor!AltLed(c.arg) \in {"off", "green", "red", "blink_green"}
      BY DEF motor!AltLed
    <3>3. alt = [c EXCEPT !.arg = motor!AltLed(@)]
      BY <2>2
    <3> HIDE DEF alt
    <3>4. alt = [op |-> "led", arg |-> motor!AltLed(c.arg)]
      BY <3>1, <3>3
    <3> QED
      BY <2>2, <3>2, <3>4 DEF EvenCommands
  <2>3. CASE c.op = "state"
    BY <2>3 DEF motor!Commands, EvenCommands
  <2> QED
    BY <1>1, <2>1, <2>2, <2>3
<1>4. /\ tag_seq' \in {tag_seq, tag_seq + 1}
      /\ \/ /\ motorCall' = [motor!NoCall EXCEPT !.op = c.op, !.dev = d, !.res = -1]
            /\ \/ UNCHANGED <<work, missed>>
               \/ missed' = missed \cup {d} /\ UNCHANGED work
               \/ /\ missed' = missed \cup {d}
                  /\ work' = [work EXCEPT ![d] = Append(@, job)]
         \/ /\ motorCall' = [motor!NoCall EXCEPT
                               !.op = c.op, !.dev = d, !.tag = tag_seq,
                               !.pc = IF c.op = "state" THEN "data" ELSE "reply"]
            /\ work' = [work EXCEPT ![d] = Append(@, job)]
            /\ UNCHANGED missed
  BY DEF motor!ViaAudio, motor!Answers
<1>5. tag_seq \in Nat /\ tag_seq' \in Nat
  BY <1>1, <1>4 DEF MotorTypes
<1>6. job \in EvenCommands \X Nat
  BY <1>3, <1>5
<1> HIDE DEF alt
<1>7. [work EXCEPT ![d] = Append(@, job)] \in [Devs -> Seq(EvenCommands \X Nat)]
  <2> HIDE DEF job
  <2>1. work[d] \in Seq(EvenCommands \X Nat)
    BY <1>1 DEF MotorTypes
  <2>2. Append(work[d], job) \in Seq(EvenCommands \X Nat)
    BY <1>6, <2>1, AppendProperties
  <2> QED
    BY <1>1, <2>2 DEF MotorTypes
<1>8. CASE motorCall' = [motor!NoCall EXCEPT !.op = c.op, !.dev = d, !.res = -1]
           /\ missed \subseteq missed'
           /\ work' \in [Devs -> Seq(EvenCommands \X Nat)]
           /\ \A e \in Devs \ missed' : work'[e] = work[e]
  <2>1. motorCall' \in Calls /\ motorCall'.pc = "idle"
    <3>1. -1 \in Int
      OBVIOUS
    <3> QED
      BY <1>1, <1>8, <3>1, Answered0
  <2> QED
    BY <1>1, <1>2, <1>5, <1>8, <2>1, NoCallKeeps DEF MotorTypes
<1>9. CASE /\ motorCall' = [motor!NoCall EXCEPT
                               !.op = c.op, !.dev = d, !.tag = tag_seq,
                               !.pc = IF c.op = "state" THEN "data" ELSE "reply"]
           /\ work' = [work EXCEPT ![d] = Append(@, job)]
           /\ UNCHANGED missed
  <2>1. /\ motorCall' \in Calls /\ motorCall'.op = c.op /\ motorCall'.dev = d
        /\ motorCall'.tag = tag_seq
        /\ motorCall'.pc = IF c.op = "state" THEN "data" ELSE "reply"
    <3> DEFINE p == IF c.op = "state" THEN "data" ELSE "reply"
    <3>1. p \in {"data", "reply"}
      OBVIOUS
    <3>2. motorCall' = [motor!NoCall EXCEPT !.op = c.op, !.dev = d, !.tag = tag_seq, !.pc = p]
      BY <1>9
    <3> HIDE DEF p
    <3>3. motorCall' = [op |-> c.op, dev |-> d, pc |-> p, tag |-> tag_seq, got |-> 0, res |-> 0]
      BY <3>2, NoCallIs
    <3>4. motorCall' \in Calls
      BY <1>1, <1>5, <3>1, <3>3 DEF Calls
    <3> QED
      BY <3>3, <3>4 DEF p
  <2>2. MotorTypes'
    BY <1>1, <1>2, <1>5, <1>7, <1>9, <2>1 DEF MotorTypes
  <2>3. \A e \in Devs \ missed : work[e] = <<>> /\ pipe[e] = <<>>
    BY <1>2 DEF MotorInv, Exchange, Busy
  <2>4. \A e \in Devs : e # d => work'[e] = work[e]
    BY <1>1, <1>9 DEF MotorTypes
  <2>5. work'[d] = Append(work[d], job)
    BY <1>1, <1>9 DEF MotorTypes
  <2>6. d \notin missed => work'[d] = <<job>>
    BY <1>6, <2>3, <2>5, OneElement
  <2>7. d \notin missed => Sent(d)'
    BY <1>1, <1>2, <1>3, <2>1, <2>3, <2>6 DEF Sent
  <2>8. \A e \in Devs \ missed : Exchange(e)'
    BY <1>2, <2>1, <2>3, <2>4, <2>7 DEF Exchange, Busy
  <2> QED
    BY <1>2, <1>9, <2>1, <2>2, <2>8 DEF MotorInv
<1> QED
  BY <1>4, <1>7, <1>8, <1>9, <1>1 DEF MotorTypes

\* The Kinect answers what it was sent: in the stage after, if it is not given up.
LEMMA AnswerKeeps ==
    ASSUME MotorInv, NEW d \in Devs, motor!Answer(d)
    PROVE  MotorInv'
<1> DEFINE c == Head(work[d])[1]
           t == Head(work[d])[2]
           tilt == hw[d].tilt
<1>1. MotorTypes /\ work[d] # <<>> /\ UNCHANGED <<handles, raw, tag_seq, motorCall, missed>>
  BY DEF MotorInv, motor!Answer
<1>2. PICK good \in BOOLEAN :
        /\ hw' = [hw EXCEPT ![d] = IF good THEN motor!Done(@, c) ELSE @]
        /\ pipe' = [pipe EXCEPT ![d] = @
               \o (IF c.op = "state" THEN <<[bytes |-> 104, tag |-> t, arg |-> hw[d].tilt]>>
                                     ELSE <<>>)
               \o <<[bytes |-> 12, tag |-> t, arg |-> IF good THEN 0 ELSE 1]>>]
  BY DEF motor!Answer
<1> DEFINE a == IF good THEN 0 ELSE 1
           block == IF c.op = "state" THEN <<Data(t, tilt)>> ELSE <<>>
           end == <<Status(t, a)>>
           h == IF good THEN motor!Done(hw[d], c) ELSE hw[d]
<1>3. /\ hw' = [hw EXCEPT ![d] = h] /\ pipe' = [pipe EXCEPT ![d] = (pipe[d] \o block) \o end]
      /\ work' = [work EXCEPT ![d] = Tail(work[d])]
  BY <1>2 DEF Data, Status, motor!Answer
<1>4. c \in EvenCommands /\ t \in Nat
      /\ Tail(work[d]) \in Seq(EvenCommands \X Nat)
  <2>1. work[d] \in Seq(EvenCommands \X Nat)
    BY <1>1 DEF MotorTypes
  <2>2. Head(work[d]) \in EvenCommands \X Nat /\ Tail(work[d]) \in Seq(EvenCommands \X Nat)
    BY <1>1, <2>1, HeadTailProperties
  <2> QED
    BY <2>2
<1> HIDE DEF c, t
<1>5. hw[d] \in Kinect /\ tilt \in Int /\ a \in {0, 1}
  BY <1>1 DEF MotorTypes, Kinect
<1>6. h \in Kinect /\ (tilt \in Evens => h.tilt \in Evens) /\ (c.op = "state" => h.tilt = tilt)
  <2>1. /\ c.op \in {"tilt", "led", "state"} /\ (c.op = "tilt" => c.arg \in Evens)
        /\ c.op = "led" => c.arg \in {"off", "green", "red", "blink_green"}
    BY <1>4 DEF EvenCommands
  <2>2. c.op = "tilt" => c.arg \in Int
    BY <2>1, EvensInt
  <2>3. motor!Done(hw[d], c) \in Kinect
        /\ motor!Done(hw[d], c).tilt = IF c.op = "tilt" THEN c.arg ELSE hw[d].tilt
    BY <1>5, <2>1, <2>2, DoneKinect
  <2> QED
    BY <1>5, <2>1, <2>3
<1> HIDE DEF h
<1>7. Data(t, tilt) \in Transfers /\ Status(t, a) \in Transfers
  BY <1>4, <1>5 DEF Transfers, Data, Status
<1>8. (pipe[d] \o block) \o end \in Seq(Transfers)
  <2>1. pipe[d] \in Seq(Transfers)
    BY <1>1 DEF MotorTypes
  <2>2. block \in Seq(Transfers) /\ end \in Seq(Transfers)
    BY <1>7, OneElement, EmptySeq
  <2> HIDE DEF block, end
  <2>3. pipe[d] \o block \in Seq(Transfers)
    BY <2>1, <2>2, ConcatProperties
  <2> QED
    BY <2>2, <2>3, ConcatProperties
<1>9. MotorTypes'
  BY <1>1, <1>3, <1>4, <1>6, <1>8 DEF MotorTypes
<1>10. \A e \in Devs : handles[e].viaAudio => hw'[e].tilt \in Evens
  BY <1>1, <1>3, <1>6 DEF MotorInv, MotorTypes
<1>11. ASSUME d \notin missed PROVE Exchange(d)'
  <2>1. Busy(d) /\ Sent(d)
    BY <1>1, <1>11 DEF MotorInv, Exchange, Answered, Told, Known
  <2>2. PICK s \in EvenCommands : s.op = motorCall.op /\ work[d] = <<<<s, motorCall.tag>>>>
    BY <2>1 DEF Sent
  <2>3. <<s, motorCall.tag>> \in EvenCommands \X Nat
    BY <1>1 DEF MotorTypes, Calls
  <2>4. Head(work[d]) = <<s, motorCall.tag>> /\ Tail(work[d]) = <<>>
    BY <2>2, <2>3, OneElement
  <2>5. c.op = motorCall.op /\ t = motorCall.tag
    BY <2>2, <2>4 DEF c, t
  <2>6. work'[d] = <<>> /\ pipe'[d] = (<<>> \o block) \o end /\ hw'[d] = h
    BY <1>1, <1>3, <2>1, <2>4 DEF MotorTypes, Sent
  <2>7. CASE c.op = "state"
    <3>1. pipe'[d] = <<Data(t, tilt), Status(t, a)>>
      BY <1>7, <2>6, <2>7, TwoElements
    <3>2. Told(d)'
      BY <1>1, <1>5, <1>6, <2>1, <2>5, <2>6, <2>7, <3>1 DEF Told, Sent
    <3> QED
      BY <1>1, <2>1, <3>2 DEF Exchange, Busy
  <2>8. CASE c.op # "state"
    <3>1. <<>> \o <<>> = <<>>
      BY EmptySeq, ConcatEmptySeq
    <3>2. pipe'[d] = <<Status(t, a)>>
      BY <1>7, <2>6, <2>8, <3>1, OneElement
    <3>3. motorCall.pc = "reply"
      BY <2>1, <2>5, <2>8 DEF Busy, Sent
    <3>4. Answered(d)'
      BY <1>1, <1>5, <2>5, <2>6, <2>8, <3>2, <3>3 DEF Answered
    <3> QED
      BY <1>1, <2>1, <3>4 DEF Exchange, Busy
  <2> QED
    BY <2>7, <2>8
<1>12. ASSUME NEW e \in Devs \ missed, e # d PROVE Exchange(e)'
  <2>1. work'[e] = work[e] /\ pipe'[e] = pipe[e] /\ hw'[e] = hw[e]
    BY <1>1, <1>3, <1>12 DEF MotorTypes
  <2>2. Exchange(e)
    BY <1>12 DEF MotorInv
  <2> QED
    BY <1>1, <2>1, <2>2 DEF Exchange, Busy, Sent, Answered, Told, Known
<1> QED
  BY <1>1, <1>9, <1>10, <1>11, <1>12 DEF MotorInv

\* The state that is read is the Kinect's.
LEMMA ReadDataKeeps == MotorInv /\ motor!ReadData => MotorInv'
<1> SUFFICES ASSUME MotorInv, motor!ReadData PROVE MotorInv'
  OBVIOUS
<1>0. PICK d \in Devs : d = motorCall.dev
  BY DEF MotorInv, motor!ReadData
<1>1. MotorTypes /\ motorCall.pc = "data" /\ UNCHANGED <<handles, tag_seq, hw, work>>
      /\ handles[d].viaAudio
  BY <1>0 DEF MotorInv, motor!ReadData
<1>2. motorCall \in Calls
  BY <1>1 DEF MotorTypes
<1>3. CASE pipe[d] = <<>>
  <2>1. /\ motorCall' = [motorCall EXCEPT !.pc = "idle", !.res = -1]
        /\ missed' = missed \cup {d} /\ UNCHANGED <<raw, pipe>>
    BY <1>0, <1>3 DEF motor!ReadData
  <2>2. motorCall' \in Calls /\ motorCall'.pc = "idle"
    <3>1. -1 \in Int /\ 0 \in Nat
      OBVIOUS
    <3> QED
      BY <1>2, <2>1, <3>1, CallEnds
  <2>3. MotorTypes'
    BY <1>1, <2>1, <2>2 DEF MotorTypes
  <2>4. ASSUME NEW e \in Devs \ missed' PROVE Exchange(e)'
    <3>1. e \in Devs \ missed /\ ~Busy(e)
      BY <1>0, <2>1, <2>4 DEF Busy
    <3> QED
      BY <1>1, <2>1, <2>2, <3>1 DEF MotorInv, Exchange, Busy
  <2> QED
    BY <1>1, <2>2, <2>3, <2>4 DEF MotorInv
<1>4. CASE pipe[d] # <<>>
  <2>1. PICK garbage \in {hw[d].tilt, 1} :
           raw' = [raw EXCEPT ![d] = IF Head(pipe[d]).bytes = 104
                                     THEN (Head(pipe[d]).arg \div 2) * 2 ELSE garbage]
    BY <1>0, <1>4 DEF motor!ReadData
  <2>2. /\ pipe' = [pipe EXCEPT ![d] = Tail(@)]
        /\ motorCall' = [motorCall EXCEPT !.pc = "reply"] /\ UNCHANGED missed
    BY <1>0, <1>4 DEF motor!ReadData
  <2>3. /\ motorCall' \in Calls /\ motorCall'.pc = "reply" /\ motorCall'.dev = d
        /\ motorCall'.op = motorCall.op /\ motorCall'.tag = motorCall.tag
    BY <1>0, <1>2, <2>2 DEF Calls
  <2>4. Head(pipe[d]) \in Transfers /\ Tail(pipe[d]) \in Seq(Transfers)
    <3>1. pipe[d] \in Seq(Transfers)
      BY <1>1 DEF MotorTypes
    <3> QED
      BY <1>4, <3>1, HeadTailProperties
  <2> DEFINE x == Head(pipe[d]).arg
             v == IF Head(pipe[d]).bytes = 104 THEN (x \div 2) * 2 ELSE garbage
  <2>5. hw[d].tilt \in Int /\ x \in Int
    BY <1>1, <2>4 DEF MotorTypes, Kinect, Transfers
  <2>6. v \in Int
    <3> HIDE DEF x
    <3>1. (x \div 2) * 2 \in Int
      BY <2>5
    <3> QED
      BY <2>5, <3>1
  <2>7. raw' = [raw EXCEPT ![d] = v]
    BY <2>1
  <2> HIDE DEF v
  <2>8. MotorTypes'
    BY <1>1, <2>2, <2>3, <2>4, <2>6, <2>7 DEF MotorTypes
  <2>9. ASSUME d \notin missed PROVE Exchange(d)'
    <3>1. Told(d)
      BY <1>0, <1>1, <1>4, <2>9 DEF MotorInv, Exchange, Busy, Sent, Answered, Known
    <3>2. PICK a \in {0, 1} :
            pipe[d] = <<Data(motorCall.tag, hw[d].tilt), Status(motorCall.tag, a)>>
      BY <3>1 DEF Told
    <3>3. Data(motorCall.tag, hw[d].tilt) \in Transfers /\ Status(motorCall.tag, a) \in Transfers
      BY <1>2, <2>5 DEF Transfers, Data, Status, Calls
    <3>4. Head(pipe[d]) = Data(motorCall.tag, hw[d].tilt)
          /\ Tail(pipe[d]) = <<Status(motorCall.tag, a)>>
      BY <3>2, <3>3, TwoElements
    <3>5. v = hw[d].tilt
      <4>1. hw[d].tilt \in Evens
        BY <1>1 DEF MotorInv
      <4>2. (hw[d].tilt \div 2) * 2 = hw[d].tilt
        BY <4>1, EvenKept
      <4> QED
        BY <3>4, <4>2 DEF v, Data
    <3>6. raw'[d] = hw'[d].tilt /\ pipe'[d] = <<Status(motorCall.tag, a)>> /\ work'[d] = <<>>
      BY <1>1, <2>2, <2>7, <3>1, <3>4, <3>5 DEF MotorTypes, Told
    <3>7. Known(d)'
      BY <2>3, <3>1, <3>6 DEF Known, Told
    <3> QED
      BY <2>3, <3>7 DEF Exchange, Busy
  <2>10. ASSUME NEW e \in Devs \ missed, e # d PROVE Exchange(e)'
    <3>1. ~Busy(e) /\ ~Busy(e)'
      BY <1>0, <2>3, <2>10 DEF Busy
    <3> QED
      BY <1>1, <2>2, <2>10, <3>1 DEF MotorInv, MotorTypes, Exchange
  <2> QED
    BY <1>1, <2>2, <2>3, <2>8, <2>9, <2>10 DEF MotorInv
<1> QED
  BY <1>3, <1>4

\* The reply that is taken is the call's own.
LEMMA get_replyKeeps ==
    MotorInv /\ motor!get_reply =>
      /\ MotorInv'
      /\ motorCall'.dev \notin missed' => motorCall'.got = motorCall.tag
      /\ motorCall'.op = "state" /\ motorCall'.dev \notin missed' =>
           raw'[motorCall'.dev] = hw[motorCall'.dev].tilt
<1> SUFFICES ASSUME MotorInv, motor!get_reply
             PROVE  /\ MotorInv'
                    /\ motorCall'.dev \notin missed' => motorCall'.got = motorCall.tag
                    /\ motorCall'.op = "state" /\ motorCall'.dev \notin missed' =>
                         raw'[motorCall'.dev] = hw[motorCall'.dev].tilt
  OBVIOUS
<1>0. PICK d \in Devs : d = motorCall.dev
  BY DEF MotorInv, motor!get_reply
<1>1. MotorTypes /\ motorCall.pc = "reply" /\ UNCHANGED <<handles, raw, tag_seq, hw, work>>
      /\ handles[d].viaAudio
  BY <1>0 DEF MotorInv, motor!get_reply
<1>2. motorCall \in Calls
  BY <1>1 DEF MotorTypes
<1>3. CASE pipe[d] = <<>>
  <2>1. /\ motorCall' = [motorCall EXCEPT !.pc = "idle", !.res = -1]
        /\ missed' = missed \cup {d} /\ UNCHANGED pipe
    BY <1>0, <1>3 DEF motor!get_reply
  <2>2. motorCall' \in Calls /\ motorCall'.pc = "idle" /\ motorCall'.dev = d
    <3>1. -1 \in Int /\ 0 \in Nat
      OBVIOUS
    <3> QED
      BY <1>0, <1>2, <2>1, <3>1, CallEnds
  <2>3. MotorTypes'
    BY <1>1, <2>1, <2>2 DEF MotorTypes
  <2>4. ASSUME NEW e \in Devs \ missed' PROVE Exchange(e)'
    <3>1. e \in Devs \ missed /\ ~Busy(e)
      BY <1>0, <2>1, <2>4 DEF Busy
    <3> QED
      BY <1>1, <2>1, <2>2, <3>1 DEF MotorInv, Exchange, Busy
  <2> QED
    BY <1>1, <2>1, <2>2, <2>3, <2>4 DEF MotorInv
<1>4. CASE pipe[d] # <<>>
  <2> DEFINE x == Head(pipe[d])
             r == IF x.bytes # 12 THEN 0 ELSE -x.arg
  <2>1. /\ motorCall' = [motorCall EXCEPT !.pc = "idle", !.got = x.tag, !.res = r]
        /\ pipe' = [pipe EXCEPT ![d] = Tail(@)] /\ UNCHANGED missed
    BY <1>0, <1>4 DEF motor!get_reply
  <2>2. x \in Transfers /\ Tail(pipe[d]) \in Seq(Transfers)
    <3>1. pipe[d] \in Seq(Transfers)
      BY <1>1 DEF MotorTypes
    <3> QED
      BY <1>4, <3>1, HeadTailProperties
  <2> HIDE DEF x
  <2>3. r \in Int /\ x.tag \in Nat
    <3>1. x.arg \in Int /\ x.tag \in Nat
      BY <2>2 DEF Transfers
    <3> QED
      BY <3>1
  <2> HIDE DEF r
  <2>4. /\ motorCall' \in Calls /\ motorCall'.pc = "idle" /\ motorCall'.dev = d
        /\ motorCall'.op = motorCall.op /\ motorCall'.got = x.tag
    BY <1>0, <1>2, <2>1, <2>3 DEF Calls
  <2>5. MotorTypes'
    BY <1>1, <2>1, <2>2, <2>4 DEF MotorTypes
  <2>6. ASSUME d \notin missed
        PROVE  /\ x.tag = motorCall.tag /\ work[d] = <<>> /\ Tail(pipe[d]) = <<>>
               /\ motorCall.op = "state" => raw[d] = hw[d].tilt
    <3>1. Answered(d) \/ Known(d)
      BY <1>0, <1>1, <1>4, <2>6 DEF MotorInv, Exchange, Busy, Sent, Told
    <3>2. PICK a \in {0, 1} : pipe[d] = <<Status(motorCall.tag, a)>>
      BY <3>1 DEF Answered, Known
    <3>3. Status(motorCall.tag, a) \in Transfers
      BY <1>2 DEF Transfers, Status, Calls
    <3>4. x = Status(motorCall.tag, a) /\ Tail(pipe[d]) = <<>>
      BY <3>2, <3>3, OneElement DEF x
    <3> QED
      BY <3>1, <3>4 DEF Status, Answered, Known
  <2>7. \A e \in Devs \ missed : Exchange(e)'
    <3>1. ASSUME NEW e \in Devs \ missed, e # d PROVE Exchange(e)'
      <4>1. ~Busy(e) /\ ~Busy(e)'
        BY <1>0, <2>4, <3>1 DEF Busy
      <4> QED
        BY <1>1, <2>1, <3>1, <4>1 DEF MotorInv, MotorTypes, Exchange
    <3>2. ASSUME d \notin missed PROVE Exchange(d)'
      BY <1>1, <2>1, <2>4, <2>6, <3>2 DEF MotorTypes, Exchange, Busy
    <3> QED
      BY <3>1, <3>2
  <2>8. MotorInv'
    BY <1>1, <2>1, <2>4, <2>5, <2>7 DEF MotorInv
  <2> QED
    BY <1>1, <2>1, <2>4, <2>6, <2>8
<1> QED
  BY <1>3, <1>4

LEMMA MotorStep ==
    MotorInv /\ [motor!Next]_(motor!vars) =>
      /\ MotorInv'
      /\ motorCall.pc = "reply" /\ motorCall'.pc = "idle" /\ motorCall'.dev \notin missed' =>
           motorCall'.got = motorCall.tag
      /\ motorCall'.op = "state" /\ motorCall.pc # "idle" /\ motorCall'.pc = "idle"
           /\ motorCall'.res = 0 /\ motorCall'.dev \notin missed' =>
           raw'[motorCall'.dev] = hw[motorCall'.dev].tilt
<1> DEFINE Own == motorCall.pc = "reply" /\ motorCall'.pc = "idle" /\ motorCall'.dev \notin missed' =>
                    motorCall'.got = motorCall.tag
           True == motorCall'.op = "state" /\ motorCall.pc # "idle" /\ motorCall'.pc = "idle"
                     /\ motorCall'.res = 0 /\ motorCall'.dev \notin missed' =>
                     raw'[motorCall'.dev] = hw[motorCall'.dev].tilt
<1> SUFFICES ASSUME MotorInv, [motor!Next]_(motor!vars)
             PROVE  MotorInv' /\ Own /\ True
  OBVIOUS
<1>1. ASSUME NEW d \in Devs, NEW c \in motor!Commands,
             motor!MotorOff(d, c) \/ motor!ViaMotor(d, c) \/ motor!NullMotor(d, c)
               \/ motor!ViaAudio(d, c)
      PROVE  MotorInv' /\ Own /\ True
  <2>1. motorCall.pc = "idle"
    BY <1>1 DEF motor!MotorOff, motor!ViaMotor, motor!NullMotor, motor!ViaAudio
  <2> QED
    BY <1>1, <2>1, ViaMotorKeeps, ViaAudioKeeps
<1>2. ASSUME NEW d \in Devs, motor!Answer(d) PROVE MotorInv' /\ Own /\ True
  <2>1. motorCall' = motorCall
    BY <1>2 DEF motor!Answer
  <2> QED
    BY <1>2, <2>1, AnswerKeeps
<1>3. CASE motor!ReadData
  <2>1. motorCall.pc = "data"
    BY <1>3 DEF motor!ReadData
  <2>2. True
    <3>1. CASE pipe[motorCall.dev] = <<>>
      <4>1. /\ motorCall' = [motorCall EXCEPT !.pc = "idle", !.res = -1]
            /\ missed' = missed \cup {motorCall.dev}
        BY <1>3, <3>1 DEF motor!ReadData
      <4>2. motorCall'.dev = motorCall.dev
        <5>1. motorCall \in Calls /\ -1 \in Int /\ 0 \in Nat
          BY DEF MotorInv, MotorTypes
        <5> QED
          BY <4>1, <5>1, CallEnds
      <4> QED
        BY <4>1, <4>2
    <3>2. CASE pipe[motorCall.dev] # <<>>
      <4>1. motorCall' = [motorCall EXCEPT !.pc = "reply"]
        BY <1>3, <3>2 DEF motor!ReadData
      <4>2. motorCall'.pc = "reply"
        BY <4>1 DEF MotorInv, MotorTypes, Calls
      <4> QED
        BY <4>2
    <3> QED
      BY <3>1, <3>2
  <2> QED
    BY <1>3, <2>1, <2>2, ReadDataKeeps
<1>4. CASE motor!get_reply
  BY <1>4, get_replyKeeps
<1>5. CASE motor!Reselect
  <2>1. UNCHANGED <<handles, raw, tag_seq, motorCall, hw, work, pipe, missed>>
    BY <1>5 DEF motor!Reselect
  <2>2. MotorInv'
    BY <2>1 DEF MotorInv, MotorTypes, Exchange, Busy, Sent, Answered, Told, Known
  <2> QED
    BY <2>1, <2>2
<1>6. CASE UNCHANGED motor!vars
  <2>1. UNCHANGED <<handles, raw, tag_seq, motorCall, hw, work, pipe, missed>>
    BY <1>6 DEF motor!vars
  <2>2. MotorInv'
    BY <2>1 DEF MotorInv, MotorTypes, Exchange, Busy, Sent, Answered, Told, Known
  <2> QED
    BY <2>1, <2>2
<1> HIDE DEF Own, True
<1> QED
  BY <1>1, <1>2, <1>3, <1>4, <1>5, <1>6 DEF motor!Next

\* Until a call gives a Kinect up, every call takes the reply to its own command and every
\* reading is the tilt of its Kinect, although tags are not compared and late replies stay in
\* the endpoint: for any Kinects, handles and angles.
THEOREM MotorIsTrue == MCSpec => MotorTrue
<1>1. MCInit => MotorInv
  BY MotorInit DEF MCInit
<1>2. [MCNext]_allVars => [motor!Next]_(motor!vars)
  BY DEF MCNext, allVars, motorVars, motor!vars
<1>3. MotorInv /\ [motor!Next]_(motor!vars) => MotorInv'
  BY MotorStep
<1>4. MotorInv /\ [motor!Next]_(motor!vars) =>
        (motorCall.pc = "reply" /\ motorCall'.pc = "idle" /\ motorCall'.dev \notin missed' =>
           motorCall'.got = motorCall.tag)
  BY MotorStep
<1>5. MotorInv /\ [motor!Next]_(motor!vars) =>
        (motorCall'.op = "state" /\ motorCall.pc # "idle" /\ motorCall'.pc = "idle"
           /\ motorCall'.res = 0 /\ motorCall'.dev \notin missed' =>
           raw'[motorCall'.dev] = hw[motorCall'.dev].tilt)
  BY MotorStep
<1> QED
  BY <1>1, <1>2, <1>3, <1>4, <1>5, PTL DEF MCSpec, MotorTrue, motor!ReplyOwn, motor!StateTrue
-----------------------------------------------------------------------------
(* The recording and its replay.                                                           *)

Readings == Tilts \cup {fakenect!NoReading}
Entries == [type : {"a", "d", "r"}, timestamp : Nat, tilt : Readings]
SentFrames == [type : {"d", "r"}, timestamp : Nat, tilt : Readings]
Places == {"start", "events", "file", "loop", "closed", "killed"}

\* How many of the first n entries are frames
FramesIn(s, n) == Cardinality({i \in 1..n : s[i].type # "a"})

\* The last reading among the first n entries is v; NoReading if there is none.
LastIs(s, n, v) ==
    \/ v = fakenect!NoReading /\ \A i \in 1..n : s[i].type # "a"
    \/ \E i \in 1..n : /\ s[i].type = "a" /\ s[i].tilt = v
                       /\ \A j \in i + 1..n : s[j].type # "a"

\* The entry that is played next
Now == IF line = 0 THEN 1 ELSE line

Recorded ==
    /\ rec \in [pc : Places, back : Places]
    /\ rec.pc = "file" => rec.back \in {"events", "loop"} /\ Len(log) > 0
    /\ last_timestamp \in Nat
    /\ log \in Seq(Entries) /\ Len(log) <= MaxEntries
    /\ \A i \in 1..Len(log) : log[i].type = "a" => log[i].tilt \in Tilts
    /\ files \in Seq({"empty", "part", "whole"}) /\ Len(files) = Len(log)
    /\ disk \in 0..Len(log)
    /\ torn => rec.pc = "killed"
    /\ rec.pc \in {"events", "file", "loop"} \/ Len(log) > 0 => info

\* Only the file the recorder is at, or was killed at, is not whole.
Written ==
    \A i \in 1..Len(log) :
      files[i] = "whole" \/ (i = Len(log) /\ rec.pc \in {"file", "killed"})

\* The n-th frame of the index is the n-th that was sent, with the reading before it.
FrameAt(i) ==
    LET frame == seen[FramesIn(log, i)]
    IN  /\ frame.type = log[i].type /\ frame.timestamp = log[i].timestamp
        /\ LastIs(log, i - 1, frame.tilt)

Matched ==
    /\ seen \in Seq(SentFrames) /\ Len(seen) = FramesIn(log, Len(log))
    /\ \A i \in 1..Len(log) : log[i].type # "a" => FrameAt(i)
    /\ \E v \in Readings : LastIs(log, Len(log), v)

\* Playing starts when the recorder is gone.  The state a client is told is the last
\* reading before the entry that is played next.
Playing ==
    /\ play \in {"off", "on", "exited"}
    /\ play = "off" => line = 0 /\ shown.line = 0
    /\ play # "off" => rec.pc \in {"closed", "killed"} /\ (info => tables)
    /\ line \in 0..disk + 1
    /\ state \in Readings
    /\ Now <= Len(log) =>
         \A v : LastIs(log, Now - 1, v) /\ v # fakenect!NoReading => state = v
    /\ play = "exited" => rec.pc = "killed" /\ line \in {0, disk + 1}

Displayed ==
    shown.line # 0 =>
      LET frame == seen[FramesIn(log, shown.line)]
      IN  /\ shown.line \in 1..Len(log)
          /\ shown.type = frame.type /\ shown.timestamp = frame.timestamp
          /\ frame.tilt # fakenect!NoReading => shown.tilt = frame.tilt
          /\ shown.whole \/ (rec.pc = "killed" /\ shown.line = Len(log))

ReplayInv == Recorded /\ Written /\ Matched /\ Playing /\ Displayed

LEMMA FramesStep ==
    ASSUME NEW s, NEW n \in Nat
    PROVE  /\ FramesIn(s, 0) = 0 /\ FramesIn(s, n) \in Nat
           /\ FramesIn(s, n + 1) = FramesIn(s, n) + (IF s[n + 1].type # "a" THEN 1 ELSE 0)
<1> DEFINE F(m) == {i \in 1..m : s[i].type # "a"}
<1>1. ASSUME NEW m \in Nat PROVE IsFiniteSet(F(m)) /\ Cardinality(F(m)) \in Nat
  <2>1. IsFiniteSet(1..m)
    BY FS_Interval
  <2>2. IsFiniteSet(F(m))
    BY <2>1, FS_Subset
  <2> QED
    BY <2>2, FS_CardinalityType
<1>2. F(0) = {}
  OBVIOUS
<1>3. F(n + 1) = IF s[n + 1].type # "a" THEN F(n) \cup {n + 1} ELSE F(n)
  OBVIOUS
<1>4. n + 1 \notin F(n)
  OBVIOUS
<1>5. FramesIn(s, 0) = Cardinality(F(0)) /\ FramesIn(s, n) = Cardinality(F(n))
      /\ FramesIn(s, n + 1) = Cardinality(F(n + 1))
  BY DEF FramesIn
<1>6. IsFiniteSet(F(n)) /\ Cardinality(F(n)) \in Nat
  BY <1>1
<1> HIDE DEF F
<1>7. Cardinality(F(n) \cup {n + 1}) = Cardinality(F(n)) + 1
  BY <1>4, <1>6, FS_AddElement
<1>8. Cardinality(F(0)) = 0
  BY <1>2, FS_EmptySet
<1> QED
  BY <1>3, <1>5, <1>6, <1>7, <1>8

LEMMA FramesGrow ==
    ASSUME NEW s, NEW n \in Nat, NEW i \in 1..n, s[i].type # "a"
    PROVE  FramesIn(s, i) \in 1..FramesIn(s, n)
<1> DEFINE F(m) == {j \in 1..m : s[j].type # "a"}
<1>1. IsFiniteSet(1..n)
  BY FS_Interval
<1>2. IsFiniteSet(F(n))
  BY <1>1, FS_Subset
<1>3. F(i) \in SUBSET F(n)
  OBVIOUS
<1>4. Cardinality(F(i)) <= Cardinality(F(n))
  BY <1>2, <1>3, FS_Subset
<1>5. FramesIn(s, i) <= FramesIn(s, n)
  BY <1>4 DEF FramesIn
<1>6. i - 1 \in Nat /\ i - 1 + 1 = i
  OBVIOUS
<1>7. FramesIn(s, i - 1) \in Nat /\ FramesIn(s, i) = FramesIn(s, i - 1) + 1
  BY <1>6, FramesStep
<1>8. FramesIn(s, n) \in Nat
  BY FramesStep
<1> QED
  BY <1>5, <1>7, <1>8

\* Both depend on the first n entries only.
LEMMA SameEntries ==
    ASSUME NEW s, NEW t, NEW n \in Nat, \A i \in 1..n : s[i] = t[i]
    PROVE  FramesIn(s, n) = FramesIn(t, n) /\ \A v : LastIs(s, n, v) <=> LastIs(t, n, v)
<1>1. {i \in 1..n : s[i].type # "a"} = {i \in 1..n : t[i].type # "a"}
  OBVIOUS
<1>2. \A i \in 1..n : i + 1..n \subseteq 1..n
  OBVIOUS
<1>3. ASSUME NEW v PROVE LastIs(s, n, v) <=> LastIs(t, n, v)
  BY <1>2 DEF LastIs
<1> QED
  BY <1>1, <1>3 DEF FramesIn

\* The last reading is the last entry's, or the one before it.
LEMMA LastStep ==
    ASSUME NEW s, NEW n \in Nat, NEW v
    PROVE  LastIs(s, n + 1, v) <=>
             IF s[n + 1].type = "a" THEN v = s[n + 1].tilt ELSE LastIs(s, n, v)
<1>1. CASE s[n + 1].type = "a"
  <2>1. v = s[n + 1].tilt => LastIs(s, n + 1, v)
    BY <1>1 DEF LastIs
  <2>2. LastIs(s, n + 1, v) => v = s[n + 1].tilt
    <3>1. n + 1 \in 1..n + 1 /\ \A i \in 1..n + 1 : i = n + 1 \/ n + 1 \in i + 1..n + 1
      OBVIOUS
    <3> QED
      BY <1>1, <3>1 DEF LastIs
  <2> QED
    BY <1>1, <2>1, <2>2
<1>2. CASE s[n + 1].type # "a"
  <2>1. 1..n + 1 = (1..n) \cup {n + 1}
    OBVIOUS
  <2>2. \A i \in 1..n : i + 1..n + 1 = (i + 1..n) \cup {n + 1}
    OBVIOUS
  <2>3. LastIs(s, n, v) => LastIs(s, n + 1, v)
    BY <1>2, <2>1, <2>2 DEF LastIs
  <2>4. LastIs(s, n + 1, v) => LastIs(s, n, v)
    BY <1>2, <2>1, <2>2 DEF LastIs
  <2> QED
    BY <1>2, <2>3, <2>4
<1> QED
  BY <1>1, <1>2

\* What the recorder takes for the last reading is.
LEMMA LastReadingIs ==
    ASSUME NEW s, Len(s) \in Nat, NEW v, LastIs(s, Len(s), v)
    PROVE  fakenect!LastReading(s) = v
<1> DEFINE R == {i \in 1..Len(s) : s[i].type = "a"}
<1>1. fakenect!LastReading(s) = IF R = {} THEN fakenect!NoReading ELSE s[Max(R)].tilt
  BY DEF fakenect!LastReading, fakenect!Max, Max
<1>2. CASE R = {}
  <2>1. v = fakenect!NoReading
    BY <1>2 DEF LastIs
  <2> QED
    BY <1>1, <1>2, <2>1
<1>3. CASE R # {}
  <2>1. PICK i \in R : s[i].tilt = v /\ \A j \in i + 1..Len(s) : s[j].type # "a"
    BY <1>3 DEF LastIs
  <2>2. \A j \in R : i >= j
    BY <2>1
  <2>3. \A k \in R : (\A j \in R : k >= j) => k = i
    BY <2>2
  <2>4. Max(R) = i
    BY <2>1, <2>2, <2>3 DEF Max
  <2> QED
    BY <1>1, <1>3, <2>1, <2>4
<1> QED
  BY <1>2, <1>3

-----------------------------------------------------------------------------
LEMMA ReplayInit == fakenect!Init => ReplayInv
<1> SUFFICES ASSUME fakenect!Init PROVE ReplayInv
  OBVIOUS
<1>1. /\ rec = [pc |-> "start", back |-> "start"] /\ last_timestamp = 0
      /\ log = <<>> /\ files = <<>> /\ seen = <<>> /\ disk = 0 /\ torn = FALSE
      /\ play = "off" /\ line = 0 /\ state = fakenect!NoReading /\ shown.line = 0
  BY DEF fakenect!Init, fakenect!RecInit, fakenect!NoFrame
<1>2. <<>> \in Seq(Entries) /\ <<>> \in Seq({"empty", "part", "whole"})
      /\ <<>> \in Seq(SentFrames) /\ Len(<<>>) = 0
  BY EmptySeq
<1>3. MaxEntries \in Nat
  BY FakenectAssumption DEF fakenect!MaxEntriesAssumption
<1>4. Recorded
  BY <1>1, <1>2, <1>3 DEF Recorded, Places
<1>5. Written
  BY <1>1 DEF Written
<1>6. Matched
  <2>1. FramesIn(log, 0) = 0
    BY FramesStep
  <2>2. LastIs(log, 0, fakenect!NoReading)
    BY DEF LastIs
  <2> QED
    BY <1>1, <1>2, <2>1, <2>2 DEF Matched, Readings
<1>7. Playing
  BY <1>1, <1>2 DEF Playing, Now, Readings
<1>8. Displayed
  BY <1>1 DEF Displayed
<1> QED
  BY <1>4, <1>5, <1>6, <1>7, <1>8 DEF ReplayInv

\* While the recorder runs, nothing is played yet.
LEMMA NotPlaying ==
    ASSUME ReplayInv, rec.pc \notin {"closed", "killed"}, UNCHANGED fakenect!playVars,
           disk' \in Nat
    PROVE  Playing' /\ Displayed'
<1>1. play = "off" /\ line = 0 /\ shown.line = 0 /\ state \in Readings
  BY DEF ReplayInv, Playing
<1>2. play' = play /\ line' = line /\ shown' = shown /\ state' = state
  BY DEF fakenect!playVars
<1>3. ASSUME NEW v, LastIs(log', 0, v) PROVE v = fakenect!NoReading
  BY <1>3 DEF LastIs
<1>4. Now' = 1 /\ 1 - 1 = 0
  BY <1>1, <1>2 DEF Now
<1>5. ASSUME NEW v PROVE LastIs(log', Now' - 1, v) => v = fakenect!NoReading
  BY <1>3, <1>4
<1>6. Playing'
  <2>1. play' \in {"off", "on", "exited"} /\ (play' = "off" => line' = 0 /\ shown'.line = 0)
        /\ play' = "off" /\ play' # "exited"
        /\ state' \in Readings
    BY <1>1, <1>2
  <2>2. line' \in 0..disk' + 1
    <3>1. line' = 0
      BY <1>1, <1>2
    <3>2. \A m \in Nat : 0 \in 0..m + 1
      OBVIOUS
    <3> QED
      BY <3>1, <3>2
  <2> QED
    BY <1>1, <1>5, <2>1, <2>2, Zenon DEF Playing
<1> QED
  BY <1>1, <1>2, <1>6 DEF Displayed

\* An entry more: what was there stays.
LEMMA EntryAdded ==
    ASSUME Recorded, Matched, NEW e \in Entries, log' = Append(log, e)
    PROVE  LET n == Len(log) IN
           /\ log' \in Seq(Entries) /\ n \in Nat /\ Len(log') = n + 1 /\ log'[n + 1] = e
           /\ \A i \in 1..n : log'[i] = log[i]
           /\ \A i \in 0..n : /\ FramesIn(log', i) = FramesIn(log, i)
                              /\ \A v : LastIs(log', i, v) <=> LastIs(log, i, v)
           /\ FramesIn(log', n + 1) = FramesIn(log, n) + (IF e.type # "a" THEN 1 ELSE 0)
           /\ \A v : LastIs(log', n + 1, v) <=>
                       IF e.type = "a" THEN v = e.tilt ELSE LastIs(log, n, v)
<1> DEFINE n == Len(log)
<1>1. log \in Seq(Entries) /\ n \in Nat
  BY DEF Recorded
<1>2. log' \in Seq(Entries) /\ Len(log') = n + 1 /\ log'[n + 1] = e
      /\ \A i \in 1..n : log'[i] = log[i]
  BY <1>1, AppendProperties
<1> HIDE DEF n
<1> PICK t : t = log'
  OBVIOUS
<1>3. ASSUME NEW i \in 0..n
      PROVE  FramesIn(t, i) = FramesIn(log, i) /\ \A v : LastIs(t, i, v) <=> LastIs(log, i, v)
  <2>1. i \in Nat /\ \A j \in 1..i : t[j] = log[j]
    BY <1>1, <1>2
  <2> QED
    BY <2>1, SameEntries
<1>4. FramesIn(t, n + 1) = FramesIn(t, n) + (IF t[n + 1].type # "a" THEN 1 ELSE 0)
  BY <1>1, FramesStep
<1>5. ASSUME NEW v
      PROVE  LastIs(t, n + 1, v) <=>
               IF t[n + 1].type = "a" THEN v = t[n + 1].tilt ELSE LastIs(t, n, v)
  BY <1>1, LastStep
<1>6. n \in 0..n
  BY <1>1
<1> QED
  BY <1>1, <1>2, <1>3, <1>4, <1>5, <1>6 DEF n

LEMMA FrameKeeps ==
    ASSUME ReplayInv, NEW t \in {"d", "r"}, fakenect!FrameCallback(t)
    PROVE  Recorded' /\ Written' /\ Matched' /\ disk' = disk /\ rec.pc = "events"
<1> PICK n, k : n = Len(log) /\ k = Len(seen)
  OBVIOUS
<1> DEFINE ts == last_timestamp + 1
           e == [type |-> t, timestamp |-> ts, tilt |-> fakenect!NoReading]
<1>1. Recorded /\ Written /\ Matched
  BY DEF ReplayInv
<1>2. PICK v \in Readings : LastIs(log, n, v)
  BY <1>1 DEF Matched
<1> DEFINE f == [type |-> t, timestamp |-> ts, tilt |-> v]
<1>3. /\ rec.pc = "events" /\ rec' = [pc |-> "file", back |-> "events"]
      /\ n < MaxEntries /\ log' = Append(log, e) /\ files' = Append(files, "empty")
      /\ last_timestamp' = ts /\ seen' = Append(seen, f)
      /\ UNCHANGED <<disk, torn, info>>
  <2>1. n \in Nat
    BY <1>1 DEF Recorded
  <2>2. fakenect!LastReading(log) = v
    BY <1>2, <2>1, LastReadingIs
  <2> QED
    BY <2>2 DEF fakenect!FrameCallback, fakenect!OpenDump, fakenect!Typed
<1>4. ts \in Nat /\ e \in Entries /\ f \in SentFrames
  BY <1>1 DEF Recorded, Entries, SentFrames, Readings
<1>5. /\ log' \in Seq(Entries) /\ n \in Nat /\ Len(log') = n + 1 /\ log'[n + 1] = e
      /\ \A i \in 1..n : log'[i] = log[i]
      /\ \A i \in 0..n : /\ FramesIn(log', i) = FramesIn(log, i)
                         /\ \A w : LastIs(log', i, w) <=> LastIs(log, i, w)
      /\ FramesIn(log', n + 1) = FramesIn(log, n) + 1
      /\ \A w : LastIs(log', n + 1, w) <=> LastIs(log, n, w)
  <2>1. e.type # "a"
    OBVIOUS
  <2> HIDE DEF e
  <2> QED
    BY <1>1, <1>3, <1>4, <2>1, EntryAdded
<1>6. /\ files' \in Seq({"empty", "part", "whole"}) /\ Len(files') = n + 1
      /\ \A i \in 1..n : files'[i] = files[i]
  BY <1>1, <1>3, AppendProperties DEF Recorded
<1>7. /\ seen' \in Seq(SentFrames) /\ k \in Nat /\ Len(seen') = k + 1 /\ seen'[k + 1] = f
      /\ \A i \in 1..k : seen'[i] = seen[i]
  BY <1>1, <1>3, <1>4, AppendProperties DEF Matched
<1>8. e.type = t /\ e.timestamp = ts /\ f.type = t /\ f.timestamp = ts /\ f.tilt = v
  OBVIOUS
<1> HIDE DEF e, f, ts
<1>9. Recorded'
  <2>1. rec' \in [pc : Places, back : Places] /\ rec'.pc = "file" /\ rec'.back = "events"
    BY <1>3 DEF Places
  <2>2. \A i \in 1..n + 1 : i \in 1..n \/ i = n + 1
    BY <1>5
  <2>3. \A i \in 1..Len(log') : log'[i].type = "a" => log'[i].tilt \in Tilts
    BY <1>1, <1>5, <1>8, <2>2 DEF Recorded
  <2>4. Len(log') <= MaxEntries /\ disk' \in 0..Len(log') /\ torn' = torn
    BY <1>1, <1>3, <1>5, FakenectAssumption DEF Recorded, fakenect!MaxEntriesAssumption
  <2> QED
    BY <1>1, <1>3, <1>4, <1>5, <1>6, <2>1, <2>3, <2>4 DEF Recorded
<1>10. Written'
  BY <1>1, <1>3, <1>5, <1>6 DEF Written
<1>11. Matched'
  <2>1. k = FramesIn(log, n)
    BY <1>1 DEF Matched
  <2>2. ASSUME NEW i \in 1..n, log[i].type # "a" PROVE FrameAt(i)'
    <3>1. FrameAt(i)
      BY <1>1, <2>2 DEF Matched
    <3>2. FramesIn(log, i) \in 1..k
      BY <1>5, <2>1, <2>2, FramesGrow
    <3>3. FramesIn(log', i) = FramesIn(log, i) /\ i - 1 \in 0..n
      BY <1>5
    <3>4. seen'[FramesIn(log', i)] = seen[FramesIn(log, i)]
      BY <1>7, <3>2, <3>3
    <3> QED
      BY <1>5, <3>1, <3>3, <3>4 DEF FrameAt
  <2>3. FrameAt(n + 1)'
    <3>1. seen'[FramesIn(log', n + 1)] = f
      BY <1>5, <1>7, <2>1
    <3>2. n + 1 - 1 = n /\ n \in 0..n
      BY <1>5
    <3>3. LastIs(log', n + 1 - 1, f.tilt)
      BY <1>2, <1>5, <1>8, <3>2
    <3> QED
      BY <1>5, <1>8, <3>1, <3>2, <3>3 DEF FrameAt
  <2>4. LastIs(log', n + 1, v)
    BY <1>2, <1>5
  <2>5. \A i \in 1..n + 1 : i \in 1..n \/ i = n + 1
    BY <1>5
  <2>6. \A i \in 1..Len(log') : log'[i].type # "a" => FrameAt(i)'
    BY <1>5, <2>2, <2>3, <2>5
  <2> QED
    BY <1>5, <1>7, <2>1, <2>4, <2>6 DEF Matched
<1> QED
  BY <1>3, <1>9, <1>10, <1>11

LEMMA ReadingKeeps ==
    ASSUME ReplayInv, NEW tilt \in Tilts, rec.pc = "events",
           fakenect!OpenDump([type |-> "a", timestamp |-> last_timestamp, tilt |-> tilt], "loop"),
           UNCHANGED <<last_timestamp, disk, torn, info, seen>>
    PROVE  Recorded' /\ Written' /\ Matched'
<1> PICK n, k : n = Len(log) /\ k = Len(seen)
  OBVIOUS
<1> DEFINE e == [type |-> "a", timestamp |-> last_timestamp, tilt |-> tilt]
<1>1. Recorded /\ Written /\ Matched
  BY DEF ReplayInv
<1>2. /\ rec' = [pc |-> "file", back |-> "loop"]
      /\ n < MaxEntries /\ log' = Append(log, e) /\ files' = Append(files, "empty")
  BY DEF fakenect!OpenDump
<1>3. e \in Entries /\ e.type = "a" /\ e.tilt = tilt
  BY <1>1 DEF Recorded, Entries, Readings
<1> HIDE DEF e
<1>4. /\ log' \in Seq(Entries) /\ n \in Nat /\ Len(log') = n + 1 /\ log'[n + 1] = e
      /\ \A i \in 1..n : log'[i] = log[i]
      /\ \A i \in 0..n : /\ FramesIn(log', i) = FramesIn(log, i)
                         /\ \A w : LastIs(log', i, w) <=> LastIs(log, i, w)
      /\ FramesIn(log', n + 1) = FramesIn(log, n) + 0
      /\ \A w : LastIs(log', n + 1, w) <=> w = tilt
  BY <1>1, <1>2, <1>3, EntryAdded
<1>5. /\ files' \in Seq({"empty", "part", "whole"}) /\ Len(files') = n + 1
      /\ \A i \in 1..n : files'[i] = files[i]
  BY <1>1, <1>2, AppendProperties DEF Recorded
<1>6. Recorded'
  <2>1. rec' \in [pc : Places, back : Places] /\ rec'.pc = "file" /\ rec'.back = "loop"
    BY <1>2 DEF Places
  <2>2. \A i \in 1..n + 1 : i \in 1..n \/ i = n + 1
    BY <1>4
  <2>3. \A i \in 1..Len(log') : log'[i].type = "a" => log'[i].tilt \in Tilts
    BY <1>1, <1>3, <1>4, <2>2 DEF Recorded
  <2>4. Len(log') <= MaxEntries /\ disk' \in 0..Len(log') /\ torn' = torn
    BY <1>1, <1>2, <1>4, FakenectAssumption DEF Recorded, fakenect!MaxEntriesAssumption
  <2> QED
    BY <1>1, <1>2, <1>4, <1>5, <2>1, <2>3, <2>4 DEF Recorded
<1>7. Written'
  BY <1>1, <1>2, <1>4, <1>5 DEF Written
<1>8. Matched'
  <2>1. k = FramesIn(log, n) /\ FramesIn(log', n + 1) = k /\ k \in Nat
    BY <1>1, <1>4 DEF Matched
  <2>2. ASSUME NEW i \in 1..n, log[i].type # "a" PROVE FrameAt(i)'
    <3>1. FrameAt(i)
      BY <1>1, <2>2 DEF Matched
    <3>2. FramesIn(log', i) = FramesIn(log, i) /\ i - 1 \in 0..n
      BY <1>4
    <3> QED
      BY <1>4, <3>1, <3>2 DEF FrameAt
  <2>3. \A i \in 1..n + 1 : i \in 1..n \/ i = n + 1
    BY <1>4
  <2>4. \A i \in 1..Len(log') : log'[i].type # "a" => FrameAt(i)'
    BY <1>3, <1>4, <2>2, <2>3
  <2>5. LastIs(log', n + 1, tilt) /\ tilt \in Readings
    BY <1>4 DEF Readings
  <2> QED
    BY <1>1, <1>4, <2>1, <2>4, <2>5 DEF Matched
<1> QED
  BY <1>6, <1>7, <1>8

\* Nothing is added: what was sent still matches.
LEMMA MatchedStays == Matched /\ UNCHANGED <<log, seen>> => Matched'
<1> SUFFICES ASSUME Matched, log' = log, seen' = seen PROVE Matched'
  OBVIOUS
<1>1. ASSUME NEW i, FrameAt(i) PROVE FrameAt(i)'
  BY <1>1 DEF FrameAt
<1> QED
  BY <1>1 DEF Matched

LEMMA RecorderKeeps ==
    ASSUME ReplayInv, fakenect!RecNext, UNCHANGED fakenect!playVars
    PROVE  ReplayInv'
<1>1. Recorded /\ Written /\ Matched
  BY DEF ReplayInv
<1>2. /\ rec.pc \in Places /\ rec.back \in Places /\ Len(log) \in Nat /\ disk \in 0..Len(log)
      /\ Len(files) = Len(log) /\ files \in Seq({"empty", "part", "whole"})
  BY <1>1 DEF Recorded
<1> SUFFICES /\ Recorded' /\ Written' /\ Matched'
             /\ rec.pc \notin {"closed", "killed"} /\ disk' \in Nat
  BY NotPlaying DEF ReplayInv
<1>3. CASE fakenect!write_device_info
  <2>1. /\ rec.pc = "start" /\ info' = TRUE /\ rec' = [pc |-> "events", back |-> "events"]
        /\ UNCHANGED <<last_timestamp, log, files, disk, torn, seen>>
    BY <1>3 DEF fakenect!write_device_info
  <2>2. Recorded'
    BY <1>1, <2>1 DEF Recorded, Places
  <2>3. Written'
    BY <1>1, <2>1 DEF Written
  <2> QED
    BY <1>1, <1>2, <2>1, <2>2, <2>3, MatchedStays
<1>4. ASSUME NEW t \in {"d", "r"}, fakenect!FrameCallback(t)
      PROVE  /\ Recorded' /\ Written' /\ Matched'
             /\ rec.pc \notin {"closed", "killed"} /\ disk' \in Nat
  BY <1>2, <1>4, FrameKeeps
<1>5. CASE fakenect!WriteFile
  <2>1. /\ rec.pc = "file" /\ files' = [files EXCEPT ![Len(files)] = "whole"]
        /\ rec' = [pc |-> rec.back, back |-> rec.back]
        /\ UNCHANGED <<last_timestamp, log, disk, torn, info, seen>>
    BY <1>5 DEF fakenect!WriteFile
  <2>2. rec.back \in {"events", "loop"} /\ Len(log) \in 1..Len(log)
    BY <1>1, <1>2, <2>1 DEF Recorded
  <2>3. /\ files' \in Seq({"empty", "part", "whole"}) /\ Len(files') = Len(log)
        /\ \A i \in 1..Len(log) : files'[i] = IF i = Len(log) THEN "whole" ELSE files[i]
    BY <1>2, <2>1, <2>2, ExceptSeq
  <2>4. Recorded'
    <3>1. rec' \in [pc : Places, back : Places] /\ rec'.pc # "file" /\ ~torn
      BY <1>1, <2>1, <2>2 DEF Recorded, Places
    <3> QED
      BY <1>1, <2>1, <2>3, <3>1 DEF Recorded
  <2>5. Written'
    BY <1>1, <2>1, <2>3 DEF Written
  <2> QED
    BY <1>1, <1>2, <2>1, <2>4, <2>5, MatchedStays
<1>6. CASE fakenect!snapshot_accel
  <2>1. rec.pc = "events" /\ UNCHANGED <<last_timestamp, disk, torn, info, seen>>
    BY <1>6 DEF fakenect!snapshot_accel
  <2>2. CASE rec' = [pc |-> "loop", back |-> "loop"] /\ UNCHANGED <<log, files>>
    <3>1. Recorded'
      BY <1>1, <2>1, <2>2 DEF Recorded, Places
    <3>2. Written'
      BY <1>1, <2>1, <2>2 DEF Written
    <3> QED
      BY <1>1, <1>2, <2>1, <2>2, <3>1, <3>2, MatchedStays
  <2>3. ASSUME NEW tilt \in Tilts,
               fakenect!OpenDump([type |-> "a", timestamp |-> last_timestamp, tilt |-> tilt],
                                 "loop")
        PROVE  Recorded' /\ Written' /\ Matched'
    BY <2>1, <2>3, ReadingKeeps
  <2>4. CASE last_timestamp = 0
    BY <1>2, <1>6, <2>1, <2>2, <2>4 DEF fakenect!snapshot_accel
  <2>5. CASE last_timestamp # 0
    <3>1. PICK tilt \in Tilts :
            fakenect!OpenDump([type |-> "a", timestamp |-> last_timestamp, tilt |-> tilt], "loop")
      BY <1>6, <2>5 DEF fakenect!snapshot_accel
    <3> QED
      BY <1>2, <2>1, <2>3, <3>1
  <2> QED
    BY <2>4, <2>5
<1>7. CASE fakenect!Again
  <2>1. /\ rec.pc = "loop" /\ UNCHANGED <<last_timestamp, log, files, torn, info, seen>>
        /\ \/ rec' = [pc |-> "events", back |-> "events"] /\ disk' = disk
           \/ rec' = [pc |-> "closed", back |-> "closed"] /\ disk' = Len(log)
    BY <1>7 DEF fakenect!Again
  <2>2. disk' \in 0..Len(log) /\ disk' \in Nat
    BY <1>2, <2>1
  <2>3. /\ rec' \in [pc : Places, back : Places] /\ rec'.pc \in {"events", "closed"}
        /\ rec'.pc = "events" => info
    BY <1>1, <2>1 DEF Recorded, Places
  <2>4. Recorded'
    BY <1>1, <2>1, <2>2, <2>3 DEF Recorded
  <2>5. Written'
    BY <1>1, <2>1 DEF Written
  <2> QED
    BY <1>1, <2>1, <2>2, <2>4, <2>5, MatchedStays
<1>8. CASE fakenect!signal_cleanup
  <2>1. /\ rec.pc \notin {"closed", "killed"}
        /\ UNCHANGED <<rec, last_timestamp, log, files, disk, torn, info, seen>>
    BY <1>8 DEF fakenect!signal_cleanup
  <2>2. Recorded'
    BY <1>1, <2>1 DEF Recorded
  <2>3. Written'
    BY <1>1, <2>1 DEF Written
  <2> QED
    BY <1>1, <1>2, <2>1, <2>2, <2>3, MatchedStays
<1>9. CASE fakenect!Kill
  <2>1. /\ rec.pc \in {"start", "events", "file", "loop"}
        /\ rec' = [pc |-> "killed", back |-> "killed"] /\ disk' \in 0..Len(log)
        /\ UNCHANGED <<last_timestamp, log, info, seen>>
        /\ \/ files' = files
           \/ rec.pc = "file" /\ files' = [files EXCEPT ![Len(files)] = "part"]
    BY <1>9 DEF fakenect!Kill
  <2>2. /\ files' \in Seq({"empty", "part", "whole"}) /\ Len(files') = Len(log)
        /\ \A i \in 1..Len(log) : files'[i] = files[i] \/ i = Len(log)
    <3>1. CASE files' = files
      BY <1>2, <3>1
    <3>2. CASE rec.pc = "file" /\ files' = [files EXCEPT ![Len(files)] = "part"]
      <4>1. Len(files) \in 1..Len(files)
        BY <1>1, <1>2, <3>2 DEF Recorded
      <4> QED
        BY <1>2, <3>2, <4>1, ExceptSeq
    <3> QED
      BY <2>1, <3>1, <3>2
  <2>3. rec' \in [pc : Places, back : Places] /\ rec'.pc = "killed"
    BY <2>1 DEF Places
  <2>4. Recorded'
    BY <1>1, <2>1, <2>2, <2>3 DEF Recorded
  <2>5. Written'
    BY <1>1, <2>1, <2>2, <2>3 DEF Written
  <2>6. disk' \in Nat
    BY <1>2, <2>1
  <2> QED
    BY <1>1, <2>1, <2>4, <2>5, <2>6, MatchedStays
<1> QED
  BY <1>3, <1>4, <1>5, <1>6, <1>7, <1>8, <1>9 DEF fakenect!RecNext

\* The rest of the recording is the recorder's: a player changes none of it.
LEMMA RecordingStays ==
    Recorded /\ Written /\ Matched /\ UNCHANGED fakenect!recVars =>
      Recorded' /\ Written' /\ Matched'
<1> SUFFICES ASSUME Recorded, Written, Matched, UNCHANGED fakenect!recVars
             PROVE  Recorded' /\ Written' /\ Matched'
  OBVIOUS
<1>1. UNCHANGED <<rec, last_timestamp, log, files, disk, torn, info, seen>>
  BY DEF fakenect!recVars
<1> QED
  BY <1>1, MatchedStays DEF Recorded, Written

\* Calls that play nothing
LEMMA QuietKeeps ==
    ASSUME ReplayInv, UNCHANGED fakenect!recVars, UNCHANGED <<line, state, shown>>,
           \/ UNCHANGED <<play, tables>>
           \/ play = "off" /\ rec.pc \in {"closed", "killed"} /\ play' = "on" /\ tables' = info
    PROVE  ReplayInv'
<1>1. UNCHANGED <<rec, log, disk, info, seen>>
  BY DEF fakenect!recVars
<1>2. Now' = Now
  BY DEF Now
<1>3. Playing'
  BY <1>1, <1>2 DEF ReplayInv, Playing
<1>4. Displayed'
  BY <1>1 DEF ReplayInv, Displayed
<1> QED
  BY <1>3, <1>4, RecordingStays DEF ReplayInv

\* A line is played, or the round is over: what is shown and told is what was recorded.
LEMMA process_eventsKeeps ==
    ASSUME ReplayInv, fakenect!process_events
    PROVE  ReplayInv'
<1>1. Recorded /\ Written /\ Matched /\ Playing /\ Displayed
  BY DEF ReplayInv
<1>2. PICK now : now = Now
  OBVIOUS
<1>3. /\ play = "on" /\ UNCHANGED <<tables, watched, depth_mode, loop_playback>>
      /\ UNCHANGED fakenect!recVars
  BY DEF fakenect!process_events
<1>4. UNCHANGED <<rec, log, files, disk, torn, info, seen>>
  BY <1>3 DEF fakenect!recVars
<1>5. /\ rec.pc \in {"closed", "killed"} /\ (info => tables)
      /\ Len(log) \in Nat /\ disk \in 0..Len(log)
      /\ line \in 0..disk + 1 /\ state \in Readings /\ now \in 1..disk + 1
  BY <1>1, <1>2, <1>3 DEF Playing, Recorded, Now
<1>6. now <= Len(log) => \A v : LastIs(log, now - 1, v) /\ v # fakenect!NoReading => state = v
  BY <1>1, <1>2 DEF Playing
<1>7. ASSUME NEW v, LastIs(log, 0, v) PROVE v = fakenect!NoReading
  BY <1>7 DEF LastIs
<1> SUFFICES Playing' /\ Displayed'
  BY <1>1, <1>3, RecordingStays DEF ReplayInv
<1>8. ASSUME now > disk, torn, now = disk + 1, play' = "exited", UNCHANGED <<line, state, shown>>
      PROVE  Playing' /\ Displayed'
  <2>1. rec.pc = "killed" /\ line \in {0, disk + 1}
    BY <1>1, <1>2, <1>5, <1>8 DEF Recorded, Now
  <2>2. Now' = now
    BY <1>2, <1>8 DEF Now
  <2>3. Now' <= Len(log') =>
          \A v : LastIs(log', Now' - 1, v) /\ v # fakenect!NoReading => state' = v
    BY <1>4, <1>6, <1>8, <2>2
  <2>4. line' \in 0..disk' + 1
    BY <1>4, <1>5, <1>8
  <2>5. Playing'
    BY <1>3, <1>4, <1>5, <1>8, <2>1, <2>3, <2>4 DEF Playing
  <2> QED
    BY <1>1, <1>4, <1>8, <2>5 DEF Displayed
<1>9. ASSUME NEW m \in 1..disk + 1, fakenect!RoundOver(m),
             m <= Len(log) => \A v : LastIs(log, m - 1, v) /\ v # fakenect!NoReading => state = v
      PROVE  Playing' /\ Displayed'
  <2>1. line' \in {0, m} /\ UNCHANGED <<play, state, shown>>
    BY <1>9 DEF fakenect!RoundOver
  <2>2. CASE line' = 0
    <3>1. Now' = 1 /\ 1 - 1 = 0
      BY <2>2 DEF Now
    <3>2. Playing'
      BY <1>3, <1>4, <1>5, <1>7, <2>1, <2>2, <3>1 DEF Playing
    <3> QED
      BY <1>1, <1>4, <2>1, <3>2 DEF Displayed
  <2>3. CASE line' = m
    <3>1. Now' = m
      BY <1>5, <2>3 DEF Now
    <3>2. Playing'
      BY <1>3, <1>4, <1>5, <1>9, <2>1, <2>3, <3>1 DEF Playing
    <3> QED
      BY <1>1, <1>4, <2>1, <3>2 DEF Displayed
  <2> QED
    BY <2>1, <2>2, <2>3
<1>10. CASE now > disk
  <2>1. now = disk + 1
    BY <1>5, <1>10
  <2>2. \/ torn /\ play' = "exited" /\ UNCHANGED <<line, state, shown>>
        \/ fakenect!RoundOver(now)
    BY <1>2, <1>10 DEF fakenect!process_events, Now
  <2> QED
    BY <1>5, <1>6, <1>8, <1>9, <1>10, <2>1, <2>2
<1>11. ASSUME now <= disk
       PROVE  /\ now \in 1..Len(log) /\ log[now] \in Entries /\ now + 1 \in 1..disk + 1
              /\ files[now] \in {"empty", "part", "whole"}
              /\ files[now] = "whole" \/ (now = Len(log) /\ rec.pc = "killed")
              /\ log[now].type = "a" => log[now].tilt \in Tilts
  <2>1. now \in 1..Len(log) /\ now + 1 \in 1..disk + 1
    BY <1>5, <1>11
  <2>2. files[now] = "whole" \/ (now = Len(log) /\ rec.pc = "killed")
    BY <1>1, <1>5, <2>1 DEF Written
  <2>3. log[now] \in Entries /\ files[now] \in {"empty", "part", "whole"}
    BY <1>1, <2>1 DEF Recorded
  <2> QED
    BY <1>1, <2>1, <2>2, <2>3 DEF Recorded
<1>12. CASE now <= disk /\ files[now] = "empty"
  <2>1. fakenect!RoundOver(now + 1)
    BY <1>2, <1>5, <1>12 DEF fakenect!process_events, Now
  <2>2. ~(now + 1 <= Len(log))
    BY <1>5, <1>11, <1>12
  <2> QED
    BY <1>9, <1>11, <1>12, <2>1, <2>2
<1>13. ASSUME now <= disk, line' = now + 1, play' = play, state' \in Readings,
              files[now] = "whole" =>
                \A v : LastIs(log, now, v) /\ v # fakenect!NoReading => state' = v
       PROVE  Playing'
  <2>1. Now' = now + 1 /\ Now' - 1 = now
    <3>1. Now' = now + 1
      BY <1>5, <1>13 DEF Now
    <3> QED
      BY <1>5, <3>1
  <2>2. now + 1 <= Len(log) => files[now] = "whole"
    BY <1>5, <1>11, <1>13
  <2>3. Now' <= Len(log') =>
          \A v : LastIs(log', Now' - 1, v) /\ v # fakenect!NoReading => state' = v
    <3> SUFFICES ASSUME Now' <= Len(log'), NEW v, LastIs(log', Now' - 1, v),
                        v # fakenect!NoReading
                 PROVE  state' = v
      OBVIOUS
    <3>1. files[now] = "whole"
      BY <1>4, <2>1, <2>2
    <3>2. LastIs(log, now, v)
      BY <1>4, <2>1
    <3> QED
      BY <1>13, <3>1, <3>2
  <2>4. line' \in 0..disk' + 1 /\ play' = "on"
    BY <1>3, <1>4, <1>11, <1>13
  <2> QED
    BY <1>3, <1>4, <1>5, <1>13, <2>3, <2>4 DEF Playing
<1>14. ASSUME now <= disk, NEW v
       PROVE  LastIs(log, now, v) <=>
                IF log[now].type = "a" THEN v = log[now].tilt ELSE LastIs(log, now - 1, v)
  <2>1. now - 1 \in Nat /\ now - 1 + 1 = now
    BY <1>5
  <2> PICK n : n = now - 1
    OBVIOUS
  <2>2. LastIs(log, n + 1, v) <=>
          IF log[n + 1].type = "a" THEN v = log[n + 1].tilt ELSE LastIs(log, n, v)
    BY <2>1, LastStep
  <2> QED
    BY <2>1, <2>2
<1>15. CASE now <= disk /\ files[now] # "empty" /\ log[now].type = "a"
  <2>1. /\ line' = now + 1
        /\ IF files[now] = "whole" THEN fakenect!ShowReading(log[now])
           ELSE UNCHANGED <<play, state, shown>>
    BY <1>2, <1>5, <1>15 DEF fakenect!process_events, Now
  <2>2. /\ play' = play /\ shown' = shown
        /\ state' = IF files[now] = "whole" THEN log[now].tilt ELSE state
    BY <2>1 DEF fakenect!ShowReading
  <2>3. state' \in Readings
    BY <1>5, <1>11, <1>15, <2>2 DEF Readings
  <2>4. Playing'
    BY <1>13, <1>14, <1>15, <2>1, <2>2, <2>3
  <2> QED
    BY <1>1, <1>4, <2>2, <2>4 DEF Displayed
<1>16. CASE now <= disk /\ files[now] # "empty" /\ log[now].type # "a"
  <2>1. line' = now + 1 /\ fakenect!ShowFrame(log[now], now, files[now] = "whole")
    BY <1>2, <1>5, <1>16 DEF fakenect!process_events, Now
  <2>2. tables
    <3>1. Len(log) > 0
      BY <1>5, <1>11, <1>16
    <3> QED
      BY <1>1, <1>5, <3>1 DEF Recorded
  <2>3. /\ play' = play /\ state' = state
        /\ \/ shown' = shown
           \/ shown' = [type |-> log[now].type, timestamp |-> log[now].timestamp,
                        tilt |-> state, whole |-> (files[now] = "whole"), line |-> now]
    BY <2>1, <2>2 DEF fakenect!ShowFrame
  <2>4. Playing'
    <3>1. now <= Len(log)
      BY <1>11, <1>16, <1>5
    <3>2. \A v : LastIs(log, now, v) /\ v # fakenect!NoReading => state' = v
      BY <1>6, <1>14, <1>16, <2>3, <3>1
    <3> QED
      BY <1>5, <1>13, <1>16, <2>1, <2>3, <3>2
  <2>5. CASE shown' = shown
    BY <1>1, <1>4, <2>4, <2>5 DEF Displayed
  <2>6. CASE shown' = [type |-> log[now].type, timestamp |-> log[now].timestamp,
                       tilt |-> state, whole |-> (files[now] = "whole"), line |-> now]
    <3>1. FrameAt(now) /\ now \in 1..Len(log) /\ now <= Len(log)
      BY <1>1, <1>5, <1>11, <1>16 DEF Matched
    <3> DEFINE frame == seen[FramesIn(log, now)]
    <3>2. frame.tilt # fakenect!NoReading => state = frame.tilt
      BY <1>6, <3>1 DEF FrameAt
    <3>3. frame.type = log[now].type /\ frame.timestamp = log[now].timestamp
      BY <3>1 DEF FrameAt
    <3>4. /\ shown'.line = now /\ shown'.type = log[now].type
          /\ shown'.timestamp = log[now].timestamp
          /\ shown'.tilt = state /\ (shown'.whole <=> files[now] = "whole")
      BY <2>6
    <3>5. seen'[FramesIn(log', shown'.line)] = frame
      BY <1>4, <3>4
    <3>6. Displayed'
      BY <1>4, <1>11, <1>16, <3>1, <3>2, <3>3, <3>4, <3>5 DEF Displayed
    <3> QED
      BY <2>4, <3>6
  <2> QED
    BY <2>3, <2>5, <2>6
<1> QED
  BY <1>5, <1>10, <1>12, <1>15, <1>16

LEMMA ReplayStep == ReplayInv /\ [fakenect!Next]_(fakenect!vars) => ReplayInv'
<1> SUFFICES ASSUME ReplayInv, [fakenect!Next]_(fakenect!vars) PROVE ReplayInv'
  OBVIOUS
<1>1. CASE fakenect!RecNext /\ UNCHANGED fakenect!playVars
  BY <1>1, RecorderKeeps
<1>2. CASE fakenect!freenect_init
  BY <1>2, QuietKeeps DEF fakenect!freenect_init
<1>3. ASSUME NEW t \in {"d", "r"}, fakenect!Watch(t) PROVE ReplayInv'
  BY <1>3, QuietKeeps DEF fakenect!Watch
<1>4. CASE fakenect!freenect_set_depth_mode
  BY <1>4, QuietKeeps DEF fakenect!freenect_set_depth_mode
<1>5. CASE fakenect!process_events
  BY <1>5, process_eventsKeeps
<1>6. CASE UNCHANGED fakenect!vars
  BY <1>6, QuietKeeps DEF fakenect!vars, fakenect!recVars
<1> QED
  BY <1>1, <1>2, <1>3, <1>4, <1>5, <1>6 DEF fakenect!Next

LEMMA ReplayInvGives == ReplayInv => ReplayFaithful
<1> SUFFICES ASSUME ReplayInv PROVE ReplayFaithful
  OBVIOUS
<1>1. Recorded /\ Written /\ Matched /\ Playing /\ Displayed
  BY DEF ReplayInv
<1>2. fakenect!TypeOK
  <2>1. Len(log) \in Nat /\ Len(log) <= MaxEntries /\ MaxEntries \in Nat
    BY <1>1, FakenectAssumption DEF Recorded, fakenect!MaxEntriesAssumption
  <2>2. line \in 0..MaxEntries + 2
    BY <1>1, <2>1 DEF Playing, Recorded
  <2> QED
    BY <1>1, <2>2 DEF fakenect!TypeOK, Playing, Recorded, Readings
<1>3. fakenect!FramesUpTo(shown.line) = FramesIn(log, shown.line)
  BY DEF FramesIn, fakenect!FramesUpTo, fakenect!Cardinality, Cardinality
<1>4. fakenect!ReplayFaithful
  BY <1>1, <1>3 DEF fakenect!ReplayFaithful, Displayed
<1>5. fakenect!ExitsAtTheLoss
  BY <1>1 DEF fakenect!ExitsAtTheLoss, Playing
<1>6. fakenect!MetricHasTables
  BY <1>1 DEF fakenect!MetricHasTables, Playing
<1> QED
  BY <1>2, <1>4, <1>5, <1>6 DEF ReplayFaithful

\* However the recorder ends, fakenect shows the n-th frame of the recording as the n-th the
\* Kinect sent, with the reading that was current; only the file it was killed at is shown
\* damaged, and only what was lost ends a replay early: for any readings and any length.
THEOREM ReplayIsFaithful == MCSpec => []ReplayFaithful
<1>1. MCInit => ReplayInv
  BY ReplayInit DEF MCInit
<1>2. [MCNext]_allVars => [fakenect!Next]_(fakenect!vars)
  BY DEF MCNext, allVars, fakenectVars, fakenect!vars
<1>3. ReplayInv /\ [fakenect!Next]_(fakenect!vars) => ReplayInv'
  BY ReplayStep
<1>4. ReplayInv => ReplayFaithful
  BY ReplayInvGives
<1> QED
  BY <1>1, <1>2, <1>3, <1>4, PTL DEF MCSpec

-----------------------------------------------------------------------------
(* Commands to the camera.                                                                 *)

Words == 0..commands!MAX
InfoNames == {"none", "RGB", "HighIR"}
CamCommands ==
    {c \in [cmd : {"0x02", "0x03", "0x04", "0x16", "0x95"}, kind : {"write", "read", "params"},
            reg : commands!Registers \cup {"registration", "pad", "const shift", "zero plane"},
            val : Words, must : BOOLEAN] :
       c.kind # "params" => c.reg \in commands!Registers}
CamOps == {"none", "near", "mirror", "flag", "get_exposure", "set_exposure", "get_ir", "set_ir",
           "start_depth", "start_video", "stop", "set_video_mode", "init"}
CamCalls == [op : CamOps, pc : {"idle", "send", "poll"}, todo : Seq(CamCommands), flag : Int,
             arg : Int, was : Int, got : Int, res : {-1, 0}]
CameraStates ==
    [depth : BOOLEAN, video : BOOLEAN, depthFormat : {"10BIT", "REGISTERED"},
     videoMode : {"RGB", "HighIR"}, regInfo : InfoNames, tables : InfoNames]

DepthWord == IF camera.depthFormat = "10BIT" THEN 2 ELSE 3
VideoWord == IF camera.videoMode = "HighIR" THEN 3 ELSE 1
NearWord(on) == IF on = 1 THEN 7 ELSE 3

CamTypes ==
    /\ reg \in [commands!Registers -> Words]
    /\ tag \in 0..TagMod - 1
    /\ faults \in 0..MaxFaults /\ unsure \in BOOLEAN /\ (unsure => faults # 0)
    /\ inbox # commands!Nothing =>
         /\ inbox.val \in Words
         /\ inbox.kind # "params" => inbox.reg \in commands!Registers
    /\ reply.val \in Words
    /\ call \in CamCalls /\ (call.pc # "idle" => call.todo # <<>>)
    /\ camera \in CameraStates

\* Command c, the k-th from the end of its script, is one of the call's.
NearFits(c, k) ==
    /\ k \in {1, 2} /\ c.kind = "write" /\ c.must = TRUE
    /\ k = 1 => c.reg = "0x02EF" /\ c.val = 1 - call.arg
    /\ k = 2 => c.reg = "0x15" /\ c.val = NearWord(call.arg)

FlagFits(c, k) ==
    /\ k = 1 /\ c.must = TRUE /\ c.reg = "cmos 0x0106" /\ c.kind \in {"read", "write"}
    /\ c.kind = "read" => unsure \/ call.was = reg["cmos 0x0106"]
    /\ c.kind = "write" => unsure \/ c.val = commands!WithFlag(call.was, call.flag, call.arg)

ReadFits(r, c, k) == k = 1 /\ c.must = TRUE /\ c.kind = "read" /\ c.reg = r

DepthFits(c, k) ==
    /\ k \in 1..4 /\ c.kind = "write"
    /\ k = 1 => c.reg = "0x17"
    /\ k = 2 => c.reg = "0x06" /\ c.val = 2
    /\ k = 3 => c.reg = "0x12" /\ c.val = DepthWord
    /\ k = 4 => c.reg = "0x06"

VideoFits(c, k) ==
    /\ k \in 1..4 /\ c.kind = "write"
    /\ k = 1 => c.reg \in {"0x47", "0x48"}
    /\ k = 2 => c.reg = "0x05" /\ c.val = VideoWord
    /\ k > 2 => c.reg = "0x06" /\ camera.videoMode = "HighIR"

StopFits(c, k) ==
    /\ k = 1 /\ c.kind = "write" /\ c.reg \in {"0x05", "0x06"}
    /\ c.reg = "0x05" => ~camera.video
    /\ c.reg = "0x06" => ~camera.depth

Fits(c, k) ==
    /\ call.op = "near" => NearFits(c, k)
    /\ call.op = "flag" => FlagFits(c, k)
    /\ call.op = "get_ir" => ReadFits("0x15", c, k)
    /\ call.op = "get_exposure" => ReadFits("cmos 0x0009", c, k)
    /\ call.op = "mirror" => c.kind = "write" /\ c.reg \in {"0x17", "0x47"}
    /\ call.op = "set_ir" => c.kind = "write" /\ c.reg = "0x15"
    /\ call.op = "set_exposure" => c.kind = "write" /\ c.reg = "cmos 0x0009"
    /\ call.op = "start_depth" => DepthFits(c, k)
    /\ call.op = "start_video" => VideoFits(c, k)
    /\ call.op = "stop" => StopFits(c, k)
    /\ call.op \in {"set_video_mode", "init"} => c.kind = "params"

\* A call under way: its script, and what a start or a flag was called for.
Scripted ==
    call.pc # "idle" =>
      /\ call.op # "none"
      /\ \A i \in 1..Len(call.todo) : Fits(call.todo[i], Len(call.todo) - i + 1)
      /\ call.op = "near" => call.arg \in {0, 1}
      /\ call.op = "flag" => call.flag \in Flags /\ call.arg \in {0, 1}
      /\ call.op = "start_depth" => ~camera.depth
      /\ call.op = "start_video" =>
           ~camera.video /\ (camera.videoMode = "HighIR" => ~camera.depth)

\* What the commands before have done, unless they went wrong
Halfway ==
    call.pc # "idle" =>
      /\ call.op = "near" /\ Len(call.todo) = 1 => unsure \/ reg["0x15"] = NearWord(call.arg)
      /\ faults = 0 /\ call.op = "start_depth" =>
           /\ Len(call.todo) <= 2 => reg["0x12"] = DepthWord
           /\ Len(call.todo) <= 1 => reg["0x06"] = 2
      /\ faults = 0 /\ call.op = "start_video" /\ Len(call.todo) <= 1 => reg["0x05"] = VideoWord

\* The command that is polled for is with the camera, or was executed and answered.
Done(c, val) ==
    /\ c.kind = "write" => reg[c.reg] = c.val
    /\ c.kind = "read" => val = reg[c.reg]

Answering ==
    ~unsure =>
      /\ call.pc # "poll" => inbox = commands!Nothing /\ reply = commands!Nothing
      /\ call.pc = "poll" =>
           LET c == Head(call.todo) IN
           \/ /\ inbox = [cmd |-> c.cmd, kind |-> c.kind, tag |-> tag, reg |-> c.reg, val |-> c.val]
              /\ inbox # commands!Nothing /\ reply = commands!Nothing
           \/ /\ inbox = commands!Nothing /\ reply # commands!Nothing
              /\ reply.cmd = c.cmd /\ reply.tag = tag /\ Done(c, reply.val)

CamInv == CamTypes /\ Scripted /\ Halfway /\ Answering /\ commands!StreamsOn

LEMMA WithFlagWord ==
    ASSUME NEW v \in Words, NEW f \in Flags, NEW on \in {0, 1}
    PROVE  commands!WithFlag(v, f, on) \in Words
<1> DEFINE w == 2 ^ Width
           q == v \div f
           r == v % f
<1>1. f \in Nat \ {0} /\ w \in Nat /\ w % (2 * f) = 0 /\ w >= 8
  BY CommandsAssumption DEF commands!FlagsAssumption, commands!WidthAssumption, commands!MAX
<1>2. Words = 0..w - 1
  BY DEF Words, commands!MAX
<1> HIDE DEF w
<1>3. v \in Nat /\ v < w
  BY <1>1, <1>2
<1>4. q \in Int /\ r \in 0..f - 1 /\ v = f * q + r
  BY <1>1, <1>3, DivMod
<1> HIDE DEF q, r
<1>5. q >= 0
  <2>1. CASE q <= -1
    <3>1. f * q <= -f
      BY <1>1, <1>4, <2>1
    <3> QED
      BY <1>1, <1>3, <1>4, <3>1
  <2> QED
    BY <1>4, <2>1
<1>6. CASE q % 2 = on
  BY <1>6 DEF commands!WithFlag, q
<1>7. CASE q % 2 # on /\ on = 0
  <2>1. commands!WithFlag(v, f, on) = v - f
    BY <1>7 DEF commands!WithFlag, q
  <2>2. q >= 1
    BY <1>4, <1>5, <1>7
  <2>3. f * q >= f
    BY <1>1, <1>4, <2>2
  <2>4. v - f >= 0 /\ v - f <= w - 1 /\ v - f \in Int
    BY <1>1, <1>3, <1>4, <2>3
  <2> QED
    BY <1>1, <1>2, <2>1, <2>4
<1>8. CASE q % 2 # on /\ on = 1
  <2>1. commands!WithFlag(v, f, on) = v + f
    BY <1>8 DEF commands!WithFlag, q
  <2> PICK k \in Int : w = (2 * f) * k
    <3>1. PICK m \in Nat \ {0} : m = 2 * f
      BY <1>1
    <3>2. w % m = 0 /\ w \in Int
      BY <1>1, <3>1
    <3>3. w \div m \in Int /\ w = m * (w \div m) + (w % m)
      BY <3>2, DivMod
    <3>4. w = m * (w \div m)
      BY <3>2, <3>3
    <3>5. PICK k \in Int : w = m * k
      BY <3>3, <3>4
    <3> QED
      BY <3>1, <3>5
  <2>2. PICK h \in Int : q = 2 * h
    <3>1. q = 2 * (q \div 2) + (q % 2) /\ q % 2 \in 0..1 /\ q \div 2 \in Int
      BY <1>4, DivMod
    <3> QED
      BY <1>8, <3>1
  <2>3. h <= k - 1
    <3>1. CASE h >= k
      <4>1. f * h >= f * k
        BY <1>1, <3>1
      <4>2. f * q = 2 * (f * h) /\ w = 2 * (f * k)
        BY <1>1, <2>2
      <4> QED
        BY <1>1, <1>3, <1>4, <4>1, <4>2
    <3> QED
      BY <3>1
  <2>4. f * h <= f * k - f
    BY <1>1, <2>3
  <2>5. f * q = 2 * (f * h) /\ w = 2 * (f * k)
    BY <1>1, <2>2
  <2>6. v + f <= w - 1 /\ v + f >= 0 /\ v + f \in Int
    BY <1>1, <1>3, <1>4, <2>4, <2>5
  <2> QED
    BY <1>1, <1>2, <2>1, <2>6
<1> QED
  BY <1>6, <1>7, <1>8

LEMMA NoCallIsOne ==
    commands!NoCall \in CamCalls /\ commands!NoCall.pc = "idle"
<1>1. <<>> \in Seq(CamCommands)
  BY EmptySeq
<1> QED
  BY <1>1 DEF commands!NoCall, CamCalls, CamOps

LEMMA SomeWords == 0 \in Words /\ 1 \in Words /\ 2 \in Words /\ 3 \in Words /\ 5 \in Words
                   /\ 7 \in Words /\ commands!MAX \in Words /\ commands!MAX \in Nat
<1>1. commands!MAX \in Int /\ commands!MAX >= 7
  BY CommandsAssumption DEF commands!WidthAssumption, commands!MAX
<1> QED
  BY <1>1 DEF Words

LEMMA CamInit == commands!Init => CamInv
<1> SUFFICES ASSUME commands!Init PROVE CamInv
  OBVIOUS
<1>1. /\ reg = [r \in commands!Registers |-> 0] /\ tag = 0 /\ faults = 0 /\ unsure = FALSE
      /\ inbox = commands!Nothing /\ reply = commands!Nothing /\ call = commands!NoCall
      /\ camera = [depth |-> FALSE, video |-> FALSE, depthFormat |-> "10BIT",
                   videoMode |-> "RGB", regInfo |-> "none", tables |-> "none"]
  BY DEF commands!Init
<1>2. MaxFaults \in Nat /\ TagMod \in Nat \ {0}
  BY CommandsAssumption DEF commands!FaultsAssumption
<1>3. call \in CamCalls /\ call.pc = "idle"
  BY <1>1, NoCallIsOne
<1>4. camera \in CameraStates /\ ~camera.depth /\ ~camera.video
  BY <1>1 DEF CameraStates, InfoNames
<1>5. reply.val = 0
  BY <1>1 DEF commands!Nothing
<1>6. CamTypes
  <2>1. reg \in [commands!Registers -> Words]
    BY <1>1, SomeWords
  <2>2. tag \in 0..TagMod - 1
    BY <1>1, <1>2
  <2>3. faults \in 0..MaxFaults
    BY <1>1, <1>2
  <2>5. unsure \in BOOLEAN /\ ~unsure
    BY <1>1
  <2>4. reply.val \in Words
    BY <1>5, SomeWords
  <2> QED
    BY <1>1, <1>3, <1>4, <2>1, <2>2, <2>3, <2>4, <2>5 DEF CamTypes
<1> QED
  BY <1>1, <1>3, <1>4, <1>6 DEF CamInv, Scripted, Halfway, Answering, commands!StreamsOn


\* What the scripts are written with.
LEMMA Tuples ==
    ASSUME NEW S, NEW x \in S, NEW y \in S, NEW z \in S, NEW t \in S
    PROVE  /\ <<x>> \in Seq(S) /\ Len(<<x>>) = 1 /\ <<x>>[1] = x /\ <<x>> # <<>>
           /\ <<x, y>> \in Seq(S) /\ Len(<<x, y>>) = 2 /\ <<x, y>> # <<>>
           /\ <<x, y>>[1] = x /\ <<x, y>>[2] = y
           /\ <<x, y, z, t>> \in Seq(S) /\ Len(<<x, y, z, t>>) = 4 /\ <<x, y, z, t>> # <<>>
           /\ <<x, y, z, t>>[1] = x /\ <<x, y, z, t>>[2] = y
           /\ <<x, y, z, t>>[3] = z /\ <<x, y, z, t>>[4] = t
OBVIOUS

LEMMA RegistersIs ==
    commands!Registers = {"0x05", "0x06", "0x12", "0x15", "0x17", "0x47", "0x48", "0x02EF",
                          "cmos 0x0009", "cmos 0x0106"}
BY DEF commands!Registers

LEMMA WriteIs ==
    ASSUME NEW r \in commands!Registers, NEW v \in Words
    PROVE  \E c \in CamCommands : /\ c = commands!Write(r, v)
                                 /\ c.kind = "write" /\ c.reg = r /\ c.val = v
<1>1. PICK c : c = commands!Write(r, v)
  OBVIOUS
<1>2. c \in CamCommands /\ c.kind = "write" /\ c.reg = r /\ c.val = v
  BY <1>1 DEF commands!Write, commands!Command, CamCommands
<1> QED
  BY <1>1, <1>2, Zenon

LEMMA UncheckedIs ==
    ASSUME NEW r \in commands!Registers, NEW v \in Words
    PROVE  \E c \in CamCommands : /\ c = commands!Unchecked(r, v)
                                 /\ c.kind = "write" /\ c.reg = r /\ c.val = v
<1>1. PICK c : c = commands!Unchecked(r, v)
  OBVIOUS
<1>2. c \in CamCommands /\ c.kind = "write" /\ c.reg = r /\ c.val = v
  BY <1>1 DEF commands!Unchecked, commands!Command, CamCommands
<1> QED
  BY <1>1, <1>2, Zenon

LEMMA CmosWriteIs ==
    ASSUME NEW r \in commands!Registers, NEW v \in Words
    PROVE  \E c \in CamCommands : /\ c = commands!CmosWrite(r, v)
                                 /\ c.kind = "write" /\ c.reg = r /\ c.val = v
<1>1. PICK c : c = commands!CmosWrite(r, v)
  OBVIOUS
<1>2. c \in CamCommands /\ c.kind = "write" /\ c.reg = r /\ c.val = v
  BY <1>1 DEF commands!CmosWrite, commands!Command, CamCommands
<1> QED
  BY <1>1, <1>2, Zenon

LEMMA ReadIs ==
    ASSUME NEW r \in commands!Registers
    PROVE  \E c \in CamCommands : /\ c = commands!Read(r)
                                 /\ c.kind = "read" /\ c.reg = r
<1>1. PICK c : c = commands!Read(r)
  OBVIOUS
<1>2. c \in CamCommands /\ c.kind = "read" /\ c.reg = r
  BY <1>1, SomeWords DEF commands!Read, commands!Command, CamCommands
<1> QED
  BY <1>1, <1>2, Zenon

LEMMA CmosReadIs ==
    ASSUME NEW r \in commands!Registers
    PROVE  \E c \in CamCommands : /\ c = commands!CmosRead(r)
                                 /\ c.kind = "read" /\ c.reg = r
<1>1. PICK c : c = commands!CmosRead(r)
  OBVIOUS
<1>2. c \in CamCommands /\ c.kind = "read" /\ c.reg = r
  BY <1>1, SomeWords DEF commands!CmosRead, commands!Command, CamCommands
<1> QED
  BY <1>1, <1>2, Zenon

LEMMA ParamsIs ==
    ASSUME NEW o \in {"0x04", "0x16"},
           NEW r \in {"registration", "pad", "const shift", "zero plane"}, NEW m \in BOOLEAN
    PROVE  \E c \in CamCommands : c = commands!Params(o, r, m) /\ c.kind = "params"
<1>1. PICK c : c = commands!Params(o, r, m)
  OBVIOUS
<1>2. c \in CamCommands /\ c.kind = "params"
  BY <1>1, SomeWords DEF commands!Params, commands!Command, CamCommands
<1> QED
  BY <1>1, <1>2, Zenon

LEMMA ScriptIs ==
    ASSUME NEW o \in CamOps, NEW t \in Seq(CamCommands)
    PROVE  \E c \in CamCalls : /\ c = commands!Script(o, t)
                              /\ c.op = o /\ c.pc = "send" /\ c.todo = t
<1>1. PICK x \in CamCalls : x = commands!NoCall
  BY NoCallIsOne
<1>2. PICK s : s = [x EXCEPT !.op = o, !.pc = "send", !.todo = t]
  OBVIOUS
<1>3. s \in CamCalls /\ s.op = o /\ s.pc = "send" /\ s.todo = t
  BY <1>2 DEF CamCalls
<1>4. commands!Script(o, t) = s
  BY <1>1, <1>2 DEF commands!Script
<1> QED
  BY <1>3, <1>4, Zenon

LEMMA NearScriptIs ==
    ASSUME NEW o \in CamOps, NEW t \in Seq(CamCommands), NEW a \in Int
    PROVE  \E c \in CamCalls : /\ c = [commands!Script(o, t) EXCEPT !.arg = a]
                              /\ c.op = o /\ c.pc = "send" /\ c.todo = t /\ c.arg = a
<1>1. PICK s \in CamCalls : /\ s = commands!Script(o, t)
                           /\ s.op = o /\ s.pc = "send" /\ s.todo = t
  BY ScriptIs, Zenon
<1>2. PICK c : c = [s EXCEPT !.arg = a]
  OBVIOUS
<1>3. c \in CamCalls /\ c.op = o /\ c.pc = "send" /\ c.todo = t /\ c.arg = a
  BY <1>1, <1>2 DEF CamCalls
<1> QED
  BY <1>1, <1>2, <1>3, Zenon

LEMMA RefusedIs ==
    ASSUME NEW o \in CamOps
    PROVE  commands!Refused(o) \in CamCalls /\ commands!Refused(o).pc = "idle"
<1>1. PICK x \in CamCalls : x = commands!NoCall /\ x.pc = "idle"
  BY NoCallIsOne
<1>2. \A n \in {-1, 0} : /\ [x EXCEPT !.op = o, !.res = n] \in CamCalls
                         /\ [x EXCEPT !.op = o, !.res = n].pc = "idle"
  BY <1>1 DEF CamCalls
<1>3. -1 \in {-1, 0}
  OBVIOUS
<1>4. commands!Refused(o) = [x EXCEPT !.op = o, !.res = -1]
  BY <1>1 DEF commands!Refused
<1> QED
  BY <1>2, <1>3, <1>4, Zenon

\* A call begins: it sends the first command of its script, or is refused.
LEMMA CallBegins ==
    ASSUME CamInv, NEW c \in CamCalls, commands!Calls(c), camera' \in CameraStates,
           commands!StreamsOn', c.pc # "poll", c.pc # "idle" => c.todo # <<>>, Scripted',
           c.op = "near" => Len(c.todo) # 1,
           c.op = "start_depth" => Len(c.todo) > 2, c.op = "start_video" => Len(c.todo) > 1
    PROVE  CamInv'
<1>1. /\ call.pc = "idle" /\ call' = c /\ reg' = reg /\ inbox' = inbox /\ reply' = reply
      /\ tag' = tag /\ faults' = faults /\ unsure' = unsure
  BY DEF commands!Calls
<1>2. CamTypes'
  BY <1>1 DEF CamTypes, CamInv
<1>3. Answering'
  BY <1>1 DEF Answering, CamInv
<1>4. Halfway'
  <2>1. CASE c.pc = "idle"
    BY <1>1, <2>1 DEF Halfway
  <2>2. CASE c.pc # "idle"
    <3>1. Len(c.todo) \in Nat
      BY DEF CamCalls
    <3> QED
      BY <1>1, <3>1 DEF Halfway
  <2> QED
    BY <2>1, <2>2
<1> QED
  BY <1>2, <1>3, <1>4 DEF CamInv

LEMMA CallRefused ==
    ASSUME CamInv, NEW o \in CamOps, commands!Calls(commands!Refused(o)), UNCHANGED camera
    PROVE  CamInv'
<1>1. commands!Refused(o) \in CamCalls /\ commands!Refused(o).pc = "idle"
  BY RefusedIs
<1>2. call.pc = "idle" /\ call' = commands!Refused(o) /\ reg' = reg /\ faults' = faults
      /\ inbox' = inbox /\ reply' = reply /\ tag' = tag /\ unsure' = unsure /\ camera' = camera
  BY DEF commands!Calls
<1>3. CamTypes'
  BY <1>1, <1>2 DEF CamTypes, CamInv
<1>4. Answering' /\ Scripted' /\ Halfway'
  <2>1. call'.pc = "idle"
    BY <1>1, <1>2
  <2> QED
    BY <1>2, <2>1 DEF Answering, Scripted, Halfway, CamInv
<1>5. commands!StreamsOn'
  BY <1>2 DEF commands!StreamsOn, CamInv
<1> QED
  BY <1>3, <1>4, <1>5 DEF CamInv

\* A call of one command, which is neither a flag, nor near mode, nor a start.
LEMMA OneCommand ==
    ASSUME CamInv, NEW o \in CamOps \ {"none", "near", "flag", "start_depth", "start_video"},
           NEW x \in CamCommands, commands!Calls(commands!Script(o, <<x>>)),
           camera' \in CameraStates, commands!StreamsOn', call'.op = o => Fits(x, 1)'
    PROVE  CamInv'
<1>1. PICK t : t = <<x>>
  OBVIOUS
<1>2. t \in Seq(CamCommands) /\ Len(t) = 1 /\ t # <<>> /\ t[1] = x
  BY <1>1, Tuples
<1>3. PICK c \in CamCalls : /\ c = commands!Script(o, t)
                           /\ c.op = o /\ c.pc = "send" /\ c.todo = t
  BY <1>2, ScriptIs
<1>4. commands!Calls(c) /\ call' = c
  BY <1>1, <1>3 DEF commands!Calls
<1>5. Scripted'
  <2>1. \A i \in 1..1 : i = 1
    OBVIOUS
  <2>2. Fits(x, 1)'
    BY <1>3, <1>4
  <2>3. \A i \in 1..Len(t) : Fits(t[i], Len(t) - i + 1)'
    BY <1>2, <2>1, <2>2
  <2> QED
    BY <1>3, <1>4, <2>3 DEF Scripted
<1> QED
  BY <1>2, <1>3, <1>4, <1>5, CallBegins

LEMMA SetFlagKeeps ==
    ASSUME CamInv, NEW on \in {0, 1},
           NEW f \in Flags \cup {commands!NEAR_MODE, commands!MIRROR_DEPTH,
                                 commands!MIRROR_VIDEO},
           commands!freenect_set_flag(f, on)
    PROVE  CamInv'
<1>1. camera' = camera /\ reg' = reg /\ faults' = faults /\ unsure' = unsure /\ call.pc = "idle"
  BY DEF commands!freenect_set_flag, commands!Calls
<1>2. camera' \in CameraStates /\ commands!StreamsOn'
  BY <1>1 DEF CamInv, CamTypes, commands!StreamsOn
<1>3. on \in Words /\ on \in Int
  BY SomeWords
<1>4. "near" \in CamOps /\ "mirror" \in CamOps /\ "flag" \in CamOps
  BY DEF CamOps
<1>5. reg["cmos 0x0106"] \in Words /\ Words \subseteq Int
  <2>1. "cmos 0x0106" \in commands!Registers
    BY RegistersIs
  <2>2. Words \subseteq Int
    BY DEF Words
  <2> QED
    BY <2>1, <2>2 DEF CamInv, CamTypes
<1>6. CASE f = commands!NEAR_MODE
  <2>1. CASE ~K4W
    <3>1. commands!Calls(commands!Refused("near"))
      BY <1>6, <2>1 DEF commands!freenect_set_flag
    <3> QED
      BY <1>1, <1>4, <3>1, CallRefused
  <2>2. CASE K4W
    <3>1. 1 - on \in Words /\ NearWord(on) \in Words
      BY SomeWords DEF NearWord
    <3>12. "0x15" \in commands!Registers /\ "0x02EF" \in commands!Registers
      BY RegistersIs
    <3>10. PICK v \in Words : v = NearWord(on)
      BY <3>1
    <3>11. PICK u \in Words : u = 1 - on
      BY <3>1
    <3>2. PICK x \in CamCommands : /\ x = commands!Write("0x15", v)
                                   /\ x.kind = "write" /\ x.reg = "0x15"
                                   /\ x.val = v
      BY <3>12, WriteIs
    <3>3. PICK y \in CamCommands : /\ y = commands!Write("0x02EF", u)
                                   /\ y.kind = "write" /\ y.reg = "0x02EF"
                                   /\ y.val = u
      BY <3>12, WriteIs
    <3>13. x.must = TRUE /\ y.must = TRUE
      BY <3>2, <3>3 DEF commands!Write, commands!Command
    <3>4. PICK t : t = <<x, y>>
      OBVIOUS
    <3>5. t \in Seq(CamCommands) /\ Len(t) = 2 /\ t # <<>> /\ t[1] = x /\ t[2] = y
      BY <3>4, Tuples
    <3>6. commands!NearMode(on) = t
      BY <3>2, <3>3, <3>4, <3>10, <3>11 DEF commands!NearMode, NearWord
    <3>7. PICK c \in CamCalls : /\ c = [commands!Script("near", t) EXCEPT !.arg = on]
                                /\ c.op = "near" /\ c.pc = "send" /\ c.todo = t /\ c.arg = on
      BY <1>3, <1>4, <3>5, NearScriptIs
    <3>8. commands!Calls(c)
      BY <1>6, <2>2, <3>6, <3>7 DEF commands!freenect_set_flag
    <3>9. Scripted'
      <4>1. call' = c
        BY <3>8 DEF commands!Calls
      <4>2. \A i \in 1..2 : i = 1 \/ i = 2
        OBVIOUS
      <4>3. call'.op = "near" /\ call'.arg = on
        BY <3>7, <4>1
      <4>4. NearFits(x, 2)' /\ NearFits(y, 1)'
        BY <3>2, <3>3, <3>10, <3>11, <3>13, <4>3 DEF NearFits, NearWord
      <4>5. Fits(x, 2)' /\ Fits(y, 1)'
        BY <4>3, <4>4 DEF Fits
      <4> QED
        <5>1. Len(t) - 1 + 1 = 2 /\ Len(t) - 2 + 1 = 1
          BY <3>5
        <5>2. \A i \in 1..Len(t) : Fits(t[i], Len(t) - i + 1)'
          BY <3>5, <4>2, <4>5, <5>1
        <5>3. call'.arg \in {0, 1} /\ call'.todo = t
          BY <3>7, <4>1
        <5> QED
          BY <4>3, <5>2, <5>3 DEF Scripted
    <3> QED
      <4>1. c.todo # <<>> /\ c.pc # "poll" /\ c.op # "start_depth" /\ c.op # "start_video"
        BY <3>5, <3>7
      <4>2. Len(c.todo) # 1
        <5>1. Len(c.todo) = Len(t)
          BY <3>7
        <5> QED
          BY <3>5, <5>1
      <4> QED
        BY <1>2, <3>8, <3>9, <4>1, <4>2, CallBegins, Zenon
  <2> QED
    BY <2>1, <2>2
<1>7. CASE f # commands!NEAR_MODE /\ f >= 2 ^ Width
  <2>1. commands!register_for_flag(f) \in {"0x17", "0x47"}
    BY DEF commands!register_for_flag
  <2>2. PICK x \in CamCommands : /\ x = commands!Write(commands!register_for_flag(f), on)
                                 /\ x.kind = "write" /\ x.reg = commands!register_for_flag(f)
    <3>1. commands!register_for_flag(f) \in commands!Registers
      BY <2>1, RegistersIs
    <3> QED
      BY <1>3, <3>1, WriteIs, Zenon
  <2>3. commands!Calls(commands!Script("mirror", <<x>>))
    BY <1>7, <2>2 DEF commands!freenect_set_flag
  <2>4. call'.op = "mirror" => Fits(x, 1)'
    BY <2>1, <2>2 DEF Fits
  <2> QED
    BY <1>2, <1>4, <2>3, <2>4, OneCommand
<1>8. CASE f # commands!NEAR_MODE /\ ~(f >= 2 ^ Width)
  <2>1. f \in Flags /\ f \in Int
    <3>1. 2 ^ Width \in Nat /\ Flags \subseteq Nat
      BY CommandsAssumption DEF commands!WidthAssumption, commands!FlagsAssumption
    <3> QED
      BY <1>8, <3>1 DEF commands!MIRROR_DEPTH, commands!MIRROR_VIDEO
  <2>2. PICK x \in CamCommands : /\ x = commands!CmosRead("cmos 0x0106")
                                 /\ x.kind = "read" /\ x.reg = "cmos 0x0106"
    BY CmosReadIs, RegistersIs
  <2> x.must = TRUE
    BY <2>2 DEF commands!CmosRead, commands!Command
  <2>3. PICK t : t = <<x>>
    OBVIOUS
  <2>4. t \in Seq(CamCommands) /\ Len(t) = 1 /\ t # <<>> /\ t[1] = x
    BY <2>3, Tuples
  <2>5. PICK w \in Int : w = reg["cmos 0x0106"]
    BY <1>5
  <2>6. PICK c \in CamCalls :
          /\ c = [commands!Script("flag", t) EXCEPT !.flag = f, !.arg = on, !.was = w]
          /\ c.op = "flag" /\ c.pc = "send" /\ c.todo = t
          /\ c.flag = f /\ c.arg = on /\ c.was = w
    <3>1. PICK s \in CamCalls : /\ s = commands!Script("flag", t)
                               /\ s.op = "flag" /\ s.pc = "send" /\ s.todo = t
      BY <1>4, <2>4, ScriptIs
    <3>2. PICK c : c = [s EXCEPT !.flag = f, !.arg = on, !.was = w]
      OBVIOUS
    <3>3. /\ c \in CamCalls /\ c.op = "flag" /\ c.pc = "send" /\ c.todo = t
          /\ c.flag = f /\ c.arg = on /\ c.was = w
      BY <1>3, <2>1, <3>1, <3>2 DEF CamCalls
    <3> QED
      BY <3>1, <3>2, <3>3, Zenon
  <2>7. commands!Calls(c)
    BY <1>8, <2>2, <2>3, <2>5, <2>6 DEF commands!freenect_set_flag
  <2>8. Scripted'
    <3>1. call' = c
      BY <2>7 DEF commands!Calls
    <3>2. \A i \in 1..1 : i = 1
      OBVIOUS
    <3>3. FlagFits(x, 1)'
      BY <1>1, <2>2, <2>5, <2>6, <3>1 DEF FlagFits
    <3>4. Fits(x, 1)'
      BY <2>6, <3>1, <3>3 DEF Fits
    <3>5. \A i \in 1..Len(t) : Fits(t[i], Len(t) - i + 1)'
      BY <2>4, <3>2, <3>4
    <3>6. call'.flag \in Flags /\ call'.arg \in {0, 1} /\ call'.op = "flag" /\ call'.todo = t
      BY <2>1, <2>6, <3>1
    <3> QED
      BY <3>5, <3>6 DEF Scripted
  <2> QED
    BY <1>2, <2>4, <2>6, <2>7, <2>8, CallBegins
<1> QED
  BY <1>6, <1>7, <1>8

LEMMA GetExposureKeeps == CamInv /\ commands!freenect_get_exposure => CamInv'
<1> SUFFICES ASSUME CamInv, commands!freenect_get_exposure PROVE CamInv'
  OBVIOUS
<1>1. camera' = camera /\ reg' = reg /\ faults' = faults
  BY DEF commands!freenect_get_exposure, commands!Calls
<1>2. camera' \in CameraStates /\ commands!StreamsOn'
  BY <1>1 DEF CamInv, CamTypes, commands!StreamsOn
<1>3. "get_exposure" \in CamOps \ {"none", "near", "flag", "start_depth", "start_video"}
  BY DEF CamOps
<1>4. PICK x \in CamCommands : /\ x = commands!CmosRead("cmos 0x0009")
                              /\ x.kind = "read" /\ x.reg = "cmos 0x0009"
  BY CmosReadIs, RegistersIs
<1>5. x.must = TRUE
  BY <1>4 DEF commands!CmosRead, commands!Command
<1>6. commands!Calls(commands!Script("get_exposure", <<x>>))
  BY <1>4 DEF commands!freenect_get_exposure
<1>7. call'.op = "get_exposure" => Fits(x, 1)'
  BY <1>4, <1>5 DEF Fits, ReadFits
<1> QED
  BY <1>2, <1>3, <1>6, <1>7, OneCommand

LEMMA SetExposureKeeps == CamInv /\ commands!freenect_set_exposure(1) => CamInv'
<1> SUFFICES ASSUME CamInv, commands!freenect_set_exposure(1) PROVE CamInv'
  OBVIOUS
<1>1. camera' = camera /\ reg' = reg /\ faults' = faults
  BY DEF commands!freenect_set_exposure, commands!Calls
<1>2. camera' \in CameraStates /\ commands!StreamsOn'
  BY <1>1 DEF CamInv, CamTypes, commands!StreamsOn
<1>3. "set_exposure" \in CamOps \ {"none", "near", "flag", "start_depth", "start_video"}
      /\ "set_exposure" \in CamOps
  BY DEF CamOps
<1>4. CASE camera.videoMode = "HighIR"
  <2>1. commands!Calls(commands!Refused("set_exposure"))
    BY <1>4 DEF commands!freenect_set_exposure
  <2> QED
    BY <1>1, <1>3, <2>1, CallRefused
<1>5. CASE camera.videoMode # "HighIR"
  <2>1. PICK x \in CamCommands : /\ x = commands!CmosWrite("cmos 0x0009", 1)
                                /\ x.kind = "write" /\ x.reg = "cmos 0x0009" /\ x.val = 1
    BY CmosWriteIs, RegistersIs, SomeWords
  <2>2. commands!Calls(commands!Script("set_exposure", <<x>>))
    BY <1>5, <2>1 DEF commands!freenect_set_exposure
  <2>3. call'.op = "set_exposure" => Fits(x, 1)'
    BY <2>1 DEF Fits
  <2> QED
    BY <1>2, <1>3, <2>2, <2>3, OneCommand
<1> QED
  BY <1>4, <1>5

LEMMA GetBrightnessKeeps == CamInv /\ commands!freenect_get_ir_brightness => CamInv'
<1> SUFFICES ASSUME CamInv, commands!freenect_get_ir_brightness PROVE CamInv'
  OBVIOUS
<1>1. camera' = camera /\ reg' = reg /\ faults' = faults
  BY DEF commands!freenect_get_ir_brightness, commands!Calls
<1>2. camera' \in CameraStates /\ commands!StreamsOn'
  BY <1>1 DEF CamInv, CamTypes, commands!StreamsOn
<1>3. "get_ir" \in CamOps \ {"none", "near", "flag", "start_depth", "start_video"}
  BY DEF CamOps
<1>4. PICK x \in CamCommands : x = commands!Read("0x15") /\ x.kind = "read" /\ x.reg = "0x15"
  BY ReadIs, RegistersIs
<1>5. x.must = TRUE
  BY <1>4 DEF commands!Read, commands!Command
<1>6. commands!Calls(commands!Script("get_ir", <<x>>))
  BY <1>4 DEF commands!freenect_get_ir_brightness
<1>7. call'.op = "get_ir" => Fits(x, 1)'
  BY <1>4, <1>5 DEF Fits, ReadFits
<1> QED
  BY <1>2, <1>3, <1>6, <1>7, OneCommand

LEMMA SetBrightnessKeeps ==
    ASSUME CamInv, NEW v \in Words, commands!freenect_set_ir_brightness(v)
    PROVE  CamInv'
<1>1. camera' = camera /\ reg' = reg /\ faults' = faults
  BY DEF commands!freenect_set_ir_brightness, commands!Calls
<1>2. camera' \in CameraStates /\ commands!StreamsOn'
  BY <1>1 DEF CamInv, CamTypes, commands!StreamsOn
<1>3. "set_ir" \in CamOps \ {"none", "near", "flag", "start_depth", "start_video"}
  BY DEF CamOps
<1>4. commands!Clamp(v) \in Words
  <2>1. commands!MAX \in Nat /\ commands!MAX >= 7
    BY CommandsAssumption DEF commands!WidthAssumption, commands!MAX
  <2> QED
    BY <2>1 DEF commands!Clamp, Words
<1>5. PICK x \in CamCommands : /\ x = commands!Write("0x15", commands!Clamp(v))
                              /\ x.kind = "write" /\ x.reg = "0x15"
  <2>1. PICK u \in Words : u = commands!Clamp(v)
    BY <1>4
  <2>2. "0x15" \in commands!Registers
    BY RegistersIs
  <2>3. PICK x \in CamCommands : /\ x = commands!Write("0x15", u)
                                /\ x.kind = "write" /\ x.reg = "0x15"
                                /\ x.val = u
    BY <2>2, WriteIs
  <2> QED
    BY <2>1, <2>3
<1>6. commands!Calls(commands!Script("set_ir", <<x>>))
  BY <1>5 DEF commands!freenect_set_ir_brightness
<1>7. call'.op = "set_ir" => Fits(x, 1)'
  BY <1>5 DEF Fits
<1> QED
  BY <1>2, <1>3, <1>6, <1>7, OneCommand

LEMMA StartDepthKeeps == CamInv /\ commands!freenect_start_depth => CamInv'
<1> SUFFICES ASSUME CamInv, commands!freenect_start_depth PROVE CamInv'
  OBVIOUS
<1>1. /\ reg' = reg /\ faults' = faults /\ ~camera.depth
      /\ camera' = IF camera.depthFormat = "REGISTERED"
                   THEN [camera EXCEPT !.tables = camera.regInfo] ELSE camera
  BY DEF commands!freenect_start_depth, commands!Calls
<1>2. /\ camera' \in CameraStates /\ camera'.depth = camera.depth
      /\ camera'.video = camera.video /\ camera'.videoMode = camera.videoMode
      /\ camera'.depthFormat = camera.depthFormat
  BY <1>1 DEF CamInv, CamTypes, CameraStates
<1>3. commands!StreamsOn'
  BY <1>1, <1>2 DEF CamInv, commands!StreamsOn
<1>4. DepthWord \in Words /\ DepthWord' = DepthWord
  BY <1>2, SomeWords DEF DepthWord
<1>5. PICK d \in Words : d = DepthWord
  BY <1>4
<1>6. /\ "0x06" \in commands!Registers /\ "0x12" \in commands!Registers
      /\ "0x17" \in commands!Registers /\ 0 \in Words /\ 2 \in Words
  BY RegistersIs, SomeWords
<1>7. PICK x \in CamCommands : /\ x = commands!Unchecked("0x06", 0)
                               /\ x.kind = "write" /\ x.reg = "0x06" /\ x.val = 0
  BY <1>6, UncheckedIs
<1>8. PICK y \in CamCommands : /\ y = commands!Unchecked("0x12", d)
                               /\ y.kind = "write" /\ y.reg = "0x12" /\ y.val = d
  BY <1>6, UncheckedIs
<1>9. PICK z \in CamCommands : /\ z = commands!Unchecked("0x06", 2)
                               /\ z.kind = "write" /\ z.reg = "0x06" /\ z.val = 2
  BY <1>6, UncheckedIs
<1>10. PICK u \in CamCommands : /\ u = commands!Unchecked("0x17", 0)
                                /\ u.kind = "write" /\ u.reg = "0x17" /\ u.val = 0
  BY <1>6, UncheckedIs
<1>11. PICK t : t = <<x, y, z, u>>
  OBVIOUS
<1>12. /\ t \in Seq(CamCommands) /\ Len(t) = 4 /\ t # <<>>
       /\ t[1] = x /\ t[2] = y /\ t[3] = z /\ t[4] = u
  BY <1>11, Tuples
<1>13. commands!StartDepth = t
  BY <1>5, <1>7, <1>8, <1>9, <1>10, <1>11 DEF commands!StartDepth, DepthWord
<1>14. PICK c \in CamCalls : /\ c = commands!Script("start_depth", t)
                             /\ c.op = "start_depth" /\ c.pc = "send" /\ c.todo = t
  BY <1>12, ScriptIs DEF CamOps
<1>15. commands!Calls(c) /\ call' = c
  BY <1>13, <1>14 DEF commands!freenect_start_depth, commands!Calls
<1>16. Scripted'
  <2>1. DepthFits(x, 4)' /\ DepthFits(y, 3)' /\ DepthFits(z, 2)' /\ DepthFits(u, 1)'
    BY <1>4, <1>5, <1>7, <1>8, <1>9, <1>10 DEF DepthFits
  <2>2. Fits(x, 4)' /\ Fits(y, 3)' /\ Fits(z, 2)' /\ Fits(u, 1)'
    <3>1. call'.op = "start_depth"
      BY <1>14, <1>15
    <3> QED
      BY <2>1, <3>1 DEF Fits
  <2>3. \A i \in 1..4 : i = 1 \/ i = 2 \/ i = 3 \/ i = 4
    OBVIOUS
  <2>4. Len(t) - 1 + 1 = 4 /\ Len(t) - 2 + 1 = 3 /\ Len(t) - 3 + 1 = 2 /\ Len(t) - 4 + 1 = 1
    BY <1>12
  <2>5. \A i \in 1..Len(t) : Fits(t[i], Len(t) - i + 1)'
    BY <1>12, <2>2, <2>3, <2>4
  <2> QED
    BY <1>1, <1>2, <1>14, <1>15, <2>5 DEF Scripted
<1>17. Len(c.todo) = Len(t) /\ c.todo # <<>>
  BY <1>12, <1>14
<1>18. Len(c.todo) > 2
  BY <1>12, <1>17
<1> QED
  BY <1>2, <1>3, <1>14, <1>15, <1>16, <1>17, <1>18, CallBegins

LEMMA StartVideoKeeps == CamInv /\ commands!freenect_start_video => CamInv'
<1> SUFFICES ASSUME CamInv, commands!freenect_start_video PROVE CamInv'
  OBVIOUS
<1>1. reg' = reg /\ faults' = faults /\ ~camera.video /\ camera' = camera
  BY DEF commands!freenect_start_video, commands!Calls
<1>2. camera' \in CameraStates /\ commands!StreamsOn'
  BY <1>1 DEF CamInv, CamTypes, commands!StreamsOn
<1>3. "start_video" \in CamOps
  BY DEF CamOps
<1>4. /\ "0x05" \in commands!Registers /\ "0x06" \in commands!Registers
      /\ "0x47" \in commands!Registers /\ "0x48" \in commands!Registers
      /\ 0 \in Words /\ 1 \in Words /\ 2 \in Words /\ 3 \in Words
  BY RegistersIs, SomeWords
<1>5. CASE camera.videoMode = "HighIR" /\ camera.depth
  <2>1. commands!Calls(commands!Refused("start_video"))
    BY <1>5 DEF commands!freenect_start_video
  <2> QED
    BY <1>1, <1>3, <2>1, CallRefused
<1>6. CASE camera.videoMode = "HighIR" /\ ~camera.depth
  <2>1. PICK x \in CamCommands : /\ x = commands!Unchecked("0x06", 2)
                                 /\ x.kind = "write" /\ x.reg = "0x06" /\ x.val = 2
    BY <1>4, UncheckedIs
  <2>2. PICK y \in CamCommands : /\ y = commands!Unchecked("0x06", 0)
                                 /\ y.kind = "write" /\ y.reg = "0x06" /\ y.val = 0
    BY <1>4, UncheckedIs
  <2>3. PICK z \in CamCommands : /\ z = commands!Unchecked("0x05", 3)
                                 /\ z.kind = "write" /\ z.reg = "0x05" /\ z.val = 3
    BY <1>4, UncheckedIs
  <2>4. PICK u \in CamCommands : /\ u = commands!Unchecked("0x48", 0)
                                 /\ u.kind = "write" /\ u.reg = "0x48" /\ u.val = 0
    BY <1>4, UncheckedIs
  <2>5. PICK t : t = <<x, y, z, u>>
    OBVIOUS
  <2>6. /\ t \in Seq(CamCommands) /\ Len(t) = 4 /\ t # <<>>
        /\ t[1] = x /\ t[2] = y /\ t[3] = z /\ t[4] = u
    BY <2>5, Tuples
  <2>7. commands!StartVideo = t
    BY <1>6, <2>1, <2>2, <2>3, <2>4, <2>5 DEF commands!StartVideo
  <2>8. PICK c \in CamCalls : /\ c = commands!Script("start_video", t)
                              /\ c.op = "start_video" /\ c.pc = "send" /\ c.todo = t
    BY <1>3, <2>6, ScriptIs
  <2>9. commands!Calls(c) /\ call' = c
    BY <1>6, <2>7, <2>8 DEF commands!freenect_start_video, commands!Calls
  <2>10. Scripted'
    <3>1. VideoFits(x, 4)' /\ VideoFits(y, 3)' /\ VideoFits(z, 2)' /\ VideoFits(u, 1)'
      BY <1>1, <1>6, <2>1, <2>2, <2>3, <2>4 DEF VideoFits, VideoWord
    <3>2. Fits(x, 4)' /\ Fits(y, 3)' /\ Fits(z, 2)' /\ Fits(u, 1)'
      <4>1. call'.op = "start_video"
        BY <2>8, <2>9
      <4> QED
        BY <3>1, <4>1 DEF Fits
    <3>3. \A i \in 1..4 : i = 1 \/ i = 2 \/ i = 3 \/ i = 4
      OBVIOUS
    <3>4. Len(t) - 1 + 1 = 4 /\ Len(t) - 2 + 1 = 3 /\ Len(t) - 3 + 1 = 2 /\ Len(t) - 4 + 1 = 1
      BY <2>6
    <3>5. \A i \in 1..Len(t) : Fits(t[i], Len(t) - i + 1)'
      BY <2>6, <3>2, <3>3, <3>4
    <3> QED
      BY <1>1, <1>6, <2>8, <2>9, <3>5 DEF Scripted
  <2>11. Len(c.todo) = Len(t) /\ c.todo # <<>>
    BY <2>6, <2>8
  <2>12. Len(c.todo) > 1
    BY <2>6, <2>11
  <2> QED
    BY <1>2, <2>8, <2>9, <2>10, <2>11, <2>12, CallBegins
<1>7. CASE camera.videoMode # "HighIR"
  <2>1. PICK x \in CamCommands : /\ x = commands!Unchecked("0x05", 1)
                                 /\ x.kind = "write" /\ x.reg = "0x05" /\ x.val = 1
    BY <1>4, UncheckedIs
  <2>2. PICK y \in CamCommands : /\ y = commands!Unchecked("0x47", 0)
                                 /\ y.kind = "write" /\ y.reg = "0x47" /\ y.val = 0
    BY <1>4, UncheckedIs
  <2>3. PICK t : t = <<x, y>>
    OBVIOUS
  <2>4. t \in Seq(CamCommands) /\ Len(t) = 2 /\ t # <<>> /\ t[1] = x /\ t[2] = y
    BY <2>3, Tuples
  <2>5. commands!StartVideo = t
    BY <1>7, <2>1, <2>2, <2>3 DEF commands!StartVideo
  <2>6. PICK c \in CamCalls : /\ c = commands!Script("start_video", t)
                              /\ c.op = "start_video" /\ c.pc = "send" /\ c.todo = t
    BY <1>3, <2>4, ScriptIs
  <2>7. commands!Calls(c) /\ call' = c
    BY <1>7, <2>5, <2>6 DEF commands!freenect_start_video, commands!Calls
  <2>8. Scripted'
    <3>1. VideoFits(x, 2)' /\ VideoFits(y, 1)'
      BY <1>1, <1>7, <2>1, <2>2 DEF VideoFits, VideoWord
    <3>2. Fits(x, 2)' /\ Fits(y, 1)'
      <4>1. call'.op = "start_video"
        BY <2>6, <2>7
      <4> QED
        BY <3>1, <4>1 DEF Fits
    <3>3. \A i \in 1..2 : i = 1 \/ i = 2
      OBVIOUS
    <3>4. Len(t) - 1 + 1 = 2 /\ Len(t) - 2 + 1 = 1
      BY <2>4
    <3>5. \A i \in 1..Len(t) : Fits(t[i], Len(t) - i + 1)'
      BY <2>4, <3>2, <3>3, <3>4
    <3> QED
      BY <1>1, <1>7, <2>6, <2>7, <3>5 DEF Scripted
  <2>9. Len(c.todo) = Len(t) /\ c.todo # <<>>
    BY <2>4, <2>6
  <2>10. Len(c.todo) > 1
    BY <2>4, <2>9
  <2> QED
    BY <1>2, <2>6, <2>7, <2>8, <2>9, <2>10, CallBegins
<1> QED
  BY <1>5, <1>6, <1>7

LEMMA StopKeeps ==
    CamInv /\ (commands!freenect_stop_depth \/ commands!freenect_stop_video) => CamInv'
<1>1. "stop" \in CamOps \ {"none", "near", "flag", "start_depth", "start_video"}
  BY DEF CamOps
<1>2. "0x05" \in commands!Registers /\ "0x06" \in commands!Registers /\ 0 \in Words
  BY RegistersIs, SomeWords
<1>3. ASSUME CamInv, commands!freenect_stop_depth PROVE CamInv'
  <2>1. /\ reg' = reg /\ faults' = faults
        /\ camera' = [camera EXCEPT !.depth = FALSE, !.tables = "none"]
    BY <1>3 DEF commands!freenect_stop_depth, commands!Calls
  <2>2. /\ camera' \in CameraStates /\ ~camera'.depth
        /\ camera'.video = camera.video /\ camera'.videoMode = camera.videoMode
    BY <1>3, <2>1 DEF CamInv, CamTypes, CameraStates, InfoNames
  <2>3. commands!StreamsOn'
    BY <1>3, <2>1, <2>2 DEF CamInv, commands!StreamsOn
  <2>4. PICK x \in CamCommands : /\ x = commands!Unchecked("0x06", 0)
                                 /\ x.kind = "write" /\ x.reg = "0x06" /\ x.val = 0
    BY <1>2, UncheckedIs
  <2>5. commands!Calls(commands!Script("stop", <<x>>))
    BY <1>3, <2>4 DEF commands!freenect_stop_depth
  <2>6. StopFits(x, 1)'
    BY <2>2, <2>4 DEF StopFits
  <2>7. call'.op = "stop" => Fits(x, 1)'
    BY <2>6 DEF Fits
  <2> QED
    BY <1>1, <1>3, <2>2, <2>3, <2>5, <2>7, OneCommand
<1>4. ASSUME CamInv, commands!freenect_stop_video PROVE CamInv'
  <2>1. reg' = reg /\ faults' = faults /\ camera' = [camera EXCEPT !.video = FALSE]
    BY <1>4 DEF commands!freenect_stop_video, commands!Calls
  <2>2. /\ camera' \in CameraStates /\ ~camera'.video
        /\ camera'.depth = camera.depth /\ camera'.depthFormat = camera.depthFormat
    BY <1>4, <2>1 DEF CamInv, CamTypes, CameraStates
  <2>3. commands!StreamsOn'
    BY <1>4, <2>1, <2>2 DEF CamInv, commands!StreamsOn
  <2>4. PICK x \in CamCommands : /\ x = commands!Unchecked("0x05", 0)
                                 /\ x.kind = "write" /\ x.reg = "0x05" /\ x.val = 0
    BY <1>2, UncheckedIs
  <2>5. commands!Calls(commands!Script("stop", <<x>>))
    BY <1>4, <2>4 DEF commands!freenect_stop_video
  <2>6. StopFits(x, 1)'
    BY <2>2, <2>4 DEF StopFits
  <2>7. call'.op = "stop" => Fits(x, 1)'
    BY <2>6 DEF Fits
  <2> QED
    BY <1>1, <1>4, <2>2, <2>3, <2>5, <2>7, OneCommand
<1> QED
  BY <1>3, <1>4

\* The modes are set while the stream is off.
LEMMA SetModeKeeps ==
    /\ \A m \in commands!DepthFormats : CamInv /\ commands!freenect_set_depth_mode(m) => CamInv'
    /\ \A m \in commands!VideoModes : CamInv /\ commands!freenect_set_video_mode(m) => CamInv'
<1>1. ASSUME CamInv, NEW m \in commands!DepthFormats, commands!freenect_set_depth_mode(m)
      PROVE  CamInv'
  <2>1. /\ camera' = [camera EXCEPT !.depthFormat = m] /\ ~camera.depth /\ call.pc = "idle"
        /\ UNCHANGED <<reg, inbox, reply, tag, call, faults, unsure>>
    BY <1>1 DEF commands!freenect_set_depth_mode
  <2>2. camera' \in CameraStates /\ camera'.depth = camera.depth
        /\ camera'.video = camera.video /\ camera'.videoMode = camera.videoMode
    BY <1>1, <2>1 DEF CamInv, CamTypes, CameraStates, commands!DepthFormats
  <2>3. CamTypes'
    BY <1>1, <2>1, <2>2 DEF CamInv, CamTypes
  <2>4. commands!StreamsOn'
    BY <1>1, <2>1, <2>2 DEF CamInv, commands!StreamsOn
  <2>5. Answering' /\ Scripted' /\ Halfway'
    BY <1>1, <2>1 DEF CamInv, Answering, Scripted, Halfway
  <2> QED
    BY <2>3, <2>4, <2>5 DEF CamInv
<1>2. ASSUME CamInv, NEW m \in commands!VideoModes, commands!freenect_set_video_mode(m)
      PROVE  CamInv'
  <2>1. /\ camera' = [camera EXCEPT !.videoMode = m] /\ ~camera.video
        /\ reg' = reg /\ faults' = faults
    BY <1>2 DEF commands!freenect_set_video_mode, commands!Calls
  <2>2. /\ camera' \in CameraStates /\ camera'.depth = camera.depth
        /\ ~camera'.video /\ camera'.depthFormat = camera.depthFormat
    BY <1>2, <2>1 DEF CamInv, CamTypes, CameraStates, commands!VideoModes
  <2>3. commands!StreamsOn'
    BY <1>2, <2>1, <2>2 DEF CamInv, commands!StreamsOn
  <2>4. "set_video_mode" \in CamOps \ {"none", "near", "flag", "start_depth", "start_video"}
    BY DEF CamOps
  <2>5. PICK x \in CamCommands : /\ x = commands!Params("0x16", "registration", FALSE)
                                 /\ x.kind = "params"
    BY ParamsIs
  <2>6. commands!Calls(commands!Script("set_video_mode", <<x>>))
    BY <1>2, <2>5 DEF commands!freenect_set_video_mode, commands!freenect_fetch_reg_info
  <2>7. call'.op = "set_video_mode" => Fits(x, 1)'
    BY <2>5 DEF Fits
  <2> QED
    BY <1>2, <2>2, <2>3, <2>4, <2>6, <2>7, OneCommand
<1> QED
  BY <1>1, <1>2

LEMMA CameraInitKeeps == CamInv /\ commands!freenect_camera_init => CamInv'
<1> SUFFICES ASSUME CamInv, commands!freenect_camera_init PROVE CamInv'
  OBVIOUS
<1>1. reg' = reg /\ faults' = faults /\ camera' = camera
  BY DEF commands!freenect_camera_init, commands!Calls
<1>2. camera' \in CameraStates /\ commands!StreamsOn'
  BY <1>1 DEF CamInv, CamTypes, commands!StreamsOn
<1>3. "init" \in CamOps
  BY DEF CamOps
<1>4. PICK x \in CamCommands : x = commands!Params("0x16", "pad", TRUE) /\ x.kind = "params"
  BY ParamsIs
<1>5. PICK y \in CamCommands :
        y = commands!Params("0x04", "zero plane", TRUE) /\ y.kind = "params"
  BY ParamsIs
<1>6. PICK z \in CamCommands :
        z = commands!Params("0x16", "registration", FALSE) /\ z.kind = "params"
  BY ParamsIs
<1>7. PICK u \in CamCommands :
        u = commands!Params("0x16", "const shift", TRUE) /\ u.kind = "params"
  BY ParamsIs
<1>8. PICK t : t = <<x, y, z, u>>
  OBVIOUS
<1>9. /\ t \in Seq(CamCommands) /\ Len(t) = 4 /\ t # <<>>
      /\ t[1] = x /\ t[2] = y /\ t[3] = z /\ t[4] = u
  BY <1>8, Tuples
<1>10. commands!CameraInit = t
  BY <1>4, <1>5, <1>6, <1>7, <1>8
     DEF commands!CameraInit, commands!freenect_fetch_reg_pad_info,
         commands!freenect_fetch_zero_plane_info, commands!freenect_fetch_reg_info,
         commands!freenect_fetch_reg_const_shift
<1>11. PICK c \in CamCalls : /\ c = commands!Script("init", t)
                             /\ c.op = "init" /\ c.pc = "send" /\ c.todo = t
  BY <1>3, <1>9, ScriptIs
<1>12. commands!Calls(c) /\ call' = c
  BY <1>10, <1>11 DEF commands!freenect_camera_init, commands!Calls
<1>13. Scripted'
  <2>1. call'.op = "init"
    BY <1>11, <1>12
  <2>2. \A k \in {x, y, z, u}, n \in Int : Fits(k, n)'
    BY <1>4, <1>5, <1>6, <1>7, <2>1 DEF Fits
  <2>3. \A i \in 1..4 : t[i] \in {x, y, z, u}
    BY <1>9
  <2>4. \A i \in 1..Len(t) : Fits(t[i], Len(t) - i + 1)'
    BY <1>9, <2>2, <2>3
  <2> QED
    BY <1>11, <1>12, <2>1, <2>4 DEF Scripted
<1> QED
  BY <1>2, <1>9, <1>11, <1>12, <1>13, CallBegins

\* The script under way, and its first command.
LEMMA TheHead ==
    ASSUME CamInv, call.pc # "idle"
    PROVE  /\ call.todo \in Seq(CamCommands) /\ Len(call.todo) \in Nat /\ Len(call.todo) >= 1
           /\ Head(call.todo) \in CamCommands /\ Head(call.todo) = call.todo[1]
           /\ Fits(Head(call.todo), Len(call.todo))
           /\ call.op \in CamOps /\ call.op # "none"
<1>1. call \in CamCalls /\ call.todo # <<>>
  BY DEF CamInv, CamTypes
<1>2. call.todo \in Seq(CamCommands) /\ call.op \in CamOps
  BY <1>1 DEF CamCalls
<1>3. Len(call.todo) \in Nat /\ Len(call.todo) >= 1
  BY <1>1, <1>2, EmptySeq
<1>4. Head(call.todo) \in CamCommands /\ Head(call.todo) = call.todo[1]
  BY <1>1, <1>2, HeadTailProperties
<1>5. Fits(call.todo[1], Len(call.todo)) /\ call.op # "none"
  <2>1. \A i \in 1..Len(call.todo) : Fits(call.todo[i], Len(call.todo) - i + 1)
    BY DEF CamInv, Scripted
  <2>2. 1 \in 1..Len(call.todo) /\ Len(call.todo) - 1 + 1 = Len(call.todo)
    BY <1>3
  <2>3. Fits(call.todo[1], Len(call.todo) - 1 + 1)
    BY <2>1, <2>2
  <2> QED
    BY <2>2, <2>3 DEF CamInv, Scripted
<1> QED
  BY <1>2, <1>3, <1>4, <1>5

\* A reading ends the script when it fails.
LEMMA ReadMust ==
    ASSUME NEW c, NEW k, Fits(c, k), call.op \in CamOps \ {"none"}, c.kind = "read"
    PROVE  c.must = TRUE
BY DEF Fits, CamOps, NearFits, FlagFits, ReadFits, DepthFits, VideoFits, StopFits

\* A call with a result that is looked at ends when a command of it fails.
LEMMA MustOnes ==
    ASSUME NEW c, NEW k, Fits(c, k), call.op \in {"near", "flag", "get_ir", "get_exposure"}
    PROVE  c.must = TRUE
BY DEF Fits, NearFits, FlagFits, ReadFits

SameCamera == /\ camera'.depth = camera.depth /\ camera'.video = camera.video
              /\ camera'.videoMode = camera.videoMode
              /\ camera'.depthFormat = camera.depthFormat

LEMMA FitsStays ==
    ASSUME NEW c, NEW k, Fits(c, k), reg' = reg, SameCamera, unsure => unsure',
           call'.op = call.op, call'.arg = call.arg, call'.flag = call.flag, call'.was = call.was
    PROVE  Fits(c, k)'
<1>1. NearFits(c, k) => NearFits(c, k)'
  BY DEF NearFits, NearWord
<1>2. FlagFits(c, k) => FlagFits(c, k)'
  BY DEF FlagFits
<1>3. ReadFits("0x15", c, k)' = ReadFits("0x15", c, k)
      /\ ReadFits("cmos 0x0009", c, k)' = ReadFits("cmos 0x0009", c, k)
  BY DEF ReadFits
<1>4. DepthFits(c, k) => DepthFits(c, k)'
  BY DEF DepthFits, DepthWord, SameCamera
<1>5. VideoFits(c, k) => VideoFits(c, k)'
  BY DEF VideoFits, VideoWord, SameCamera
<1>6. StopFits(c, k) => StopFits(c, k)'
  BY DEF StopFits, SameCamera
<1> QED
  BY <1>1, <1>2, <1>3, <1>4, <1>5, <1>6 DEF Fits

LEMMA TailKeeps ==
    ASSUME CamInv, call.pc # "idle", Len(call.todo) > 1,
           call' = [call EXCEPT !.pc = "send", !.todo = Tail(call.todo)],
           reg' = reg, SameCamera, unsure => unsure'
    PROVE  /\ call' \in CamCalls /\ call'.pc = "send" /\ call'.todo # <<>> /\ call'.op = call.op
           /\ call'.arg = call.arg /\ Len(call'.todo) = Len(call.todo) - 1
           /\ Scripted'
<1>1. call.todo \in Seq(CamCommands) /\ call \in CamCalls /\ call.todo # <<>>
  BY DEF CamInv, CamTypes, CamCalls
<1>2. PICK t : t = Tail(call.todo)
  OBVIOUS
<1>3. /\ t \in Seq(CamCommands) /\ Len(t) = Len(call.todo) - 1
      /\ \A i \in 1..Len(t) : t[i] = call.todo[i + 1]
  BY <1>1, <1>2, HeadTailProperties
<1>4. t # <<>> /\ Len(t) \in Nat /\ Len(call.todo) \in Nat
  BY <1>1, <1>3, EmptySeq
<1>5. /\ call' \in CamCalls /\ call'.pc = "send" /\ call'.todo = t /\ call'.op = call.op
      /\ call'.arg = call.arg /\ call'.flag = call.flag /\ call'.was = call.was
  BY <1>1, <1>2, <1>3 DEF CamCalls
<1>6. \A i \in 1..Len(t) : Fits(t[i], Len(t) - i + 1)'
  <2> SUFFICES ASSUME NEW i \in 1..Len(t) PROVE Fits(t[i], Len(t) - i + 1)'
    OBVIOUS
  <2>1. i + 1 \in 1..Len(call.todo) /\ Len(call.todo) - (i + 1) + 1 = Len(t) - i + 1
    BY <1>3, <1>4
  <2>2. Fits(call.todo[i + 1], Len(call.todo) - (i + 1) + 1)
    BY <2>1 DEF CamInv, Scripted
  <2>3. PICK x, k : x = t[i] /\ k = Len(t) - i + 1
    OBVIOUS
  <2>4. Fits(x, k)
    BY <1>3, <2>1, <2>2, <2>3
  <2>5. Fits(x, k)'
    BY <1>5, <2>4, FitsStays
  <2> QED
    BY <2>3, <2>5
<1>7. Scripted'
  BY <1>5, <1>6 DEF CamInv, Scripted, SameCamera
<1> QED
  BY <1>3, <1>4, <1>5, <1>7

\* What a call that succeeds did, as long as no poll failed
Promised ==
    ~unsure' =>
        /\ commands!Returns("flag") =>
             reg'["cmos 0x0106"] = commands!WithFlag(call.was, call.flag, call.arg)
        /\ commands!Returns("near") => reg'["0x15"] = (IF call.arg = 1 THEN 7 ELSE 3)
                                       /\ reg'["0x02EF"] = 1 - call.arg
        /\ commands!Returns("get_ir") => call'.got = reg'["0x15"]
        /\ commands!Returns("get_exposure") => call'.got = reg'["cmos 0x0009"]

\* What the end of a command makes of the call and of the device
Moved ==
    /\ call' \in CamCalls /\ call'.pc \in {"idle", "send"}
    /\ call'.pc # "idle" => call'.todo # <<>>
    /\ camera' \in CameraStates
    /\ Scripted' /\ Halfway' /\ commands!StreamsOn'
    /\ Promised

LEMMA OneOrMore == \A n \in Nat : n >= 1 => (n = 1 \/ n > 1)
OBVIOUS

LEMMA EndsIs ==
    ASSUME CamInv, NEW n \in {-1, 0}, commands!Ends(n)
    PROVE  /\ call' \in CamCalls /\ call'.pc = "idle" /\ call'.res = n /\ call'.op = call.op
           /\ Scripted' /\ Halfway'
<1>1. <<>> \in Seq(CamCommands) /\ call \in CamCalls
  BY EmptySeq DEF CamInv, CamTypes
<1>2. PICK m \in {-1, 0} : m = n
  OBVIOUS
<1>6. PICK e \in Seq(CamCommands) : e = <<>>
  BY <1>1
<1>7. PICK g \in Int : g = 0
  OBVIOUS
<1>3. call' = [call EXCEPT !.pc = "idle", !.todo = e, !.got = g, !.res = m]
  BY <1>2, <1>6, <1>7 DEF commands!Ends
<1>4. call' \in CamCalls /\ call'.pc = "idle" /\ call'.res = m /\ call'.op = call.op
  BY <1>1, <1>3 DEF CamCalls
<1>5. Scripted' /\ Halfway'
  BY <1>4 DEF Scripted, Halfway
<1> QED
  BY <1>2, <1>4, <1>5

LEMMA FailsKeeps ==
    ASSUME CamInv, call.pc # "idle", NEW c, c = Head(call.todo), commands!Fails(c),
           reg' = reg, unsure => unsure', faults' = 0 => faults = 0,
           faults' # 0 \/ c.must = TRUE
    PROVE  Moved
<1>1. /\ call.todo \in Seq(CamCommands) /\ Len(call.todo) \in Nat /\ Len(call.todo) >= 1
      /\ c \in CamCommands /\ Fits(c, Len(call.todo)) /\ call.op \in CamOps /\ call.op # "none"
  BY TheHead
<1>2. c.must \in BOOLEAN
  BY <1>1 DEF CamCommands
<1>3. camera \in CameraStates /\ call \in CamCalls
  BY DEF CamInv, CamTypes
<1>4. CASE c.must = TRUE
  <2>1. commands!Ends(-1) /\ camera' = camera
    BY <1>4, Zenon DEF commands!Fails
  <2>2. PICK n \in {-1, 0} : n = -1
    OBVIOUS
  <2>3. commands!Ends(n)
    BY <2>1, <2>2
  <2>4. /\ call' \in CamCalls /\ call'.pc = "idle" /\ call'.res = n
        /\ Scripted' /\ Halfway'
    BY <2>3, EndsIs
  <2>5. Promised
    BY <2>2, <2>4 DEF Promised, commands!Returns
  <2>6. commands!StreamsOn'
    BY <2>1 DEF CamInv, commands!StreamsOn
  <2> QED
    BY <1>3, <2>1, <2>4, <2>5, <2>6 DEF Moved
<1>5. CASE c.must = FALSE
  <2>1. faults' # 0
    BY <1>5
  <2>2. commands!StreamsOn'
    BY <2>1 DEF commands!StreamsOn
  <2>3. call.op \notin {"near", "flag", "get_ir", "get_exposure"}
    <3>1. c.must # TRUE
      BY <1>5
    <3> QED
      BY <1>1, <3>1, MustOnes
  <2>4. Promised
    BY <2>3 DEF Promised, commands!Returns
  <2>5. CASE Len(call.todo) = 1
    <3>1. /\ commands!Ends(0)
          /\ camera' = [camera EXCEPT !.depth = camera.depth \/ call.op = "start_depth",
                                      !.video = camera.video \/ call.op = "start_video"]
      <4>1. ~(Len(call.todo) > 1) /\ ~c.must
        BY <1>5, <2>5
      <4> QED
        BY <2>5, <4>1 DEF commands!Fails
    <3>2. PICK n \in {-1, 0} : n = 0
      OBVIOUS
    <3>3. commands!Ends(n)
      BY <3>1, <3>2
    <3>4. call' \in CamCalls /\ call'.pc = "idle" /\ Scripted' /\ Halfway'
      BY <3>3, EndsIs
    <3>5. camera' \in CameraStates
      BY <1>3, <3>1 DEF CameraStates
    <3> QED
      BY <2>2, <2>4, <3>4, <3>5 DEF Moved
  <2>6. CASE Len(call.todo) # 1
    <3>1. Len(call.todo) > 1
      <4>1. PICK n \in Nat : n = Len(call.todo) /\ n >= 1
        BY <1>1
      <4>2. n # 1
        BY <2>6, <4>1
      <4>3. n > 1
        BY <4>1, <4>2, OneOrMore
      <4> QED
        BY <4>1, <4>3
    <3>2. /\ call' = [call EXCEPT !.pc = "send", !.todo = Tail(call.todo)]
          /\ camera' = camera
      <4>1. ~c.must
        BY <1>5
      <4> QED
        BY <2>6, <3>1, <4>1 DEF commands!Fails
    <3>3. SameCamera
      BY <3>2 DEF SameCamera
    <3>4. /\ call' \in CamCalls /\ call'.pc = "send" /\ call'.todo # <<>> /\ call'.op = call.op
          /\ Scripted'
      BY <3>1, <3>2, <3>3, TailKeeps
    <3>5. Halfway'
      BY <2>1, <2>3, <3>4 DEF Halfway
    <3> QED
      BY <1>3, <2>2, <2>4, <3>2, <3>4, <3>5 DEF Moved
  <2> QED
    BY <2>5, <2>6
<1> QED
  BY <1>2, <1>4, <1>5

LEMMA FlagWriteIs ==
    \A w \in Words : \E x \in CamCommands : /\ x = commands!CmosWrite("cmos 0x0106", w)
                                           /\ x.kind = "write" /\ x.reg = "cmos 0x0106"
                                           /\ x.val = w
<1>1. "cmos 0x0106" \in commands!Registers
  BY RegistersIs
<1> QED
  BY <1>1, CmosWriteIs

LEMMA SucceedsKeeps ==
    ASSUME CamInv, call.pc # "idle", NEW c, c = Head(call.todo), NEW val \in Words,
           commands!Succeeds(c, val), reg' = reg, unsure => unsure',
           faults' = 0 => faults = 0, unsure' => faults' # 0,
           ~unsure' => Done(c, val)
    PROVE  Moved
<1>1. /\ call.todo \in Seq(CamCommands) /\ Len(call.todo) \in Nat /\ Len(call.todo) >= 1
      /\ c \in CamCommands /\ Fits(c, Len(call.todo)) /\ call.op \in CamOps /\ call.op # "none"
  BY TheHead
<1>2. PICK n \in Nat : n = Len(call.todo) /\ n >= 1
  BY <1>1
<1>3. camera \in CameraStates /\ call \in CamCalls
  BY DEF CamInv, CamTypes
<1>4. camera' = [camera EXCEPT
         !.depth = camera.depth \/ (call.op = "start_depth" /\ Len(call.todo) = 1),
         !.video = camera.video \/ (call.op = "start_video" /\ Len(call.todo) = 1),
         !.regInfo = IF c.reg = "registration" THEN camera.videoMode ELSE camera.regInfo]
  BY DEF commands!Succeeds
<1>5. /\ camera' \in CameraStates /\ camera'.videoMode = camera.videoMode
      /\ camera'.depthFormat = camera.depthFormat
      /\ camera'.depth = (camera.depth \/ (call.op = "start_depth" /\ Len(call.todo) = 1))
      /\ camera'.video = (camera.video \/ (call.op = "start_video" /\ Len(call.todo) = 1))
  BY <1>3, <1>4 DEF CameraStates, InfoNames
<1>6. CASE c.kind = "read" /\ call.op = "flag"
  <2>1. call' = [call EXCEPT !.pc = "send",
                    !.todo = <<commands!CmosWrite(c.reg,
                                 commands!WithFlag(val, call.flag, call.arg))>>]
    BY <1>6 DEF commands!Succeeds
  <2>2. FlagFits(c, Len(call.todo)) /\ call.flag \in Flags /\ call.arg \in {0, 1}
    BY <1>1, <1>6 DEF Fits, CamInv, Scripted
  <2>3. PICK w \in Words : w = commands!WithFlag(val, call.flag, call.arg)
    BY <2>2, WithFlagWord
  <2>4. c.reg = "cmos 0x0106" /\ "cmos 0x0106" \in commands!Registers
    BY <2>2, RegistersIs DEF FlagFits
  <2>5. PICK x \in CamCommands : /\ x = commands!CmosWrite("cmos 0x0106", w)
                                 /\ x.kind = "write" /\ x.reg = "cmos 0x0106"
                                 /\ x.val = w
    BY FlagWriteIs
  <2>6. x.must = TRUE
    BY <2>5 DEF commands!CmosWrite, commands!Command
  <2>7. PICK t : t = <<x>>
    OBVIOUS
  <2>8. t \in Seq(CamCommands) /\ Len(t) = 1 /\ t # <<>> /\ t[1] = x
    BY <2>7, Tuples
  <2>9. call' = [call EXCEPT !.pc = "send", !.todo = t]
    BY <2>1, <2>3, <2>4, <2>5, <2>7
  <2>10. /\ call' \in CamCalls /\ call'.pc = "send" /\ call'.todo = t /\ call'.op = call.op
         /\ call'.arg = call.arg /\ call'.flag = call.flag /\ call'.was = call.was
    BY <1>3, <2>8, <2>9 DEF CamCalls
  <2>11. unsure' \/ w = commands!WithFlag(call.was, call.flag, call.arg)
    <3>1. CASE unsure'
      BY <3>1
    <3>2. CASE ~unsure'
      <4>1. val = reg["cmos 0x0106"]
        BY <1>6, <2>4, <3>2 DEF Done
      <4>2. call.was = reg["cmos 0x0106"]
        BY <1>6, <2>2, <3>2 DEF FlagFits
      <4> QED
        BY <2>3, <4>1, <4>2
    <3> QED
      BY <3>1, <3>2
  <2>12. FlagFits(x, 1)'
    BY <2>5, <2>6, <2>10, <2>11 DEF FlagFits
  <2>13. Fits(x, 1)'
    BY <1>6, <2>10, <2>12 DEF Fits
  <2>14. \A i \in 1..Len(t) : Fits(t[i], Len(t) - i + 1)'
    <3>1. \A i \in 1..1 : i = 1
      OBVIOUS
    <3> QED
      BY <2>8, <2>13, <3>1
  <2>15. Scripted'
    BY <1>6, <2>2, <2>10, <2>14 DEF Scripted
  <2>16. Halfway'
    BY <1>6, <2>10 DEF Halfway
  <2>17. commands!StreamsOn'
    BY <1>5, <1>6 DEF CamInv, commands!StreamsOn
  <2>18. Promised
    BY <2>10 DEF Promised, commands!Returns
  <2> QED
    BY <1>5, <2>8, <2>10, <2>15, <2>16, <2>17, <2>18 DEF Moved
<1>7. CASE ~(c.kind = "read" /\ call.op = "flag") /\ Len(call.todo) > 1
  <2>1. call' = [call EXCEPT !.pc = "send", !.todo = Tail(call.todo)]
    BY <1>7, Zenon DEF commands!Succeeds
  <2>2. Len(call.todo) # 1 /\ n > 1
    <3>1. n > 1
      BY <1>2, <1>7
    <3>2. n # 1
      BY <3>1
    <3> QED
      BY <1>2, <3>1, <3>2
  <2>3. SameCamera
    BY <1>3, <1>5, <2>2 DEF SameCamera, CameraStates
  <2>4. /\ call' \in CamCalls /\ call'.pc = "send" /\ call'.todo # <<>> /\ call'.op = call.op
        /\ call'.arg = call.arg /\ Len(call'.todo) = Len(call.todo) - 1
        /\ Scripted'
    BY <1>7, <2>1, <2>3, TailKeeps
  <2>5. commands!StreamsOn'
    BY <2>3 DEF CamInv, commands!StreamsOn, SameCamera
  <2>6. Promised
    BY <2>4 DEF Promised, commands!Returns
  <2>7. Halfway'
    <3> PICK m \in Nat : m = Len(call'.todo) /\ n = m + 1
      <4>1. Len(call'.todo) = n - 1
        BY <1>2, <2>4
      <4>2. n - 1 \in Nat /\ n = (n - 1) + 1
        BY <2>2
      <4> QED
        BY <4>1, <4>2
    <3>1. call'.op = "near" /\ Len(call'.todo) = 1 =>
            (unsure' \/ reg'["0x15"] = NearWord(call'.arg))
      <4> SUFFICES ASSUME call'.op = "near", Len(call'.todo) = 1, ~unsure'
                   PROVE  reg["0x15"] = NearWord(call.arg)
        BY <2>4
      <4>1. n = 2
        OBVIOUS
      <4>2. NearFits(c, n)
        BY <1>1, <1>2, <2>4 DEF Fits
      <4>3. c.kind = "write" /\ c.reg = "0x15" /\ c.val = NearWord(call.arg)
        BY <4>1, <4>2 DEF NearFits
      <4> QED
        BY <4>3 DEF Done
    <3>2. faults' = 0 /\ call'.op = "start_depth" =>
            /\ Len(call'.todo) <= 2 => reg'["0x12"] = DepthWord'
            /\ Len(call'.todo) <= 1 => reg'["0x06"] = 2
      <4> SUFFICES ASSUME faults' = 0, call'.op = "start_depth"
                   PROVE  /\ Len(call'.todo) <= 2 => reg["0x12"] = DepthWord
                          /\ Len(call'.todo) <= 1 => reg["0x06"] = 2
        BY <2>3 DEF SameCamera, DepthWord
      <4>1. DepthFits(c, n) /\ Done(c, val) /\ faults = 0
        BY <1>1, <1>2, <2>4 DEF Fits
      <4>2. c.kind = "write" /\ reg[c.reg] = c.val
        BY <4>1 DEF DepthFits, Done
      <4>3. n <= 2 => reg["0x12"] = DepthWord
        BY <1>2, <2>4, <4>1 DEF CamInv, Halfway
      <4>4. n = 3 => reg["0x12"] = DepthWord
        BY <4>1, <4>2 DEF DepthFits
      <4>5. n = 2 => reg["0x06"] = 2
        BY <4>1, <4>2 DEF DepthFits
      <4>6. m <= 2 => n <= 2 \/ n = 3
        OBVIOUS
      <4>7. m <= 1 => n <= 1 \/ n = 2
        OBVIOUS
      <4>8. n <= 1 => reg["0x06"] = 2
        BY <1>2, <2>4, <4>1 DEF CamInv, Halfway
      <4> QED
        BY <4>3, <4>4, <4>5, <4>6, <4>7, <4>8
    <3>3. faults' = 0 /\ call'.op = "start_video" /\ Len(call'.todo) <= 1 =>
            reg'["0x05"] = VideoWord'
      <4> SUFFICES ASSUME faults' = 0, call'.op = "start_video", Len(call'.todo) <= 1
                   PROVE  reg["0x05"] = VideoWord
        BY <2>3 DEF SameCamera, VideoWord
      <4>1. VideoFits(c, n) /\ Done(c, val)
        BY <1>1, <1>2, <2>4 DEF Fits
      <4>2. n = 2
        BY <2>2
      <4> QED
        BY <4>1, <4>2 DEF VideoFits, Done
    <3> QED
      BY <3>1, <3>2, <3>3 DEF Halfway
  <2> QED
    BY <1>5, <2>4, <2>5, <2>6, <2>7 DEF Moved
<1>8. CASE ~(c.kind = "read" /\ call.op = "flag") /\ ~(Len(call.todo) > 1)
  <2>1. PICK m \in {-1, 0} :
          m = IF call.op = "get_exposure" /\ camera.videoMode = "HighIR" THEN -1 ELSE 0
    OBVIOUS
  <2>2. PICK e \in Seq(CamCommands) : e = <<>>
    BY EmptySeq
  <2>3. call' = [call EXCEPT !.pc = "idle", !.todo = e, !.got = val, !.res = m]
    BY <1>8, <2>1, <2>2, Zenon DEF commands!Succeeds
  <2>4. val \in Int
    BY DEF Words
  <2>5. call' \in CamCalls /\ call'.pc = "idle" /\ call'.op = call.op /\ call'.got = val
    BY <1>3, <2>3, <2>4 DEF CamCalls
  <2>6. Scripted' /\ Halfway'
    BY <2>5 DEF Scripted, Halfway
  <2>7. Len(call.todo) = 1
    <3>1. ~(n > 1)
      BY <1>2, <1>8
    <3>2. n = 1 \/ n > 1
      BY <1>2, OneOrMore
    <3> QED
      BY <1>2, <3>1, <3>2
  <2>8. commands!StreamsOn'
    <3> SUFFICES ASSUME faults' = 0
                 PROVE  /\ camera'.depth => reg["0x06"] = 2 /\ reg["0x12"] = DepthWord
                        /\ camera'.video => reg["0x05"] = VideoWord
      BY <1>5 DEF commands!StreamsOn, DepthWord, VideoWord
    <3>1. faults = 0
      OBVIOUS
    <3>2. /\ camera.depth => reg["0x06"] = 2 /\ reg["0x12"] = DepthWord
          /\ camera.video => reg["0x05"] = VideoWord
      BY <3>1 DEF CamInv, commands!StreamsOn, DepthWord, VideoWord
    <3>3. /\ call.op = "start_depth" => reg["0x06"] = 2 /\ reg["0x12"] = DepthWord
          /\ call.op = "start_video" => reg["0x05"] = VideoWord
      BY <2>7, <3>1 DEF CamInv, Halfway
    <3> QED
      BY <1>5, <3>2, <3>3
  <2>9. Promised
    <3> SUFFICES ASSUME ~unsure'
                 PROVE  /\ call.op = "flag" =>
                             reg["cmos 0x0106"] = commands!WithFlag(call.was, call.flag, call.arg)
                        /\ call.op = "near" =>
                             reg["0x15"] = NearWord(call.arg) /\ reg["0x02EF"] = 1 - call.arg
                        /\ call.op = "get_ir" => val = reg["0x15"]
                        /\ call.op = "get_exposure" => val = reg["cmos 0x0009"]
      BY <2>5 DEF Promised, commands!Returns, NearWord
    <3>1. Done(c, val) /\ ~unsure /\ Fits(c, 1)
      BY <1>1, <2>7
    <3>2. call.op = "flag" =>
            reg["cmos 0x0106"] = commands!WithFlag(call.was, call.flag, call.arg)
      BY <1>8, <3>1 DEF Fits, FlagFits, Done
    <3>3. call.op = "near" => reg["0x15"] = NearWord(call.arg) /\ reg["0x02EF"] = 1 - call.arg
      <4> SUFFICES ASSUME call.op = "near"
                   PROVE  reg["0x15"] = NearWord(call.arg) /\ reg["0x02EF"] = 1 - call.arg
        OBVIOUS
      <4>1. NearFits(c, 1)
        BY <3>1 DEF Fits
      <4>2. reg["0x02EF"] = 1 - call.arg
        BY <3>1, <4>1 DEF NearFits, Done
      <4>3. reg["0x15"] = NearWord(call.arg)
        BY <2>7, <3>1 DEF CamInv, Halfway
      <4> QED
        BY <4>2, <4>3
    <3>4. call.op = "get_ir" => val = reg["0x15"]
      BY <3>1 DEF Fits, ReadFits, Done
    <3>5. call.op = "get_exposure" => val = reg["cmos 0x0009"]
      BY <3>1 DEF Fits, ReadFits, Done
    <3> QED
      BY <3>2, <3>3, <3>4, <3>5
  <2> QED
    BY <1>5, <2>5, <2>6, <2>8, <2>9 DEF Moved
<1> QED
  BY <1>6, <1>7, <1>8

\* A command that is executed spares the registers of the streams that run.
LEMMA WriteSpares ==
    ASSUME CamInv, call.pc # "idle", NEW c, NEW k, Fits(c, k), c.kind = "write"
    PROVE  /\ camera.depth => c.reg # "0x06" /\ c.reg # "0x12"
           /\ camera.video => c.reg # "0x05"
<1>1. call.op \in CamOps /\ call.op # "none"
  BY TheHead
<1>2. CASE call.op = "start_depth"
  <2>1. ~camera.depth
    BY <1>2 DEF CamInv, Scripted
  <2>2. c.reg \in {"0x17", "0x06", "0x12"}
    <3>1. DepthFits(c, k)
      BY <1>2 DEF Fits
    <3>2. k = 1 \/ k = 2 \/ k = 3 \/ k = 4
      BY <3>1 DEF DepthFits
    <3> QED
      BY <3>1, <3>2 DEF DepthFits
  <2> QED
    BY <2>1, <2>2
<1>3. CASE call.op = "start_video"
  <2>1. ~camera.video /\ (camera.videoMode = "HighIR" => ~camera.depth)
    BY <1>3 DEF CamInv, Scripted
  <2>2. VideoFits(c, k)
    BY <1>3 DEF Fits
  <2>3. k = 1 \/ k = 2 \/ k > 2
    BY <2>2 DEF VideoFits
  <2>4. c.reg \in {"0x47", "0x48", "0x05"} \/ camera.videoMode = "HighIR"
    BY <2>2, <2>3 DEF VideoFits
  <2> QED
    BY <2>1, <2>4
<1>4. CASE call.op = "stop"
  BY <1>4 DEF Fits, StopFits
<1>5. CASE call.op = "near"
  BY <1>5 DEF Fits, NearFits
<1>6. CASE call.op = "flag"
  BY <1>6 DEF Fits, FlagFits
<1>7. CASE call.op \in {"get_ir", "get_exposure", "set_video_mode", "init"}
  BY <1>7 DEF Fits, ReadFits
<1>8. CASE call.op \in {"mirror", "set_ir", "set_exposure"}
  BY <1>8 DEF Fits
<1> QED
  BY <1>1, <1>2, <1>3, <1>4, <1>5, <1>6, <1>7, <1>8 DEF CamOps

\* A command is something.
LEMMA CommandIsSome ==
    ASSUME NEW c \in CamCommands, NEW t, NEW x,
           x = [cmd |-> c.cmd, kind |-> c.kind, tag |-> t, reg |-> c.reg, val |-> c.val]
    PROVE  /\ x # commands!Nothing /\ x.val \in Words
           /\ x.kind # "params" => x.reg \in commands!Registers
<1>1. c.cmd # "none" /\ c.val \in Words /\ (c.kind # "params" => c.reg \in commands!Registers)
  BY DEF CamCommands
<1>2. x.cmd = c.cmd /\ x.val = c.val /\ x.kind = c.kind /\ x.reg = c.reg
  OBVIOUS
<1>3. commands!Nothing.cmd = "none"
  BY DEF commands!Nothing
<1> QED
  BY <1>1, <1>2, <1>3

LEMMA ScriptStays ==
    ASSUME CamInv, reg' = reg, SameCamera, unsure => unsure', call'.todo = call.todo,
           call'.op = call.op, call'.arg = call.arg, call'.flag = call.flag,
           call'.was = call.was, call.pc = "idle" => call'.pc = "idle"
    PROVE  Scripted'
<1> SUFFICES ASSUME call.pc # "idle" PROVE Scripted'
  BY DEF Scripted
<1>1. \A i \in 1..Len(call.todo) : Fits(call.todo[i], Len(call.todo) - i + 1)
  BY DEF CamInv, Scripted
<1>2. PICK t : t = call.todo
  OBVIOUS
<1>3. \A i \in 1..Len(t) : Fits(t[i], Len(t) - i + 1)'
  <2> SUFFICES ASSUME NEW i \in 1..Len(t) PROVE Fits(t[i], Len(t) - i + 1)'
    OBVIOUS
  <2>1. PICK x, k : x = t[i] /\ k = Len(t) - i + 1
    OBVIOUS
  <2>2. Fits(x, k)
    BY <1>1, <1>2, <2>1
  <2>3. Fits(x, k)'
    BY <2>2, FitsStays
  <2> QED
    BY <2>1, <2>3
<1> QED
  BY <1>2, <1>3 DEF CamInv, Scripted, SameCamera

LEMMA SendOutKeeps == CamInv /\ commands!SendOut => CamInv' /\ Promised
<1> SUFFICES ASSUME CamInv, commands!SendOut PROVE CamInv' /\ Promised
  OBVIOUS
<1>1. PICK c : c = Head(call.todo)
  OBVIOUS
<1>2. /\ call.pc = "send" /\ reg' = reg /\ reply' = reply /\ tag' = tag /\ unsure' = unsure
      /\ \/ /\ inbox' = [cmd |-> c.cmd, kind |-> c.kind, tag |-> tag, reg |-> c.reg,
                         val |-> c.val]
            /\ call' = [call EXCEPT !.pc = "poll"]
            /\ camera' = camera /\ faults' = faults
         \/ /\ faults < MaxFaults /\ faults' = faults + 1
            /\ commands!Fails(c) /\ inbox' = inbox
  BY <1>1 DEF commands!SendOut
<1>3. c \in CamCommands
  BY <1>1, <1>2, TheHead
<1>4. CASE /\ inbox' = [cmd |-> c.cmd, kind |-> c.kind, tag |-> tag, reg |-> c.reg,
                        val |-> c.val]
           /\ call' = [call EXCEPT !.pc = "poll"]
           /\ camera' = camera /\ faults' = faults
  <2>1. /\ call' \in CamCalls /\ call'.pc = "poll" /\ call'.todo = call.todo
        /\ call'.op = call.op /\ call'.arg = call.arg /\ call'.flag = call.flag
        /\ call'.was = call.was
    BY <1>4 DEF CamInv, CamTypes, CamCalls
  <2>2. /\ inbox' # commands!Nothing /\ inbox'.val \in Words
        /\ inbox'.kind # "params" => inbox'.reg \in commands!Registers
    <3>1. PICK x : x = inbox'
      OBVIOUS
    <3> QED
      BY <1>3, <1>4, <3>1, CommandIsSome
  <2>3. CamTypes'
    BY <1>2, <1>4, <2>1, <2>2 DEF CamInv, CamTypes
  <2>4. Scripted'
    BY <1>2, <1>4, <2>1, ScriptStays DEF SameCamera
  <2>5. Halfway'
    BY <1>2, <1>4, <2>1 DEF CamInv, Halfway, NearWord, DepthWord, VideoWord
  <2>6. Answering'
    <3> SUFFICES ASSUME ~unsure'
                 PROVE  /\ inbox' = [cmd |-> c.cmd, kind |-> c.kind, tag |-> tag',
                                     reg |-> c.reg, val |-> c.val]
                        /\ inbox' # commands!Nothing /\ reply' = commands!Nothing
      BY <1>1, <2>1 DEF Answering
    <3>1. reply = commands!Nothing
      BY <1>2 DEF CamInv, Answering
    <3> QED
      BY <1>2, <1>4, <2>2, <3>1
  <2>7. commands!StreamsOn'
    BY <1>2, <1>4 DEF CamInv, commands!StreamsOn
  <2>8. Promised
    BY <2>1 DEF Promised, commands!Returns
  <2> QED
    BY <2>3, <2>4, <2>5, <2>6, <2>7, <2>8 DEF CamInv
<1>5. CASE /\ faults < MaxFaults /\ faults' = faults + 1
           /\ commands!Fails(c) /\ inbox' = inbox
  <2>1. faults' # 0 /\ faults' \in 0..MaxFaults
    <3>1. faults \in 0..MaxFaults /\ MaxFaults \in Nat
      BY CommandsAssumption DEF commands!FaultsAssumption, CamInv, CamTypes
    <3> QED
      BY <1>5, <3>1
  <2>2. Moved
    BY <1>1, <1>2, <1>5, <2>1, FailsKeeps
  <2>3. CamTypes'
    BY <1>2, <1>5, <2>1, <2>2 DEF CamInv, CamTypes, Moved
  <2>4. Answering'
    BY <1>2, <1>5, <2>2 DEF CamInv, Answering, Moved
  <2> QED
    BY <2>2, <2>3, <2>4 DEF CamInv, Moved
<1> QED
  BY <1>2, <1>4, <1>5

LEMMA SmallOnes == \A n \in Nat : n >= 1 => (n = 1 \/ n = 2 \/ n > 2)
OBVIOUS

LEMMA ExecuteKeeps == CamInv /\ commands!Execute => CamInv' /\ Promised
<1> SUFFICES ASSUME CamInv, commands!Execute PROVE CamInv' /\ Promised
  OBVIOUS
<1>1. /\ inbox # commands!Nothing /\ inbox' = commands!Nothing
      /\ reg' = IF inbox.kind = "write" THEN [reg EXCEPT ![inbox.reg] = inbox.val] ELSE reg
      /\ reply' = [cmd |-> inbox.cmd, tag |-> inbox.tag, reg |-> inbox.reg,
                   val |-> IF inbox.kind = "read" THEN reg[inbox.reg] ELSE 0]
      /\ call' = call /\ camera' = camera /\ tag' = tag /\ unsure' = unsure /\ faults' = faults
  BY DEF commands!Execute, commands!host
<1>2. /\ reg \in [commands!Registers -> Words] /\ inbox.val \in Words
      /\ inbox.kind # "params" => inbox.reg \in commands!Registers
  BY <1>1 DEF CamInv, CamTypes
<1>3. reg' \in [commands!Registers -> Words] /\ reply'.val \in Words
  <2>1. reply'.val = IF inbox.kind = "read" THEN reg[inbox.reg] ELSE 0
    BY <1>1
  <2>2. inbox.kind = "read" => reg[inbox.reg] \in Words
    BY <1>2
  <2>3. reply'.val \in Words
    BY <2>1, <2>2, SomeWords
  <2>4. reg' \in [commands!Registers -> Words]
    BY <1>1, <1>2
  <2> QED
    BY <2>3, <2>4
<1>4. CamTypes'
  BY <1>1, <1>3 DEF CamInv, CamTypes
<1>5. Promised
  BY <1>1 DEF Promised, commands!Returns
<1>6. CASE unsure
  <2>1. faults' # 0 /\ unsure'
    BY <1>1, <1>6 DEF CamInv, CamTypes
  <2>2. Scripted'
    <3>1. ASSUME NEW c, NEW k, Fits(c, k) PROVE Fits(c, k)'
      <4>1. NearFits(c, k) => NearFits(c, k)'
        BY <1>1 DEF NearFits, NearWord
      <4>2. FlagFits(c, k) => FlagFits(c, k)'
        BY <1>1, <2>1 DEF FlagFits
      <4>3. ReadFits("0x15", c, k)' = ReadFits("0x15", c, k)
            /\ ReadFits("cmos 0x0009", c, k)' = ReadFits("cmos 0x0009", c, k)
        BY DEF ReadFits
      <4>4. DepthFits(c, k) => DepthFits(c, k)'
        BY <1>1 DEF DepthFits, DepthWord
      <4>5. VideoFits(c, k) => VideoFits(c, k)'
        BY <1>1 DEF VideoFits, VideoWord
      <4>6. StopFits(c, k) => StopFits(c, k)'
        BY <1>1 DEF StopFits
      <4> QED
        BY <1>1, <3>1, <4>1, <4>2, <4>3, <4>4, <4>5, <4>6 DEF Fits
    <3> QED
      BY <1>1, <3>1 DEF CamInv, Scripted
  <2>3. Halfway' /\ Answering' /\ commands!StreamsOn'
    BY <2>1 DEF Halfway, Answering, commands!StreamsOn
  <2> QED
    BY <1>4, <1>5, <2>2, <2>3 DEF CamInv
<1>7. CASE ~unsure
  <2>1. PICK c : c = Head(call.todo)
    OBVIOUS
  <2>2. /\ call.pc = "poll"
        /\ inbox = [cmd |-> c.cmd, kind |-> c.kind, tag |-> tag, reg |-> c.reg, val |-> c.val]
    BY <1>1, <1>7, <2>1 DEF CamInv, Answering
  <2>3. /\ inbox.cmd = c.cmd /\ inbox.kind = c.kind /\ inbox.tag = tag /\ inbox.reg = c.reg
        /\ inbox.val = c.val
    BY <2>2
  <2>4. PICK n \in Nat : n = Len(call.todo) /\ n >= 1
    BY <2>2, TheHead
  <2>15. n = 1 \/ n = 2 \/ n > 2
    BY <2>4, SmallOnes
  <2>5. c \in CamCommands /\ Fits(c, n) /\ call.op \in CamOps /\ call.op # "none"
    BY <2>1, <2>2, <2>4, TheHead
  <2>6. c.kind = "write" => /\ c.reg \in commands!Registers
                            /\ reg' = [reg EXCEPT ![c.reg] = c.val]
    BY <1>1, <1>2, <2>3
  <2>7. c.kind # "write" => reg' = reg
    BY <1>1, <2>3
  <2>8. \A r \in commands!Registers : (c.kind = "write" => r # c.reg) => reg'[r] = reg[r]
    BY <1>2, <2>6, <2>7
  <2>9. c.kind = "write" => reg'[c.reg] = c.val
    BY <1>2, <2>6
  <2>10. /\ "0x05" \in commands!Registers /\ "0x06" \in commands!Registers
         /\ "0x12" \in commands!Registers /\ "0x15" \in commands!Registers
    BY RegistersIs
  <2>11. commands!StreamsOn'
    <3> SUFFICES ASSUME faults = 0
                 PROVE  /\ camera.depth => reg'["0x06"] = 2 /\ reg'["0x12"] = DepthWord
                        /\ camera.video => reg'["0x05"] = VideoWord
      BY <1>1 DEF commands!StreamsOn, DepthWord, VideoWord
    <3>1. /\ camera.depth => reg["0x06"] = 2 /\ reg["0x12"] = DepthWord
          /\ camera.video => reg["0x05"] = VideoWord
      BY DEF CamInv, commands!StreamsOn, DepthWord, VideoWord
    <3>2. c.kind = "write" => /\ camera.depth => c.reg # "0x06" /\ c.reg # "0x12"
                              /\ camera.video => c.reg # "0x05"
      BY <2>2, <2>5, WriteSpares
    <3> QED
      BY <2>8, <2>10, <3>1, <3>2
  <2>12. Halfway'
    <3>1. call.op = "near" /\ n = 1 => reg'["0x15"] = NearWord(call.arg)
      <4> SUFFICES ASSUME call.op = "near", n = 1 PROVE reg'["0x15"] = NearWord(call.arg)
        OBVIOUS
      <4>1. reg["0x15"] = NearWord(call.arg)
        BY <1>7, <2>2, <2>4 DEF CamInv, Halfway
      <4>2. c.reg = "0x02EF"
        BY <2>5 DEF Fits, NearFits
      <4> QED
        BY <2>8, <2>10, <4>1, <4>2
    <3>2. faults = 0 /\ call.op = "start_depth" => /\ n <= 2 => reg'["0x12"] = DepthWord
                                                   /\ n <= 1 => reg'["0x06"] = 2
      <4> SUFFICES ASSUME faults = 0, call.op = "start_depth"
                   PROVE  /\ n <= 2 => reg'["0x12"] = DepthWord
                          /\ n <= 1 => reg'["0x06"] = 2
        OBVIOUS
      <4>1. /\ n <= 2 => reg["0x12"] = DepthWord
            /\ n <= 1 => reg["0x06"] = 2
        BY <2>2, <2>4 DEF CamInv, Halfway
      <4>2. DepthFits(c, n)
        BY <2>5 DEF Fits
      <4>3. n <= 2 => c.reg # "0x12"
        <5>1. n <= 2 => n = 1 \/ n = 2
          BY <2>15
        <5> QED
          BY <4>2, <5>1 DEF DepthFits
      <4>4. n <= 1 => c.reg # "0x06"
        <5>1. n <= 1 => n = 1
          BY <2>15
        <5> QED
          BY <4>2, <5>1 DEF DepthFits
      <4> QED
        BY <2>8, <2>10, <4>1, <4>3, <4>4
    <3>3. faults = 0 /\ call.op = "start_video" /\ n <= 1 => reg'["0x05"] = VideoWord
      <4> SUFFICES ASSUME faults = 0, call.op = "start_video", n <= 1
                   PROVE  reg'["0x05"] = VideoWord
        OBVIOUS
      <4>1. reg["0x05"] = VideoWord
        BY <2>2, <2>4 DEF CamInv, Halfway
      <4>2. n = 1
        BY <2>15
      <4>3. c.reg # "0x05"
        BY <2>5, <4>2 DEF Fits, VideoFits
      <4> QED
        BY <2>8, <2>10, <4>1, <4>3
    <3>4. DepthWord' = DepthWord /\ VideoWord' = VideoWord
      BY <1>1 DEF DepthWord, VideoWord
    <3> QED
      BY <1>1, <2>4, <3>1, <3>2, <3>3, <3>4 DEF Halfway
  <2>13. Answering'
    <3>1. reply' # commands!Nothing
      <4>1. reply'.cmd = c.cmd /\ c.cmd # "none"
        BY <1>1, <2>3, <2>5 DEF CamCommands
      <4> QED
        BY <4>1 DEF commands!Nothing
    <3>2. reply'.cmd = c.cmd /\ reply'.tag = tag
      BY <1>1, <2>3
    <3>3. c.kind = "read" => reply'.val = reg'[c.reg]
      BY <1>1, <2>3, <2>7
    <3>4. Done(c, reply.val)'
      BY <2>9, <3>3 DEF Done
    <3> QED
      BY <1>1, <2>1, <2>2, <3>1, <3>2, <3>4 DEF Answering
  <2>14. Scripted'
    <3>1. ASSUME NEW i \in 1..Len(call.todo) PROVE Fits(call.todo[i], Len(call.todo) - i + 1)'
      <4>1. PICK x, k : x = call.todo[i] /\ k = n - i + 1
        OBVIOUS
      <4>2. Fits(x, k)
        BY <2>2, <2>4, <3>1, <4>1 DEF CamInv, Scripted
      <4>3. NearFits(x, k) => NearFits(x, k)'
        BY <1>1 DEF NearFits, NearWord
      <4>4. call.op = "flag" => FlagFits(x, k)'
        <5> SUFFICES ASSUME call.op = "flag" PROVE FlagFits(x, k)'
          OBVIOUS
        <5>1. FlagFits(x, k) /\ FlagFits(c, n)
          BY <2>5, <4>2 DEF Fits
        <5>2. n = 1 /\ i = 1
          <6>1. n = 1
            BY <5>1 DEF FlagFits
          <6>2. i \in 1..1
            BY <2>4, <3>1, <6>1
          <6> QED
            BY <6>1, <6>2
        <5>3. x = c
          BY <2>1, <2>2, <4>1, <5>2, TheHead
        <5>4. x.kind = "read" => reg' = reg
          BY <2>7, <5>3
        <5> QED
          BY <1>1, <5>1, <5>4 DEF FlagFits
      <4>5. ReadFits("0x15", x, k)' = ReadFits("0x15", x, k)
            /\ ReadFits("cmos 0x0009", x, k)' = ReadFits("cmos 0x0009", x, k)
        BY DEF ReadFits
      <4>6. DepthFits(x, k) => DepthFits(x, k)'
        BY <1>1 DEF DepthFits, DepthWord
      <4>7. VideoFits(x, k) => VideoFits(x, k)'
        BY <1>1 DEF VideoFits, VideoWord
      <4>8. StopFits(x, k) => StopFits(x, k)'
        BY <1>1 DEF StopFits
      <4>9. Fits(x, k)'
        BY <1>1, <4>2, <4>3, <4>4, <4>5, <4>6, <4>7, <4>8 DEF Fits
      <4> QED
        BY <1>1, <2>4, <4>1, <4>9
    <3> QED
      BY <1>1, <3>1 DEF CamInv, Scripted
  <2> QED
    BY <1>4, <1>5, <2>11, <2>12, <2>13, <2>14 DEF CamInv
<1> QED
  BY <1>6, <1>7

\* What a poll that answers, and one that fails, lead to.
LEMMA CompletesKeeps ==
    ASSUME CamInv, call.pc # "idle", NEW c, c = Head(call.todo), NEW val \in Words,
           commands!Completes(c, val), reg' = reg, unsure => unsure',
           faults' = 0 => faults = 0, unsure' => faults' # 0,
           ~unsure' => Done(c, val)
    PROVE  Moved
<1>1. /\ Fits(c, Len(call.todo)) /\ call.op \in CamOps \ {"none"}
  BY TheHead
<1>2. CASE c.kind = "read" /\ val = commands!MAX
  <2>1. c.must = TRUE
    BY <1>1, <1>2, ReadMust
  <2>2. commands!Fails(c)
    BY <1>2 DEF commands!Completes
  <2> QED
    BY <2>1, <2>2, FailsKeeps
<1>3. CASE ~(c.kind = "read" /\ val = commands!MAX)
  <2>1. commands!Succeeds(c, val)
    BY <1>3 DEF commands!Completes
  <2> QED
    BY <2>1, SucceedsKeeps
<1> QED
  BY <1>2, <1>3

LEMMA PollKeeps == CamInv /\ commands!Poll => CamInv' /\ Promised
<1> SUFFICES ASSUME CamInv, commands!Poll PROVE CamInv' /\ Promised
  OBVIOUS
<1>1. PICK c : c = Head(call.todo)
  OBVIOUS
<1>2. /\ call.pc = "poll" /\ reply # commands!Nothing /\ reply' = commands!Nothing
      /\ IF reply.cmd # c.cmd \/ reply.tag # tag
         THEN commands!Fails(c) /\ tag' = tag
         ELSE commands!Completes(c, reply.val) /\ tag' = (tag + 1) % TagMod
      /\ reg' = reg /\ inbox' = inbox /\ faults' = faults /\ unsure' = unsure
  BY <1>1 DEF commands!Poll
<1>3. /\ unsure \in BOOLEAN /\ (unsure => faults # 0) /\ reply.val \in Words
      /\ tag \in 0..TagMod - 1
  BY DEF CamInv, CamTypes
<1>4. ~unsure => /\ inbox = commands!Nothing /\ reply.cmd = c.cmd /\ reply.tag = tag
                 /\ Done(c, reply.val)
  BY <1>1, <1>2 DEF CamInv, Answering
<1>5. tag' \in 0..TagMod - 1
  <2>1. TagMod \in Nat \ {0}
    BY CommandsAssumption DEF commands!FaultsAssumption
  <2>2. (tag + 1) % TagMod \in 0..TagMod - 1
    <3>1. tag + 1 \in Int
      BY <1>3, <2>1
    <3> QED
      BY <2>1, <3>1, DivMod
  <2> QED
    BY <1>2, <1>3, <2>2
<1>6. Moved
  <2>1. CASE reply.cmd # c.cmd \/ reply.tag # tag
    <3>1. unsure /\ faults' # 0 /\ commands!Fails(c)
      BY <1>2, <1>3, <1>4, <2>1
    <3> QED
      BY <1>1, <1>2, <3>1, FailsKeeps
  <2>2. CASE ~(reply.cmd # c.cmd \/ reply.tag # tag)
    <3>1. commands!Completes(c, reply.val)
      BY <1>2, <2>2
    <3>2. PICK v \in Words : v = reply.val
      BY <1>3
    <3>3. commands!Completes(c, v) /\ (~unsure' => Done(c, v))
      BY <1>2, <1>4, <3>1, <3>2
    <3>4. unsure' => faults' # 0
      BY <1>2, <1>3
    <3> QED
      BY <1>1, <1>2, <3>3, <3>4, CompletesKeeps
  <2> QED
    BY <2>1, <2>2
<1>7. CamTypes'
  <2>1. reply'.val \in Words
    BY <1>2, SomeWords DEF commands!Nothing
  <2> QED
    BY <1>2, <1>5, <1>6, <2>1 DEF CamInv, CamTypes, Moved
<1>8. Answering'
  BY <1>2, <1>4, <1>6 DEF Answering, Moved
<1> QED
  BY <1>6, <1>7, <1>8 DEF CamInv, Moved

LEMMA PollFailsKeeps == CamInv /\ commands!PollFails => CamInv' /\ Promised
<1> SUFFICES ASSUME CamInv, commands!PollFails PROVE CamInv' /\ Promised
  OBVIOUS
<1>1. PICK c : c = Head(call.todo)
  OBVIOUS
<1>2. /\ call.pc = "poll" /\ faults < MaxFaults /\ faults' = faults + 1 /\ unsure' = TRUE
      /\ reply' \in {reply, commands!Nothing}
      /\ IF c.kind = "params" THEN commands!Fails(c)
         ELSE \E garbage \in {0, 5, commands!MAX} : commands!Completes(c, garbage)
      /\ reg' = reg /\ inbox' = inbox /\ tag' = tag
  BY <1>1 DEF commands!PollFails
<1>3. faults' # 0 /\ faults' \in 0..MaxFaults
  <2>1. faults \in 0..MaxFaults /\ MaxFaults \in Nat
    BY CommandsAssumption DEF commands!FaultsAssumption, CamInv, CamTypes
  <2> QED
    BY <1>2, <2>1
<1>4. Moved
  <2>1. CASE c.kind = "params"
    <3>1. commands!Fails(c)
      BY <1>2, <2>1
    <3> QED
      BY <1>1, <1>2, <1>3, <3>1, FailsKeeps
  <2>2. CASE c.kind # "params"
    <3>1. PICK v \in {0, 5, commands!MAX} : commands!Completes(c, v)
      BY <1>2, <2>2
    <3>2. v \in Words
      BY SomeWords
    <3> QED
      BY <1>1, <1>2, <1>3, <3>1, <3>2, CompletesKeeps
  <2> QED
    BY <2>1, <2>2
<1>5. CamTypes'
  <2>1. reply'.val \in Words
    BY <1>2, SomeWords DEF commands!Nothing, CamInv, CamTypes
  <2> QED
    BY <1>2, <1>3, <1>4, <2>1 DEF CamInv, CamTypes, Moved
<1>6. Answering'
  BY <1>2 DEF Answering
<1> QED
  BY <1>4, <1>5, <1>6 DEF CamInv, Moved

LEMMA CamStep == CamInv /\ commands!Next => CamInv' /\ Promised
<1> SUFFICES ASSUME CamInv, commands!Next PROVE CamInv' /\ Promised
  OBVIOUS
<1>1. ASSUME call.pc = "idle" PROVE Promised
  BY <1>1 DEF Promised, commands!Returns
<1>2. ASSUME NEW on \in {0, 1},
             NEW f \in Flags \cup {commands!NEAR_MODE, commands!MIRROR_DEPTH,
                                   commands!MIRROR_VIDEO},
             commands!freenect_set_flag(f, on)
      PROVE  CamInv' /\ Promised
  BY <1>1, <1>2, SetFlagKeeps DEF commands!freenect_set_flag, commands!Calls
<1>3. CASE commands!freenect_get_exposure
  BY <1>1, <1>3, GetExposureKeeps DEF commands!freenect_get_exposure, commands!Calls
<1>4. CASE commands!freenect_set_exposure(1)
  BY <1>1, <1>4, SetExposureKeeps DEF commands!freenect_set_exposure, commands!Calls
<1>5. CASE commands!freenect_get_ir_brightness
  BY <1>1, <1>5, GetBrightnessKeeps DEF commands!freenect_get_ir_brightness, commands!Calls
<1>6. ASSUME NEW v \in {0, commands!MAX}, commands!freenect_set_ir_brightness(v)
      PROVE  CamInv' /\ Promised
  <2>1. v \in Words
    BY SomeWords
  <2> QED
    BY <1>1, <1>6, <2>1, SetBrightnessKeeps
       DEF commands!freenect_set_ir_brightness, commands!Calls
<1>7. CASE commands!freenect_start_depth
  BY <1>1, <1>7, StartDepthKeeps DEF commands!freenect_start_depth, commands!Calls
<1>8. CASE commands!freenect_start_video
  BY <1>1, <1>8, StartVideoKeeps DEF commands!freenect_start_video, commands!Calls
<1>9. CASE commands!freenect_stop_depth \/ commands!freenect_stop_video
  BY <1>1, <1>9, StopKeeps
     DEF commands!freenect_stop_depth, commands!freenect_stop_video, commands!Calls
<1>10. ASSUME NEW m \in commands!DepthFormats, commands!freenect_set_depth_mode(m)
       PROVE  CamInv' /\ Promised
  BY <1>1, <1>10, SetModeKeeps DEF commands!freenect_set_depth_mode
<1>11. ASSUME NEW m \in commands!VideoModes, commands!freenect_set_video_mode(m)
       PROVE  CamInv' /\ Promised
  BY <1>1, <1>11, SetModeKeeps DEF commands!freenect_set_video_mode, commands!Calls
<1>12. CASE commands!freenect_camera_init
  BY <1>1, <1>12, CameraInitKeeps DEF commands!freenect_camera_init, commands!Calls
<1>13. CASE commands!SendOut
  BY <1>13, SendOutKeeps
<1>14. CASE commands!Execute
  BY <1>14, ExecuteKeeps
<1>15. CASE commands!Poll
  BY <1>15, PollKeeps
<1>16. CASE commands!PollFails
  BY <1>16, PollFailsKeeps
<1> QED
  BY <1>2, <1>3, <1>4, <1>5, <1>6, <1>7, <1>8, <1>9, <1>10, <1>11, <1>12, <1>13, <1>14, <1>15,
     <1>16 DEF commands!Next

LEMMA CamStays == CamInv /\ UNCHANGED commandVars => CamInv'
<1> SUFFICES ASSUME CamInv, UNCHANGED commandVars PROVE CamInv'
  OBVIOUS
<1>1. UNCHANGED <<session, reg, inbox, reply, tag, call, camera, faults, unsure>>
  BY DEF commandVars
<1> QED
  <2>1. CamTypes'
    BY <1>1 DEF CamInv, CamTypes
  <2>2. Scripted'
    BY <1>1, ScriptStays DEF SameCamera
  <2>3. Halfway'
    BY <1>1 DEF CamInv, Halfway, NearWord, DepthWord, VideoWord
  <2>4. Answering'
    BY <1>1 DEF CamInv, Answering, Done
  <2>5. commands!StreamsOn'
    BY <1>1 DEF CamInv, commands!StreamsOn
  <2> QED
    BY <2>1, <2>2, <2>3, <2>4, <2>5 DEF CamInv

\* Until a poll fails, a flag changes its bit and no other, both registers of near mode are
\* set, and a reading is the register's (flags.c); and as long as no transfer went wrong, the
\* streams that run are on in the camera (cameras.c), for every width of a register, every
\* set of flags that are powers of 2, every number of tags and every bound on the faults.
THEOREM CallsAreTrue == MCSpec => CallsTrue
<1>1. MCInit => CamInv
  BY CamInit DEF MCInit
<1>2. CamInv /\ [MCNext]_allVars => CamInv'
  <2> SUFFICES ASSUME CamInv, [MCNext]_allVars PROVE CamInv'
    OBVIOUS
  <2>1. commands!Next \/ UNCHANGED commandVars
    BY DEF MCNext, allVars
  <2> QED
    BY <2>1, CamStep, CamStays
<1>3. CamInv /\ [MCNext]_allVars => [Promised]_(commands!vars)
  <2> SUFFICES ASSUME CamInv, [MCNext]_allVars PROVE [Promised]_(commands!vars)
    OBVIOUS
  <2>1. commands!Next \/ UNCHANGED commandVars
    BY DEF MCNext, allVars
  <2>2. UNCHANGED commandVars => UNCHANGED commands!vars
    BY DEF commandVars, commands!vars
  <2> QED
    BY <2>1, <2>2, CamStep
<1>4. CamInv => (part = "CameraCommand" => commands!TypeOK /\ commands!StreamsOn)
  <2> SUFFICES ASSUME CamInv PROVE commands!TypeOK /\ commands!StreamsOn
    OBVIOUS
  <2>1. call \in CamCalls
    BY DEF CamInv, CamTypes
  <2> QED
    BY <2>1 DEF CamInv, CamTypes, CamCalls, Words, commands!TypeOK
<1>5. CallsTrue <=> ([][Promised]_(commands!vars)
                     /\ [](part = "CameraCommand" => commands!TypeOK /\ commands!StreamsOn))
  BY DEF CallsTrue, commands!CallsTrue, Promised
<1> QED
  BY <1>1, <1>2, <1>3, <1>4, <1>5, PTL DEF MCSpec
=============================================================================
