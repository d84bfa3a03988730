------------------------------- MODULE MCFrames -------------------------------
(* What a camera's and a microphone's packets become: frames put together    *)
(* (PacketStream), complete frames converted (FrameFormats), and windows of  *)
(* samples (AudioStream).  They share no state: `part' says which one runs.  *)
EXTENDS PacketStream

CONSTANTS First, Second, Wrap, Channels, Windows, MaxOut   \* of AudioStream
CONSTANTS X_RES, Y_RES, MAX_METRIC, Width, Height,         \* of FrameFormats
          Packed, Bayers, Yuvs, Regs, Raws, Params

MCUserBufs == {"b1", "b2"}
MCChannels == 1..3
MCWindows == 1..3

VARIABLES part, job, frame,
          audioRunning, callback, audioOut, sent, in_window, buffer, seen, air, handed


\* One bit set, one bit cleared, and some mixed frames of eleven bytes
MCPacked ==
    LET one(n, on(_), off) == [k \in 1..11 |-> IF (n \div 8) + 1 = k THEN on(7 - (n % 8)) ELSE off]
    IN  {one(n, LAMBDA b : 2 ^ b, 0) : n \in 0..87}
          \cup {one(n, LAMBDA b : 255 - 2 ^ b, 255) : n \in 0..87}
          \cup {[k \in 1..11 |-> (k * a) % 256] : a \in {1, 37, 85, 151, 255}}

\* Two cells of a dark or a bright frame differ.
MCBayers ==
    {[i \in 0..Width * Height - 1 |-> IF i = a THEN v ELSE IF i = b THEN 2 ELSE ground] :
        a, b \in 0..Width * Height - 1, v \in {1, 255}, ground \in {0, 254}}

MCYuvs == {<<u, y, v, z>> : u, v \in {0, 100, 127, 128, 129, 255}, y \in {0, 16, 17, 128, 255},
                            z \in {15, 235}}

\* Raw 0 is near, 1 far, 2 farther than is kept, 3 has no depth.
Metric == [r \in 0..3 |-> CASE r = 0 -> 2 [] r = 1 -> 5 [] r = 2 -> 9 [] OTHER -> 0]
MCRaws == {[i \in 0..X_RES * Y_RES - 1 |-> IF i \in near THEN 0 ELSE IF i = far THEN k ELSE 1] :
              near \in SUBSET (0..3), far \in 0..X_RES * Y_RES - 1, k \in {1, 2, 3}}

Table(dx) == [i \in 0..X_RES * Y_RES - 1 |-> [x |-> IF i = 5 THEN 2 * X_RES * 256 ELSE (i % X_RES) * 256 + dx,
                                y |-> (i \div X_RES)]]
MCRegs == {[table |-> Table(dx), mm |-> Metric, start_lines |-> 0, past |-> past,
            shift |-> [m \in 0..MAX_METRIC - 1 |-> IF m < 4 THEN near ELSE 0]] :
              dx \in {0, 100, -300}, near \in {256, -700}, past \in {0, 512}}

formats == INSTANCE FrameFormats WITH out <- frame
Field == {"v", "vv", "vvv", "h", "hv", "hh", "a", "b", "c", "d"}
Unit(f) == CASE f \in {"a", "b", "c", "d"} -> 2 ^ 14 [] f = "v" -> 128 [] f \in {"h", "vv"} -> 64 [] OTHER -> 64
MCParams == {[f \in Field |-> (IF f = g1 THEN k ELSE IF f = g2 THEN -3 ELSE 0) * Unit(f)] :
                g1, g2 \in Field, k \in {1, -2, 40}}

audio == INSTANCE AudioStream
           WITH running <- audioRunning, out <- audioOut

ASSUME FormatsAssumption ==
    /\ formats!ResolutionAssumption /\ formats!MetricAssumption
    /\ formats!RegistrationAssumption /\ formats!FormatsAssumption
ASSUME AudioAssumption ==
    audio!MarksAssumption /\ audio!ChannelsAssumption /\ audio!WindowsAssumption

formatVars == <<job, frame>>
audioVars == <<audioRunning, callback, audioOut, sent, in_window, buffer, seen, air, handed>>
allVars == <<part, vars, formatVars, audioVars>>

MCInit ==
    /\ part \in {"PacketStream", "FrameFormats", "AudioStream"}
    /\ Init /\ (part # "PacketStream" => cam.place = 0 /\ usr_buf = "null")
    /\ audio!Init /\ (part # "AudioStream" => callback)
    /\ IF part = "FrameFormats" THEN formats!Init ELSE job = "none" /\ frame = <<>>

MCNext ==
    \/ part = "PacketStream" /\ Next /\ UNCHANGED <<part, formatVars, audioVars>>
    \/ part = "FrameFormats" /\ formats!Next /\ UNCHANGED <<part, vars, audioVars>>
    \/ part = "AudioStream" /\ audio!Next /\ UNCHANGED <<part, vars, formatVars>>
    \/ part = "FrameFormats" /\ UNCHANGED allVars      \* a job ends

MCSpec == MCInit /\ [][MCNext]_allVars

-----------------------------------------------------------------------------
\* A packed, a Bayer or a YUV frame is converted into the values it stands for, and a
\* frame of OpenNI has the cells of its part of the picture.
FramesConverted ==
    part = "FrameFormats" => /\ formats!UnpackedExact /\ formats!BayerMeans
                             /\ formats!YuvClose /\ formats!CroppedInPlace

\* Registration keeps the nearest of the depths seen in a cell, mapping the colours to
\* depth is its inverse, and the tables made by differences are the polynomials of the
\* camera's parameters.
RegistrationExact ==
    part = "FrameFormats" => /\ formats!NearestWins /\ formats!MappingInverse
                             /\ formats!TablesPolynomial

\* The counters of the audio packets sent agree.
CountersAgree == part = "AudioStream" => audio!CountersAgree

\* last_seen_window tells which window the samples of a channel are of.
SeenIsHeld == part = "AudioStream" => audio!SeenIsHeld

\* What audio_in_cb gets as a window is what came of it, and older samples.
HandedIsWhatCame == audio!HandedIsWhatCame
=============================================================================
