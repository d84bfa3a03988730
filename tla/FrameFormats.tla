----------------------------- MODULE FrameFormats -----------------------------
(***************************************************************************)
(* What becomes of a complete frame (cameras.c): the unpacking of depth    *)
(* and infrared, the colours of a Bayer and of a YUV picture, and the      *)
(* choice among them by depth_process and video_process; registration.c    *)
(* for the metric formats; and the copy of a depth picture into a frame of *)
(* OpenNI.  Each job is one frame of one format.                           *)
(*                                                                         *)
(* Bytes are numbers.  Of the 32-bit shift registers only the bits that    *)
(* are still looked at are kept.  Parts of a word that do not overlap are  *)
(* added where the code ORs them.                                          *)
(*                                                                         *)
(* An operator named X_Y right before the operator X is a wrong variant of *)
(* X, kept to show that the properties tell it from X.                     *)
(***************************************************************************)
EXTENDS Registration

CONSTANTS
    Packed,       \* packed frames: sequences of bytes
    Width, Height,\* of a video frame
    Bayers,       \* Bayer frames: functions on 0..Width * Height - 1
    Yuvs,         \* UYVY frames of two pixels: <<u, y1, v, y2>>
    Regs,         \* registrations: [table, shift, mm, start_lines]
    Raws,         \* pictures of raw depths
    Params        \* parameters of one coordinate of the registration

\* Every pixel of a raw picture has a metric depth, or none; and what shows in a column of
\* the picture shows in a row of it, since freenect_init_registration_table puts what is
\* outside too far right for any shift.
RegistrationAssumption ==
    \A reg \in Regs, raw \in Raws, i \in Pixels :
        /\ reg.mm[raw[i]] \in Nat
        /\ Within(Seen(reg, i, reg.mm[raw[i]])) => reg.table[i].y \in 0..Y_RES - 1

FormatsAssumption ==
    /\ \A p \in Params : p \in [Coefficients -> Int]
    /\ Packed \subseteq {raw \in Seq(0..255) : Len(raw) >= 11}
    /\ Width \in Nat /\ Width >= 2 /\ Height \in Nat /\ Height >= 2
    /\ \A raw \in Bayers : raw \in [0..Width * Height - 1 -> Nat]
    /\ \A raw \in Yuvs : raw \in (0..255) \X (0..255) \X (0..255) \X (0..255)

VARIABLES
    job,          \* the frame that is complete: its format and its bytes
    out           \* proc_buf

vars == <<job, out>>

DepthFormats == {"DEPTH_11BIT", "DEPTH_10BIT", "DEPTH_REGISTERED", "DEPTH_MM"}
VideoFormats == {"VIDEO_RGB", "VIDEO_BAYER", "VIDEO_YUV_RGB", "VIDEO_YUV_RAW",
                 "VIDEO_IR_10BIT", "VIDEO_IR_8BIT"}

\* The parts of a picture that OpenNI may ask for
Crops == {c \in [x : 0..X_RES - 1, y : 0..Y_RES - 1, width : 1..X_RES, height : 1..Y_RES] :
            c.x + c.width <= X_RES /\ c.y + c.height <= Y_RES}

Jobs ==
    [format : {"DEPTH_11BIT", "DEPTH_10BIT", "VIDEO_IR_10BIT", "VIDEO_IR_8BIT"}, raw : Packed]
      \cup [format : {"VIDEO_RGB", "VIDEO_BAYER"}, raw : Bayers]
      \cup [format : {"VIDEO_YUV_RGB", "VIDEO_YUV_RAW"}, raw : Yuvs]
      \cup [format : {"DEPTH_REGISTERED", "DEPTH_MM"}, raw : Raws, reg : Regs]
      \cup [format : {"TABLES"}, raw : Params]
      \cup {[format |-> "ONI", crop |-> c, mirroring |-> m] : c \in Crops, m \in BOOLEAN}

Init ==
    /\ job \in Jobs
    /\ out = <<>>

-----------------------------------------------------------------------------
\* The inner loop of convert_packed_to_*: bytes are taken until there are vw bits.
Refill(st, vw, src) ==
    LET need == (vw - st.bitsIn + 7) \div 8
    IN  [st EXCEPT
           !.buffer = FoldLeft(LAMBDA b, byte : (b * 256 + byte) % 2 ^ 22, @,
                               SubSeq(src, st.at + 1, st.at + need)),
           !.bitsIn = @ + 8 * need - vw, !.at = @ + need]

\* n elements of vw bits, of which the uppermost ones are kept
ConvertPacked(src, vw, kept, n) ==
    FoldLeft(LAMBDA st, k :
        LET r == Refill(st, vw, src)
        IN  [r EXCEPT !.dest =
               Append(@, (r.buffer \div 2 ^ (r.bitsIn + vw - kept)) % 2 ^ kept)],
        [buffer |-> 0, bitsIn |-> 0, at |-> 0, dest |-> <<>>], [k \in 1..n |-> k]).dest

convert_packed_to_16bit(src, vw, n) == ConvertPacked(src, vw, vw, n)

\* The low bits are dropped.
convert_packed_to_8bit(src, vw, n) == ConvertPacked(src, vw, 8, n)

\* Eight elements of eleven bits; registration.c takes them apart by the same shifts.
convert_packed11_to_16bit(r) == unpack_8_pixels(r)

-----------------------------------------------------------------------------
Byte(a) == IF a < 0 THEN 0 ELSE IF a > 255 THEN 255 ELSE a

\* A division per term, each dropping its fraction
Rgb(y, u, v) ==
    LET luma == Trunc((y - 16) * 1164, 1000) IN
    <<Byte(luma + Trunc((v - 128) * 1596, 1000)),
      Byte(luma - Trunc((v - 128) * 813, 1000) - Trunc((u - 128) * 391, 1000)),
      Byte(luma + Trunc((u - 128) * 2018, 1000))>>

\* Two pixels share their colour.
convert_uyvy_to_rgb(raw) == Rgb(raw[2], raw[1], raw[3]) \o Rgb(raw[4], raw[1], raw[3])

PrevLine_NotMirrored(y) == IF y = 0 THEN 0 ELSE y - 1

\* The lines above and below, mirrored at the first and at the last
PrevLine(y) == IF y = 0 THEN 1 ELSE y - 1
NextLine(y) == IF y = Height - 1 THEN y - 1 ELSE y + 1

\* What a colour pixel is made of: the halves of the shift registers and the sum of
\* the horizontal neighbours
Colour(x, y, h, v) ==
    LET hSum == (h.prev + h.next) \div 2
        cross == (hSum + v.cur) \div 2
        corners == (v.prev + v.next) \div 2
    IN  CASE y % 2 = 0 /\ x % 2 = 0 -> <<hSum, h.cur, v.cur>>
          [] y % 2 = 0 /\ x % 2 = 1 -> <<h.cur, cross, corners>>
          [] y % 2 = 1 /\ x % 2 = 0 -> <<corners, cross, h.cur>>
          [] OTHER -> <<v.cur, h.cur, hSum>>

\* One line.  The registers hold three neighbours; they start with the second pixel
\* mirrored, and at the last pixel the one before it is.
BayerLine(raw, y) ==
    LET cell(x) == raw[y * Width + x]
        pair(x) == (raw[PrevLine(y) * Width + x] + raw[NextLine(y) * Width + x]) \div 2
        full(r, x, next(_)) ==
            [r EXCEPT !.next = IF x < Width - 1 THEN next(x + 1) ELSE r.prev]
        shift(r) == [prev |-> r.cur, cur |-> r.next, next |-> 0]
        step(st, x) ==
            LET h == full(st.h, x, cell)
                v == full(st.v, x, pair)
            IN  [h |-> shift(h), v |-> shift(v), dst |-> st.dst \o Colour(x, y, h, v)]
        first(value(_)) == [prev |-> value(1), cur |-> value(0), next |-> 0]
    IN  FoldLeft(step, [h |-> first(cell), v |-> first(pair), dst |-> <<>>],
                 [k \in 1..Width |-> k - 1]).dst

convert_bayer_to_rgb(raw) ==
    FoldLeft(LAMBDA dst, y : dst \o BayerLine(raw, y), <<>>, [k \in 1..Height |-> k - 1])

-----------------------------------------------------------------------------
PackedLength(vw) == (8 * Len(job.raw)) \div vw

depth_process ==
    /\ out = <<>>
    /\ job.format \in DepthFormats
    /\ out' = CASE job.format = "DEPTH_11BIT" -> convert_packed11_to_16bit(job.raw)
                [] job.format = "DEPTH_REGISTERED" -> freenect_apply_registration(job.reg, job.raw)
                [] job.format = "DEPTH_MM" -> freenect_apply_depth_to_mm(job.reg, job.raw)
                [] job.format = "DEPTH_10BIT" ->
                     convert_packed_to_16bit(job.raw, 10, PackedLength(10))
    /\ UNCHANGED job

video_process ==
    /\ out = <<>>
    /\ job.format \in VideoFormats
    /\ out' = CASE job.format = "VIDEO_RGB" -> convert_bayer_to_rgb(job.raw)
                [] job.format \in {"VIDEO_BAYER", "VIDEO_YUV_RAW"} -> job.raw
                [] job.format = "VIDEO_IR_10BIT" ->
                     convert_packed_to_16bit(job.raw, 10, PackedLength(10))
                [] job.format = "VIDEO_IR_8BIT" ->
                     convert_packed_to_8bit(job.raw, 10, PackedLength(10))
                [] job.format = "VIDEO_YUV_RGB" -> convert_uyvy_to_rgb(job.raw)
    /\ UNCHANGED job

Black == -1
Held == -2

\* The client has the colours put on its metric picture; a colour is told by its cell.
MapColours ==
    /\ job.format = "DEPTH_MM" /\ out # <<>>
    /\ job' = [job EXCEPT !.format = "MAPPED"]
    /\ out' = freenect_map_rgb_to_depth(job.reg, out, [c \in Pixels |-> c], Black,
                                        [i \in Pixels |-> Held])

\* complete_tables, with the parameters of one coordinate; the other is not shifted.
MakeTables ==
    \/ /\ job.format = "TABLES" /\ out = <<>>
       /\ out' = freenect_create_dxdy_tables(job.raw)
       /\ UNCHANGED job
    \/ /\ job.format = "TABLES" /\ out # <<>>
       /\ job' = [job EXCEPT !.format = "TABLE"]
       /\ out' = freenect_init_registration_table(out, [i \in Pixels |-> 0])

\* Two pointers go over the picture and the frame.  What is copied is told by its cell;
\* one cell more than the frame has is looked at.
Copy(crop, mirroring, skipWidth) ==
    LET pixel(p, x) == [at |-> p.at + (IF mirroring THEN -1 ELSE 1),
                        source |-> p.source + 1,
                        data |-> [p.data EXCEPT ![p.at] = p.source]]
        row(st, y) ==
          LET r == FoldLeft(pixel, st, [x \in 1..crop.width |-> x])
          IN  [r EXCEPT !.source = @ + skipWidth,
                        !.at = @ + (IF mirroring THEN 2 * crop.width ELSE 0)]
    IN  FoldLeft(row, [at |-> IF mirroring THEN crop.width ELSE 0,
                       source |-> crop.x + crop.y * X_RES,
                       data |-> [i \in 0..X_RES * Y_RES |-> Held]],
                 [y \in 1..crop.height |-> y]).data

populateFrame(crop, mirroring) == Copy(crop, mirroring, X_RES - crop.width)

buildFrame ==
    /\ job.format = "ONI" /\ out = <<>>
    /\ out' = populateFrame(job.crop, job.mirroring)
    /\ UNCHANGED job

Next == depth_process \/ video_process \/ MapColours \/ MakeTables \/ buildFrame

Spec == Init /\ [][Next]_vars

-----------------------------------------------------------------------------
\* The k-th element of w bits of a packed frame, bit by bit
Element(raw, w, k) ==
    LET bit(n) == (raw[(n \div 8) + 1] \div 2 ^ (7 - (n % 8))) % 2 IN
    FoldLeft(LAMBDA v, n : 2 * v + bit(n), 0, [b \in 1..w |-> (k - 1) * w + b - 1])

\* The unrolled unpacking of eleven bits, the general one and the one that drops the low
\* bits take the same elements out of a packed frame.
UnpackedExact ==
    out # <<>> =>
      /\ job.format = "DEPTH_11BIT" => \A k \in 1..8 : out[k] = Element(job.raw, 11, k)
      /\ job.format \in {"DEPTH_10BIT", "VIDEO_IR_10BIT"} =>
           \A k \in 1..Len(out) : out[k] = Element(job.raw, 10, k)
      /\ job.format = "VIDEO_IR_8BIT" =>
           \A k \in 1..Len(out) : out[k] = Element(job.raw, 10, k) \div 4

Sensor(x, y) == IF x % 2 = y % 2 THEN 2 ELSE IF y % 2 = 0 THEN 1 ELSE 3
Mirror(i, n) == IF i = -1 THEN 1 ELSE IF i = n THEN n - 2 ELSE i

\* A sum over a cell and the eight around it
Around(F(_, _)) == F(-1, -1) + F(0, -1) + F(1, -1) + F(-1, 0) + F(0, 0) + F(1, 0)
                     + F(-1, 1) + F(0, 1) + F(1, 1)

\* A pixel keeps the colour its cell measures, and has the mean of the neighbouring
\* cells of each other colour, the image mirrored at its edges.  The code takes means
\* of means, which may be lower by one.
BayerMeans ==
    job.format = "VIDEO_RGB" /\ out # <<>> =>
      \A x \in 0..Width - 1, y \in 0..Height - 1, c \in 1..3 :
        LET value == out[3 * (y * Width + x) + c]
            near(dx, dy) == Sensor(Mirror(x + dx, Width), Mirror(y + dy, Height)) = c
            cell(dx, dy) == job.raw[Mirror(y + dy, Height) * Width + Mirror(x + dx, Width)]
            total == Around(LAMBDA dx, dy : IF near(dx, dy) THEN cell(dx, dy) ELSE 0)
            number == Around(LAMBDA dx, dy : IF near(dx, dy) THEN 1 ELSE 0)
        IN  IF Sensor(x, y) = c THEN value = job.raw[y * Width + x]
            ELSE (total \div number) - value \in {0, 1}

\* By how much a value differs from thousandths, or that it is cut off
Close(value, exact, by) ==
    \/ 1000 * value - exact \in -1000 * by..1000 * by
    \/ value = 0 /\ exact < 0
    \/ value = 255 /\ exact > 255000

\* A colour is within two or three of the exact linear formula, cut off at 0 and 255.
YuvClose ==
    job.format = "VIDEO_YUV_RGB" /\ out # <<>> =>
      \A p \in 0..1 :
        LET u == job.raw[1] - 128
            v == job.raw[3] - 128
            luma == 1164 * (job.raw[2 * p + 2] - 16)
        IN  /\ Close(out[3 * p + 1], luma + 1596 * v, 2)
            /\ Close(out[3 * p + 2], luma - 813 * v - 391 * u, 3)
            /\ Close(out[3 * p + 3], luma + 2018 * u, 2)

\* Each cell of a registered picture has the nearest of the depths seen there.  The
\* camera pads no lines; with start_lines, registering moves cells and mapping rows.
NearestWins ==
    job.format = "DEPTH_REGISTERED" /\ out # <<>> /\ job.reg.start_lines = 0 =>
      \A cell \in Pixels :
        LET depths == {job.reg.mm[job.raw[i]] : i \in {j \in Pixels :
                          /\ job.reg.mm[job.raw[j]] \in 1..MAX_METRIC - 1
                          /\ CellOf(job.reg, [k \in Pixels |-> job.reg.mm[job.raw[k]]], j) = cell}}
        IN  IF depths = {} THEN out[cell] = NO_MM
            ELSE out[cell] \in depths /\ \A d \in depths : out[cell] <= d

\* Mapping colours to depth is the inverse of registering: a pixel gets the colour of the
\* cell that registration gives its depth to, and none where a nearer pixel is in front.
MappingInverse ==
    job.format = "MAPPED" /\ job.reg.start_lines = 0 =>
      LET registered == freenect_apply_registration(job.reg, job.raw)
          far == \E i \in Pixels : job.reg.mm[job.raw[i]] >= MAX_METRIC
      IN  ~far => \A i \in Pixels :
            /\ out[i] \in Pixels => registered[out[i]] = job.reg.mm[job.raw[i]]
            /\ out[i] = Held => \E c \in Pixels : registered[c] \in 1..job.reg.mm[job.raw[i]] - 1

\* A frame of OpenNI has the cells of its part of the picture, row by row; mirrored, each
\* row is turned round and lies one cell further on: the first cell is not written, and
\* the last one is the cell after the frame.
CroppedInPlace ==
    job.format = "ONI" /\ out # <<>> =>
      LET w == job.crop.width
          cell(x, y) == (job.crop.y + y) * X_RES + job.crop.x + x
          place(x, y) == y * w + (IF job.mirroring THEN w - x ELSE x)
          places == {place(x, y) : x \in 0..w - 1, y \in 0..job.crop.height - 1}
      IN  /\ \A x \in 0..w - 1, y \in 0..job.crop.height - 1 : out[place(x, y)] = cell(x, y)
          /\ \A i \in DOMAIN out \ places : out[i] = Held

\* Parameters that fit in their bits and that lose nothing when shifted to the right
Exact(p) ==
    /\ p.v \in -2 ^ 18..2 ^ 18 - 1
    /\ \A f \in {"h", "vv"} : p[f] \in -2 ^ 20..2 ^ 20 - 1
    /\ \A f \in {"hh", "hv", "vvv"} : p[f] \in -2 ^ 23..2 ^ 23 - 1 /\ p[f] % 64 = 0
    /\ \A f \in {"a", "b", "c", "d"} : p[f] % 2 ^ 14 = 0

\* The differences add up to the cubic polynomial they are the differences of, for
\* parameters whose shifts to the right lose nothing; and a pixel that the sum moves out
\* of the picture has an entry that is outside.
TablesPolynomial ==
    job.format \in {"TABLES", "TABLE"} /\ out # <<>> /\ Exact(job.raw) =>
      LET p == job.raw
          poly(n, f0, f1, f2, f3) == f0 + n * f1 + ((n * (n - 1)) \div 2) * f2
                                       + ((n * (n - 1) * (n - 2)) \div 6) * f3
          sum(c, r) == poly(c, poly(r, p.v * 512, p.vv * 4, p.vvv \div 64, p.b \div 2 ^ 14),
                               poly(r, p.h * 4, p.hv \div 64, p.d \div 2 ^ 14, 0),
                               (p.hh + r * (p.c \div 256)) \div 64, p.a \div 2 ^ 14)
          column(c, r) == ((c + 1) * 2 ^ 17 + sum(c, r)) \div 512
      IN  \A i \in Pixels :
            IF job.format = "TABLES" THEN out[i] = sum(Col(i), Line(i) + 1)
            ELSE out[i].x = IF column(Col(i), Line(i) + 1) \in 0..X_RES * Scale - 1
                              /\ Line(i) < Y_RES - 1
                            THEN column(Col(i), Line(i) + 1) ELSE 2 * X_RES * Scale
=============================================================================
