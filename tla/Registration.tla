----------------------------- MODULE Registration -----------------------------
(***************************************************************************)
(* Registration of depth to the colour image (registration.c): the shift   *)
(* tables made from the camera's parameters, and the three ways a frame is *)
(* put through them.  A picture is a function on 0..X_RES * Y_RES - 1.     *)
(* Doubles are left out: the tables made with them are parameters, and a   *)
(* shift is counted in the code's fixed point, 1/REG_X_VAL_SCALE.          *)
(*                                                                         *)
(* An operator named X_Y right before the operator X is a wrong variant of *)
(* X, kept to show that the properties tell it from X.                     *)
(***************************************************************************)
EXTENDS Integers, Sequences, SequencesExt

CONSTANTS
    X_RES, Y_RES,   \* DEPTH_X_RES, DEPTH_Y_RES
    MAX_METRIC      \* DEPTH_MAX_METRIC_VALUE

ResolutionAssumption == X_RES \in Nat \ {0} /\ Y_RES \in Nat \ {0}
MetricAssumption == MAX_METRIC \in Nat \ {0}

NO_MM == 0
Scale == 256        \* REG_X_VAL_SCALE
Pixels == 0..X_RES * Y_RES - 1
Col(i) == i % X_RES
Line(i) == i \div X_RES
Indices == [k \in 1..X_RES * Y_RES |-> k - 1]

\* Division of C, which drops the fraction
Trunc(a, b) == IF a < 0 THEN -((-a) \div b) ELSE a \div b

\* A low-order part of an integer, as a shift to the left of 32 bits leaves it
SignExtend(v, bits) ==
    LET m == 2 ^ bits
        low == v % m
    IN  IF low >= m \div 2 THEN low - m ELSE low

-----------------------------------------------------------------------------
\* What the camera tells of a coordinate: a value, its differences, and increments
Coefficients == {"v", "vv", "vvv", "h", "hv", "hh", "a", "b", "c", "d"}

\* One coordinate of freenect_create_dxdy_tables: its value, its differences along a
\* row and down the columns, and the increments a, b, c, d of the last ones.
Start(p) ==
    [v |-> SignExtend(p.v, 19) * 512,
     h |-> SignExtend(p.h, 21) * 256, vv |-> SignExtend(p.vv, 21) * 256,
     hh |-> SignExtend(p.hh, 24) * 256, hv |-> SignExtend(p.hv, 24) * 256,
     vvv |-> SignExtend(p.vvv, 24) * 256]

\* The differences after one more row
Row(s, p) ==
    [v |-> s.v + s.vv \div 64, vv |-> s.vv + s.vvv \div 256, vvv |-> s.vvv + p.b,
     h |-> s.h + s.hv \div 256, hv |-> s.hv + p.d, hh |-> s.hh + p.c]

\* ... and after one more column, which starts from the differences of its row
Column(s, p) ==
    [s EXCEPT !.v = @ + s.h \div 64, !.h = @ + s.hh \div 256, !.hh = @ + p.a]

Rows(n, p) == FoldLeft(LAMBDA s, k : Row(s, p), Start(p), [k \in 1..n |-> k])
Columns(n, s, p) == FoldLeft(LAMBDA t, k : Column(t, p), s, [k \in 1..n |-> k])

\* In units of 1/2^17 of a pixel.  The differences step before a row is filled.
freenect_create_dxdy_tables(p) ==
    [i \in Pixels |-> Columns(Col(i), Rows(Line(i) + 1, p), p).v]

\* A pixel that would leave the image is put so far right that no shift brings it back.
freenect_init_registration_table(dx, dy) ==
    [i \in Pixels |->
       LET x == (Col(i) + 1) * 2 ^ 17 + dx[i]
           y == (Line(i) + 1) * 2 ^ 17 + dy[i]
           outside == x < 0 \/ y < 0 \/ x >= X_RES * 2 ^ 17 \/ y >= Y_RES * 2 ^ 17
       IN  [x |-> IF outside THEN 2 * X_RES * Scale ELSE x \div 512,
            y |-> Trunc(y, 2 ^ 17)]]

-----------------------------------------------------------------------------
\* depth_to_rgb_shift, and what happens to lie behind it
Shift(reg, mm) == IF mm < MAX_METRIC THEN reg.shift[mm] ELSE reg.past

\* Where a depth of a pixel shows in the colour image: a column and a row.  An
\* unsigned column that was negative is beyond the image.
Seen(reg, i, mm) ==
    [x |-> Trunc(reg.table[i].x + Shift(reg, mm), Scale), y |-> reg.table[i].y]

Within(at) == at.x \in 0..X_RES - 1

Nearer_LastWins(old, mm) == TRUE
Nearer(old, mm) == old = NO_MM \/ old > mm

\* Eight depths of eleven bits, as they are packed into eleven bytes
unpack_8_pixels(r) ==
    <<r[1] * 8 + r[2] \div 32,
      (r[2] * 64 + r[3] \div 4) % 2048,
      (r[3] * 512 + r[4] * 2 + r[5] \div 128) % 2048,
      (r[5] * 16 + r[6] \div 16) % 2048,
      (r[6] * 128 + r[7] \div 2) % 2048,
      (r[7] * 1024 + r[8] * 4 + r[9] \div 64) % 2048,
      (r[9] * 32 + r[10] \div 8) % 2048,
      (r[10] * 256 + r[11]) % 2048>>

\* freenect_apply_registration of a picture of raw depths
freenect_apply_registration(reg, raw) ==
    FoldLeft(LAMBDA frame, i :
        LET mm == reg.mm[raw[i]]
            at == Seen(reg, i, mm)
            cell == at.y * X_RES + at.x - Y_RES * reg.start_lines
        IN  IF mm # NO_MM /\ mm < MAX_METRIC /\ Within(at) /\ Nearer(frame[cell], mm)
            THEN [frame EXCEPT ![cell] = mm] ELSE frame,
        [i \in Pixels |-> NO_MM], Indices)

\* freenect_apply_depth_to_mm, and freenect_apply_depth_unpacked_to_mm
freenect_apply_depth_to_mm(reg, raw) ==
    [i \in Pixels |-> IF reg.mm[raw[i]] < MAX_METRIC THEN reg.mm[raw[i]] ELSE MAX_METRIC]

\* freenect_map_rgb_to_depth: where each pixel of a metric depth picture looks, and the
\* nearest depth that looks there.  Its target_offset moves rows, not cells.
CellOf(reg, depth, i) ==
    LET at == Seen(reg, i, depth[i]) IN
    IF depth[i] = NO_MM \/ ~Within(at) THEN -1
    ELSE (at.y - Y_RES * reg.start_lines) * X_RES + at.x

zBuffer(reg, depth) ==
    FoldLeft(LAMBDA z, i :
        LET cell == CellOf(reg, depth, i) IN
        IF cell # -1 /\ Nearer(z[cell], depth[i]) THEN [z EXCEPT ![cell] = depth[i]] ELSE z,
        [i \in Pixels |-> NO_MM], Indices)

\* A pixel that sees nothing becomes black; a hidden one keeps what the buffer held.
freenect_map_rgb_to_depth(reg, depth, rgb, black, held) ==
    LET z == zBuffer(reg, depth) IN
    [i \in Pixels |->
       LET cell == CellOf(reg, depth, i) IN
       IF cell = -1 THEN black
       ELSE IF depth[i] <= z[cell] THEN rgb[cell] ELSE held[i]]
=============================================================================
