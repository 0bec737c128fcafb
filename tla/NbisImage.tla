----------------------------- MODULE NbisImage -----------------------------
(***************************************************************************)
(* The binary image mindtct works on, its 8-neighbourhood, directions and  *)
(* straight lines (globals.c, util.c, line.c, and the image helpers of     *)
(* imgutil.c).  An image is a function from the pixels <<x, y>> to {0, 1}; *)
(* a contour point is [p |-> feature pixel, e |-> its edge pixel].         *)
(* Directions are the NumDirs half turns and 2 * NumDirs full turns of the *)
(* source; sines are given in thousandths by the table Sine, so that the   *)
(* rounding of the code is done on integers.                               *)
(***************************************************************************)
EXTENDS Integers, Sequences, FiniteSets, TLC, SequencesExt, FiniteSetsExt

CONSTANTS
    W, H,        \* iw, ih: width and height of the image
    Sine,        \* 1000 * sin(d * pi / NumDirs), d \in 0 .. 2 * NumDirs - 1
    Lfs          \* the parameters, a record with the fields of LFSPARMS

NumDirs == Lfs.num_directions

ASSUME SizeAssumption == W \in Nat \ {0} /\ H \in Nat \ {0}
ASSUME DirsAssumption ==
    /\ NumDirs \in Nat /\ NumDirs % 4 = 0 /\ NumDirs > 0
    /\ DOMAIN Sine = 0 .. (2 * NumDirs - 1)

Pixels == (0 .. W - 1) \X (0 .. H - 1)
Images == [Pixels -> {0, 1}]

\* The outcomes the tracing functions return.
IGNORE == "IGNORE"
LOOP_FOUND == "LOOP_FOUND"
INCOMPLETE == "INCOMPLETE"
HOOK_FOUND == "HOOK_FOUND"
OK == "OK"

INVALID_DIR == -1

\* The feature types are the values of their pixels.
BIFURCATION == 0
RIDGE_ENDING == 1

Abs(n) == IF n < 0 THEN -n ELSE n
Sign(n) == IF n < 0 THEN -1 ELSE IF n > 0 THEN 1 ELSE 0

\* C's division, which truncates toward zero.
Quot(a, b) == Sign(a) * (Abs(a) \div b)

\* sround: to the nearest integer, halves away from zero, of n / d.
sround(n, d) == Sign(n) * ((2 * Abs(n) + d) \div (2 * d))

\* The members of a finite set of naturals in order.
Ascending(S) ==
    IF S = {} THEN <<>>
    ELSE SelectSeq([i \in 1 .. Max(S) + 1 |-> i - 1], LAMBDA n : n \in S)

\* The numbers from one to another in order.
Steps(from, to) == [i \in 1 .. Max({0, to - from + 1}) |-> from + i - 1]

\* Tabulated(f) is f: it makes TLC compute a table once.
Tabulated(f) == f @@ <<>>

\* The members of a sequence are dealt with one after the other.  (The set, of one
\* member, makes TLC finish with one before it begins the next.)
InOrder(Op(_, _), base, seq) ==
    LET upto[i \in 0 .. Len(seq)] ==
            IF i = 0 THEN base ELSE CHOOSE r \in {Op(a, seq[i]) : a \in {upto[i - 1]}} : TRUE
    IN upto[Len(seq)]

Plus(p, q) == <<p[1] + q[1], p[2] + q[2]>>
Minus(p, q) == <<p[1] - q[1], p[2] - q[2]>>

\* g_nbr8_dx, g_nbr8_dy: the neighbours clockwise from NORTH.
Nbr8 == [i \in 0 .. 7 |->
          <<(<<0, 1, 1, 1, 0, -1, -1, -1>>)[i + 1],
            (<<-1, -1, 0, 1, 1, 1, 0, -1>>)[i + 1]>>]

squared_distance(p, q) ==
    (p[1] - q[1]) * (p[1] - q[1]) + (p[2] - q[2]) * (p[2] - q[2])

\* Comparisons of distance(p, q) with an integer threshold, without the root.
DistanceAtMost(p, q, d) == squared_distance(p, q) <= d * d

(***************************************************************************)
(* Directions.                                                             *)
(***************************************************************************)
SinOf(d) == Sine[d % (2 * NumDirs)]
CosOf(d) == Sine[(d + (NumDirs \div 2)) % (2 * NumDirs)]

closest_dir_dist(d1, d2, ndirs) ==
    IF d1 >= 0 /\ d2 >= 0
    THEN Min({Abs(d2 - d1), ndirs - Abs(d2 - d1)})
    ELSE INVALID_DIR

\* angle2line, kept as the vector whose angle it is: the zero vector points
\* along the x axis.
angle2line(from, to) ==
    IF from = to THEN <<1, 0>> ELSE <<to[1] - from[1], from[2] - to[2]>>

\* line2direction: the full direction nearest to the line, measured clockwise
\* from the vertical (the code exchanges x and y).
line2direction(from, to) ==
    LET v == angle2line(<<to[2], to[1]>>, <<from[2], from[1]>>)
        Along(d) == v[1] * CosOf(d) + v[2] * SinOf(d)
        Full == 0 .. (2 * NumDirs - 1)
    IN CHOOSE d \in Full : \A o \in Full : Along(d) >= Along(o)

\* The angle of a vector in [0, 2 pi), for comparisons only: half turn, then
\* the cross product.
UpperHalf(v) == v[2] > 0 \/ (v[2] = 0 /\ v[1] > 0)
AngleBefore(u, v) ==
    \/ UpperHalf(u) /\ ~UpperHalf(v)
    \/ UpperHalf(u) = UpperHalf(v) /\ u[1] * v[2] - u[2] * v[1] > 0

(***************************************************************************)
(* line_points: one axis advances by one pixel per step, the other by a    *)
(* quotient that is accumulated with trunc_dbl_precision.                  *)
(***************************************************************************)
TRUNC_SCALE == 16384

\* (int)(r + 0.5) of a value in units of 1/TRUNC_SCALE: C truncates to zero.
Nearest(r) == Quot(r + TRUNC_SCALE \div 2, TRUNC_SCALE)

\* One accumulation: r + TRUNC_SCALE * num / den, rounded to a unit.
Accumulate(r, num, den) == sround(r * den + TRUNC_SCALE * num, den)

\* n accumulations from an integer on.
Accumulated(from, num, den, n) ==
    LET r[i \in 0 .. n] == IF i = 0 THEN from * TRUNC_SCALE ELSE Accumulate(r[i - 1], num, den)
    IN r[n]

\* The pixels from one point to another; <<>> stands for error -412, "coord list
\* overflow".
line_points(from, to) ==
    LET d == Minus(to, from)
        adx == Abs(d[1])
        ady == Abs(d[2])
        xi == IF d[1] >= 0 THEN 1 ELSE -1
        yi == IF d[2] >= 0 THEN 1 ELSE -1
        At(n) ==
            IF n = 0 THEN from
            ELSE <<IF ady > adx THEN Nearest(Accumulated(from[1], d[1], ady, n)) ELSE from[1] + n * xi,
                   IF adx > ady THEN Nearest(Accumulated(from[2], d[2], adx, n)) ELSE from[2] + n * yi>>
        asize == Max({adx + 2, ady + 2})
        arrived == {n \in 0 .. asize - 1 : At(n) = to}
    IN IF arrived = {} THEN <<>> ELSE [i \in 1 .. Min(arrived) + 1 |-> At(i - 1)]

\* free_path: no more than maxtrans colour changes along the line.
free_path(from, to, b) ==
    LET line == line_points(from, to)
        Changes == {i \in 2 .. Len(line) : b[line[i]] # b[line[i - 1]]}
    IN Cardinality(Changes) <= Lfs.maxtrans

(***************************************************************************)
(* minmaxs: the interior extrema of a sequence of values, each as          *)
(* [type |-> -1 (min) or 1 (max), i |-> index, val |-> value]; i is 1 up.  *)
(***************************************************************************)
\* A step up or down turns when the last one went the other way, or when the
\* sequence began with a plateau; the extremum is in the middle of the plateau.
Turning(t, s, i) == \/ t.state # 0 /\ s = -t.state
                    \/ t.state = 0 /\ i - t.start > 1
Extremum(items, t, s, i) ==
    LET loc == (t.start + i - 2) \div 2 + 1 IN [type |-> -s, i |-> loc, val |-> items[loc]]

\* state is the sense of the last step, start where the plateau behind it began.
minmaxs(items) ==
    LET seen[i \in 1 .. Len(items) - 1] ==
            LET t == seen[i - 1]
                s == Sign(items[i + 1] - items[i])
            IN IF i = 1 THEN [found |-> <<>>, state |-> s, start |-> 1]
               ELSE IF s = 0 THEN t
               ELSE [found |-> IF Turning(t, s, i) THEN Append(t.found, Extremum(items, t, s, i))
                               ELSE t.found,
                     state |-> s, start |-> i]
    IN IF Len(items) < 3 THEN <<>> ELSE seen[Len(items) - 1].found

(***************************************************************************)
(* fill_holes: a pixel between two equal pixels takes their value, first   *)
(* along the rows and then along the columns; the pixel after a filled one *)
(* is skipped.                                                             *)
(***************************************************************************)
Hole(b, p, step) ==
    b[Minus(p, step)] # b[p] /\ b[Minus(p, step)] = b[Plus(p, step)]
FillLine(b, start, step, n) ==
    LET done[i \in 0 .. n - 2] ==
            LET t == done[i - 1]
                p == <<start[1] + i * step[1], start[2] + i * step[2]>>
            IN IF i = 0 THEN [b |-> b, filled |-> FALSE]
               ELSE IF ~t.filled /\ Hole(t.b, p, step)
                    THEN [b |-> [t.b EXCEPT ![p] = t.b[Minus(p, step)]], filled |-> TRUE]
                    ELSE [t EXCEPT !.filled = FALSE]
    IN IF n < 3 THEN b ELSE done[n - 2].b

fill_holes(b) ==
    LET AlongRow(img, y) == FillLine(img, <<0, y>>, <<1, 0>>, W)
        AlongCol(img, x) == FillLine(img, <<x, 0>>, <<0, 1>>, H)
    IN InOrder(AlongCol, InOrder(AlongRow, b, Steps(0, H - 1)), Steps(0, W - 1))
============================================================================
