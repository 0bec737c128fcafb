---------------------------- MODULE NbisContour ----------------------------
(***************************************************************************)
(* Contours of a feature in the binary image: tracing, searching, loops    *)
(* and filling (contour.c, loop.c, shape.c).  A contour is a sequence of   *)
(* points [p, e]; the tracing functions return [ret, c].                   *)
(***************************************************************************)
EXTENDS NbisImage

CLOCKWISE == 1
COUNTER_CLOCKWISE == 7        \* (nbr_i + 7) % 8

\* start_scan_nbr: the compass index of the edge pixel seen from the feature
\* pixel, INVALID_DIR unless it is a 4-neighbour direction.
start_scan_nbr(p, e) ==
    CASE p[1] = e[1] /\ e[2] > p[2] -> 4
      [] p[1] = e[1] /\ e[2] < p[2] -> 0
      [] e[1] > p[1] /\ p[2] = e[2] -> 2
      [] e[1] < p[1] /\ p[2] = e[2] -> 6
      [] OTHER -> INVALID_DIR

\* next_scan_nbr, n times over.
next_scan_nbr(start, n) == (start + n) % 8

\* The neighbours of c.p are visited one after the other from its edge pixel on; i
\* is the number of visits and prev the neighbour visited last.  A diagonal step onto
\* the feature is only taken when the neighbour after it is feature too, which is not
\* looked at again.  <<>>: no next pixel.
next_contour_pixel(c, clock, b) ==
    LET Visited(i) == Plus(c.p, Nbr8[next_scan_nbr(start_scan_nbr(c.p, c.e), i * clock)])
        spin[i \in 0 .. 9] ==
            LET diagonal == next_scan_nbr(start_scan_nbr(c.p, c.e), (i + 1) * clock) % 2 = 1
                Visit(prev, cur, after) ==
                    IF i >= 8 \/ cur \notin Pixels THEN <<>>
                    ELSE IF ~(b[cur] = b[c.p] /\ b[prev] = b[c.e]) THEN spin[i + 1]
                    ELSE IF ~diagonal THEN <<[p |-> cur, e |-> prev]>>
                    ELSE IF after \notin Pixels THEN <<>>
                    ELSE IF b[after] = b[c.p] THEN <<[p |-> cur, e |-> prev]>>
                    ELSE spin[i + 2]
            IN Visit(IF i = 0 THEN c.e ELSE Visited(i), Visited(i + 1), Visited(i + 2))
    IN spin[0]

\* trace_contour: at most len points from c on, until the loop point is met.
Points == [p : Pixels, e : Int \X Int]
trace_contour(c, len, loop, clock, b) ==
    LET trace[r \in Points \X (0 .. len)] ==
            LET On(next) ==
                    IF next = <<>> THEN [ret |-> OK, c |-> <<>>]
                    ELSE IF next[1].p = loop THEN [ret |-> LOOP_FOUND, c |-> <<>>]
                    ELSE LET rest == trace[<<next[1], r[2] - 1>>] IN [rest EXCEPT !.c = next \o @]
            IN On(IF r[2] = 0 THEN <<>> ELSE next_contour_pixel(r[1], clock, b))
    IN IF b[c.p] = b[c.e] THEN [ret |-> IGNORE, c |-> <<>>] ELSE trace[<<c, len>>]

search_contour(target, len, c, clock, b) ==
    LET met[r \in Points \X (0 .. len)] ==
            LET On(next) == next # <<>> /\ (next[1].p = target \/ met[<<next[1], r[2] - 1>>])
            IN r[2] > 0 /\ On(next_contour_pixel(r[1], clock, b))
    IN met[<<c, len>>]

\* Both halves of a contour around c, joined: the clockwise half reversed, c
\* itself, the counter-clockwise half.
Joined(half1, c, half2) == Reverse(half1) \o <<c>> \o half2

\* The result of the second trace is overwritten by that of the allocation that
\* follows it: a loop found there comes back as a contour with the code 0.
FirstHalf(c, half, b) == trace_contour(c, half, c.p, CLOCKWISE, b)
SecondHalf(c, half, h1, b) ==
    trace_contour(c, half, h1.c[Len(h1.c)].p, COUNTER_CLOCKWISE, b)

get_high_curvature_contour(c, half, b) ==
    LET nothing == [ret |-> OK, c |-> <<>>]
        Both(h1, h2) ==
            IF h2.ret # LOOP_FOUND /\ Len(h2.c) < half THEN nothing
            ELSE [ret |-> OK, c |-> Joined(h1.c, c, h2.c)]
        From(h1) ==
            CASE h1.ret = IGNORE -> nothing
              [] h1.ret = LOOP_FOUND -> [ret |-> LOOP_FOUND, c |-> <<c>> \o Reverse(h1.c)]
              [] h1.ret = OK /\ Len(h1.c) < half -> nothing
              [] OTHER -> Both(h1, SecondHalf(c, half, h1, b))
    IN From(FirstHalf(c, half, b))

get_centered_contour(c, half, b) ==
    LET failed(ret) == [ret |-> ret, c |-> <<>>]
        Both(h1, h2) ==
            IF h2.ret # OK THEN failed(h2.ret)
            ELSE IF Len(h2.c) < half THEN failed(INCOMPLETE)
            ELSE [ret |-> OK, c |-> Joined(h1.c, c, h2.c)]
        From(h1) ==
            IF h1.ret # OK THEN failed(h1.ret)
            ELSE IF Len(h1.c) < half THEN failed(INCOMPLETE)
            ELSE Both(h1, SecondHalf(c, half, h1, b))
    IN From(FirstHalf(c, half, b))

\* The angle between two vectors as the fraction sign * cos^2: a larger
\* fraction is a smaller angle.
Cosine(u, v) ==
    LET dot == u[1] * v[1] + u[2] * v[2]
    IN [num |-> Sign(dot) * dot * dot,
        den |-> (u[1] * u[1] + u[2] * u[2]) * (v[1] * v[1] + v[2] * v[2])]
Sharper(f, g) == f.num * g.den > g.num * f.den

\* min_contour_theta: the first point of smallest angle between the points
\* edge steps before and after it, the middle when every angle is flat.
min_contour_theta(c, edge) ==
    LET Centers == (edge + 1) .. (Len(c) - edge)
        At(i) == Cosine(angle2line(c[i].p, c[i - edge].p),
                        angle2line(c[i].p, c[i + edge].p))
        flat == [num |-> -1, den |-> 1]
        Bent == {i \in Centers : Sharper(At(i), flat)}
        Sharpest == {i \in Bent : \A j \in Bent : ~Sharper(At(j), At(i))}
    IN IF Len(c) < 2 * edge + 1 THEN [ret |-> IGNORE]
       ELSE IF Bent = {}
            THEN [ret |-> OK, i |-> Len(c) \div 2 + 1, theta |-> flat]
            ELSE [ret |-> OK, i |-> Min(Sharpest), theta |-> At(Min(Sharpest))]

\* fix_edge_pixel_pair: a diagonal pair is moved to a 4-neighbour pair.
fix_edge_pixel_pair(c, b) ==
    LET d == Minus(c.e, c.p)
        side1 == <<c.p[1], c.e[2]>>       \* (px - dx, py)
        side2 == <<c.e[1], c.p[2]>>       \* (px, py - dy)
    IN IF ~(Abs(d[1]) = 1 /\ Abs(d[2]) = 1) THEN c
       ELSE IF b[side1] # b[c.p] THEN [c EXCEPT !.e = side1]
       ELSE IF b[side2] # b[c.p] THEN [c EXCEPT !.e = side2]
       ELSE [c EXCEPT !.p = side1]

\* search_in_direction: from a pixel along a direction given in thousandths,
\* until a pixel of value pix; <<>> when the image or the steps end first.
search_in_direction(pix, start, d, steps, b) ==
    LET At(i) == IF i = 0 THEN start
                 ELSE <<sround(1000 * start[1] + i * d[1], 1000),
                        sround(1000 * start[2] + i * d[2], 1000)>>
        stops == {i \in 1 .. steps : At(i) \notin Pixels \/ b[At(i)] = pix}
        last == Min(stops)
    IN IF stops = {} \/ At(last) \notin Pixels THEN <<>>
       ELSE <<fix_edge_pixel_pair([p |-> At(last), e |-> At(last - 1)], b)>>

(***************************************************************************)
(* Loops.                                                                  *)
(***************************************************************************)
\* chain_code_loop: the Freeman code of every step, the closing one included.
\* g_chaincodes_nbr8 counts counter-clockwise from EAST.
chain_code_loop(c) ==
    LET Code(d) == (<<3, 2, 1, 4, -1, 0, 5, 6, 7>>)[(d[2] + 1) * 3 + d[1] + 2]
        next(i) == IF i = Len(c) THEN 1 ELSE i + 1
    IN IF Len(c) <= 3 THEN <<>>
       ELSE [i \in 1 .. Len(c) |-> Code(Minus(c[next(i)].p, c[i].p))]

is_chain_clockwise(chain, default) ==
    LET n == Len(chain)
        Turn(i) == LET d == chain[(i % n) + 1] - chain[i]
                   IN IF d >= 4 THEN d - 8 ELSE IF d <= -4 THEN d + 8 ELSE d
        sum == MapThenSumSet(Turn, 1 .. n)
    IN IF sum = 0 THEN default ELSE sum < 0

is_loop_clockwise(c, default) ==
    LET chain == chain_code_loop(c)
    IN IF chain = <<>> THEN default ELSE is_chain_clockwise(chain, default)

\* on_loop: does the contour of m come back to m within len steps?
on_loop(m, len, b) ==
    trace_contour([p |-> m.p, e |-> m.e], len, m.p, CLOCKWISE, b).ret

\* on_island_lake: the loop through both minutiae, when there is one.
on_island_lake(m1, m2, half, b) ==
    LET c1 == [p |-> m1.p, e |-> m1.e]
        c2 == [p |-> m2.p, e |-> m2.e]
        failed(ret) == [ret |-> ret, c |-> <<>>]
        Through(t1, t2) ==
            IF t1.ret # LOOP_FOUND THEN failed(t1.ret)
            ELSE IF t2.ret # LOOP_FOUND THEN failed(t2.ret)
            ELSE [ret |-> LOOP_FOUND, c |-> <<c1>> \o t1.c \o <<c2>> \o t2.c]
    IN Through(trace_contour(c1, half, m2.p, CLOCKWISE, b),
               trace_contour(c2, half, m1.p, CLOCKWISE, b))

\* on_hook: from the edge pixel of m1, with its feature pixel as the edge, to
\* the feature pixel of m2, either way round.
on_hook(m1, m2, len, b) ==
    LET c == [p |-> m1.e, e |-> m1.p]
        Hooked(ret1, ret2) ==
            CASE ret1 = LOOP_FOUND -> HOOK_FOUND
              [] ret1 = IGNORE -> IGNORE
              [] OTHER -> IF ret2 = LOOP_FOUND THEN HOOK_FOUND ELSE ret2
    IN Hooked(trace_contour(c, len, m2.p, CLOCKWISE, b).ret,
              trace_contour(c, len, m2.p, COUNTER_CLOCKWISE, b).ret)

\* get_loop_aspect: the closest and the farthest pair of points half a loop
\* apart, the first of equals; indices from 1.
get_loop_aspect(c) ==
    LET n == Len(c)
        half == n \div 2
        Opp(i) == ((i - 1 + half) % n) + 1
        I == 1 .. (IF n % 2 = 1 THEN n ELSE half)
        D(i) == squared_distance(c[i].p, c[Opp(i)].p)
        lo == Min({i \in I : \A j \in I : D(i) <= D(j)})
        hi == Min({i \in I : \A j \in I : D(i) >= D(j)})
    IN [min |-> D(lo), max |-> D(hi), fr |-> hi, to |-> Opp(hi)]

(***************************************************************************)
(* fill_loop: every row of the loop's shape is painted with the edge value *)
(* between consecutive points whose gap starts with a feature pixel.       *)
(***************************************************************************)
\* shape_from_contour: the distinct columns of the contour in row y, sorted.
RowOf(c, y) == Ascending({c[i].p[1] : i \in {j \in DOMAIN c : c[j].p[2] = y}})

\* x is the last column looked at once point j is reached: a segment is filled up
\* to that point without moving x there.
FillRow(b, xs, y, edge) ==
    LET Painted(img, cols) ==
            [q \in Pixels |-> IF q[2] = y /\ q[1] \in cols THEN edge ELSE img[q]]
        row[j \in 1 .. Len(xs)] ==
            LET t == row[j - 1]
            IN IF j = 1 THEN [b |-> Painted(b, {xs[1]}), x |-> xs[1]]
               ELSE IF t.b[<<t.x + 1, y>>] = edge
                    THEN [b |-> Painted(t.b, {xs[j]}), x |-> xs[j]]
                    ELSE [b |-> Painted(t.b, t.x + 1 .. xs[j]), x |-> t.x + 1]
    IN row[Len(xs)].b

fill_loop(c, b) ==
    LET Row(img, y) == FillRow(img, RowOf(c, y), y, 1 - b[c[1].p])
    IN InOrder(Row, b, Ascending({c[i].p[2] : i \in DOMAIN c}))
============================================================================
