--------------------------- MODULE NbisMinutiae ---------------------------
(***************************************************************************)
(* Finding minutiae (minutia.c, matchpat.c, and the loop processing of     *)
(* loop.c).  The image changes while it is scanned: a small loop met on a  *)
(* ridge of high curvature is filled.  The operators therefore take and    *)
(* return a detector state [b |-> image, ms |-> sequence of minutiae]; a   *)
(* minutia is [p, e, dir, rel, type, app].  The block maps of the image    *)
(* are the record maps: [dir, flow, curve], functions on Blocks.           *)
(***************************************************************************)
EXTENDS NbisContour

BlockSize == Lfs.blocksize

ASSUME BlockAssumption == BlockSize \in Nat \ {0} /\ BlockSize <= W /\ BlockSize <= H
ASSUME ContourAssumption ==
    Lfs.high_curve_half_contour \in Nat /\ Lfs.side_half_contour \in Nat

SCAN_HORIZONTAL == "horizontal"
SCAN_VERTICAL == "vertical"
MEDIUM_RELIABILITY == "medium"
HIGH_RELIABILITY == "high"

(***************************************************************************)
(* Blocks: the image is covered by MW x MH blocks, the last column and row *)
(* of them moved back so that they end with the image (block_offsets).     *)
(***************************************************************************)
MW == (W + BlockSize - 1) \div BlockSize
MH == (H + BlockSize - 1) \div BlockSize
Blocks == (0 .. MW - 1) \X (0 .. MH - 1)

block_offsets(k) ==
    <<IF k[1] = MW - 1 THEN W - BlockSize ELSE k[1] * BlockSize,
      IF k[2] = MH - 1 THEN H - BlockSize ELSE k[2] * BlockSize>>

\* pixelize_map: blocks are painted in order, so the later of two overlapping
\* blocks gives a pixel its value.
pixelize_map(map, p) ==
    LET Covers(k) == LET o == block_offsets(k)
                     IN /\ p[1] \in o[1] .. (o[1] + BlockSize - 1)
                        /\ p[2] \in o[2] .. (o[2] + BlockSize - 1)
        Here == {k \in Blocks : Covers(k)}
    IN map[CHOOSE k \in Here : \A o \in Here : k[2] * MW + k[1] >= o[2] * MW + o[1]]

\* The block a pixel is in for the removal steps: x / blocksize.
BlockOf(p) == <<Quot(p[1], BlockSize), Quot(p[2], BlockSize)>>

(***************************************************************************)
(* The list of minutiae.                                                   *)
(***************************************************************************)
create_minutia(c, dir, rel, type, app) ==
    [p |-> c.p, e |-> c.e, dir |-> dir, rel |-> rel, type |-> type, app |-> app]

PointOf(m) == [p |-> m.p, e |-> m.e]

\* What is at the places S of a list, a set of pairs of a rank and a place: by rank,
\* and in the order of the list where the rank is the same.
Precedes(p, q) == p[1] < q[1] \/ (p[1] = q[1] /\ p[2] < q[2])
Listed(list, S) ==
    LET ranked == {<<Cardinality({q \in S : Precedes(q, p)}), p[2]>> : p \in S}
    IN [j \in 1 .. Cardinality(S) |-> list[(CHOOSE r \in ranked : r[1] = j - 1)[2]]]

\* remove_minutia, for all of a set of places.
Kept(ms, Gone) == Listed(ms, {<<0, i>> : i \in DOMAIN ms \ Gone})

\* sort_minutiae_y_x and sort_minutiae_x_y: stable, by a single rank.  In an image
\* higher than wide RankXY does not order the columns.
SortBy(ms, Rank(_)) == Listed(ms, {<<Rank(ms[i]), i>> : i \in DOMAIN ms})
RankYX(m) == m.p[2] * W + m.p[1]
RankXY(m) == m.p[1] * W + m.p[2]
sort_minutiae_y_x(ms) == SortBy(ms, RankYX)
sort_minutiae_x_y(ms) == SortBy(ms, RankXY)

\* rm_dup_minutiae: of neighbours in the list at the same pixel, the last stays.
rm_dup_minutiae(ms) ==
    Kept(ms, {i \in DOMAIN ms : i # Len(ms) /\ ms[i].p = ms[i + 1].p})

minutia_type(pix) == IF pix = 0 THEN BIFURCATION ELSE RIDGE_ENDING

is_minutia_appearing(c) ==
    c.e[1] < c.p[1] \/ (c.e[1] = c.p[1] /\ c.e[2] < c.p[2])

choose_scan_direction(dir) ==
    IF dir <= NumDirs \div 4 \/ dir > 3 * (NumDirs \div 4)
    THEN SCAN_HORIZONTAL ELSE SCAN_VERTICAL

\* May o, already in the list, be the same feature as the new minutia m?
Similar(o, m) ==
    LET delta == Abs(o.dir - m.dir)
    IN /\ Abs(o.p[1] - m.p[1]) < Lfs.max_minutia_delta
       /\ Abs(o.p[2] - m.p[2]) < Lfs.max_minutia_delta
       /\ o.type = m.type
       /\ Min({delta, 2 * NumDirs - delta}) <= NumDirs \div 4

SameContour(o, m, b) ==
    \E clock \in {CLOCKWISE, COUNTER_CLOCKWISE} :
        search_contour(m.p, Lfs.max_minutia_delta, PointOf(o), clock, b)

\* update_minutiae: m is added unless a similar one is at its place or on its
\* contour.
update_minutiae(s, m) ==
    IF \E i \in DOMAIN s.ms : /\ Similar(s.ms[i], m)
                              /\ s.ms[i].p = m.p \/ SameContour(s.ms[i], m, s.b)
    THEN s ELSE [s EXCEPT !.ms = Append(@, m)]

\* update_minutiae_V2: from the last minutia back, similar ones on the contour of m
\* give way to m when the scan runs in the direction the map prescribes; else, or when
\* one is at the place of m, m is not added.
update_minutiae_V2(s, m, scan, dir) ==
    LET yields == dir >= 0 /\ choose_scan_direction(dir) = scan
        Updated(same) ==
            LET last == Max({0} \cup {i \in same : s.ms[i].p = m.p \/ ~yields})
                ms == Kept(s.ms, {i \in same : i > last})
            IN [s EXCEPT !.ms = IF last = 0 THEN Append(ms, m) ELSE ms]
    IN Updated({i \in DOMAIN s.ms : /\ Similar(s.ms[i], m)
                                    /\ s.ms[i].p = m.p \/ SameContour(s.ms[i], m, s.b)})

(***************************************************************************)
(* Directions and positions of a candidate.                                *)
(***************************************************************************)
get_low_curvature_direction(scan, app, dir) ==
    LET flip == IF dir <= NumDirs \div 2 /\ scan = SCAN_HORIZONTAL
                THEN app ELSE ~app
    IN IF flip THEN dir + NumDirs ELSE dir

Reliability(map, p) ==
    IF pixelize_map(map, p) THEN MEDIUM_RELIABILITY ELSE HIGH_RELIABILITY

Midpoint(p, q) == <<(p[1] + q[1]) \div 2, (p[2] + q[2]) \div 2>>

\* process_loop_V2: an elongated loop of the feature's own colour gives two
\* minutiae, any other loop is filled.
process_loop_V2(s, c, maps) ==
    LET Made(q, d) == create_minutia(q, d, Reliability(maps.flow, q.p),
                                     minutia_type(s.b[c[1].p]), is_minutia_appearing(q))
        Long(a) == Len(c) > Lfs.min_loop_len /\ (a.min < 1 \/ 4 * a.max >= 9 * a.min)
        Inside(fr, to) == s.b[Midpoint(fr.p, to.p)] = s.b[c[1].p]
        Second(t, to, dir) == update_minutiae(t, Made(to, (dir + NumDirs) % (2 * NumDirs)))
        Both(fr, to, dir) == Second(update_minutiae(s, Made(fr, dir)), to, dir)
        Processed(a) ==
            IF Long(a) /\ Inside(c[a.fr], c[a.to])
            THEN Both(c[a.fr], c[a.to], line2direction(c[a.fr].p, c[a.to].p))
            ELSE [s EXCEPT !.b = fill_loop(c, @)]
    IN IF c = <<>> THEN s ELSE Processed(get_loop_aspect(c))

\* adjust_high_curvature_minutia_V2: the sharpest point of the contour, when
\* it bends by less than pi/3 around the feature; a counter-clockwise loop is
\* processed instead.  at is a sequence of at most one adjusted candidate.
adjust_high_curvature_minutia_V2(s, c0, maps) ==
    LET edge == Lfs.high_curve_half_contour \div 2
        ignored == [s |-> s, at |-> <<>>]
        At(c, t, mid) ==
            IF \/ ~Sharper(t.theta, [num |-> 1, den |-> 4])
               \/ s.b[mid] # s.b[c0.p]
            THEN ignored
            ELSE [s |-> s, at |-> <<[c |-> c[t.i], dir |-> line2direction(c[t.i].p, mid)]>>]
        Bent(c, t) ==
            IF t.ret = IGNORE THEN ignored
            ELSE At(c, t, Midpoint(c[t.i - edge].p, c[t.i + edge].p))
        Along(h) ==
            IF h.ret = LOOP_FOUND
            THEN IF is_loop_clockwise(h.c, TRUE) THEN ignored
                 ELSE [ignored EXCEPT !.s = process_loop_V2(s, h.c, maps)]
            ELSE IF h.c = <<>> THEN ignored
            ELSE Bent(h.c, min_contour_theta(h.c, edge))
    IN Along(get_high_curvature_contour(c0, Lfs.high_curve_half_contour, s.b))

(***************************************************************************)
(* Scanning.  Two adjacent lines are read together as a sequence of pairs; *)
(* g_feature_patterns lists the triples of pairs (the second repeated any  *)
(* number of times) that mark a minutia.                                   *)
(***************************************************************************)
Pattern(type, app, first, second, third) ==
    [type |-> type, app |-> app, first |-> first, second |-> second, third |-> third]

FeaturePatterns ==
    <<Pattern(RIDGE_ENDING, TRUE,  <<0, 0>>, <<0, 1>>, <<0, 0>>),
      Pattern(RIDGE_ENDING, FALSE, <<0, 0>>, <<1, 0>>, <<0, 0>>),
      Pattern(BIFURCATION,  FALSE, <<1, 1>>, <<0, 1>>, <<1, 1>>),
      Pattern(BIFURCATION,  TRUE,  <<1, 1>>, <<1, 0>>, <<1, 1>>),
      Pattern(BIFURCATION,  FALSE, <<1, 0>>, <<0, 1>>, <<1, 1>>),
      Pattern(BIFURCATION,  FALSE, <<1, 1>>, <<0, 1>>, <<1, 0>>),
      Pattern(BIFURCATION,  TRUE,  <<1, 1>>, <<1, 0>>, <<0, 1>>),
      Pattern(BIFURCATION,  TRUE,  <<0, 1>>, <<1, 0>>, <<1, 1>>),
      Pattern(BIFURCATION,  FALSE, <<1, 0>>, <<0, 1>>, <<1, 0>>),
      Pattern(BIFURCATION,  TRUE,  <<0, 1>>, <<1, 0>>, <<0, 1>>)>>

\* Position i of line pair k, its first and its second pixel.
Near(scan, k, i) == IF scan = SCAN_HORIZONTAL THEN <<i, k>> ELSE <<k, i>>
Far(scan, k, i) == IF scan = SCAN_HORIZONTAL THEN <<i, k + 1>> ELSE <<k + 1, i>>
PairAt(b, scan, k, i) == <<b[Near(scan, k, i)], b[Far(scan, k, i)]>>
LineLength(scan) == IF scan = SCAN_HORIZONTAL THEN W ELSE H
LinePairs(scan) == IF scan = SCAN_HORIZONTAL THEN H - 1 ELSE W - 1

match_1st_pair(pair) == {f \in DOMAIN FeaturePatterns : FeaturePatterns[f].first = pair}
match_2nd_pair(pair, poss) == {f \in poss : FeaturePatterns[f].second = pair}
match_3rd_pair(pair, poss) == {f \in poss : FeaturePatterns[f].third = pair}

\* skip_repeated_horizontal_pair, skip_repeated_vertical_pair.
skip_repeated_pair(b, scan, k, i) ==
    LET n == LineLength(scan)
    IN Min({n} \cup {j \in i + 1 .. n - 1 :
                       PairAt(b, scan, k, j) # PairAt(b, scan, k, i)})

\* process_horizontal_scan_minutia_V2 and process_vertical_scan_minutia_V2: the
\* second pair of feature f runs from position i2 to i3 - 1 of line pair k.
process_scan_minutia_V2(s, scan, k, i2, i3, f, maps) ==
    LET mid == (i2 + i3) \div 2
        pat == FeaturePatterns[f]
        c0 == IF pat.app THEN [p |-> Far(scan, k, mid), e |-> Near(scan, k, mid)]
                         ELSE [p |-> Near(scan, k, mid), e |-> Far(scan, k, mid)]
        dir == pixelize_map(maps.dir, c0.p)
        Here == [c |-> c0, dir |-> get_low_curvature_direction(scan, pat.app, dir)]
        Made(at) == create_minutia(at.c, at.dir, Reliability(maps.flow, c0.p), pat.type, pat.app)
        Added(adj) ==
            IF adj.at = <<>> THEN adj.s
            ELSE update_minutiae_V2(adj.s, Made(adj.at[1]), scan, dir)
    IN IF dir = INVALID_DIR THEN s
       ELSE Added(IF pixelize_map(maps.curve, c0.p)
                  THEN adjust_high_curvature_minutia_V2(s, c0, maps)
                  ELSE [s |-> s, at |-> <<Here>>])

\* scan4minutiae_horizontally_V2 and scan4minutiae_vertically_V2, one line
\* pair at position i: the state and where to go on.  A third pair of two values
\* may be the second pair of the next feature, so the scan resumes one before it.
ScanFrom(s, scan, k, i, maps) ==
    LET n == LineLength(scan)
        poss1 == match_1st_pair(PairAt(s.b, scan, k, i))
        poss2 == match_2nd_pair(PairAt(s.b, scan, k, i + 1), poss1)
        i3 == skip_repeated_pair(s.b, scan, k, i + 1)
        poss3 == match_3rd_pair(PairAt(s.b, scan, k, i3), poss2)
        Resume(s2) ==
            LET pair == PairAt(s2.b, scan, k, i3)
            IN [s |-> s2, i |-> IF pair[1] # pair[2] THEN i3 - 1 ELSE i3]
    IN IF poss1 = {} \/ poss2 = {} THEN [s |-> s, i |-> i + 1]
       ELSE IF i3 >= n THEN [s |-> s, i |-> n]
       ELSE Resume(IF poss3 = {} THEN s
                   ELSE process_scan_minutia_V2(s, scan, k, i + 1, i3, Min(poss3), maps))

\* One whole pass, line pair after line pair, from left to right or downwards.
ScanLine(s, scan, k, maps) ==
    InOrder(LAMBDA t, i : IF t.i = i THEN ScanFrom(t.s, scan, k, i, maps) ELSE t,
            [s |-> s, i |-> 0], Steps(0, LineLength(scan) - 2)).s
scan4minutiae(s, scan, maps) ==
    InOrder(LAMBDA t, k : ScanLine(t, scan, k, maps), s, Steps(0, LinePairs(scan) - 1))

\* lfs2nist_minutia_XYT: the template's coordinates, y up from the bottom row
\* and the angle in degrees.
lfs2nist_minutia_XYT(m) ==
    [x |-> m.p[1], y |-> H - m.p[2],
     t |-> (270 - sround(m.dir * 180, NumDirs)) % 360]
============================================================================
