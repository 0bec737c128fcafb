------------------------------ MODULE Bozorth ------------------------------
(***************************************************************************)
(* Scoring a swipe against enrolled templates (NBIS bozorth3.c and         *)
(* bz_drvrs.c, called by vfs5011_match_score()): the web of edges between  *)
(* the minutiae of each template, the table of compatible pairs of edges,  *)
(* and its traversal into clusters.  The tables are globals: the rows of   *)
(* one comparison stay behind the shorter table of the next.               *)
(***************************************************************************)
EXTENDS Integers, SequencesExt

CONSTANTS
    DM, FD, FDD,            \* longest edge; edges kept up to FD (squared), or at least FDD of them
    TXS, CTXS,              \* squared angles: further apart than TXS, short of a full turn by CTXS
    MSTR, MMSTR,            \* rows of a cluster; score from which clusters are combined
    WWIM, QQ_SIZE,          \* endpoints with alternatives; endpoints in the queue
    MinMinutiae,            \* MIN_COMPUTABLE_BOZORTH_MINUTIAE
    MaxRows, MaxGroups,     \* edges of a web and rows of a table; clusters
    MaxMinutiae,            \* minutiae of a template (MAX_BOZORTH_MINUTIAE)
    TanHalf,                \* 10000 * tan(t - 0.5 degrees), rounded, for t in 1..90
    Jobs                    \* sequences of comparisons <<probe, gallery>>; a template is its number of
                            \* minutiae and an array of them, <<x, y, theta>>

Points == 1 .. MaxMinutiae
ASSUME JobsAssumption ==
    /\ MaxMinutiae \in Nat /\ MaxRows \in Nat /\ FDD \in Nat /\ WWIM \in Nat /\ QQ_SIZE \in Nat \ {0}
    /\ MSTR \in Nat \ {0} /\ MMSTR \in Nat
    /\ Jobs \subseteq Seq([n : 0 .. MaxMinutiae, p : [Points -> Int \X Int \X Int]]
                         \X [n : 0 .. MaxMinutiae, p : [Points -> Int \X Int \X Int]])

VARIABLES
    todo, scores,           \* comparisons to come, scores so far
    web, pairing,           \* the edges of both templates; bz_match()'s loop over them
    colp,                   \* the table
    w, clusters, score,     \* bz_match_score(): the traversal, the clusters found, their best score
    step
vars == <<todo, scores, web, pairing, colp, w, clusters, score, step>>

\* The sum of the entries of s at the places K.
Total(s, K) ==
    LET sum[n \in 0 .. Len(s)] == IF n = 0 THEN 0 ELSE sum[n - 1] + (IF n \in K THEN s[n] ELSE 0)
    IN sum[Len(s)]
Absolute(n) == IF n < 0 THEN -n ELSE n
Take(s, n) == SubSeq(s, 1, IF n < Len(s) THEN n ELSE Len(s))

(***************************************************************************)
(* Angles, in degrees                                                      *)
(***************************************************************************)

\* IANGLE180().
IANGLE180(a) == IF a > 180 THEN a - 360 ELSE IF a <= -180 THEN a + 360 ELSE a

\* Degrees of the slope dy / dx (atanf, to the nearest degree), dx # 0.
Slope(dx, dy) == Cardinality({t \in 1 .. 90 : 10000 * Absolute(dy) >= TanHalf[t] * Absolute(dx)})

\* theta_kj: the direction of an edge.
EdgeAngle(dx, dy) == IF dx = 0 THEN 90 ELSE IF dx * dy < 0 THEN -Slope(dx, dy) ELSE Slope(dx, dy)

\* The direction from one cluster's centre to another's.
Heading(dx, dy) ==
    CASE dx = 0 -> IF dy > 0 THEN 90 ELSE -90
      [] dx > 0 -> EdgeAngle(dx, dy)
      [] OTHER -> IANGLE180(IF dy > 0 THEN 180 - Slope(dx, dy) ELSE Slope(dx, dy) - 180)

\* Two angles, and two lengths, that do not agree.
Apart(a, b) == LET q == (a - b) * (a - b) IN q > TXS /\ q < CTXS
TooFar(a, b) == 10 * Absolute(a - b) > a + b

\* The mean of the angles of a at the places K: those below and above 0 may lie around 180.
MeanAngle(a, K) ==
    LET neg == {i \in K : a[i] < 0}
        pos == K \ neg
        n == IF neg = {} THEN 1 ELSE Cardinality(neg)
        l == IF neg # {} /\ pos = {} THEN 1 ELSE Cardinality(pos)
        m == Cardinality(K)
        turned == Total(a, K) + 360 * n
        num == IF Total(a, pos) * n - Total(a, neg) * l > 180 * l * n
               THEN (IF turned > 180 * m THEN turned - 360 * m ELSE turned)
               ELSE Total(a, K)
        r == (2 * Absolute(num) + m) \div (2 * m)
    IN IANGLE180(IF num < 0 THEN -r ELSE r)

(***************************************************************************)
(* The web of a template                                                   *)
(***************************************************************************)

\* Tuples of numbers in lexicographic order, and a set of them in that order: both webs and
\* the table are sorted by insertion, a new entry after its equals.
Before(p, q) == \E i \in DOMAIN p : p[i] < q[i] /\ \A h \in 1 .. i - 1 : p[h] = q[h]
InOrder(s) ==
    LET ranked == {<<Cardinality({q \in s : Before(q, p)}), p>> : p \in s}
    IN [i \in 1 .. Cardinality(s) |-> (CHOOSE r \in ranked : r[1] = i - 1)[2]]

\* Those of the pairs that a table of MaxRows holds: the first to be found.
Held(s) == {c \in s : Cardinality({d \in s : Before(d, c)}) < MaxRows}

\* bz_comp(): an edge <<squared length, smaller beta, larger beta, k, j, theta, swapped>>
\* between every two minutiae that are near each other and not opposite; minutiae are
\* sorted by x, so the first that is too far to the right ends the search.
Edge(t, k, j) ==
    LET dx == t.p[j][1] - t.p[k][1]
        dy == t.p[j][2] - t.p[k][2]
        theta == EdgeAngle(dx, dy)
        bk == IANGLE180(theta - t.p[k][3])
        bj == IANGLE180(theta - t.p[j][3] + 180)
        d == dx * dx + dy * dy
    IN IF bk < bj THEN <<d, bk, bj, k, j, theta, FALSE>> ELSE <<d, bj, bk, k, j, theta, TRUE>>
EdgeKey(e) == <<e[1], e[2], e[3], e[4], e[5]>>
Opposite(p, q) == p[3] = (IF q[3] > 0 THEN q[3] - 180 ELSE q[3] + 180)
Long(p, q) == (q[1] - p[1]) * (q[1] - p[1]) + (q[2] - p[2]) * (q[2] - p[2]) > DM * DM
Ends(p, q) == ~Opposite(p, q) /\ Long(p, q) /\ q[1] - p[1] > DM
bz_comp(t) ==
    LET Compared(k, j) ==
            /\ k < j /\ ~Opposite(t.p[k], t.p[j]) /\ ~Long(t.p[k], t.p[j])
            /\ \A i \in k + 1 .. j - 1 : ~Ends(t.p[k], t.p[i])
        found == Held({c \in (1 .. t.n) \X (1 .. t.n) : Compared(c[1], c[2])})
        keys == InOrder({EdgeKey(Edge(t, c[1], c[2])) : c \in found})
    IN [i \in DOMAIN keys |-> Edge(t, keys[i][4], keys[i][5])]

\* bz_find(), bozorth_probe_init(), bozorth_gallery_init(): the edges up to FD and one
\* more, but FDD of them if there are as many.
bz_find(edges) ==
    LET near == Cardinality({i \in DOMAIN edges : edges[i][1] <= FD})
        lim == IF near + 1 < Len(edges) THEN near + 1 ELSE Len(edges)
    IN Take(edges, IF lim < FDD THEN FDD ELSE lim)

(***************************************************************************)
(* bz_match(): the table of compatible pairs of edges                      *)
(***************************************************************************)

\* A row: <<difference of direction, probe's k, probe's j, gallery's end for k, for j>>.
Turned(e) == IF e[7] THEN e[6] - 180 ELSE e[6]
Row(s, f) ==
    LET delta == IANGLE180(Turned(s) - Turned(f))
    IN IF s[7] # f[7] THEN <<delta, s[4], s[5], f[5], f[4]>> ELSE <<delta, s[4], s[5], f[4], f[5]>>
SameAngles(s, f) == ~Apart(s[2], f[2]) /\ ~Apart(s[3], f[3])
RowKey(r) == <<r[2], r[4], r[3]>>

\* A mutant: an edge that is too short ends the search as one that is too long does.
Starts_Swapped(s, f) == TooFar(s[1], f[1])

\* The search along the gallery's edges ends at the first that is too long.
Starts(s, f) == TooFar(s[1], f[1]) /\ f[1] >= s[1]

\* The pairs of edge k of the probe's web.  Both webs are sorted by length: gallery edges too
\* short for one probe edge are too short for the next (st), and the first that is too long
\* ends the search.
Scanned(k, st) ==
    {j \in st .. Len(web[2]) : \A i \in st .. j : ~Starts(web[1][k], web[2][i])}
Short(k, st) == {j \in Scanned(k, st) : TooFar(web[1][k][1], web[2][j][1])}
Fitting(k, st) ==
    {<<k, j>> : j \in {j \in Scanned(k, st) \ Short(k, st) : SameAngles(web[1][k], web[2][j])}}

\* The table of the pairs found: the rows in order, those of equal keys as they were found.
RowOf(k, j) == Row(web[1][k], web[2][j])
PairKey(c) == LET r == RowKey(RowOf(c[1], c[2])) IN <<r[1], r[2], r[3], c[1], c[2]>>
Table(pairs) ==
    LET keys == InOrder({PairKey(c) : c \in Held(pairs)})
    IN [i \in DOMAIN keys |-> RowOf(keys[i][4], keys[i][5])]

(***************************************************************************)
(* bz_sift()                                                               *)
(***************************************************************************)

\* The work of bz_match_score(): tq and rq pair the minutiae of the two templates; qq is
\* the queue of probe minutiae, queued those with a place in it (zz); y the rows of the
\* present path; sc and rk mark rows with the number of a path (ftt); groups are minutiae
\* with several partners, dw of them chosen for this path.  k is the row the paths begin
\* with, kx the present row, kq the last that starts as k does, j the place in the queue.
NoPairs == [p \in Points |-> 0]
Fresh(np, size) ==
    [np |-> np, k |-> 1, kx |-> 1, kq |-> 0, j |-> 0, ftt |-> 0, turn |-> 0, dw |-> 0, over |-> FALSE,
     sc |-> [r \in 1 .. size |-> 0], rk |-> [r \in 1 .. size |-> 0], y |-> <<>>, qq |-> <<>>, queued |-> {},
     tq |-> NoPairs, rq |-> NoPairs, groups |-> <<>>]

\* A row joins the path once.
Joins(v, r) ==
    IF v.sc[r] = v.ftt THEN v
    ELSE [v EXCEPT !.y = Append(@, r), !.rk[r] = v.sc[r], !.sc[r] = v.ftt]
Enqueue(v, kz) ==
    IF Len(v.qq) >= QQ_SIZE THEN [v EXCEPT !.over = TRUE]
    ELSE [v EXCEPT !.qq = Append(@, kz), !.queued = @ \cup {kz}]

\* A minutia that has the partner held would also match other: the alternative is noted.
Alternative(v, side, pt, held, other) ==
    LET old == {b \in DOMAIN v.groups : v.groups[b].side = side /\ v.groups[b].pt = pt}
        all == IF old # {} THEN v.groups
               ELSE Append(v.groups, [side |-> side, pt |-> pt, alts |-> <<held>>, pick |-> 1])
        b == IF old # {} THEN CHOOSE b \in old : TRUE ELSE Len(all)
    IN IF held = 0 THEN v
       ELSE IF other \in Range(all[b].alts) THEN [v EXCEPT !.groups = all]
       ELSE [v EXCEPT !.groups = [all EXCEPT ![b].alts = Append(@, other)]]

\* A mutant: only the probe's side of the pairing is looked at.
Unpaired_OneSided(v, kz, l) == v.tq[kz] = 0

\* Neither of the two has a partner yet.
Unpaired(v, kz, l) == v.tq[kz] = 0 /\ v.rq[l] = 0

\* The two are each other's partners.
Paired(v, kz, l) == v.tq[kz] = l

\* A mutant: the limit is one too high.
GroupsFull_OffByOne(v) == Len(v.groups) > WWIM

\* There is room for no more minutiae with alternatives (a row may note two).
GroupsFull(v) == Len(v.groups) >= WWIM

\* Row r leads to probe minutia kz and gallery minutia l: they are paired, or are already,
\* or are noted as alternatives.  (Whether a paired minutia is queued again is decided by
\* the place of the row, not of the minutia.)
bz_sift(v, r, kz, l) ==
    LET n == v.tq[kz]
        t == v.rq[l]
    IN CASE v.over -> v
         [] ~v.over /\ Unpaired(v, kz, l) ->
              LET q == Enqueue(Joins(v, r), kz)
              IN IF q.over THEN q ELSE [q EXCEPT !.tq[kz] = l, !.rq[l] = kz]
         [] ~v.over /\ ~Unpaired(v, kz, l) /\ Paired(v, kz, l) ->
              IF v.sc[r] = v.ftt THEN v
              ELSE LET q == IF r \in v.queued THEN v ELSE Enqueue(v, kz)
                   IN IF q.over THEN q ELSE Joins(q, r)
         [] OTHER ->
              IF GroupsFull(v) THEN v
              ELSE Alternative(Alternative(v, "probe", kz, n, l), "gallery", l, t, kz)

(***************************************************************************)
(* One path: bz_match_score() for the row k                                *)
(***************************************************************************)

\* The table as the code reads it: beyond this comparison's rows are those of an earlier
\* one, then zeros.
At(i) == IF i \in DOMAIN colp THEN colp[i] ELSE <<0, 0, 0, 0, 0>>
SameStart(i, h) == At(i)[2] = At(h)[2] /\ At(i)[4] = At(h)[4]

\* Both minutiae a row ends at, and both it starts from.
SiftEnds(v) == bz_sift(v, v.kx, At(v.kx)[3], At(v.kx)[5])
SiftStarts(v, i) == bz_sift([v EXCEPT !.kx = i], i, At(i)[2], At(i)[4])

\* A path begins at row k, with that row's probe minutia in the queue.
Begin(v) == [v EXCEPT !.ftt = @ + 1, !.y = <<>>, !.qq = <<v.qq[1]>>, !.kx = v.k]

\* The next minutia of the queue, whose rows are looked for behind kq.
NextEnd(v) == [v EXCEPT !.j = @ + 1, !.kx = v.kq]

\* Later rows that end at the pair of that minutia and start from neither minutia of row k.
Backward ==
    LET p == w.qq[w.j]
    IN {i \in w.kx + 1 .. w.np : /\ At(i)[3] = p /\ At(i)[5] = w.tq[p]
                                /\ At(i)[2] # At(w.k)[2] /\ At(i)[4] # At(w.k)[4]}

\* Rows that start there.
Onward ==
    LET p == w.qq[w.j] IN {i \in 1 .. w.np : At(i)[2] = p /\ At(i)[4] = w.tq[p]}
First(rows) == {i \in rows : \A h \in rows : i <= h}

(***************************************************************************)
(* Clusters                                                                *)
(***************************************************************************)

\* The directions of the rows of the path, and the places of those that agree with the mean.
Directions == [i \in DOMAIN w.y |-> At(w.y[i])[1]]
Agreeing ==
    LET mean == MeanAngle(Directions, DOMAIN w.y)
    IN {i \in DOMAIN w.y : Len(w.y) >= MSTR => ~Apart(Directions[i], mean)}

\* A path of which MSTR rows at least, those at the places K, agree in direction is a
\* cluster: its size, the total with the later clusters compatible with it, those, its
\* direction, the mean start points and the minutiae of both templates.
Cluster(K, probe, gallery) ==
    LET Mean(f(_)) == Total([i \in DOMAIN w.y |-> f(At(w.y[i]))], K) \div Cardinality(K)
    IN [size |-> Cardinality(K), total |-> Cardinality(K), with |-> {}, angle |-> MeanAngle(Directions, K),
        px |-> Mean(LAMBDA r : probe.p[r[2]][1]), py |-> Mean(LAMBDA r : probe.p[r[2]][2]),
        gx |-> Mean(LAMBDA r : gallery.p[r[4]][1]), gy |-> Mean(LAMBDA r : gallery.p[r[4]][2]),
        ends |-> [s \in {2, 4} |-> UNION {{At(w.y[i])[s], At(w.y[i])[s + 1]} : i \in K}]]

Disjoint(c, e) == \A s \in {2, 4} : c.ends[s] \cap e.ends[s] = {}

\* Two clusters are compatible when they agree in direction, distance and heading and have
\* no minutia in common.
Compatible(c, e) ==
    LET dx == c.px - e.px   dy == c.py - e.py
        gx == c.gx - e.gx   gy == c.gy - e.gy
    IN /\ ~Apart(c.angle, e.angle)
       /\ ~TooFar(dx * dx + dy * dy, gx * gx + gy * gy)
       /\ ~Apart(MeanAngle(<<c.angle, e.angle>>, {1, 2}), IANGLE180(Heading(dx, dy) - Heading(gx, gy)))
       /\ Disjoint(c, e)

\* Each earlier cluster with c, if they are compatible.
Joined(c) ==
    [i \in DOMAIN clusters |->
        IF Compatible(c, clusters[i])
        THEN [clusters[i] EXCEPT !.total = @ + c.size, !.with = @ \cup {Len(clusters) + 1}]
        ELSE clusters[i]]

\* A path that is too short frees its rows for other paths.
FreeRows(v, K) ==
    [v EXCEPT !.ftt = @ - 1,
              !.sc = [r \in DOMAIN @ |-> IF \A i \in K : v.y[i] # r THEN @[r]
                                       ELSE IF v.rk[r] = 0 THEN -1 ELSE v.rk[r]]]

(***************************************************************************)
(* The next choice of alternatives                                         *)
(***************************************************************************)

ProbeEnd(g) == IF g.side = "probe" THEN g.pt ELSE g.alts[g.pick]
GalleryEnd(g) == IF g.side = "probe" THEN g.alts[g.pick] ELSE g.pt

\* Probe minutiae and their partners are single again.
Release(v, ps) ==
    LET gone == {p \in ps : v.tq[p] # 0}
    IN [v EXCEPT !.tq = [p \in DOMAIN @ |-> IF p \in gone THEN 0 ELSE @[p]],
                 !.rq = [q \in DOMAIN @ |-> IF \E p \in gone : v.tq[p] = q THEN 0 ELSE @[q]]]

\* A mutant: the minutiae of the path stay paired.
Undo_KeepsQueue(v) == [Release(v, {ProbeEnd(v.groups[i]) : i \in 1 .. v.dw}) EXCEPT !.turn = Len(v.groups)]

\* The pairs of the path and of the choice it was made under are undone.
Undo(v) ==
    LET queue == {p \in Range(Tail(v.qq)) : v.tq[p] # 0}
        v1 == [Release(v, queue) EXCEPT !.queued = @ \ queue]
    IN [Release(v1, {ProbeEnd(v1.groups[i]) : i \in 1 .. v1.dw}) EXCEPT !.turn = Len(v1.groups)]

\* All the choices are made, from the last group to the first.  One contradicts the pairs
\* that are left, or a choice made before it.
Clash(v, i) ==
    LET p == ProbeEnd(v.groups[i])
        q == GalleryEnd(v.groups[i])
    IN \/ v.tq[p] \notin {0, q} \/ v.rq[q] \notin {0, p}
       \/ \E h \in i + 1 .. Len(v.groups) : (ProbeEnd(v.groups[h]) = p) # (GalleryEnd(v.groups[h]) = q)
Chosen(v) == \A i \in DOMAIN v.groups : ~Clash(v, i)

\* The pairs of all choices are made, ...
Choose(v) ==
    LET Picking(p) == {i \in DOMAIN v.groups : ProbeEnd(v.groups[i]) = p}
        Picked(q) == {i \in DOMAIN v.groups : GalleryEnd(v.groups[i]) = q}
    IN [v EXCEPT !.dw = Len(v.groups),
          !.tq = [p \in DOMAIN @ |-> IF Picking(p) = {} THEN @[p]
                                   ELSE GalleryEnd(v.groups[CHOOSE i \in Picking(p) : TRUE])],
          !.rq = [q \in DOMAIN @ |-> IF Picked(q) = {} THEN @[q]
                                   ELSE ProbeEnd(v.groups[CHOOSE i \in Picked(q) : TRUE])]]

\* ... or those made before the first clash are undone.
Abandon(v) ==
    LET n == Len(v.groups)
        made == {i \in DOMAIN v.groups : \A h \in i .. n : ~Clash(v, h)}
    IN [Release(v, {ProbeEnd(v.groups[i]) : i \in made}) EXCEPT !.turn = n]

(***************************************************************************)
(* bz_final_loop(): the best set of compatible clusters                    *)
(***************************************************************************)

\* A mutant: clusters that are compatible with the first only are added together.
BestOf_Sum(cs, i) == cs[i].total

\* Of the sets with cluster i and later ones it is compatible with: of those left, each is
\* tried as the next, after which those remain that it is compatible with too.
BestOf(cs, i) ==
    LET best[c \in (DOMAIN cs) \X SUBSET DOMAIN cs] ==
            cs[c[1]].size + Max({0} \cup {best[<<j, c[2] \cap cs[j].with>>] : j \in c[2]})
    IN best[<<i, cs[i].with>>]

\* Each cluster with the later ones it is compatible with, unless their total cannot beat
\* what was found.
bz_final_loop(cs) ==
    LET best[n \in 0 .. Len(cs)] ==
            IF n = 0 THEN 0
            ELSE LET b == best[n - 1] IN IF b >= cs[n].total THEN b ELSE Max({b, BestOf(cs, n)})
    IN best[Len(cs)]

(***************************************************************************)
(* vfs5011_match_score() for one comparison after the other                *)
(***************************************************************************)
Init ==
    /\ todo \in Jobs /\ scores = <<>> /\ web = <<<<>>, <<>>>> /\ colp = <<>> /\ step = "comp"
    /\ pairing = [k |-> 1, st |-> 1, pairs |-> {}] /\ w = Fresh(0, 0) /\ clusters = <<>> /\ score = 0

Probe == todo[1][1]
Gallery == todo[1][2]
To(s) == step' = s
traversal == <<w, clusters, score>>

Compare ==
    /\ step = "comp" /\ todo # <<>> /\ To("match")
    /\ web' = <<bz_find(bz_comp(Probe)), bz_find(bz_comp(Gallery))>>
    /\ pairing' = [k |-> 1, st |-> 1, pairs |-> {}]
    /\ UNCHANGED <<todo, scores, colp, traversal>>

\* One edge of the probe, the last of which is not looked at.
MatchEdge ==
    /\ step = "match" /\ pairing.k < Len(web[1])
    /\ LET k == pairing.k
           st == pairing.st
       IN \E next \in st .. Len(web[2]) + 1 :
              /\ \A j \in Short(k, st) : j < next
              /\ next = st \/ next - 1 \in Short(k, st)
              /\ pairing' = [k |-> k + 1, st |-> next, pairs |-> pairing.pairs \cup Fitting(k, st)]
    /\ UNCHANGED <<todo, scores, web, colp, traversal, step>>

\* bz_match() writes the first rows of the table and leaves the others.
Over(rows) == rows \o SubSeq(colp, Len(rows) + 1, Len(colp))

Match ==
    /\ step = "match" /\ pairing.k >= Len(web[1])
    /\ LET rows == Table(pairing.pairs)
       IN colp' = Over(rows) /\ w' = Fresh(Len(rows), Len(Over(rows)))
    /\ clusters' = <<>> /\ score' = 0
    /\ To(IF Probe.n < MinMinutiae \/ Gallery.n < MinMinutiae THEN "end" ELSE "pair")
    /\ UNCHANGED <<todo, scores, web, pairing>>

Rest == UNCHANGED <<todo, scores, web, pairing, colp>>
Traverse == Rest /\ UNCHANGED <<clusters, score>>

\* Every row but the last may begin paths, unless a path has it already.
NextRow ==
    /\ step = "pair"
    /\ \/ w.k >= w.np /\ To("final") /\ w' = w
       \/ w.k < w.np /\ w.sc[w.k] # 0 /\ To("pair") /\ w' = [w EXCEPT !.k = @ + 1]
       \/ w.k < w.np /\ w.sc[w.k] = 0 /\ To("gather")
          /\ LET r == At(w.k)
             IN w' = Begin([w EXCEPT !.qq = <<r[2]>>, !.rq[r[4]] = r[2], !.tq[r[2]] = r[4]])
    /\ Traverse

\* The rows that start where row k does, row k first.
GatherRow ==
    /\ step = "gather"
    /\ LET v == SiftEnds(w)
       IN \/ v.over /\ To("end") /\ w' = v
          \/ ~v.over /\ SameStart(w.kx + 1, w.k) /\ To("gather") /\ w' = [v EXCEPT !.kx = @ + 1]
          \/ ~v.over /\ ~SameStart(w.kx + 1, w.k) /\ To("back") /\ w' = [v EXCEPT !.kq = w.kx, !.j = 2]
    /\ Traverse

\* For the next minutia in the queue: the later rows that end at its pair, taken backwards, ...
FollowBack ==
    /\ step = "back" /\ w.j <= Len(w.qq)
    /\ \E i \in First(Backward) : w' = SiftStarts(w, i)
    /\ To(IF w'.over THEN "end" ELSE "back")
    /\ Traverse

\* ... and those that start there, if there is one behind kq.
FindRun ==
    /\ step = "back" /\ w.j <= Len(w.qq) /\ Backward = {}
    /\ \/ (\A i \in Onward : i <= w.kq) /\ To("back") /\ w' = NextEnd(w)
       \/ ~(\A i \in Onward : i <= w.kq) /\ To("run") /\ \E i \in First(Onward) : w' = [w EXCEPT !.kx = i]
    /\ Traverse
FollowRun ==
    /\ step = "run"
    /\ LET v == SiftEnds(w)
       IN \/ v.over /\ To("end") /\ w' = v
          \/ ~v.over /\ SameStart(w.kx + 1, w.kx) /\ To("run") /\ w' = [v EXCEPT !.kx = @ + 1]
          \/ ~v.over /\ ~SameStart(w.kx + 1, w.kx) /\ To("back") /\ w' = NextEnd(v)
    /\ Traverse

\* The queue is done: a path of MSTR rows that agree is a cluster.
JudgePath ==
    /\ step = "back" /\ w.j > Len(w.qq) /\ To("undo")
    /\ \/ /\ Cardinality(Agreeing) < MSTR /\ w' = FreeRows(w, Agreeing) /\ UNCHANGED <<clusters, score>>
       \/ /\ Cardinality(Agreeing) >= MSTR /\ w' = w
          /\ LET c == Cluster(Agreeing, Probe, Gallery)
             IN /\ clusters' = Append(Joined(c), c)
                /\ score' = Max({score, c.size} \cup {Joined(c)[i].total : i \in DOMAIN clusters})
    /\ Rest
UndoPath == step = "undo" /\ To("turn") /\ w' = Undo(w) /\ Traverse

\* Like an odometer: the last group that has one takes its next alternative.
Turn ==
    /\ step = "turn"
    /\ LET full == Len(clusters) > MaxGroups
           g == w.groups[w.turn]
           v == [w EXCEPT !.groups[w.turn].pick = @ + 1]
       IN \/ w.turn = 0 /\ To(IF full THEN "final" ELSE "release") /\ w' = w
          \/ w.turn > 0 /\ g.pick < Len(g.alts) /\ ~Chosen(v) /\ To("turn") /\ w' = Abandon(v)
          \/ w.turn > 0 /\ g.pick < Len(g.alts) /\ Chosen(v) /\ ~full /\ To("gather") /\ w' = Begin(Choose(v))
          \/ w.turn > 0 /\ g.pick < Len(g.alts) /\ Chosen(v) /\ full /\ To("final") /\ w' = Choose(v)
          \/ w.turn > 0 /\ g.pick >= Len(g.alts) /\ To("turn")
             /\ w' = [w EXCEPT !.groups[w.turn].pick = 1, !.turn = @ - 1]
    /\ Traverse
ReleaseRow ==
    /\ step = "release" /\ To("pair")
    /\ w' = [Release(w, {w.qq[1]}) EXCEPT !.k = @ + 1, !.groups = <<>>, !.dw = 0]
    /\ Traverse
FinalLoop ==
    /\ step = "final" /\ To("end")
    /\ score' = IF score < MMSTR THEN score ELSE bz_final_loop(clusters)
    /\ Rest /\ UNCHANGED <<w, clusters>>
Report ==
    /\ step = "end" /\ To("comp")
    /\ scores' = Append(scores, IF w.over THEN QQ_SIZE ELSE score)
    /\ todo' = Tail(todo) /\ UNCHANGED <<web, pairing, colp, traversal>>

Next ==
    \/ Compare \/ MatchEdge \/ Match \/ NextRow \/ GatherRow \/ FollowBack \/ FindRun \/ FollowRun
    \/ JudgePath \/ UndoPath \/ Turn \/ ReleaseRow \/ FinalLoop \/ Report

Spec == Init /\ [][Next]_vars
=============================================================================
