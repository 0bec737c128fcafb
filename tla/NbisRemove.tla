---------------------------- MODULE NbisRemove ----------------------------
(***************************************************************************)
(* Removing false minutiae (remove.c), step by step in the order of        *)
(* remove_false_minutia_V2.  Filling islands and lakes edits the image, so *)
(* minutiae found earlier may be stale in every later step.                *)
(***************************************************************************)
EXTENDS NbisMinutiae

ASSUME OverlapAssumption == Lfs.max_overlap_dist \in Nat

\* The opposing-direction threshold of the three pairwise tests.
MinDeltaDir == 3 * (NumDirs \div 4) - 1

(***************************************************************************)
(* The pairwise steps walk the list with two indices f < g and collect the *)
(* indices to remove in t.rm; t.b is the image.  Each has its own test of  *)
(* a pair, which returns [verdict, b].                                     *)
(***************************************************************************)
TestIslandLake(b, m1, m2) ==
    LET Judged(r) ==
            CASE r.ret = LOOP_FOUND -> [verdict |-> "both", b |-> fill_loop(r.c, b)]
              [] r.ret = IGNORE -> [verdict |-> "first", b |-> b]
              [] OTHER -> [verdict |-> "keep", b |-> b]
    IN IF m1.type # m2.type THEN [verdict |-> "keep", b |-> b]
       ELSE Judged(on_island_lake(m1, m2, Lfs.max_half_loop, b))

TestHook(b, m1, m2) ==
    LET Judged(r) ==
            CASE r = HOOK_FOUND -> [verdict |-> "both", b |-> b]
              [] r = IGNORE -> [verdict |-> "first", b |-> b]
              [] OTHER -> [verdict |-> "keep", b |-> b]
    IN IF m1.type = m2.type THEN [verdict |-> "keep", b |-> b]
       ELSE Judged(on_hook(m1, m2, Lfs.max_hook_len, b))

TestOverlap(b, m1, m2) ==
    LET join == line2direction(m1.p, m2.p)
        delta == Abs(((m1.dir + NumDirs) % (2 * NumDirs)) - join)
        turned == Min({delta, 2 * NumDirs - delta})
    IN IF /\ m1.type = m2.type
          /\ \/ turned <= NumDirs \div 2
             \/ DistanceAtMost(m1.p, m2.p, Lfs.max_overlap_join_dist)
          /\ free_path(m1.p, m2.p, b)
       THEN [verdict |-> "both", b |-> b] ELSE [verdict |-> "keep", b |-> b]

\* Do the two minutiae lie close enough, and point apart enough, to be tested?
Opposed(m1, m2, dist) ==
    /\ DistanceAtMost(m1.p, m2.p, dist)
    /\ closest_dir_dist(m1.dir, m2.dir, 2 * NumDirs) > MinDeltaDir

\* The test of each step, and how far apart its pairs may be.
Test(step, b, m1, m2) ==
    CASE step = "islands" -> TestIslandLake(b, m1, m2)
      [] step = "hooks" -> TestHook(b, m1, m2)
      [] step = "overlaps" -> TestOverlap(b, m1, m2)
\* A mutant: overlaps are looked for over the joining distance only.
Reach_Short(step) ==
    IF step = "overlaps" THEN Lfs.max_overlap_join_dist ELSE Lfs.max_rmtest_dist
Reach(step) ==
    IF step = "overlaps" THEN Lfs.max_overlap_dist ELSE Lfs.max_rmtest_dist

\* The list is taken to be sorted from top to bottom: the first g too far below
\* f ends the inner loop.  A minutia whose pixel has changed is stale: as f it
\* ends its inner loop, as g it is removed.  (Islands and lakes pass over pairs
\* of different types before they look at the image.)
\* t.on is whether the inner loop goes on.
PairTested(step, t, ms, f, g) ==
    LET m1 == ms[f]
        m2 == ms[g]
        t2 == IF t.b[m2.p] # m2.type THEN [t EXCEPT !.rm = @ \cup {g}] ELSE t
        NextF(u) == [u EXCEPT !.on = FALSE]
        Judged(r) ==
            CASE r.verdict = "both" -> [t2 EXCEPT !.b = r.b, !.rm = @ \cup {f, g}]
              [] r.verdict = "first" -> NextF([t2 EXCEPT !.rm = @ \cup {f}])
              [] r.verdict = "keep" -> t2
    IN IF step = "islands" /\ m1.type # m2.type THEN t
       ELSE IF t.b[m1.p] # m1.type THEN NextF(t)
       ELSE IF g \in t2.rm THEN t2
       ELSE IF m2.p[2] - m1.p[2] > Reach(step) THEN NextF(t2)
       ELSE IF ~Opposed(m1, m2, Reach(step)) THEN t2
       ELSE Judged(Test(step, t2.b, m1, m2))

PairScan(step, t, ms, f) ==
    LET Second(u, g) == IF u.on THEN PairTested(step, u, ms, f, g) ELSE u
    IN InOrder(Second, [t EXCEPT !.on = f \notin t.rm], Steps(f + 1, Len(ms)))

Paired(step, s) ==
    LET First(t, f) == PairScan(step, t, s.ms, f)
        Left(t) == [b |-> t.b, ms |-> Kept(s.ms, t.rm)]
    IN Left(InOrder(First, [b |-> s.b, rm |-> {}, on |-> TRUE], Steps(1, Len(s.ms) - 1)))

remove_islands_and_lakes(s) == Paired("islands", s)
remove_hooks(s) == Paired("hooks", s)
remove_overlaps(s) == Paired("overlaps", s)

(***************************************************************************)
(* The other steps judge one minutia at a time.                            *)
(***************************************************************************)
Filtered(s, Keep(_)) == [s EXCEPT !.ms = Kept(@, {i \in DOMAIN @ : ~Keep(@[i])})]

remove_holes(s) ==
    Filtered(s, LAMBDA m : \/ m.type # BIFURCATION
                           \/ on_loop(m, Lfs.small_loop_len, s.b) = OK)

\* remove_pointing_invblock_V2: the block trans_dir_pix pixels ahead.
Ahead(m) ==
    <<m.p[1] - sround(SinOf(m.dir) * Lfs.trans_dir_pix, 1000),
      m.p[2] + sround(CosOf(m.dir) * Lfs.trans_dir_pix, 1000)>>
Clamped(k) == <<Min({MW - 1, Max({0, k[1]})}), Min({MH - 1, Max({0, k[2]})})>>
remove_pointing_invblock_V2(s, maps) ==
    Filtered(s, LAMBDA m : maps.dir[Clamped(BlockOf(Ahead(m)))] # INVALID_DIR)

num_valid_8nbrs(map, k) ==
    Cardinality({i \in 0 .. 7 : Plus(k, Nbr8[i]) \in Blocks
                                /\ map[Plus(k, Nbr8[i])] >= 0})

\* remove_near_invblock_V2: the neighbour blocks on the side(s) of the block the
\* minutia is near (startblk, endblk), as steps of the neighbourhood.
Side(q) ==
    IF q < Lfs.inv_block_margin THEN -1
    ELSE IF q > BlockSize - Lfs.inv_block_margin - 1 THEN 1 ELSE 0
NearBlocks(m) ==
    LET side == <<Side(m.p[1] % BlockSize), Side(m.p[2] % BlockSize)>>
    IN {Plus(BlockOf(m.p), d) :
          d \in {e \in {0, side[1]} \X {0, side[2]} : e # <<0, 0>>}}
remove_near_invblock_V2(s, maps) ==
    Filtered(s, LAMBDA m :
        \A k \in NearBlocks(m) :
            /\ k \in Blocks
            /\ \/ maps.dir[k] # INVALID_DIR
               \/ num_valid_8nbrs(maps.dir, k) >= Lfs.rm_valid_nbr_min)

(***************************************************************************)
(* remove_or_adjust_side_minutiae_V2: the contour around the minutia,      *)
(* rotated so that the minutia's direction is vertical, must have a single *)
(* minimum, or two with a maximum between; the minutia moves to the lower. *)
(***************************************************************************)
RotatedY(c, dir) ==
    [i \in DOMAIN c |-> sround(c[i].p[1] * SinOf(dir) - c[i].p[2] * CosOf(dir), 1000)]

\* The index on the contour the minutia belongs at; 0 when it is on a side.
TipOf(c, dir) ==
    LET mm == minmaxs(RotatedY(c, dir))
    IN CASE Len(mm) = 1 /\ mm[1].type = -1 -> mm[1].i
         [] Len(mm) = 3 /\ mm[1].type = -1 ->
              IF mm[1].val < mm[3].val THEN mm[1].i ELSE mm[3].i
         [] OTHER -> 0

\* The minutia at the tip of its contour: <<>> when the contour is incomplete,
\* has no tip, or the tip lies in a block without direction.
AtTip(m, c, maps, moved) ==
    LET MovedTo(t) == [f \in DOMAIN m |-> IF f \in moved THEN t[f] ELSE m[f]]
        Checked(m2) == IF maps.dir[BlockOf(m2.p)] = INVALID_DIR THEN <<>> ELSE <<m2>>
        Judged(tip) == IF tip = 0 THEN <<>> ELSE Checked(MovedTo(c.c[tip]))
    IN IF c.ret # OK THEN <<>> ELSE Judged(TipOf(c.c, m.dir))

\* A mutant: the edge pixel stays behind.
Adjusted_PixelOnly(m, b, maps) ==
    AtTip(m, get_centered_contour(PointOf(m), Lfs.side_half_contour, b), maps, {"p"})

\* <<>> removes the minutia, <<m2>> puts m2 in its place.
Adjusted(m, b, maps) ==
    AtTip(m, get_centered_contour(PointOf(m), Lfs.side_half_contour, b), maps, {"p", "e"})

remove_or_adjust_side_minutiae_V2(s, maps) ==
    LET Settled(ms, at) == Kept([i \in DOMAIN ms |-> IF at[i] = <<>> THEN ms[i] ELSE at[i][1]],
                                {i \in DOMAIN ms : at[i] = <<>>})
    IN [s EXCEPT !.ms = Settled(@, [i \in DOMAIN @ |-> Adjusted(@[i], s.b, maps)])]

(***************************************************************************)
(* remove_malformations: the contour followed both ways must run long      *)
(* enough, and must not spread apart around pixels of the other colour.    *)
(***************************************************************************)
Followed(t, n) == t.ret = OK /\ Len(t.c) = n

\* The contours t1 and t2 at their two distances from the minutia.
Parallel(m, t1, t2, b, maps) ==
    LET n1 == Lfs.malformation_steps_1
        n2 == Lfs.malformation_steps_2
        Between(p, q) == LET line == line_points(p, q) IN {b[line[i]] : i \in DOMAIN line}
        Close(a2, b2) ==
            /\ a2 # 0 /\ b2 # 0
            /\ maps.flow[BlockOf(m.p)] =>
                  b2 <= Lfs.max_malformation_dist * Lfs.max_malformation_dist
            \* min_malformation_ratio is 2: the distances, not their squares.
            /\ Between(t1[n2].p, t2[n2].p) # {m.type} => b2 <= 4 * a2
    IN Close(squared_distance(t1[n1].p, t2[n1].p), squared_distance(t1[n2].p, t2[n2].p))

WellFormed(m, b, maps) ==
    LET n == Lfs.malformation_steps_2
        Both(t1, t2) == /\ Followed(t1, n) /\ Followed(t2, n)
                        /\ Parallel(m, t1.c, t2.c, b, maps)
    IN Both(trace_contour(PointOf(m), n, m.p, COUNTER_CLOCKWISE, b),
            trace_contour(PointOf(m), n, m.p, CLOCKWISE, b))

remove_malformations(s, maps) ==
    Filtered(s, LAMBDA m : WellFormed(m, s.b, maps))

(***************************************************************************)
(* remove_pores_V2: in blocks of low flow or high curvature, a point R     *)
(* ahead of the minutia that is not on its feature must not be closed in   *)
(* by the contours to its left (P) and right (Q).  The code reads R        *)
(* without checking that it is inside the image.                           *)
(***************************************************************************)
PorePoint(m) ==
    <<sround(1000 * m.p[1] - SinOf(m.dir) * Lfs.pores_trans_r, 1000),
      sround(1000 * m.p[2] + CosOf(m.dir) * Lfs.pores_trans_r, 1000)>>

PoreSuspect(m, maps) ==
    LET k == BlockOf(m.p)
    IN (maps.flow[k] \/ maps.curve[k]) /\ maps.dir[k] >= 0

\* The contour on one side of R: the point fwd steps along it in the sense clock
\* and the one bwd steps the other way; <<>> when there is no such contour.
FollowSide(m, d, clock, b) ==
    LET other == IF clock = CLOCKWISE THEN COUNTER_CLOCKWISE ELSE CLOCKWISE
        Ends(f, g) ==
            IF Followed(f, Lfs.pores_steps_fwd) /\ Followed(g, Lfs.pores_steps_bwd)
            THEN <<[fwd |-> Last(f.c).p, bwd |-> Last(g.c).p]>> ELSE <<>>
        From(c) == Ends(trace_contour(c, Lfs.pores_steps_fwd, c.p, clock, b),
                        trace_contour(c, Lfs.pores_steps_bwd, c.p, other, b))
        Found(hit) == IF hit = <<>> THEN <<>> ELSE From(hit[1])
    IN Found(search_in_direction(m.type, PorePoint(m), d, Lfs.pores_perp_steps, b))

PoreLeft(m, b) ==      \* P, then B and D
    FollowSide(m, <<-CosOf(m.dir), -SinOf(m.dir)>>, COUNTER_CLOCKWISE, b)
PoreRight(m, b) ==     \* Q, then A and C
    FollowSide(m, <<CosOf(m.dir), SinOf(m.dir)>>, CLOCKWISE, b)

NotPore(m, b) ==
    LET Apart(ab2, cd2) == cd2 > 0 => 4 * ab2 > 9 * cd2    \* pores_max_ratio is 2.25
        Open(l, r) ==
            /\ l # <<>> /\ r # <<>>
            /\ Apart(squared_distance(r[1].fwd, l[1].fwd),
                     squared_distance(r[1].bwd, l[1].bwd))
    IN \/ b[PorePoint(m)] = m.type
       \/ Open(PoreLeft(m, b), PoreRight(m, b))

remove_pores_V2(s, maps) ==
    Filtered(s, LAMBDA m : PoreSuspect(m, maps) => NotPore(m, s.b))
============================================================================
