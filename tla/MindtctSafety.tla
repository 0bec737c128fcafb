--------------------------- MODULE MindtctSafety ---------------------------
(***************************************************************************)
(* What minutiae detection promises at the end of each of its steps.       *)
(***************************************************************************)
EXTENDS Mindtct

StepOrder == <<"initial", "morph", "incon1", "smooth1", "interpolate", "incon2", "smooth2",
               "margin", "binarize", "scan_h", "scan_v", "sort", "islands", "holes",
               "pointing", "near", "side", "hooks", "overlaps", "malformations", "pores",
               "ridges", "quality", "template", "done">>

\* Has the step that leads to st been taken?
Reached(st) ==
    \E i, j \in DOMAIN StepOrder : StepOrder[i] = st /\ StepOrder[j] = step /\ j >= i

Degrees == -179 .. 180

\* Directions are a direction or INVALID_DIR after every refinement of the map,
\* the interpolated mean of direction numbers included; every minutia the scan,
\* the high-curvature adjustment and the side step leave behind lies in the
\* image; the template holds at most MaxFileMinutiae rows, inside the image
\* (y counted from the bottom), with angles in the range bozorth3 computes with.
TypeOK ==
    /\ step \in {StepOrder[i] : i \in DOMAIN StepOrder}
    /\ maps.dir \in [Blocks -> INVALID_DIR .. NumDirs - 1]
    /\ maps.contrast \in [Blocks -> BOOLEAN]
    /\ maps.flow \in [Blocks -> BOOLEAN] /\ maps.curve \in [Blocks -> BOOLEAN]
    /\ s.b \in Images
    /\ \A i \in DOMAIN s.ms :
          /\ s.ms[i].p \in Pixels /\ s.ms[i].e \in Pixels
          /\ s.ms[i].dir \in 0 .. 2 * NumDirs - 1
    /\ Len(xyt) <= MaxFileMinutiae
    /\ \A i \in DOMAIN xyt : /\ xyt[i][1] \in 0 .. W - 1 /\ xyt[i][2] \in 1 .. H
                             /\ xyt[i][3] \in Degrees

Edge4(m) == Abs(m.p[1] - m.e[1]) + Abs(m.p[2] - m.e[2]) = 1

\* The side step moves two minutiae of one contour to the same tip, and duplicates go
\* only where sorting brings them next to each other.  Still no place is left twice in
\* the list the template is made from, as long as the image is no higher than wide (see
\* RankXY).
NoPlaceTwice ==
    H <= W /\ Reached("quality") =>
        \A i, j \in DOMAIN s.ms : s.ms[i].p = s.ms[j].p => i = j

\* Scanning and the removal of islands and lakes fill loops of the binary image
\* while minutiae on it are already listed.  Once the side step is over, no
\* listed minutia is stale: its pixel still has the colour of its type, its edge
\* pixel the other one, and the two still touch, which the contour tracing of
\* the steps after it (hooks, malformations, pores) takes for granted.  Nor, when
\* the template is made, is any place in the list twice.
NoStaleMinutiae ==
    /\ Reached("hooks") =>
          \A i \in DOMAIN s.ms : /\ s.b[s.ms[i].p] = s.ms[i].type
                                 /\ s.b[s.ms[i].e] # s.ms[i].type
                                 /\ Edge4(s.ms[i])
    /\ NoPlaceTwice

\* remove_incon_dirs edits the map in place from the centre outwards, so a
\* removal can make a block inconsistent that the same pass has already
\* accepted.  It ends with a map in which no block is left that remove_dir
\* would remove.
StableMap ==
    step \in {"smooth1", "smooth2"} =>
        \A k \in Blocks : maps.dir[k] # INVALID_DIR => ~remove_dir(maps.dir, k)

\* find_neighbors stops at the first column that is too far away, although its
\* list holds squared distances and shifts as closer ones are inserted: the
\* neighbours of a minutia are still the max_nbrs closest of those after it, as
\* long as the image is no higher than wide (see RankXY).
NearestNeighbours ==
    H <= W /\ Reached("quality") =>
        \A i \in DOMAIN nbrs :
            LET mine == {nbrs[i][j].i : j \in DOMAIN nbrs[i]}
                later == i + 1 .. Len(s.ms)
                Dist(j) == squared_distance(s.ms[i].p, s.ms[j].p)
            IN /\ Cardinality(mine) = Min({Lfs.max_nbrs, Cardinality(later)})
               /\ mine \subseteq later
               /\ \A j \in mine, k \in later \ mine : Dist(j) <= Dist(k)

\* remove_overlaps takes the list to be sorted by row and ends its inner loop at
\* the first row too far below, and the side step before it moves minutiae
\* without sorting again.  Even so no pair is left that its own test would
\* remove.
OverlapsRemoved ==
    step = "malformations" =>
        \A i, j \in DOMAIN s.ms :
            (i < j /\ Opposed(s.ms[i], s.ms[j], Lfs.max_overlap_dist))
              => TestOverlap(s.b, s.ms[i], s.ms[j]).verdict # "both"
============================================================================
