---------------------------- MODULE NbisRidges ----------------------------
(***************************************************************************)
(* Ridge counts between a minutia and its nearest neighbours (ridges.c).   *)
(* Counting works on the list sorted by sort_minutiae_x_y.                 *)
(***************************************************************************)
EXTENDS NbisRemove

ASSUME NeighborAssumption == Lfs.max_nbrs \in Nat \ {0}

\* insert_neighbor: nbrs is a sequence of [i, d] by growing distance; a full
\* list loses its last entry.
insert_neighbor(nbrs, pos, nbr) ==
    SubSeq(InsertAt(nbrs, pos, nbr), 1, Min({Len(nbrs) + 1, Lfs.max_nbrs}))

\* find_incr_position_dbl: before the first larger distance.
find_incr_position(nbrs, d) ==
    Min({Len(nbrs) + 1} \cup {i \in DOMAIN nbrs : d < nbrs[i].d})

\* A mutant: a full list takes no closer neighbour.
update_nbr_dists_FirstFound(nbrs, ms, first, second) ==
    LET d == squared_distance(ms[first].p, ms[second].p)
    IN IF Len(nbrs) < Lfs.max_nbrs
       THEN insert_neighbor(nbrs, find_incr_position(nbrs, d), [i |-> second, d |-> d])
       ELSE nbrs
update_nbr_dists(nbrs, ms, first, second) ==
    LET d == squared_distance(ms[first].p, ms[second].p)
    IN IF Len(nbrs) < Lfs.max_nbrs \/ d < nbrs[Lfs.max_nbrs].d
       THEN insert_neighbor(nbrs, find_incr_position(nbrs, d), [i |-> second, d |-> d])
       ELSE nbrs

\* find_neighbors: the list is taken to be sorted from left to right, so a full
\* list and a column too far away end the search.
find_neighbors(ms, first) ==
    LET WithinReach(nbrs, second) ==
            LET dx == ms[second].p[1] - ms[first].p[1]
            IN Len(nbrs) < Lfs.max_nbrs \/ dx * dx < nbrs[Lfs.max_nbrs].d
        Second(t, second) ==
            IF ~t.on \/ ~WithinReach(t.nbrs, second) THEN [t EXCEPT !.on = FALSE]
            ELSE [t EXCEPT !.nbrs = update_nbr_dists(@, ms, first, second)]
    IN InOrder(Second, [nbrs |-> <<>>, on |-> TRUE], Steps(first + 1, Len(ms))).nbrs

\* sort_neighbors: stable, by the angle of the joining line.
sort_neighbors(nbrs, ms, first) ==
    LET Theta(j) == LET q == ms[nbrs[j].i].p
                        p == ms[first].p
                    IN angle2line(<<q[2], q[1]>>, <<p[2], p[1]>>)
        Smaller(j) == {k \in DOMAIN nbrs : AngleBefore(Theta(k), Theta(j))}
    IN Listed([j \in DOMAIN nbrs |-> nbrs[j].i],
              {<<Cardinality(Smaller(j)), j>> : j \in DOMAIN nbrs})

\* find_transition: the first position after i where the line goes from pix1 to
\* pix2, 0 when there is none.
find_transition(line, i, pix1, pix2, b) ==
    LET At == {j \in i + 1 .. Len(line) : b[line[j - 1]] = pix1 /\ b[line[j]] = pix2}
    IN IF At = {} THEN 0 ELSE Min(At)

\* validate_ridge_crossing: neither way round the ridge's far edge may the
\* contour come back to the pixel before the ridge.
validate_ridge_crossing(line, start, end, b) ==
    LET c == fix_edge_pixel_pair([p |-> line[end], e |-> line[end - 1]], b)
        Ret(clock) == trace_contour(c, Lfs.max_ridge_steps, line[start - 1], clock, b).ret
    IN Ret(CLOCKWISE) = OK /\ Ret(COUNTER_CLOCKWISE) = OK


\* ridge_count: from the first pixel of the line that differs from its start.
ridge_count(p, q, b) ==
    LET line == line_points(p, q)
        Changed == {i \in DOMAIN line : b[line[i]] # b[p]}
        count[i \in DOMAIN line] ==
            LET start == find_transition(line, i, 0, 1, b)
                end == find_transition(line, start, 1, 0, b)
            IN IF start = 0 \/ end = 0 THEN 0
               ELSE (IF validate_ridge_crossing(line, start, end, b) THEN 1 ELSE 0) + count[end]
    IN IF p = q \/ Changed = {} THEN 0 ELSE count[Min(Changed)]

\* count_minutia_ridges and count_minutiae_ridges: every minutia but the last.
count_minutia_ridges(ms, first, b) ==
    LET nbrs == sort_neighbors(find_neighbors(ms, first), ms, first)
    IN [j \in DOMAIN nbrs |->
          [i |-> nbrs[j], ridges |-> ridge_count(ms[first].p, ms[nbrs[j]].p, b)]]
Ordered(ms) == rm_dup_minutiae(sort_minutiae_x_y(ms))
count_minutiae_ridges(ms, b) ==
    [i \in 1 .. Len(ms) - 1 |-> count_minutia_ridges(ms, i, b)]
============================================================================
