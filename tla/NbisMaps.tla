----------------------------- MODULE NbisMaps -----------------------------
(***************************************************************************)
(* From the gray image to the block maps and the binary image (init.c,     *)
(* dft.c, block.c, maps.c, morph.c, binar.c), and the quality of a minutia *)
(* from the maps and the gray image (quality.c).  The gray image is a      *)
(* function on Pixels, the padded one (pdata) on PaddedPixels.  The maps   *)
(* are a record [dir, contrast, flow, curve] of functions on Blocks.       *)
(* Sines are thousandths, as in NbisImage; the powers of the DFT are cut   *)
(* to integers.                                                            *)
(***************************************************************************)
EXTENDS NbisRidges

CONSTANTS
    WaveSine,    \* 1000 * sin(2 * pi * j / windowsize), j \in 0 .. windowsize - 1
    SampleRadius \* radius_pix: the neighbourhood a minutia's gray values are taken from

ASSUME WaveAssumption == DOMAIN WaveSine = 0 .. (Lfs.windowsize - 1)
ASSUME RadiusAssumption == SampleRadius \in Nat

(***************************************************************************)
(* Padding and rotated grids (init.c).                                     *)
(***************************************************************************)
\* sround of (sqrt(n) - m) / 2, the extra reach of a grid turned by 45 degrees.
HalfDiagonal(n, m) == Max({r \in 0 .. n : r = 0 \/ (2 * r - 1 + m) * (2 * r - 1 + m) <= n})

get_max_padding_V2 ==
    LET win == Lfs.windowsize
        gw == Lfs.dirbin_grid_w
        gh == Lfs.dirbin_grid_h
    IN Max({HalfDiagonal(2 * win * win, win) + Lfs.windowoffset,
            HalfDiagonal(gw * gw + gh * gh, 1)})

\* Padded pixels are counted from the image's own origin.
PaddedPixels == (-get_max_padding_V2 .. W - 1 + get_max_padding_V2)
                \X (-get_max_padding_V2 .. H - 1 + get_max_padding_V2)
pad_uchar_image(g) ==
    [p \in PaddedPixels |-> IF p \in Pixels THEN g[p] ELSE Lfs.pad_value]

\* bits_8to6: the two low bits are dropped.
bits_8to6(pdata) == Tabulated([p \in DOMAIN pdata |-> pdata[p] \div 4])

\* init_rotgrids: the offset of cell <<ix, iy>> of a w x h grid turned to dir,
\* from the grid's origin (orig) or from its centre.  Direction 0 is vertical.
RELATIVE2ORIGIN == "origin"
RELATIVE2CENTER == "center"
init_rotgrids(w, h, relative2, dir, ix, iy) ==
    LET cs == CosOf(dir + (NumDirs \div 2))
        sn == SinOf(dir + (NumDirs \div 2))
        x2 == 2 * ix - (w - 1)
        y2 == 2 * iy - (h - 1)
        back == IF relative2 = RELATIVE2ORIGIN THEN 1000 ELSE 0
    IN <<sround(x2 * cs - y2 * sn + back * (w - 1), 2000),
         sround(x2 * sn + y2 * cs + back * (h - 1), 2000)>>

dftgrid == [dir \in 0 .. NumDirs - 1 |->
              [c \in (0 .. Lfs.windowsize - 1) \X (0 .. Lfs.windowsize - 1) |->
                 init_rotgrids(Lfs.windowsize, Lfs.windowsize, RELATIVE2ORIGIN,
                               dir, c[1], c[2])]]
dirbingrid == [dir \in 0 .. NumDirs - 1 |->
                 [c \in (0 .. Lfs.dirbin_grid_w - 1) \X (0 .. Lfs.dirbin_grid_h - 1) |->
                    init_rotgrids(Lfs.dirbin_grid_w, Lfs.dirbin_grid_h, RELATIVE2CENTER,
                                  dir, c[1], c[2])]]

(***************************************************************************)
(* The initial maps (gen_initial_maps).                                    *)
(***************************************************************************)
\* The origin of the window around block k, moved into the image; an image
\* smaller than a window cannot hold it, and the upper limit, raised to the
\* first padded pixel, is applied last.
WindowOrigin(k) ==
    LET At(d, n) == Min({Max({-get_max_padding_V2, n - Lfs.windowsize - 1}),
                         Max({0, block_offsets(k)[d] - Lfs.windowoffset})})
    IN <<At(1, W), At(2, H)>>

\* low_contrast_block: the spread between the two percentiles of the window.
low_contrast_block(pdata, o) ==
    LET n == Lfs.windowsize
        cells == (0 .. n - 1) \X (0 .. n - 1)
        thresh == sround(Lfs.percentile_min_max * (n * n - 1), 100)
        values == {pdata[Plus(o, c)] : c \in cells}
        Below(v) == Cardinality({c \in cells : pdata[Plus(o, c)] <= v})
        Above(v) == Cardinality({c \in cells : pdata[Plus(o, c)] >= v})
    IN Max({v \in values : Above(v) >= thresh})
         - Min({v \in values : Below(v) >= thresh}) < Lfs.min_contrast_delta

sum_rot_block_rows(pdata, o, dir) ==
    Tabulated([iy \in 0 .. Lfs.windowsize - 1 |->
                 FoldFunction(+, 0, [ix \in 0 .. Lfs.windowsize - 1 |->
                                       pdata[Plus(o, dftgrid[dir][<<ix, iy>>])]])])

\* dft_power: wave w has w + 1 periods in the window (g_dft_coefs).
WaveSin(w, j) == WaveSine[(j * (w + 1)) % Lfs.windowsize]
WaveCos(w, j) == WaveSine[(j * (w + 1) + Lfs.windowsize \div 4) % Lfs.windowsize]
dft_power(rowsums, w) ==
    LET c == FoldFunction(+, 0, [j \in DOMAIN rowsums |-> rowsums[j] * WaveCos(w, j)])
        s == FoldFunction(+, 0, [j \in DOMAIN rowsums |-> rowsums[j] * WaveSin(w, j)])
    IN Quot(c, 1000) * Quot(c, 1000) + Quot(s, 1000) * Quot(s, 1000)

Waves == 0 .. Lfs.num_dft_waves - 1
dft_dir_powers(pdata, o) ==
    LET rows == Tabulated([dir \in 0 .. NumDirs - 1 |-> sum_rot_block_rows(pdata, o, dir)])
        Power(w) == [dir \in 0 .. NumDirs - 1 |-> dft_power(rows[dir], w)]
    IN Tabulated([w \in Waves |-> Tabulated(Power(w))])

\* get_max_norm: the first direction of the largest power; pownorm is that
\* power over the mean, max * NumDirs / sum.
MIN_POWER_SUM == 10
get_max_norm(pw) ==
    LET best == Max({pw[d] : d \in DOMAIN pw})
    IN [max |-> best, dir |-> Min({d \in DOMAIN pw : pw[d] = best}),
        sum |-> Max({FoldFunction(+, 0, pw), MIN_POWER_SUM})]

\* dft_power_stats: the waves above the lowest, by falling max * norm.
sort_dft_waves(stats) ==
    LET Key(w) == stats[w].max * ((10 * NumDirs * stats[w].max) \div stats[w].sum)
    IN SortSeq([i \in 1 .. Lfs.num_dft_waves - 1 |-> i],
               LAMBDA v, w : Key(v) > Key(w) \/ (Key(v) = Key(w) /\ v < w))
dft_power_stats(powers) == Tabulated([w \in Waves \ {0} |-> get_max_norm(powers[w])])

primary_dir_test(powers, stats, wis) ==
    LET Passes(i) == LET s == stats[wis[i]]
                     IN /\ s.max > Lfs.powmax_min
                        /\ 100 * NumDirs * s.max > Lfs.pownorm_min100 * s.sum
                        /\ powers[0][s.dir] <= Lfs.powmax_max
        At == {i \in DOMAIN wis : Passes(i)}
    IN IF At = {} THEN INVALID_DIR ELSE stats[wis[Min(At)]].dir

\* secondary_fork_test: one of the two directions fork_interval away, and only
\* one, is strong too.
secondary_fork_test(powers, stats, wis) ==
    LET s == stats[wis[1]]
        Strong(d) == 10 * powers[wis[1]][d] > Lfs.fork_pct_powmax10 * s.max
        rdir == (s.dir + Lfs.fork_interval) % NumDirs
        ldir == (s.dir + NumDirs - Lfs.fork_interval) % NumDirs
    IN IF /\ s.max > Lfs.powmax_min
          /\ 100 * NumDirs * s.max >= Lfs.fork_pownorm_min100 * s.sum
          /\ powers[0][s.dir] <= Lfs.powmax_max
          /\ Strong(ldir) # Strong(rdir)
       THEN s.dir ELSE INVALID_DIR

\* The three initial maps of a block with its window at o.
InitialBlock(pdata, o) ==
    LET Block(dir) == [dir |-> dir, contrast |-> FALSE, flow |-> dir = INVALID_DIR]
        Tested(powers, stats, wis) ==
            LET first == primary_dir_test(powers, stats, wis)
            IN Block(IF first # INVALID_DIR THEN first
                     ELSE secondary_fork_test(powers, stats, wis))
        WithStats(powers, stats) == Tested(powers, stats, sort_dft_waves(stats))
        WithPowers(powers) == WithStats(powers, dft_power_stats(powers))
    IN IF low_contrast_block(pdata, o)
       THEN [dir |-> INVALID_DIR, contrast |-> TRUE, flow |-> FALSE]
       ELSE WithPowers(dft_dir_powers(pdata, o))

gen_initial_maps(pdata) ==
    LET m == Tabulated([o \in {WindowOrigin(k) : k \in Blocks} |-> InitialBlock(pdata, o)])
    IN [dir |-> [k \in Blocks |-> m[WindowOrigin(k)].dir],
        contrast |-> [k \in Blocks |-> m[WindowOrigin(k)].contrast],
        flow |-> [k \in Blocks |-> m[WindowOrigin(k)].flow],
        curve |-> [k \in Blocks |-> FALSE]]

(***************************************************************************)
(* Refining the maps (gen_image_maps): every step but the interpolation    *)
(* works in place, so a block sees what the pass did to the blocks before. *)
(***************************************************************************)
\* dilate_charimage_2 and erode_charimage_2: a 4-neighbour beyond the map does
\* not count.
Nbrs4(k) == {Plus(k, Nbr8[i]) : i \in {0, 2, 4, 6}} \cap Blocks
dilate_charimage_2(map) == [k \in Blocks |-> map[k] \/ \E n \in Nbrs4(k) : map[n]]
erode_charimage_2(map) == [k \in Blocks |-> map[k] /\ \A n \in Nbrs4(k) : map[n]]
morph_TF_map(map) ==
    erode_charimage_2(erode_charimage_2(dilate_charimage_2(dilate_charimage_2(map))))

\* average_8nbr_dir: the neighbours' directions are doubled, so that opposite
\* ends of the half circle agree, and summed as vectors.  The mean vector is strong
\* when its square is at least dir_strength_min (a fifth).
MeanDir(n, c, s) ==
    LET Along(d) == c * CosOf(2 * d) + s * SinOf(2 * d)
        best == {d \in 0 .. NumDirs - 1 : \A e \in 0 .. NumDirs - 1 : Along(d) >= Along(e)}
        strong == n > 0 /\ 5 * (c * c + s * s) >= 1000000 * n * n
    IN [nvalid |-> n, strong |-> strong,
        dir |-> IF ~strong THEN INVALID_DIR
                ELSE IF {0, NumDirs - 1} \subseteq best THEN 0 ELSE Max(best)]
average_8nbr_dir(map, k) ==
    LET nbrs == {i \in 0 .. 7 : /\ Plus(k, Nbr8[i]) \in Blocks
                                /\ map[Plus(k, Nbr8[i])] # INVALID_DIR}
        Sum(Of(_)) == FoldFunction(+, 0, [i \in nbrs |-> Of(2 * map[Plus(k, Nbr8[i])])])
    IN MeanDir(Cardinality(nbrs), Sum(CosOf), Sum(SinOf))

\* remove_dir: too few valid neighbours, or too far from their strong average.
remove_dir(map, k) ==
    LET Against(avr) ==
            \/ avr.nvalid < Lfs.rmv_valid_nbr_min
            \/ /\ avr.strong
               /\ closest_dir_dist(avr.dir, map[k], NumDirs) > Lfs.dir_distance_max
    IN Against(average_8nbr_dir(map, k))

\* The blocks in the order a pass visits them: the centre, then growing boxes
\* around it, each clockwise from its top left corner.
test_top_edge(l, t, r) ==
    LET xs == Steps(Max({l, 0}), Min({r - 1, MW - 1}))
    IN IF t < 0 THEN <<>> ELSE [i \in DOMAIN xs |-> <<xs[i], t>>]
test_right_edge(t, r, b) ==
    LET ys == Steps(Max({t, 0}), Min({b - 1, MH - 1}))
    IN IF r >= MW THEN <<>> ELSE [i \in DOMAIN ys |-> <<r, ys[i]>>]
test_bottom_edge(l, r, b) ==
    LET xs == Reverse(Steps(Max({l - 1, 0}), Min({r, MW - 1})))
    IN IF b >= MH THEN <<>> ELSE [i \in DOMAIN xs |-> <<xs[i], b>>]
test_left_edge(l, t, b) ==
    LET ys == Reverse(Steps(Max({t - 1, 0}), Min({b, MH - 1})))
    IN IF l < 0 THEN <<>> ELSE [i \in DOMAIN ys |-> <<l, ys[i]>>]
BoxOrder(n) ==
    LET l == (MW \div 2) - n
        r == (MW \div 2) + n
        t == (MH \div 2) - n
        b == (MH \div 2) + n
    IN test_top_edge(l, t, r) \o test_right_edge(t, r, b)
         \o test_bottom_edge(l, r, b) \o test_left_edge(l, t, b)
\* A direction that does not agree with those around it is removed.
Reconsider(map, k) ==
    IF map[k] # INVALID_DIR /\ remove_dir(map, k) THEN [map EXCEPT ![k] = INVALID_DIR] ELSE map
ReconsiderBox(map, n) == InOrder(Reconsider, map, BoxOrder(n))
Centre == <<MW \div 2, MH \div 2>>
RemovePass(map) == InOrder(ReconsiderBox, Reconsider(map, Centre), Steps(1, Max({MW, MH})))

\* A mutant: one pass only.
remove_incon_dirs_Once(map) == RemovePass(map)
\* remove_incon_dirs: passes are repeated until one removes nothing.
remove_incon_dirs(map) ==
    LET last == Cardinality(Blocks)
        after[n \in 0 .. last + 1] == IF n = 0 THEN map ELSE RemovePass(after[n - 1])
    IN after[CHOOSE n \in 0 .. last : after[n + 1] = after[n]]

\* smooth_direction_map: row by row.
smooth_direction_map(map, contrast) ==
    LET Smoothed(m, k, avr) ==
            LET enough == IF m[k] # INVALID_DIR THEN Lfs.rmv_valid_nbr_min
                          ELSE Lfs.smth_valid_nbr_min
            IN IF ~contrast[k] /\ avr.strong /\ avr.nvalid >= enough
               THEN [m EXCEPT ![k] = avr.dir] ELSE m
        Visit(m, k) == Smoothed(m, k, average_8nbr_dir(m, k))
        Row(m, y) == InOrder(Visit, m, [x \in 1 .. MW |-> <<x - 1, y>>])
    IN InOrder(Row, map, Steps(0, MH - 1))

\* find_valid_block: the distance to the first valid block from k along step, 0
\* when the map ends or a block of low contrast comes first.
find_valid_block(map, contrast, k, step) ==
    LET At(n) == <<k[1] + n * step[1], k[2] + n * step[2]>>
        Stops == {n \in 1 .. Max({MW, MH}) :
                    At(n) \in Blocks => contrast[At(n)] \/ map[At(n)] >= 0}
        first == Min(Stops)
    IN IF Stops = {} \/ At(first) \notin Blocks \/ contrast[At(first)] THEN 0 ELSE first

\* interpolate_direction_map: an invalid block takes the mean, weighted by
\* nearness, of the valid blocks found above, right, below and left of it.  The
\* mean is taken of the numbers of the directions.
Interpolated(map, contrast, k) ==
    LET Dist(i) == find_valid_block(map, contrast, k, Nbr8[i])
        found == {i \in {0, 2, 4, 6} : Dist(i) > 0}
        DirAt(i) == map[<<k[1] + Dist(i) * Nbr8[i][1], k[2] + Dist(i) * Nbr8[i][2]>>]
        total == FoldFunction(+, 0, [i \in found |-> Dist(i)])
        weights == FoldFunction(+, 0, [i \in found |-> total - Dist(i)])
    IN IF Cardinality(found) < Lfs.min_interpolate_nbrs THEN INVALID_DIR
       ELSE sround(FoldFunction(+, 0, [i \in found |-> DirAt(i) * (total - Dist(i))]),
                   weights)
interpolate_direction_map(map, contrast) ==
    [k \in Blocks |-> IF contrast[k] \/ map[k] # INVALID_DIR THEN map[k]
                      ELSE Interpolated(map, contrast, k)]

set_margin_blocks(map) ==
    [k \in Blocks |-> IF k[1] \in {0, MW - 1} \/ k[2] \in {0, MH - 1}
                      THEN INVALID_DIR ELSE map[k]]

\* vorticity: the turns of direction around k, counted with their sense.
DirOrInvalid(map, k) == IF k \in Blocks THEN map[k] ELSE INVALID_DIR
accum_nbr_vorticity(d1, d2) ==
    IF d1 = d2 \/ d1 < 0 \/ d2 < 0 THEN 0
    ELSE IF (d2 - d1) % NumDirs > NumDirs \div 2 THEN -1 ELSE 1
vorticity(map, k) ==
    FoldFunction(+, 0, [i \in 0 .. 7 |->
        accum_nbr_vorticity(DirOrInvalid(map, Plus(k, Nbr8[i])),
                            DirOrInvalid(map, Plus(k, Nbr8[(i + 1) % 8])))])

curvature(map, k) ==
    Max({-1} \cup {closest_dir_dist(map[k], DirOrInvalid(map, Plus(k, Nbr8[i])), NumDirs)
                     : i \in 0 .. 7})

gen_high_curve_map(map) ==
    [k \in Blocks |->
       LET n == num_valid_8nbrs(map, k)
       IN /\ n > 0
          /\ IF map[k] = INVALID_DIR
             THEN n >= Lfs.vort_valid_nbr_min /\ vorticity(map, k) >= Lfs.highcurv_vorticity_min
             ELSE curvature(map, k) >= Lfs.highcurv_curvature_min]

(***************************************************************************)
(* Binarization (binar.c): a pixel is black (1) when its row of the turned *)
(* grid is darker than the grid's mean; in an invalid block it is white.   *)
(***************************************************************************)
dirbinarize(pdata, p, dir) ==
    LET w == Lfs.dirbin_grid_w
        h == Lfs.dirbin_grid_h
        rows == Tabulated([gy \in 0 .. h - 1 |->
                   FoldFunction(+, 0, [gx \in 0 .. w - 1 |->
                                         pdata[Plus(p, dirbingrid[dir][<<gx, gy>>])]])])
    IN IF rows[sround(h - 1, 2)] * h < FoldFunction(+, 0, rows) THEN 1 ELSE 0

binarize_image_V2(pdata, map) ==
    [p \in Pixels |-> IF map[BlockOf(p)] = INVALID_DIR THEN 0
                      ELSE dirbinarize(pdata, p, map[BlockOf(p)])]

binarize_V2(pdata, map) ==
    LET Fill(b, i) == fill_holes(b)
    IN InOrder(Fill, binarize_image_V2(pdata, map), Steps(1, Lfs.num_fill_holes))

(***************************************************************************)
(* Quality (quality.c).                                                    *)
(***************************************************************************)
NEIGHBOR_DELTA == 2
gen_quality_map(maps) ==
    LET Bad(k) == maps.contrast[k] \/ maps.dir[k] < 0
        Weak(k) == maps.flow[k] \/ maps.curve[k]
        Inner(k) == /\ k[1] \in NEIGHBOR_DELTA .. MW - 1 - NEIGHBOR_DELTA
                    /\ k[2] \in NEIGHBOR_DELTA .. MH - 1 - NEIGHBOR_DELTA
        Around(k) == {n \in Blocks : /\ Abs(n[1] - k[1]) <= NEIGHBOR_DELTA
                                     /\ Abs(n[2] - k[2]) <= NEIGHBOR_DELTA}
        Offset(k) == IF \E n \in Around(k) : Bad(n) THEN -2
                     ELSE IF \E n \in Around(k) : Weak(n) THEN -1 ELSE 0
    IN [k \in Blocks |-> IF Bad(k) THEN 0
                         ELSE IF ~Inner(k) THEN 1
                         ELSE (IF Weak(k) THEN 3 ELSE 4) + Offset(k)]

\* get_neighborhood_stats: mean and standard deviation, both cut to integers;
\* zero when the neighbourhood leaves the image.
get_neighborhood_stats(m, g) ==
    LET r == SampleRadius
        around == {Plus(m.p, d) : d \in (-r .. r) \X (-r .. r)}
        n == Cardinality(around)
        sumX == FoldFunction(+, 0, [p \in around |-> g[p]])
        sumXX == FoldFunction(+, 0, [p \in around |-> g[p] * g[p]])
        var == (sumXX \div n) - (sumX \div n) * (sumX \div n)
    IN IF ~(around \subseteq Pixels) THEN [mean |-> 0, stdev |-> 0]
       ELSE [mean |-> sumX \div n, stdev |-> Max({q \in 0 .. 255 : q * q <= Max({0, var})})]

\* In hundredths.
IDEALSTDEV == 64
IDEALMEAN == 127
grayscale_reliability(m, g) ==
    LET s == get_neighborhood_stats(m, g)
    IN Min({100, (100 * s.stdev) \div IDEALSTDEV,
            100 - (100 * Abs(s.mean - IDEALMEAN)) \div IDEALMEAN})

\* combined_minutia_quality: a base and a share of the gray-scale reliability
\* by the value of the quality map, in ten-thousandths.
combined_minutia_quality(m, qmap, g) ==
    LET band == [q \in 0 .. 4 |-> (<<<<100, 0>>, <<500, 4>>, <<1000, 14>>,
                                     <<2500, 24>>, <<5000, 49>>>>)[q + 1]]
                [pixelize_map(qmap, m.p)]
    IN band[1] + band[2] * grayscale_reliability(m, g)
============================================================================
