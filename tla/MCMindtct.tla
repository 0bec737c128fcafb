----------------------------- MODULE MCMindtct -----------------------------
(***************************************************************************)
(* A scaled-down sensor: 20 x 17 pixels, blocks of 2, four directions, and *)
(* every length of LFSPARMS shrunk with them.  The images are ridges of    *)
(* two directions and one width with two rectangular defects.              *)
(***************************************************************************)
EXTENDS MindtctSafety

MCSine == [d \in 0 .. 7 |-> (<<0, 707, 1000, 707, 0, -707, -1000, -707>>)[d + 1]]
MCLfs == [num_directions |-> 4, maxtrans |-> 2, blocksize |-> 2,
    windowsize |-> 8, windowoffset |-> 3, pad_value |-> 128,
    percentile_min_max |-> 10, min_contrast_delta |-> 5, num_dft_waves |-> 4,
    powmax_min |-> 200, powmax_max |-> 50000000, pownorm_min100 |-> 200,
    fork_pownorm_min100 |-> 150, fork_pct_powmax10 |-> 7, fork_interval |-> 1,
    rmv_valid_nbr_min |-> 3, dir_distance_max |-> 0, smth_valid_nbr_min |-> 7,
    vort_valid_nbr_min |-> 7, highcurv_vorticity_min |-> 2,
    highcurv_curvature_min |-> 1, min_interpolate_nbrs |-> 2,
    dirbin_grid_w |-> 3, dirbin_grid_h |-> 3, num_fill_holes |-> 1,
    max_minutia_delta |-> 3, high_curve_half_contour |-> 4, min_loop_len |-> 6,
    max_half_loop |-> 8, max_hook_len |-> 8, max_overlap_join_dist |-> 3,
    max_overlap_dist |-> 4, max_rmtest_dist |-> 5, small_loop_len |-> 6,
    trans_dir_pix |-> 2, inv_block_margin |-> 1, rm_valid_nbr_min |-> 7,
    side_half_contour |-> 3, malformation_steps_1 |-> 2, malformation_steps_2 |-> 3,
    max_malformation_dist |-> 6, pores_trans_r |-> 1, pores_perp_steps |-> 3,
    pores_steps_fwd |-> 3, pores_steps_bwd |-> 2, max_nbrs |-> 2, max_ridge_steps |-> 4]

Along == {<<1, 0>>, <<0, 1>>, <<1, 1>>, <<1, -1>>}
Ridges == [left : Along, right : Along, period : {3, 4}]
\* Two w x 2 rectangles, the second moved by o from the first.
Defects == [x : {5, 9}, y : {6}, w : {1, 3}, o : {<<5, 0>>, <<0, 4>>}]
           \cup [x : {5, 9}, y : {9}, w : {1, 4}, o : {<<5, 0>>, <<0, -4>>}]

\* The ridges change direction in the middle column; a defect inverts its pixels.
Ridge(r, p) ==
    LET along == IF p[1] < W \div 2 THEN r.left ELSE r.right
    IN (p[1] * along[1] + p[2] * along[2]) % r.period < r.period \div 2
Inside(d, p) ==
    \E o \in {<<0, 0>>, d.o} : /\ p[1] - d.x - o[1] \in 0 .. d.w - 1
                               /\ p[2] - d.y - o[2] \in 0 .. 1
Gray(r, d) == [p \in Pixels |-> IF Ridge(r, p) # Inside(d, p) THEN 60 ELSE 0]
MCInputs == {Gray(r, d) : r \in Ridges, d \in Defects}
============================================================================
