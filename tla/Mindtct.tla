------------------------------ MODULE Mindtct ------------------------------
(***************************************************************************)
(* get_minutiae and the conversion of its result to a template, as a       *)
(* pipeline: every action is one call of lfs_detect_minutiae_V2            *)
(* (detect.c), gen_image_maps (maps.c), remove_false_minutia_V2 (remove.c) *)
(* or vfs5011_extract_template (matcher.c), in the order the code makes    *)
(* them.  The image img is the input; the maps, the detector state s =     *)
(* [b, ms] and the results are what the calls leave behind.                *)
(***************************************************************************)
EXTENDS NbisMaps

CONSTANTS
    Inputs,          \* gray images, functions from Pixels to 0 .. 255
    MaxFileMinutiae  \* MAX_FILE_MINUTIAE, the size of a template

ASSUME InputAssumption == Inputs \subseteq [Pixels -> 0 .. 255]
ASSUME TemplateAssumption == MaxFileMinutiae \in Nat \ {0}

VARIABLES
    img,       \* the captured image
    step,      \* the call that comes next
    maps,      \* direction, low contrast, low flow and high curvature maps
    s,         \* binary image and list of minutiae
    nbrs,      \* neighbours and ridge counts of the minutiae
    quality,   \* their reliabilities
    xyt        \* the template
vars == <<img, step, maps, s, nbrs, quality, xyt>>

NoMaps == [dir |-> [k \in Blocks |-> INVALID_DIR], contrast |-> [k \in Blocks |-> FALSE],
           flow |-> [k \in Blocks |-> FALSE], curve |-> [k \in Blocks |-> FALSE]]

Init ==
    /\ img \in Inputs
    /\ step = "initial"
    /\ maps = NoMaps
    /\ s = [b |-> [p \in Pixels |-> 0], ms |-> <<>>]
    /\ nbrs = <<>> /\ quality = <<>> /\ xyt = <<>>

\* One call of the map stage or of the detector: from is the step it is, to the
\* one after it, and Function what it makes of the maps, or of s.
Call(from, to) == step = from /\ step' = to
MapsCall(from, to, Function(_)) ==
    /\ Call(from, to)
    /\ maps' = Function(maps)
    /\ UNCHANGED <<img, s, nbrs, quality, xyt>>
MinutiaeCall(from, to, Function(_)) ==
    /\ Call(from, to)
    /\ s' = Function(s)
    /\ UNCHANGED <<img, maps, nbrs, quality, xyt>>

pdata == bits_8to6(pad_uchar_image(img))

(***************************************************************************)
(* gen_image_maps.                                                         *)
(***************************************************************************)
InitialMaps ==
    /\ Call("initial", "morph")
    /\ maps' = gen_initial_maps(pdata)
    /\ UNCHANGED <<img, s, nbrs, quality, xyt>>
MorphFlow ==
    MapsCall("morph", "incon1", LAMBDA m : [m EXCEPT !.flow = morph_TF_map(@)])
RemoveIncon ==
    LET Removed(m) == [m EXCEPT !.dir = remove_incon_dirs(@)]
    IN \/ MapsCall("incon1", "smooth1", Removed)
       \/ MapsCall("incon2", "smooth2", Removed)
Smooth ==
    LET Smoothed(m) == [m EXCEPT !.dir = smooth_direction_map(@, m.contrast)]
    IN \/ MapsCall("smooth1", "interpolate", Smoothed)
       \/ MapsCall("smooth2", "margin", Smoothed)
Interpolate ==
    MapsCall("interpolate", "incon2",
             LAMBDA m : [m EXCEPT !.dir = interpolate_direction_map(@, m.contrast)])
MarginAndCurve ==
    LET Curved(m) == [m EXCEPT !.curve = gen_high_curve_map(m.dir)]
    IN MapsCall("margin", "binarize",
                LAMBDA m : Curved([m EXCEPT !.dir = set_margin_blocks(@)]))

(***************************************************************************)
(* Binarization and detection.                                             *)
(***************************************************************************)
Binarize ==
    /\ Call("binarize", "scan_h")
    /\ s' = [s EXCEPT !.b = binarize_V2(pdata, maps.dir)]
    /\ UNCHANGED <<img, maps, nbrs, quality, xyt>>
ScanHorizontally ==
    MinutiaeCall("scan_h", "scan_v", LAMBDA t : scan4minutiae(t, SCAN_HORIZONTAL, maps))
ScanVertically ==
    MinutiaeCall("scan_v", "sort", LAMBDA t : scan4minutiae(t, SCAN_VERTICAL, maps))

(***************************************************************************)
(* remove_false_minutia_V2.                                                *)
(***************************************************************************)
Sort ==
    MinutiaeCall("sort", "islands", LAMBDA t : [t EXCEPT !.ms = sort_minutiae_y_x(@)])
Islands == MinutiaeCall("islands", "holes", remove_islands_and_lakes)
Holes == MinutiaeCall("holes", "pointing", remove_holes)
Pointing ==
    MinutiaeCall("pointing", "near", LAMBDA t : remove_pointing_invblock_V2(t, maps))
NearInvalid ==
    MinutiaeCall("near", "side", LAMBDA t : remove_near_invblock_V2(t, maps))
SideMinutiae ==
    MinutiaeCall("side", "hooks", LAMBDA t : remove_or_adjust_side_minutiae_V2(t, maps))
Hooks == MinutiaeCall("hooks", "overlaps", remove_hooks)
Overlaps == MinutiaeCall("overlaps", "malformations", remove_overlaps)
Malformations ==
    MinutiaeCall("malformations", "pores", LAMBDA t : remove_malformations(t, maps))
Pores == MinutiaeCall("pores", "ridges", LAMBDA t : remove_pores_V2(t, maps))

(***************************************************************************)
(* Ridge counts, quality and the template.                                 *)
(***************************************************************************)
CountRidges ==
    /\ Call("ridges", "quality")
    /\ LET ms == Ordered(s.ms)
       IN /\ s' = [s EXCEPT !.ms = ms]
          /\ nbrs' = count_minutiae_ridges(ms, s.b)
    /\ UNCHANGED <<img, maps, quality, xyt>>

Quality ==
    /\ Call("quality", "template")
    /\ LET qmap == gen_quality_map(maps)
       IN quality' = [i \in DOMAIN s.ms |-> combined_minutia_quality(s.ms[i], qmap, img)]
    /\ UNCHANGED <<img, maps, s, nbrs, xyt>>

\* A mutant: the angles are left as they are.
minutiae_to_xyt_Unsigned(ms) ==
    LET n == Min({Len(ms), MaxFileMinutiae})
        Row(m) == LET r == lfs2nist_minutia_XYT(m) IN <<r.x, r.y, r.t>>
    IN SortSeq([i \in 1 .. n |-> Row(ms[i])],
               LAMBDA p, q : p[1] < q[1] \/ (p[1] = q[1] /\ p[2] < q[2]))

\* minutiae_to_xyt: the first MaxFileMinutiae of the list; angles above 180
\* become negative; sorted by x, then y.
minutiae_to_xyt(ms) ==
    LET n == Min({Len(ms), MaxFileMinutiae})
        Row(m) == LET r == lfs2nist_minutia_XYT(m)
                  IN <<r.x, r.y, IF r.t > 180 THEN r.t - 360 ELSE r.t>>
    IN SortSeq([i \in 1 .. n |-> Row(ms[i])],
               LAMBDA p, q : p[1] < q[1] \/ (p[1] = q[1] /\ p[2] < q[2]))
Template ==
    /\ Call("template", "done")
    /\ xyt' = minutiae_to_xyt(s.ms)
    /\ UNCHANGED <<img, maps, s, nbrs, quality>>

Next ==
    \/ InitialMaps \/ MorphFlow \/ RemoveIncon \/ Smooth \/ Interpolate \/ MarginAndCurve
    \/ Binarize \/ ScanHorizontally \/ ScanVertically
    \/ Sort \/ Islands \/ Holes \/ Pointing \/ NearInvalid \/ SideMinutiae \/ Hooks
    \/ Overlaps \/ Malformations \/ Pores
    \/ CountRidges \/ Quality \/ Template

Spec == Init /\ [][Next]_vars
============================================================================
