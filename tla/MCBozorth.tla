----------------------------- MODULE MCBozorth -----------------------------
(***************************************************************************)
(* Bozorth with few minutiae and limits to match.  Three families of       *)
(* comparisons: parts of an uneven grid, two in a row; prints with twin    *)
(* minutiae, each other's alternatives; three islands, moved one by one.   *)
(***************************************************************************)
EXTENDS BozorthSafety

MCTanHalf ==
    <<87, 262, 437, 612, 787, 963, 1139, 1317, 1495, 1673, 1853, 2035, 2217, 2401, 2586, 2773, 2962, 3153,
      3346, 3541, 3739, 3939, 4142, 4348, 4557, 4770, 4986, 5206, 5430, 5658, 5890, 6128, 6371, 6619, 6873,
      7133, 7400, 7673, 7954, 8243, 8541, 8847, 9163, 9490, 9827, 10176, 10538, 10913, 11303, 11708, 12131,
      12572, 13032, 13514, 14019, 14550, 15108, 15697, 16319, 16977, 17675, 18418, 19210, 20057, 20965,
      21943, 22998, 24142, 25386, 26746, 28239, 29887, 31716, 33759, 36059, 38667, 41653, 45107, 49152,
      53955, 59758, 66912, 75958, 87769, 103854, 127062, 163499, 229038, 381885, 1145887>>

\* A template of a set of minutiae: sorted by x, then y, in an array that is zero behind them.
Less(p, q) == p[1] < q[1] \/ (p[1] = q[1] /\ p[2] < q[2])
Sorted(ms) ==
    [i \in 1 .. Cardinality(ms) |-> CHOOSE p \in ms : Cardinality({q \in ms : Less(q, p)}) = i - 1]
Template(ms) ==
    [n |-> Cardinality(ms), p |-> Sorted(ms) \o [i \in 1 .. MaxMinutiae - Cardinality(ms) |-> <<0, 0, 0>>]]
Parts(ms, k) == {Template(t) : t \in {t \in SUBSET ms : Cardinality(t) = k}}

Grid == {<<x, y, 30 * ((x + 2 * y) % 5) - 60>> : x \in {0, 10, 21}, y \in {0, 9, 20}}
GridProbes == {Template({m \in Grid : m[1] < 20}), Template({m \in Grid : m[2] > 0})}
GridJobs ==
    {<<<<a, b>>, <<a, c>>>> : a \in GridProbes, b \in GridProbes, c \in Parts(Grid, 5) \cup Parts(Grid, 3)}

Twins == {<<0, 0, 0>>, <<0, 30, 10>>, <<20, 0, 20>>, <<21, 1, 15>>, <<22, 30, 0>>, <<23, 31, 5>>,
          <<40, 15, 10>>, <<41, 16, 20>>}
TwinJobs == {<<<<a, b>>>> : a \in Parts(Twins, 6), b \in Parts(Twins, 6) \cup Parts(Twins, 7)}

Island(o, s) ==
    {<<o[1] + p[1] * s, o[2] + p[2] * s, p[3]>> : p \in {<<0, 0, 0>>, <<10, 2, 40>>, <<3, 11, 90>>}}
Places == <<<<0, 0>>, <<100, 0>>, <<30, 100>>>>
Islands(m) == Template(UNION {Island(<<Places[i][1] + m[i][1], Places[i][2] + m[i][2]>>, i) : i \in 1 .. 3})
Moves == {<<0, 0>>, <<0, 18>>, <<30, 0>>, <<0, 40>>}
IslandJobs == {<<<<Islands([i \in 1 .. 3 |-> <<0, 0>>]), Islands(m)>>>> : m \in [1 .. 3 -> Moves]}

MCJobs == GridJobs \cup TwinJobs \cup IslandJobs
============================================================================
