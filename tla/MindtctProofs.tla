--------------------------- MODULE MindtctProofs ---------------------------
(***************************************************************************)
(* remove_incon_dirs ends, and with a map it would not change, for every   *)
(* image, every size of the map and every table of parameters: a pass only *)
(* ever removes directions and visits every block of the map, so one that  *)
(* removes nothing has judged each block by the map it returns, and after  *)
(* as many passes as there are blocks one must have removed nothing.       *)
(*                                                                         *)
(* Minutiae stay in the image, and the list the template is made from      *)
(* holds no place twice and has the closest neighbours of each minutia.    *)
(* Scans and contours stay in the image, so every step leaves a list of    *)
(* minutiae that lie there; sorting lists them by a rank that tells their  *)
(* places apart when the image is no higher than wide; and the search for  *)
(* neighbours keeps the closest of those it has come to.                   *)
(*                                                                         *)
(* remove_overlaps misses no pair of a list that is sorted by row.         *)
(***************************************************************************)
EXTENDS MindtctSafety, Induction, SequenceTheorems, FunctionTheorems

(***************************************************************************)
(* Sequences of blocks.                                                    *)
(***************************************************************************)
LEMMA MaxTwo ==
  ASSUME NEW a \in Int, NEW b \in Int
  PROVE  Max({a, b}) = IF a >= b THEN a ELSE b
<1> DEFINE m == IF a >= b THEN a ELSE b
<1>1. m \in {a, b} /\ \A n \in {a, b} : m >= n
  OBVIOUS
<1>2. \A x \in {a, b} : (\A n \in {a, b} : x >= n) => x = m
  OBVIOUS
<1> QED BY <1>1, <1>2 DEF Max

LEMMA MinTwo ==
  ASSUME NEW a \in Int, NEW b \in Int
  PROVE  Min({a, b}) = IF a <= b THEN a ELSE b
<1> DEFINE m == IF a <= b THEN a ELSE b
<1>1. m \in {a, b} /\ \A n \in {a, b} : m <= n
  OBVIOUS
<1>2. \A x \in {a, b} : (\A n \in {a, b} : x <= n) => x = m
  OBVIOUS
<1> QED BY <1>1, <1>2 DEF Min

\* A sequence of blocks, of the map or beside it, and a block on it.
Places == Int \X Int
On(k, seq) == \E i \in 1 .. Len(seq) : seq[i] = k

LEMMA StepsTyped ==
  ASSUME NEW from \in Int, NEW to \in Int
  PROVE  /\ Steps(from, to) \in Seq(Int)
         /\ \A n \in from .. to : On(n, Steps(from, to))
<1> DEFINE m == Max({0, to - from + 1})
<1>1. m \in Nat /\ m >= to - from + 1
  <2>1. to - from + 1 \in Int /\ 0 \in Int
    OBVIOUS
  <2>2. m = IF 0 >= to - from + 1 THEN 0 ELSE to - from + 1
    BY <2>1, MaxTwo
  <2> QED BY <2>1, <2>2
<1>2. Steps(from, to) = [i \in 1 .. m |-> from + i - 1]
  BY DEF Steps
<1> HIDE DEF m
<1>3. Steps(from, to) \in Seq(Int) /\ Len(Steps(from, to)) = m
  BY <1>1, <1>2
<1>4. ASSUME NEW n \in from .. to PROVE On(n, Steps(from, to))
  <2>1. n - from + 1 \in 1 .. m
    BY <1>1
  <2>2. Steps(from, to)[n - from + 1] = n
    BY <1>2, <2>1
  <2> QED BY <1>3, <2>1, <2>2 DEF On
<1> QED BY <1>3, <1>4

LEMMA ReverseTyped ==
  ASSUME NEW seq \in Seq(Int)
  PROVE  Reverse(seq) \in Seq(Int) /\ \A n : On(n, seq) => On(n, Reverse(seq))
<1>1. Reverse(seq) = [i \in 1 .. Len(seq) |-> seq[(Len(seq) - i) + 1]]
  BY DEF Reverse
<1>2. Len(seq) \in Nat /\ \A i \in 1 .. Len(seq) : seq[i] \in Int
  OBVIOUS
<1>3. Reverse(seq) \in Seq(Int) /\ Len(Reverse(seq)) = Len(seq)
  BY <1>1, <1>2
<1>4. ASSUME NEW n, On(n, seq) PROVE On(n, Reverse(seq))
  <2>1. PICK i \in 1 .. Len(seq) : seq[i] = n
    BY <1>4 DEF On
  <2>2. Len(seq) - i + 1 \in 1 .. Len(seq) /\ Len(seq) - (Len(seq) - i + 1) + 1 = i
    BY <1>2
  <2>3. Reverse(seq)[Len(seq) - i + 1] = n
    BY <1>1, <2>1, <2>2
  <2> QED BY <1>3, <2>2, <2>3 DEF On
<1> QED BY <1>3, <1>4

LEMMA OnEither ==
  ASSUME NEW u \in Seq(Places), NEW v \in Seq(Places)
  PROVE  u \o v \in Seq(Places) /\ \A k : On(k, u) \/ On(k, v) => On(k, u \o v)
<1>1. u \o v \in Seq(Places) /\ Len(u \o v) = Len(u) + Len(v) /\ Len(u) \in Nat /\ Len(v) \in Nat
  OBVIOUS
<1>2. ASSUME NEW k, On(k, u) PROVE On(k, u \o v)
  <2>1. PICK i \in 1 .. Len(u) : u[i] = k
    BY <1>2 DEF On
  <2>2. (u \o v)[i] = k /\ i \in 1 .. Len(u \o v)
    BY <1>1, <2>1
  <2> QED BY <2>2 DEF On
<1>3. ASSUME NEW k, On(k, v) PROVE On(k, u \o v)
  <2>1. PICK i \in 1 .. Len(v) : v[i] = k
    BY <1>3 DEF On
  <2>2. (u \o v)[Len(u) + i] = k /\ Len(u) + i \in 1 .. Len(u \o v)
    BY <1>1, <2>1
  <2> QED BY <2>2 DEF On
<1> QED BY <1>1, <1>2, <1>3

\* A row or a column of blocks from the numbers of its columns or rows.
InRow(ns, y) == [i \in DOMAIN ns |-> <<ns[i], y>>]
InColumn(ns, x) == [i \in DOMAIN ns |-> <<x, ns[i]>>]

LEMMA RowTyped ==
  ASSUME NEW ns \in Seq(Int), NEW y \in Int
  PROVE  InRow(ns, y) \in Seq(Places) /\ \A x : On(x, ns) => On(<<x, y>>, InRow(ns, y))
<1> DEFINE row == InRow(ns, y)
<1>1. DOMAIN ns = 1 .. Len(ns) /\ Len(ns) \in Nat /\ \A i \in 1 .. Len(ns) : ns[i] \in Int
  OBVIOUS
<1>2. row = [i \in 1 .. Len(ns) |-> <<ns[i], y>>]
  BY <1>1 DEF InRow
<1> HIDE DEF row
<1>3. \A i \in 1 .. Len(ns) : row[i] = <<ns[i], y>> /\ row[i] \in Places
  BY <1>1, <1>2 DEF Places
<1>4. row \in Seq(Places) /\ Len(row) = Len(ns)
  <2> HIDE DEF Places
  <2> QED BY <1>1, <1>2, <1>3
<1>5. ASSUME NEW x, On(x, ns) PROVE On(<<x, y>>, row)
  BY <1>3, <1>4, <1>5 DEF On
<1> QED BY <1>4, <1>5 DEF row

LEMMA ColumnTyped ==
  ASSUME NEW ns \in Seq(Int), NEW x \in Int
  PROVE  InColumn(ns, x) \in Seq(Places) /\ \A y : On(y, ns) => On(<<x, y>>, InColumn(ns, x))
<1> DEFINE column == InColumn(ns, x)
<1>1. DOMAIN ns = 1 .. Len(ns) /\ Len(ns) \in Nat /\ \A i \in 1 .. Len(ns) : ns[i] \in Int
  OBVIOUS
<1>2. column = [i \in 1 .. Len(ns) |-> <<x, ns[i]>>]
  BY <1>1 DEF InColumn
<1> HIDE DEF column
<1>3. \A i \in 1 .. Len(ns) : column[i] = <<x, ns[i]>> /\ column[i] \in Places
  BY <1>1, <1>2 DEF Places
<1>4. column \in Seq(Places) /\ Len(column) = Len(ns)
  <2> HIDE DEF Places
  <2> QED BY <1>1, <1>2, <1>3
<1>5. ASSUME NEW y, On(y, ns) PROVE On(<<x, y>>, column)
  BY <1>3, <1>4, <1>5 DEF On
<1> QED BY <1>4, <1>5 DEF column

(***************************************************************************)
(* The growing boxes reach every block of the map.                         *)
(***************************************************************************)
LEMMA MapSize == MW \in Nat \ {0} /\ MH \in Nat \ {0}
<1>1. ASSUME NEW n \in Nat \ {0}, NEW b \in Nat \ {0} PROVE (n + b - 1) \div b \in Nat \ {0}
  <2> DEFINE q == (n + b - 1) \div b
  <2>1. q \in Int /\ n + b - 1 < b * q + b /\ b * q <= n + b - 1
    OBVIOUS
  <2>2. CASE q <= 0
    <3>1. b * q <= 0
      BY <2>1, <2>2
    <3> QED BY <2>1, <3>1
  <2> QED BY <2>1, <2>2
<1> QED BY <1>1, SizeAssumption, BlockAssumption DEF MW, MH

LEMMA TopEdge ==
  ASSUME NEW l \in Int, NEW t \in Int, NEW r \in Int
  PROVE  /\ test_top_edge(l, t, r) \in Seq(Places)
         /\ \A k \in Blocks : k[2] = t /\ l <= k[1] /\ k[1] < r => On(k, test_top_edge(l, t, r))
<1> DEFINE from == Max({l, 0})
           to == Min({r - 1, MW - 1})
           xs == Steps(from, to)
<1>1. from \in Int /\ to \in Int /\ \A x \in 0 .. MW - 1 : l <= x /\ x < r => x \in from .. to
  <2>1. r - 1 \in Int /\ MW - 1 \in Int /\ 0 \in Int
    BY MapSize
  <2>2. from = (IF l >= 0 THEN l ELSE 0) /\ to = (IF r - 1 <= MW - 1 THEN r - 1 ELSE MW - 1)
    BY <2>1, MaxTwo, MinTwo
  <2> QED BY <2>1, <2>2
<1> HIDE DEF from, to
<1>2. xs \in Seq(Int) /\ \A x \in from .. to : On(x, xs)
  BY <1>1, StepsTyped
<1>3. test_top_edge(l, t, r) = IF t < 0 THEN <<>> ELSE InRow(xs, t)
  BY DEF test_top_edge, from, to, InRow
<1> HIDE DEF xs
<1>4. CASE t < 0
  BY <1>3, <1>4 DEF Blocks
<1>5. CASE ~(t < 0)
  <2>1. /\ test_top_edge(l, t, r) \in Seq(Places)
        /\ \A x : On(x, xs) => On(<<x, t>>, test_top_edge(l, t, r))
    BY <1>2, <1>3, <1>5, RowTyped
  <2>2. ASSUME NEW k \in Blocks, k[2] = t, l <= k[1], k[1] < r
        PROVE  On(k, test_top_edge(l, t, r))
    <3>1. k = <<k[1], t>> /\ k[1] \in 0 .. MW - 1
      BY <2>2 DEF Blocks
    <3>2. On(k[1], xs)
      BY <1>1, <1>2, <2>2, <3>1
    <3> QED BY <2>1, <3>1, <3>2
  <2> QED BY <2>1, <2>2
<1> QED BY <1>4, <1>5

LEMMA RightEdge ==
  ASSUME NEW t \in Int, NEW r \in Int, NEW b \in Int
  PROVE  /\ test_right_edge(t, r, b) \in Seq(Places)
         /\ \A k \in Blocks : k[1] = r /\ t <= k[2] /\ k[2] < b => On(k, test_right_edge(t, r, b))
<1> DEFINE from == Max({t, 0})
           to == Min({b - 1, MH - 1})
           ys == Steps(from, to)
<1>1. from \in Int /\ to \in Int /\ \A y \in 0 .. MH - 1 : t <= y /\ y < b => y \in from .. to
  <2>1. b - 1 \in Int /\ MH - 1 \in Int /\ 0 \in Int
    BY MapSize
  <2>2. from = (IF t >= 0 THEN t ELSE 0) /\ to = (IF b - 1 <= MH - 1 THEN b - 1 ELSE MH - 1)
    BY <2>1, MaxTwo, MinTwo
  <2> QED BY <2>1, <2>2
<1> HIDE DEF from, to
<1>2. ys \in Seq(Int) /\ \A y \in from .. to : On(y, ys)
  BY <1>1, StepsTyped
<1>3. test_right_edge(t, r, b) = IF r >= MW THEN <<>> ELSE InColumn(ys, r)
  BY DEF test_right_edge, from, to, InColumn
<1> HIDE DEF ys
<1>4. CASE r >= MW
  BY <1>3, <1>4, MapSize DEF Blocks
<1>5. CASE ~(r >= MW)
  <2>1. /\ test_right_edge(t, r, b) \in Seq(Places)
        /\ \A y : On(y, ys) => On(<<r, y>>, test_right_edge(t, r, b))
    BY <1>2, <1>3, <1>5, ColumnTyped
  <2>2. ASSUME NEW k \in Blocks, k[1] = r, t <= k[2], k[2] < b
        PROVE  On(k, test_right_edge(t, r, b))
    <3>1. k = <<r, k[2]>> /\ k[2] \in 0 .. MH - 1
      BY <2>2 DEF Blocks
    <3>2. On(k[2], ys)
      BY <1>1, <1>2, <2>2, <3>1
    <3> QED BY <2>1, <3>1, <3>2
  <2> QED BY <2>1, <2>2
<1> QED BY <1>4, <1>5

LEMMA BottomEdge ==
  ASSUME NEW l \in Int, NEW r \in Int, NEW b \in Int
  PROVE  /\ test_bottom_edge(l, r, b) \in Seq(Places)
         /\ \A k \in Blocks : k[2] = b /\ l <= k[1] /\ k[1] <= r => On(k, test_bottom_edge(l, r, b))
<1> DEFINE from == Max({l - 1, 0})
           to == Min({r, MW - 1})
           xs == Reverse(Steps(from, to))
<1>1. from \in Int /\ to \in Int /\ \A x \in 0 .. MW - 1 : l <= x /\ x <= r => x \in from .. to
  <2>1. l - 1 \in Int /\ MW - 1 \in Int /\ 0 \in Int
    BY MapSize
  <2>2. from = (IF l - 1 >= 0 THEN l - 1 ELSE 0) /\ to = (IF r <= MW - 1 THEN r ELSE MW - 1)
    BY <2>1, MaxTwo, MinTwo
  <2> QED BY <2>1, <2>2
<1> HIDE DEF from, to
<1>2. xs \in Seq(Int) /\ \A x \in from .. to : On(x, xs)
  BY <1>1, StepsTyped, ReverseTyped
<1>3. test_bottom_edge(l, r, b) = IF b >= MH THEN <<>> ELSE InRow(xs, b)
  BY DEF test_bottom_edge, from, to, InRow
<1> HIDE DEF xs
<1>4. CASE b >= MH
  BY <1>3, <1>4, MapSize DEF Blocks
<1>5. CASE ~(b >= MH)
  <2>1. /\ test_bottom_edge(l, r, b) \in Seq(Places)
        /\ \A x : On(x, xs) => On(<<x, b>>, test_bottom_edge(l, r, b))
    BY <1>2, <1>3, <1>5, RowTyped
  <2>2. ASSUME NEW k \in Blocks, k[2] = b, l <= k[1], k[1] <= r
        PROVE  On(k, test_bottom_edge(l, r, b))
    <3>1. k = <<k[1], b>> /\ k[1] \in 0 .. MW - 1
      BY <2>2 DEF Blocks
    <3>2. On(k[1], xs)
      BY <1>1, <1>2, <2>2, <3>1
    <3> QED BY <2>1, <3>1, <3>2
  <2> QED BY <2>1, <2>2
<1> QED BY <1>4, <1>5

LEMMA LeftEdge ==
  ASSUME NEW l \in Int, NEW t \in Int, NEW b \in Int
  PROVE  /\ test_left_edge(l, t, b) \in Seq(Places)
         /\ \A k \in Blocks : k[1] = l /\ t <= k[2] /\ k[2] <= b => On(k, test_left_edge(l, t, b))
<1> DEFINE from == Max({t - 1, 0})
           to == Min({b, MH - 1})
           ys == Reverse(Steps(from, to))
<1>1. from \in Int /\ to \in Int /\ \A y \in 0 .. MH - 1 : t <= y /\ y <= b => y \in from .. to
  <2>1. t - 1 \in Int /\ MH - 1 \in Int /\ 0 \in Int
    BY MapSize
  <2>2. from = (IF t - 1 >= 0 THEN t - 1 ELSE 0) /\ to = (IF b <= MH - 1 THEN b ELSE MH - 1)
    BY <2>1, MaxTwo, MinTwo
  <2> QED BY <2>1, <2>2
<1> HIDE DEF from, to
<1>2. ys \in Seq(Int) /\ \A y \in from .. to : On(y, ys)
  BY <1>1, StepsTyped, ReverseTyped
<1>3. test_left_edge(l, t, b) = IF l < 0 THEN <<>> ELSE InColumn(ys, l)
  BY DEF test_left_edge, from, to, InColumn
<1> HIDE DEF ys
<1>4. CASE l < 0
  BY <1>3, <1>4 DEF Blocks
<1>5. CASE ~(l < 0)
  <2>1. /\ test_left_edge(l, t, b) \in Seq(Places)
        /\ \A y : On(y, ys) => On(<<l, y>>, test_left_edge(l, t, b))
    BY <1>2, <1>3, <1>5, ColumnTyped
  <2>2. ASSUME NEW k \in Blocks, k[1] = l, t <= k[2], k[2] <= b
        PROVE  On(k, test_left_edge(l, t, b))
    <3>1. k = <<l, k[2]>> /\ k[2] \in 0 .. MH - 1
      BY <2>2 DEF Blocks
    <3>2. On(k[2], ys)
      BY <1>1, <1>2, <2>2, <3>1
    <3> QED BY <2>1, <3>1, <3>2
  <2> QED BY <2>1, <2>2
<1> QED BY <1>4, <1>5

\* The blocks of the map on the border of the n-th box, as the code numbers its sides.
Border(n, k) ==
    LET dx == k[1] - MW \div 2
        dy == k[2] - MH \div 2
    IN /\ -n <= dx /\ dx <= n /\ -n <= dy /\ dy <= n
       /\ dx = -n \/ dx = n \/ dy = -n \/ dy = n

LEMMA BoxTyped ==
  ASSUME NEW n \in Nat \ {0}
  PROVE  /\ BoxOrder(n) \in Seq(Places)
         /\ \A k \in Blocks : Border(n, k) => On(k, BoxOrder(n))
<1> DEFINE l == (MW \div 2) - n
           r == (MW \div 2) + n
           t == (MH \div 2) - n
           b == (MH \div 2) + n
           e1 == test_top_edge(l, t, r)
           e2 == test_right_edge(t, r, b)
           e3 == test_bottom_edge(l, r, b)
           e4 == test_left_edge(l, t, b)
<1>1. BoxOrder(n) = e1 \o e2 \o e3 \o e4
  BY DEF BoxOrder
<1>2. l \in Int /\ r \in Int /\ t \in Int /\ b \in Int /\ l < r /\ t < b
  BY MapSize
<1>3. ASSUME NEW k \in Blocks, Border(n, k)
      PROVE  \/ k[2] = t /\ l <= k[1] /\ k[1] < r
             \/ k[1] = r /\ t <= k[2] /\ k[2] < b
             \/ k[2] = b /\ l <= k[1] /\ k[1] <= r
             \/ k[1] = l /\ t <= k[2] /\ k[2] <= b
  <2>1. k[1] \in Int /\ k[2] \in Int /\ MW \div 2 \in Int /\ MH \div 2 \in Int
    BY MapSize DEF Blocks
  <2> QED BY <1>3, <2>1 DEF Border
<1> HIDE DEF l, r, t, b
<1>4. /\ e1 \in Seq(Places) /\ e2 \in Seq(Places) /\ e3 \in Seq(Places) /\ e4 \in Seq(Places)
      /\ \A k \in Blocks : Border(n, k) => On(k, e1) \/ On(k, e2) \/ On(k, e3) \/ On(k, e4)
  BY <1>2, <1>3, TopEdge, RightEdge, BottomEdge, LeftEdge
<1> HIDE DEF e1, e2, e3, e4
<1>5. e1 \o e2 \in Seq(Places) /\ \A k : On(k, e1) \/ On(k, e2) => On(k, e1 \o e2)
  BY <1>4, OnEither
<1>6. /\ e1 \o e2 \o e3 \in Seq(Places)
      /\ \A k : On(k, e1 \o e2) \/ On(k, e3) => On(k, e1 \o e2 \o e3)
  BY <1>4, <1>5, OnEither
<1>7. /\ e1 \o e2 \o e3 \o e4 \in Seq(Places)
      /\ \A k : On(k, e1 \o e2 \o e3) \/ On(k, e4) => On(k, e1 \o e2 \o e3 \o e4)
  BY <1>4, <1>6, OnEither
<1> QED BY <1>1, <1>4, <1>5, <1>6, <1>7

\* Every block is the centre or on one of the boxes of a pass.
LEMMA EveryBlockVisited ==
  ASSUME NEW k \in Blocks
  PROVE  k = Centre \/ \E n \in 1 .. Max({MW, MH}) : On(k, BoxOrder(n))
<1> DEFINE cx == MW \div 2
           cy == MH \div 2
           dx == k[1] - cx
           dy == k[2] - cy
           ax == IF dx < 0 THEN -dx ELSE dx
           ay == IF dy < 0 THEN -dy ELSE dy
           n == IF ax >= ay THEN ax ELSE ay
           m == Max({MW, MH})
<1>1. cx \in Nat /\ cy \in Nat /\ cx <= MW /\ cy <= MH
  BY MapSize
<1>2. k = <<k[1], k[2]>> /\ k[1] \in 0 .. MW - 1 /\ k[2] \in 0 .. MH - 1
  BY DEF Blocks
<1>3. m \in Nat /\ m >= MW /\ m >= MH
  <2>1. m = IF MW >= MH THEN MW ELSE MH
    BY MapSize, MaxTwo
  <2> QED BY <2>1, MapSize
<1>4. Centre = <<cx, cy>>
  BY DEF Centre
<1>5. \A i \in Int : Border(i, k) <=> /\ -i <= dx /\ dx <= i /\ -i <= dy /\ dy <= i
                                      /\ dx = -i \/ dx = i \/ dy = -i \/ dy = i
  BY DEF Border
<1> HIDE DEF m, cx, cy
<1>6. dx \in Int /\ dy \in Int /\ dx <= MW /\ -dx <= MW /\ dy <= MH /\ -dy <= MH
  BY <1>1, <1>2, MapSize
<1>7. CASE dx = 0 /\ dy = 0
  BY <1>1, <1>2, <1>4, <1>7
<1>8. CASE ~(dx = 0 /\ dy = 0)
  <2> HIDE DEF dx, dy
  <2>1. n \in 1 .. m /\ n \in Nat \ {0}
    BY <1>3, <1>6, <1>8, MapSize
  <2>2. /\ -n <= dx /\ dx <= n /\ -n <= dy /\ dy <= n
        /\ dx = -n \/ dx = n \/ dy = -n \/ dy = n
    BY <1>6
  <2> HIDE DEF n
  <2>3. Border(n, k)
    BY <1>5, <2>1, <2>2
  <2>4. On(k, BoxOrder(n))
    BY <2>1, <2>3, BoxTyped
  <2> QED BY <2>1, <2>4 DEF m
<1> QED BY <1>7, <1>8

(***************************************************************************)
(* A visit, a box and a pass only remove directions, and when they remove  *)
(* none every block they visit agrees with those around it.                *)
(***************************************************************************)
OnBlocks(m) == m = [k \in Blocks |-> m[k]]

\* m is n with some directions removed.
Fewer(m, n) == OnBlocks(m) /\ \A k \in Blocks : m[k] = n[k] \/ m[k] = INVALID_DIR

LEMMA FewerOrder ==
  ASSUME NEW m, NEW n, NEW o, OnBlocks(o)
  PROVE  /\ Fewer(o, o)
         /\ Fewer(m, n) /\ Fewer(n, o) => Fewer(m, o)
         /\ Fewer(m, n) /\ Fewer(n, o) /\ m = o => n = o
<1>1. Fewer(o, o)
  BY DEF Fewer
<1>2. Fewer(m, n) /\ Fewer(n, o) => Fewer(m, o)
  BY DEF Fewer
<1>3. ASSUME Fewer(m, n), Fewer(n, o), m = o PROVE n = o
  <2>1. \A k \in Blocks : n[k] = o[k]
    BY <1>3 DEF Fewer
  <2>2. n = [k \in Blocks |-> n[k]] /\ o = [k \in Blocks |-> o[k]]
    BY <1>3 DEF Fewer, OnBlocks
  <2> QED BY <2>1, <2>2
<1> QED BY <1>1, <1>2, <1>3

\* What removes directions step by step and has removed none in the end has removed none
\* in any step.
LEMMA Descending ==
  ASSUME NEW h, NEW len \in Nat, OnBlocks(h[0]),
         \A n \in 1 .. len : OnBlocks(h[n - 1]) => Fewer(h[n], h[n - 1])
  PROVE  /\ \A n \in 0 .. len : OnBlocks(h[n]) /\ Fewer(h[len], h[n])
         /\ h[len] = h[0] => \A n \in 0 .. len : h[n] = h[0]
<1> DEFINE T == {n \in Nat : n <= len => \A i \in 0 .. n : OnBlocks(h[i]) /\ Fewer(h[n], h[i])}
<1>1. 0 \in T
  <2>1. Fewer(h[0], h[0])
    BY FewerOrder
  <2> QED BY <2>1
<1>2. ASSUME NEW n \in Nat, n \in T PROVE n + 1 \in T
  <2> SUFFICES ASSUME n + 1 <= len
               PROVE  \A i \in 0 .. n + 1 : OnBlocks(h[i]) /\ Fewer(h[n + 1], h[i])
    OBVIOUS
  <2>1. \A i \in 0 .. n : OnBlocks(h[i]) /\ Fewer(h[n], h[i])
    BY <1>2
  <2>2. n + 1 \in 1 .. len /\ n + 1 - 1 = n /\ n \in 0 .. n
    OBVIOUS
  <2>3. Fewer(h[n + 1], h[n])
    BY <2>1, <2>2
  <2>4. OnBlocks(h[n + 1])
    BY <2>3 DEF Fewer
  <2>5. ASSUME NEW i \in 0 .. n + 1 PROVE OnBlocks(h[i]) /\ Fewer(h[n + 1], h[i])
    <3>1. CASE i = n + 1
      BY <2>4, <3>1, FewerOrder
    <3>2. CASE i # n + 1
      <4>1. i \in 0 .. n
        BY <3>2
      <4> QED BY <2>1, <2>3, <4>1, FewerOrder
    <3> QED BY <3>1, <3>2
  <2> QED BY <2>5
<1>3. Nat \subseteq T
  <2> HIDE DEF T
  <2> QED BY <1>1, <1>2, Induct
<1>4. ASSUME NEW n \in 0 .. len PROVE OnBlocks(h[n]) /\ Fewer(h[len], h[n]) /\ Fewer(h[n], h[0])
  <2>1. len \in T /\ n \in T
    BY <1>3
  <2> QED BY <2>1
<1> QED BY <1>4, FewerOrder

LEMMA VisitRemoves ==
  ASSUME NEW m, OnBlocks(m), NEW k
  PROVE  /\ Fewer(Reconsider(m, k), m)
         /\ Reconsider(m, k) = m /\ k \in Blocks /\ m[k] # INVALID_DIR => ~remove_dir(m, k)
<1>1. CASE ~(m[k] # INVALID_DIR /\ remove_dir(m, k))
  <2>1. Reconsider(m, k) = m
    BY <1>1 DEF Reconsider
  <2> QED BY <1>1, <2>1, FewerOrder
<1>2. CASE m[k] # INVALID_DIR /\ remove_dir(m, k)
  <2> DEFINE n == [m EXCEPT ![k] = INVALID_DIR]
  <2>1. Reconsider(m, k) = n
    BY <1>2 DEF Reconsider
  <2>2. DOMAIN m = Blocks
    BY DEF OnBlocks
  <2>3. n = [b \in Blocks |-> IF b = k THEN INVALID_DIR ELSE m[b]]
    BY <2>2
  <2> HIDE DEF n
  <2>4. \A b \in Blocks : n[b] = IF b = k THEN INVALID_DIR ELSE m[b]
    BY <2>3
  <2>5. n = [b \in Blocks |-> n[b]]
    BY <2>3
  <2>6. Fewer(n, m)
    BY <2>4, <2>5 DEF Fewer, OnBlocks
  <2>7. n = m /\ k \in Blocks => m[k] = INVALID_DIR
    BY <2>4
  <2> QED BY <1>2, <2>1, <2>6, <2>7
<1> QED BY <1>1, <1>2

\* A box visits its blocks one after the other.
Visits(h, map, box) ==
    /\ h[0] = map
    /\ ReconsiderBox(map, box) = h[Len(BoxOrder(box))]
    /\ \A n \in 1 .. Len(BoxOrder(box)) : h[n] = Reconsider(h[n - 1], BoxOrder(box)[n])

LEMMA VisitsDefined ==
  ASSUME NEW map, NEW box, Len(BoxOrder(box)) \in Nat
  PROVE  \E h : Visits(h, map, box)
<1> DEFINE seq == BoxOrder(box)
           L == Len(seq)
           E(f, n) == IF n = 0 THEN map
                      ELSE CHOOSE r \in {Reconsider(a, seq[n]) : a \in {f[n - 1]}} : TRUE
           IsFun(f) == f = [n \in 0 .. L |-> f[n]]
           Good(f, m) == \A n \in 0 .. L : n < m => f[n] = E(f, n)
           T == {m \in Nat : \E f : IsFun(f) /\ Good(f, m)}
<1>0. L \in Nat
  OBVIOUS
<1>a. \A f : E(f, 0) = map
  OBVIOUS
<1>b. ASSUME NEW f, NEW n \in Nat, n # 0 PROVE E(f, n) = Reconsider(f[n - 1], seq[n])
  <2>1. {Reconsider(a, seq[n]) : a \in {f[n - 1]}} = {Reconsider(f[n - 1], seq[n])}
    OBVIOUS
  <2> QED BY <1>b, <2>1
<1>c. \A f : IsFun(f) <=> f = [n \in 0 .. L |-> f[n]]
  OBVIOUS
<1>8. ReconsiderBox(map, box) = (CHOOSE h : h = [n \in 0 .. L |-> E(h, n)])[L]
  BY DEF ReconsiderBox, InOrder
<1> HIDE DEF seq, L, E
<1>1. 0 \in T
  <2> DEFINE f == [n \in 0 .. L |-> 0]
  <2>1. IsFun(f) /\ Good(f, 0)
    OBVIOUS
  <2> HIDE DEF f, IsFun, Good
  <2> QED BY <2>1
<1>2. ASSUME NEW m \in Nat, m \in T PROVE m + 1 \in T
  <2>1. PICK f : IsFun(f) /\ Good(f, m)
    BY <1>2
  <2> DEFINE g == [n \in 0 .. L |-> E(f, n)]
  <2>2. IsFun(g) /\ \A n \in 0 .. L : g[n] = E(f, n)
    OBVIOUS
  <2> HIDE DEF g
  <2>3. ASSUME NEW n \in 0 .. L, n < m + 1 PROVE g[n] = E(g, n)
    <3>1. CASE n = 0
      BY <1>a, <2>2, <3>1
    <3>2. CASE n # 0
      <4>1. n \in Nat /\ n - 1 \in 0 .. L /\ n - 1 < m
        BY <1>0, <2>3, <3>2
      <4>2. g[n - 1] = f[n - 1]
        BY <2>1, <2>2, <4>1
      <4> QED BY <1>b, <2>2, <3>2, <4>1, <4>2
    <3> QED BY <3>1, <3>2
  <2>4. Good(g, m + 1)
    BY <2>3
  <2> HIDE DEF IsFun, Good
  <2> QED BY <2>2, <2>4
<1>3. Nat \subseteq T
  <2> HIDE DEF T
  <2> QED BY <1>1, <1>2, Induct
<1>4. L + 1 \in T
  BY <1>0, <1>3
<1>5. PICK f : IsFun(f) /\ Good(f, L + 1)
  BY <1>4
<1>6. f = [n \in 0 .. L |-> E(f, n)]
  <2>1. ASSUME NEW n \in 0 .. L PROVE f[n] = E(f, n)
    <3>1. n < L + 1
      BY <1>0
    <3> QED BY <1>5, <3>1
  <2> QED BY <1>5, <2>1
<1> DEFINE h == CHOOSE h : h = [n \in 0 .. L |-> E(h, n)]
<1>7. h = [n \in 0 .. L |-> E(h, n)]
  BY <1>6
<1>9. ReconsiderBox(map, box) = h[L]
  BY <1>8
<1> HIDE DEF h
<1>10. \A n \in 0 .. L : h[n] = E(h, n)
  BY <1>7
<1>11. h[0] = map
  BY <1>0, <1>a, <1>10
<1>12. \A n \in 1 .. L : h[n] = Reconsider(h[n - 1], seq[n])
  <2> TAKE n \in 1 .. L
  <2>1. n \in 0 .. L /\ n \in Nat /\ n # 0
    BY <1>0
  <2> QED BY <1>b, <1>10, <2>1
<1>13. Visits(h, map, box)
  BY <1>9, <1>11, <1>12 DEF L, seq, Visits
<1> QED BY <1>13

LEMMA BoxRemoves ==
  ASSUME NEW m, OnBlocks(m), NEW n \in Nat \ {0}
  PROVE  /\ Fewer(ReconsiderBox(m, n), m)
         /\ ReconsiderBox(m, n) = m =>
               \A k \in Blocks : On(k, BoxOrder(n)) /\ m[k] # INVALID_DIR => ~remove_dir(m, k)
<1> DEFINE seq == BoxOrder(n)
           len == Len(seq)
<1>1. len \in Nat /\ DOMAIN seq = 1 .. len
  <2>1. seq \in Seq(Places)
    BY BoxTyped
  <2> HIDE DEF seq
  <2> QED BY <2>1
<1>a. PICK h : Visits(h, m, n)
  BY <1>1, VisitsDefined
<1>2. /\ h[0] = m /\ ReconsiderBox(m, n) = h[len]
      /\ \A i \in 1 .. len : h[i] = Reconsider(h[i - 1], seq[i])
  BY <1>a DEF Visits
<1> HIDE DEF seq, len
<1>3. \A i \in 1 .. len : OnBlocks(h[i - 1]) => Fewer(h[i], h[i - 1])
  BY <1>2, VisitRemoves
<1>4. /\ \A i \in 0 .. len : OnBlocks(h[i]) /\ Fewer(h[len], h[i])
      /\ h[len] = h[0] => \A i \in 0 .. len : h[i] = h[0]
  BY <1>1, <1>2, <1>3, Descending
<1>5. Fewer(ReconsiderBox(m, n), m)
  BY <1>1, <1>2, <1>4
<1>6. ASSUME ReconsiderBox(m, n) = m, NEW k \in Blocks, On(k, seq), m[k] # INVALID_DIR
      PROVE  ~remove_dir(m, k)
  <2>1. PICK i \in 1 .. len : seq[i] = k
    BY <1>6 DEF On, len
  <2>2. i \in 0 .. len /\ i - 1 \in 0 .. len
    BY <1>1
  <2>3. h[i] = m /\ h[i - 1] = m
    BY <1>2, <1>4, <1>6, <2>2
  <2>4. Reconsider(m, k) = m
    BY <1>2, <2>1, <2>3
  <2> QED BY <1>6, <2>4, VisitRemoves
<1> QED BY <1>5, <1>6 DEF seq

\* A pass visits the centre and its boxes one after the other.
LEMMA BoxesDefined ==
  ASSUME NEW map, Max({MW, MH}) \in Nat
  PROVE  \E h : /\ h[0] = Reconsider(map, Centre) /\ RemovePass(map) = h[Max({MW, MH})]
                /\ \A n \in 1 .. Max({MW, MH}) : h[n] = ReconsiderBox(h[n - 1], n)
<1> DEFINE base == Reconsider(map, Centre)
           L == Max({MW, MH})
           seq == Steps(1, L)
           E(f, n) == IF n = 0 THEN base
                      ELSE CHOOSE r \in {ReconsiderBox(a, seq[n]) : a \in {f[n - 1]}} : TRUE
           IsFun(f) == f = [n \in 0 .. L |-> f[n]]
           Good(f, m) == \A n \in 0 .. L : n < m => f[n] = E(f, n)
           T == {m \in Nat : \E f : IsFun(f) /\ Good(f, m)}
<1>0. L \in Nat
  OBVIOUS
<1>s. Len(seq) = L /\ \A n \in 1 .. L : seq[n] = n
  <2> HIDE DEF L
  <2>1. L - 1 + 1 = L /\ L \in Int /\ 0 \in Int
    BY <1>0
  <2>2. Max({0, L - 1 + 1}) = IF 0 >= L - 1 + 1 THEN 0 ELSE L - 1 + 1
    BY <2>1, MaxTwo
  <2>3. Max({0, L - 1 + 1}) = L
    BY <1>0, <2>2
  <2>4. seq = [i \in 1 .. L |-> 1 + i - 1]
    BY <2>3 DEF Steps
  <2> QED BY <1>0, <2>4
<1>a. \A f : E(f, 0) = base
  OBVIOUS
<1>b. ASSUME NEW f, NEW n \in Nat, n # 0 PROVE E(f, n) = ReconsiderBox(f[n - 1], seq[n])
  <2>1. {ReconsiderBox(a, seq[n]) : a \in {f[n - 1]}} = {ReconsiderBox(f[n - 1], seq[n])}
    OBVIOUS
  <2> QED BY <1>b, <2>1
<1>c. \A f : IsFun(f) <=> f = [n \in 0 .. L |-> f[n]]
  OBVIOUS
<1>8. RemovePass(map) = (CHOOSE h : h = [n \in 0 .. L |-> E(h, n)])[L]
  <2>1. RemovePass(map) = (CHOOSE h : h = [n \in 0 .. Len(seq) |-> E(h, n)])[Len(seq)]
    BY DEF RemovePass, InOrder
  <2> HIDE DEF seq, L, E
  <2> QED BY <1>s, <2>1
<1> HIDE DEF base, seq, L, E
<1>1. 0 \in T
  <2> DEFINE f == [n \in 0 .. L |-> 0]
  <2>1. IsFun(f) /\ Good(f, 0)
    OBVIOUS
  <2> HIDE DEF f, IsFun, Good
  <2> QED BY <2>1
<1>2. ASSUME NEW m \in Nat, m \in T PROVE m + 1 \in T
  <2>1. PICK f : IsFun(f) /\ Good(f, m)
    BY <1>2
  <2> DEFINE g == [n \in 0 .. L |-> E(f, n)]
  <2>2. IsFun(g) /\ \A n \in 0 .. L : g[n] = E(f, n)
    OBVIOUS
  <2> HIDE DEF g
  <2>3. ASSUME NEW n \in 0 .. L, n < m + 1 PROVE g[n] = E(g, n)
    <3>1. CASE n = 0
      BY <1>a, <2>2, <3>1
    <3>2. CASE n # 0
      <4>1. n \in Nat /\ n - 1 \in 0 .. L /\ n - 1 < m
        BY <1>0, <2>3, <3>2
      <4>2. g[n - 1] = f[n - 1]
        BY <2>1, <2>2, <4>1
      <4> QED BY <1>b, <2>2, <3>2, <4>1, <4>2
    <3> QED BY <3>1, <3>2
  <2>4. Good(g, m + 1)
    BY <2>3
  <2> HIDE DEF IsFun, Good
  <2> QED BY <2>2, <2>4
<1>3. Nat \subseteq T
  <2> HIDE DEF T
  <2> QED BY <1>1, <1>2, Induct
<1>4. L + 1 \in T
  BY <1>0, <1>3
<1>5. PICK f : IsFun(f) /\ Good(f, L + 1)
  BY <1>4
<1>6. f = [n \in 0 .. L |-> E(f, n)]
  <2>1. ASSUME NEW n \in 0 .. L PROVE f[n] = E(f, n)
    <3>1. n < L + 1
      BY <1>0
    <3> QED BY <1>5, <3>1
  <2> QED BY <1>5, <2>1
<1> DEFINE h == CHOOSE h : h = [n \in 0 .. L |-> E(h, n)]
<1>7. h = [n \in 0 .. L |-> E(h, n)]
  BY <1>6
<1>9. RemovePass(map) = h[L]
  BY <1>8
<1> HIDE DEF h
<1>10. \A n \in 0 .. L : h[n] = E(h, n)
  BY <1>7
<1>11. h[0] = base
  BY <1>0, <1>a, <1>10
<1>12. \A n \in 1 .. L : h[n] = ReconsiderBox(h[n - 1], n)
  <2> TAKE n \in 1 .. L
  <2>1. n \in 0 .. L /\ n \in Nat /\ n # 0
    BY <1>0
  <2> QED BY <1>b, <1>s, <1>10, <2>1
<1> QED BY <1>9, <1>11, <1>12 DEF L, base

LEMMA PassRemoves ==
  ASSUME NEW m, OnBlocks(m)
  PROVE  /\ Fewer(RemovePass(m), m)
         /\ RemovePass(m) = m => \A k \in Blocks : m[k] # INVALID_DIR => ~remove_dir(m, k)
<1> DEFINE len == Max({MW, MH})
           c == Reconsider(m, Centre)
<1>1. len \in Nat
  <2>1. len = IF MW >= MH THEN MW ELSE MH
    BY MapSize, MaxTwo
  <2> QED BY <2>1, MapSize
<1>2. PICK h : /\ h[0] = c /\ RemovePass(m) = h[len]
               /\ \A i \in 1 .. len : h[i] = ReconsiderBox(h[i - 1], i)
  BY <1>1, BoxesDefined
<1>3. Fewer(c, m) /\ OnBlocks(c)
  BY VisitRemoves DEF Fewer
<1>4. \A k \in Blocks : k = Centre \/ \E n \in 1 .. len : On(k, BoxOrder(n))
  BY EveryBlockVisited
<1> HIDE DEF len
<1>5. \A i \in 1 .. len : OnBlocks(h[i - 1]) => Fewer(h[i], h[i - 1])
  <2> TAKE i \in 1 .. len
  <2>1. i \in Nat \ {0}
    BY <1>1
  <2> QED BY <1>2, <2>1, BoxRemoves
<1>6. /\ \A i \in 0 .. len : OnBlocks(h[i]) /\ Fewer(h[len], h[i])
      /\ h[len] = h[0] => \A i \in 0 .. len : h[i] = h[0]
  <2> HIDE DEF c
  <2> QED BY <1>1, <1>2, <1>3, <1>5, Descending
<1>7. Fewer(RemovePass(m), c)
  BY <1>1, <1>2, <1>6
<1>8. Fewer(RemovePass(m), m)
  <2> HIDE DEF c
  <2> QED BY <1>3, <1>7, FewerOrder
<1>9. ASSUME RemovePass(m) = m, NEW k \in Blocks, m[k] # INVALID_DIR
      PROVE  ~remove_dir(m, k)
  <2>1. c = m
    <3> HIDE DEF c
    <3> QED BY <1>3, <1>7, <1>9, FewerOrder
  <2>2. CASE k = Centre
    BY <1>9, <2>1, <2>2, VisitRemoves
  <2>3. CASE k # Centre
    <3>1. PICK n \in 1 .. len : On(k, BoxOrder(n))
      BY <1>4, <2>3
    <3>2. n \in Nat \ {0} /\ n \in 0 .. len /\ n - 1 \in 0 .. len
      BY <1>1
    <3>3. h[n] = m /\ h[n - 1] = m
      <4> HIDE DEF c
      <4> QED BY <1>2, <1>6, <1>9, <2>1, <3>2
    <3>4. ReconsiderBox(m, n) = m
      BY <1>2, <3>3
    <3> QED BY <1>9, <3>1, <3>2, <3>4, BoxRemoves
  <2> QED BY <2>2, <2>3
<1> QED BY <1>8, <1>9

\* Passes follow each other until one removes nothing.
LEMMA PassesDefined ==
  ASSUME NEW map, Cardinality(Blocks) \in Nat
  PROVE  \E h : /\ h[0] = map
                /\ \A n \in 0 .. Cardinality(Blocks) : h[n + 1] = RemovePass(h[n])
                /\ remove_incon_dirs(map)
                     = h[CHOOSE n \in 0 .. Cardinality(Blocks) : h[n + 1] = h[n]]
<1> DEFINE last == Cardinality(Blocks)
           L == last + 1
           E(f, n) == IF n = 0 THEN map ELSE RemovePass(f[n - 1])
           IsFun(f) == f = [n \in 0 .. L |-> f[n]]
           Good(f, m) == \A n \in 0 .. L : n < m => f[n] = E(f, n)
           T == {m \in Nat : \E f : IsFun(f) /\ Good(f, m)}
           Result(h) == h[CHOOSE n \in 0 .. last : h[n + 1] = h[n]]
<1>0. last \in Nat /\ L \in Nat
  OBVIOUS
<1>c. \A f : IsFun(f) <=> f = [n \in 0 .. L |-> f[n]]
  OBVIOUS
<1>8. remove_incon_dirs(map) = Result(CHOOSE h : h = [n \in 0 .. L |-> E(h, n)])
  BY DEF remove_incon_dirs
<1> HIDE DEF last, L, E, Result
<1>1. 0 \in T
  <2> DEFINE f == [n \in 0 .. L |-> 0]
  <2>1. IsFun(f) /\ Good(f, 0)
    OBVIOUS
  <2> HIDE DEF f, IsFun, Good
  <2> QED BY <2>1
<1>2. ASSUME NEW m \in Nat, m \in T PROVE m + 1 \in T
  <2>1. PICK f : IsFun(f) /\ Good(f, m)
    BY <1>2
  <2> DEFINE g == [n \in 0 .. L |-> E(f, n)]
  <2>2. IsFun(g) /\ \A n \in 0 .. L : g[n] = E(f, n)
    OBVIOUS
  <2> HIDE DEF g
  <2>3. ASSUME NEW n \in 0 .. L, n < m + 1 PROVE g[n] = E(g, n)
    <3>1. CASE n = 0
      BY <2>2, <3>1 DEF E
    <3>2. CASE n # 0
      <4>1. n \in Nat /\ n - 1 \in 0 .. L /\ n - 1 < m
        BY <1>0, <2>3, <3>2
      <4>2. g[n - 1] = f[n - 1]
        BY <2>1, <2>2, <4>1
      <4> QED BY <2>2, <3>2, <4>1, <4>2 DEF E
    <3> QED BY <3>1, <3>2
  <2>4. Good(g, m + 1)
    BY <2>3
  <2> HIDE DEF IsFun, Good
  <2> QED BY <2>2, <2>4
<1>3. Nat \subseteq T
  <2> HIDE DEF T
  <2> QED BY <1>1, <1>2, Induct
<1>4. L + 1 \in T
  BY <1>0, <1>3
<1>5. PICK f : IsFun(f) /\ Good(f, L + 1)
  BY <1>4
<1>6. f = [n \in 0 .. L |-> E(f, n)]
  <2>1. ASSUME NEW n \in 0 .. L PROVE f[n] = E(f, n)
    <3>1. n < L + 1
      BY <1>0
    <3> QED BY <1>5, <3>1
  <2> QED BY <1>5, <2>1
<1> DEFINE h == CHOOSE h : h = [n \in 0 .. L |-> E(h, n)]
<1>7. h = [n \in 0 .. L |-> E(h, n)]
  BY <1>6
<1>9. remove_incon_dirs(map) = Result(h)
  BY <1>8
<1> HIDE DEF h
<1>10. \A n \in 0 .. L : h[n] = E(h, n)
  BY <1>7
<1>11. h[0] = map
  BY <1>0, <1>10 DEF E
<1>12. \A n \in 0 .. last : h[n + 1] = RemovePass(h[n])
  <2> TAKE n \in 0 .. last
  <2>1. n + 1 \in 0 .. L /\ n + 1 # 0 /\ n + 1 - 1 = n
    BY <1>0 DEF L
  <2> QED BY <1>10, <2>1 DEF E
<1> QED BY <1>9, <1>11, <1>12 DEF last, Result

LEMMA BlocksFinite == IsFiniteSet(Blocks) /\ Cardinality(Blocks) \in Nat
<1> DEFINE X == 0 .. MW - 1
           Y == 0 .. MH - 1
<1>1. IsFiniteSet(X) /\ IsFiniteSet(Y)
  <2>1. MW - 1 \in Int /\ MH - 1 \in Int /\ 0 \in Int
    BY MapSize
  <2> QED BY <2>1, FS_Interval
<1>2. Blocks = X \X Y
  BY DEF Blocks
<1> HIDE DEF X, Y
<1>3. IsFiniteSet(X \X Y)
  BY <1>1, FS_Product
<1> QED BY <1>2, <1>3, FS_CardinalityType

\* The blocks that have a direction.
Directed(m) == {k \in Blocks : m[k] # INVALID_DIR}

LEMMA FewerDirected ==
  ASSUME NEW m, NEW n, OnBlocks(m), Fewer(n, m), n # m
  PROVE  /\ Cardinality(Directed(n)) \in Nat /\ Cardinality(Directed(m)) \in Nat
         /\ Cardinality(Directed(n)) < Cardinality(Directed(m))
<1>1. PICK k \in Blocks : n[k] # m[k]
  BY DEF OnBlocks, Fewer
<1>2. Directed(n) \subseteq Directed(m) /\ k \in Directed(m) /\ k \notin Directed(n)
  BY <1>1 DEF Directed, Fewer
<1>3. Directed(m) \subseteq Blocks
  BY DEF Directed
<1>4. IsFiniteSet(Directed(m))
  BY <1>3, BlocksFinite, FS_Subset
<1>5. /\ IsFiniteSet(Directed(n)) /\ Cardinality(Directed(n)) <= Cardinality(Directed(m))
      /\ Cardinality(Directed(m)) = Cardinality(Directed(n)) => Directed(m) = Directed(n)
  BY <1>2, <1>4, FS_Subset
<1>6. Cardinality(Directed(n)) \in Nat /\ Cardinality(Directed(m)) \in Nat
  BY <1>4, <1>5, FS_CardinalityType
<1> QED BY <1>2, <1>5, <1>6

\* After as many passes as there are blocks one must have removed nothing.
LEMMA PassesEnd ==
  ASSUME NEW h, OnBlocks(h[0]),
         \A n \in 0 .. Cardinality(Blocks) : h[n + 1] = RemovePass(h[n])
  PROVE  /\ \E n \in 0 .. Cardinality(Blocks) : h[n + 1] = h[n]
         /\ \A n \in 0 .. Cardinality(Blocks) : OnBlocks(h[n]) /\ Fewer(h[n], h[0])
<1> DEFINE last == Cardinality(Blocks)
           T == {n \in Nat : n <= last + 1 => OnBlocks(h[n]) /\ Fewer(h[n], h[0])}
           C(n) == Cardinality(Directed(h[n]))
           U == {n \in Nat : n <= last + 1 => C(n) + n <= last}
<1>0. last \in Nat
  BY BlocksFinite
<1>h. \A n \in 0 .. last : h[n + 1] = RemovePass(h[n])
  OBVIOUS
<1> HIDE DEF last
<1>1. 0 \in T
  BY FewerOrder
<1>2. ASSUME NEW n \in Nat, n \in T PROVE n + 1 \in T
  <2> SUFFICES ASSUME n + 1 <= last + 1 PROVE OnBlocks(h[n + 1]) /\ Fewer(h[n + 1], h[0])
    OBVIOUS
  <2>1. n \in 0 .. last /\ OnBlocks(h[n]) /\ Fewer(h[n], h[0])
    BY <1>0, <1>2
  <2>2. Fewer(h[n + 1], h[n])
    BY <1>h, <2>1, PassRemoves
  <2>3. OnBlocks(h[n + 1])
    BY <2>2 DEF Fewer
  <2> QED BY <2>1, <2>2, <2>3, FewerOrder
<1>3. Nat \subseteq T
  <2> HIDE DEF T
  <2> QED BY <1>1, <1>2, Induct
<1>4. \A n \in 0 .. last + 1 : OnBlocks(h[n]) /\ Fewer(h[n], h[0])
  <2> TAKE n \in 0 .. last + 1
  <2>1. n \in T /\ n <= last + 1
    BY <1>0, <1>3
  <2> QED BY <2>1
<1>5. \A n \in 0 .. last + 1 : C(n) \in Nat
  <2> TAKE n \in 0 .. last + 1
  <2>1. Directed(h[n]) \subseteq Blocks
    BY DEF Directed
  <2> QED BY <2>1, BlocksFinite, FS_Subset, FS_CardinalityType
<1>6. ASSUME \A n \in 0 .. last : h[n + 1] # h[n] PROVE FALSE
  <2>1. \A n \in 0 .. last : C(n + 1) < C(n)
    <3> TAKE n \in 0 .. last
    <3>1. n \in 0 .. last + 1
      BY <1>0
    <3>2. OnBlocks(h[n])
      BY <1>4, <3>1
    <3>3. Fewer(h[n + 1], h[n]) /\ h[n + 1] # h[n]
      BY <1>h, <1>6, <3>2, PassRemoves
    <3> QED BY <3>2, <3>3, FewerDirected
  <2>2. 0 \in U
    <3>1. Directed(h[0]) \subseteq Blocks
      BY DEF Directed
    <3>2. C(0) <= last
      BY <3>1, BlocksFinite, FS_Subset DEF last
    <3>3. C(0) \in Nat
      BY <1>0, <1>5
    <3> HIDE DEF C
    <3> QED BY <3>2, <3>3
  <2> HIDE DEF C
  <2>3. ASSUME NEW n \in Nat, n \in U PROVE n + 1 \in U
    <3> SUFFICES ASSUME n + 1 <= last + 1 PROVE C(n + 1) + (n + 1) <= last
      OBVIOUS
    <3>1. n \in 0 .. last /\ n \in 0 .. last + 1 /\ n + 1 \in 0 .. last + 1
      BY <1>0
    <3>2. C(n) \in Nat /\ C(n + 1) \in Nat /\ C(n + 1) < C(n) /\ C(n) + n <= last
      BY <1>5, <2>1, <2>3, <3>1
    <3> QED BY <1>0, <3>2
  <2>4. Nat \subseteq U
    <3> HIDE DEF U
    <3> QED BY <2>2, <2>3, Induct
  <2>5. C(last + 1) + (last + 1) <= last
    BY <1>0, <2>4
  <2>6. C(last + 1) \in Nat
    BY <1>0, <1>5
  <2> QED BY <1>0, <2>5, <2>6
<1>7. \A n \in 0 .. last : n \in 0 .. last + 1
  BY <1>0
<1> QED BY <1>4, <1>6, <1>7 DEF last

\* remove_incon_dirs returns a map with no direction it would remove, that of its
\* argument but for the directions removed.
LEMMA PassesStable ==
  ASSUME NEW map, OnBlocks(map)
  PROVE  LET m == remove_incon_dirs(map)
         IN Fewer(m, map) /\ \A k \in Blocks : m[k] # INVALID_DIR => ~remove_dir(m, k)
<1> DEFINE N == 0 .. Cardinality(Blocks)
<1>1. PICK h : /\ h[0] = map
               /\ \A n \in N : h[n + 1] = RemovePass(h[n])
               /\ remove_incon_dirs(map) = h[CHOOSE n \in N : h[n + 1] = h[n]]
  BY BlocksFinite, PassesDefined
<1> DEFINE end == CHOOSE n \in N : h[n + 1] = h[n]
<1>2. /\ \E n \in N : h[n + 1] = h[n]
      /\ \A n \in N : OnBlocks(h[n]) /\ Fewer(h[n], h[0])
  BY <1>1, PassesEnd
<1> HIDE DEF N
<1>3. end \in N /\ h[end + 1] = h[end]
  BY <1>2
<1>4. remove_incon_dirs(map) = h[end]
  BY <1>1
<1> HIDE DEF end
<1>5. RemovePass(h[end]) = h[end] /\ OnBlocks(h[end]) /\ Fewer(h[end], map)
  BY <1>1, <1>2, <1>3
<1>6. \A k \in Blocks : h[end][k] # INVALID_DIR => ~remove_dir(h[end], k)
  BY <1>5, PassRemoves
<1> QED BY <1>4, <1>5, <1>6

(***************************************************************************)
(* The pipeline.                                                           *)
(***************************************************************************)
IsMaps(m) == m = [dir |-> m.dir, contrast |-> m.contrast, flow |-> m.flow, curve |-> m.curve]

\* Before each call of remove_incon_dirs the direction map is one of the blocks.
MapInv ==
    /\ IsMaps(maps)
    /\ step \in {"morph", "incon1", "incon2"} => OnBlocks(maps.dir)
    /\ StableMap

LEMMA MapInvInit == Init => MapInv
BY DEF Init, NoMaps, MapInv, IsMaps, StableMap

LEMMA MapInvNext == MapInv /\ [Next]_vars => MapInv'
<1> SUFFICES ASSUME MapInv, [Next]_vars PROVE MapInv'
  OBVIOUS
<1>0. MapInv' <=> /\ IsMaps(maps')
                  /\ step' \in {"morph", "incon1", "incon2"} => OnBlocks(maps'.dir)
                  /\ step' \in {"smooth1", "smooth2"} =>
                        \A k \in Blocks : maps'.dir[k] # INVALID_DIR => ~remove_dir(maps'.dir, k)
  BY DEF MapInv, StableMap
<1>1. CASE InitialMaps
  <2>1. step' = "morph" /\ maps' = gen_initial_maps(pdata)
    BY <1>1 DEF InitialMaps, Call
  <2>2. \A p : IsMaps(gen_initial_maps(p)) /\ OnBlocks(gen_initial_maps(p).dir)
    BY DEF gen_initial_maps, IsMaps, OnBlocks
  <2> QED BY <1>0, <2>1, <2>2
<1>2. CASE MorphFlow
  <2>1. /\ step = "morph" /\ step' = "incon1"
        /\ maps' = [maps EXCEPT !.flow = morph_TF_map(maps.flow)]
    BY <1>2 DEF MorphFlow, MapsCall, Call
  <2>2. IsMaps(maps') /\ maps'.dir = maps.dir
    BY <2>1 DEF MapInv, IsMaps
  <2> QED BY <1>0, <2>1, <2>2 DEF MapInv
<1>3. CASE RemoveIncon
  <2>1. /\ step \in {"incon1", "incon2"} /\ step' \in {"smooth1", "smooth2"}
        /\ maps' = [maps EXCEPT !.dir = remove_incon_dirs(maps.dir)]
    BY <1>3 DEF RemoveIncon, MapsCall, Call
  <2>2. IsMaps(maps') /\ maps'.dir = remove_incon_dirs(maps.dir)
    BY <2>1 DEF MapInv, IsMaps
  <2>3. OnBlocks(maps.dir)
    BY <2>1 DEF MapInv
  <2>4. \A k \in Blocks : maps'.dir[k] # INVALID_DIR => ~remove_dir(maps'.dir, k)
    BY <2>2, <2>3, PassesStable
  <2> QED BY <1>0, <2>1, <2>2, <2>4
<1>4. CASE Smooth
  <2>1. /\ step' \in {"interpolate", "margin"}
        /\ maps' = [maps EXCEPT !.dir = smooth_direction_map(maps.dir, maps.contrast)]
    BY <1>4 DEF Smooth, MapsCall, Call
  <2>2. IsMaps(maps')
    BY <2>1 DEF MapInv, IsMaps
  <2> QED BY <1>0, <2>1, <2>2
<1>5. CASE Interpolate
  <2>1. /\ step' = "incon2"
        /\ maps' = [maps EXCEPT !.dir = interpolate_direction_map(maps.dir, maps.contrast)]
    BY <1>5 DEF Interpolate, MapsCall, Call
  <2>2. IsMaps(maps') /\ maps'.dir = interpolate_direction_map(maps.dir, maps.contrast)
    BY <2>1 DEF MapInv, IsMaps
  <2>3. \A m, c : OnBlocks(interpolate_direction_map(m, c))
    BY DEF interpolate_direction_map, OnBlocks
  <2> QED BY <1>0, <2>1, <2>2, <2>3
<1>6. CASE MarginAndCurve
  <2> DEFINE m == [maps EXCEPT !.dir = set_margin_blocks(maps.dir)]
  <2>1. /\ step' = "binarize"
        /\ maps' = [m EXCEPT !.curve = gen_high_curve_map(m.dir)]
    BY <1>6 DEF MarginAndCurve, MapsCall, Call
  <2>2. IsMaps(m)
    BY DEF MapInv, IsMaps
  <2> HIDE DEF m
  <2>3. IsMaps(maps')
    BY <2>1, <2>2 DEF IsMaps
  <2> QED BY <1>0, <2>1, <2>3
<1>7. CASE /\ maps' = maps
           /\ step' \notin {"morph", "incon1", "incon2", "smooth1", "smooth2"}
  BY <1>0, <1>7 DEF MapInv
<1>8. CASE UNCHANGED vars
  BY <1>0, <1>8 DEF MapInv, StableMap, vars
<1>9. CASE \/ Binarize \/ ScanHorizontally \/ ScanVertically \/ Sort \/ Islands \/ Holes
           \/ Pointing \/ NearInvalid \/ SideMinutiae \/ Hooks \/ Overlaps \/ Malformations
           \/ Pores \/ CountRidges \/ Quality \/ Template
  BY <1>7, <1>9 DEF Binarize, ScanHorizontally, ScanVertically, Sort, Islands, Holes, Pointing,
     NearInvalid, SideMinutiae, Hooks, Overlaps, Malformations, Pores, CountRidges, Quality,
     Template, MinutiaeCall, Call
<1> QED BY <1>1, <1>2, <1>3, <1>4, <1>5, <1>6, <1>8, <1>9 DEF Next

\* Both times remove_incon_dirs returns, no block of the direction map has a direction
\* that remove_dir would remove: whatever the image, the size of the map and the
\* parameters, its passes end, and not before every block agrees with those around it.
THEOREM StableMapKept == Spec => []StableMap
<1>1. MapInv => StableMap
  BY DEF MapInv
<1> QED BY <1>1, MapInvInit, MapInvNext, PTL DEF Spec

(***************************************************************************)
(* Lists in the order of their ranks.                                      *)
(***************************************************************************)
LEMMA PlacesInOrder ==
  /\ \A p \in Places : ~Precedes(p, p)
  /\ \A p, q \in Places : p # q => Precedes(p, q) \/ Precedes(q, p)
  /\ \A p, q, r \in Places : Precedes(p, q) /\ Precedes(q, r) => Precedes(p, r)
<1>1. \A p \in Places : p[1] \in Int /\ p[2] \in Int /\ p = <<p[1], p[2]>>
  BY DEF Places
<1>2. ASSUME NEW p \in Places, NEW q \in Places, ~Precedes(p, q), ~Precedes(q, p) PROVE p = q
  <2>1. p[1] = q[1] /\ p[2] = q[2]
    BY <1>1, <1>2 DEF Precedes
  <2> QED BY <1>1, <2>1
<1> QED BY <1>1, <1>2 DEF Precedes

RankIn(S, p) == Cardinality({q \in S : Precedes(q, p)})

\* order lists the members of S.
Lists(order, S) ==
    /\ order \in [1 .. Cardinality(S) -> S]
    /\ \A p \in S : \E j \in 1 .. Cardinality(S) : order[j] = p
    /\ \A i, j \in 1 .. Cardinality(S) : i < j => Precedes(order[i], order[j])

\* As many members of a finite set of pairs precede a pair as its place says.
LEMMA RanksDiffer ==
  ASSUME NEW S \in SUBSET Places, IsFiniteSet(S)
  PROVE  /\ Cardinality(S) \in Nat
         /\ \A p \in S : RankIn(S, p) \in 0 .. Cardinality(S) - 1
         /\ \A p, q \in S : Precedes(p, q) <=> RankIn(S, p) < RankIn(S, q)
         /\ \A i \in 0 .. Cardinality(S) - 1 : \E p \in S : RankIn(S, p) = i
<1> DEFINE n == Cardinality(S)
           Below(p) == {q \in S : Precedes(q, p)}
           f == [p \in S |-> RankIn(S, p)]
<1>1. n \in Nat
  BY FS_CardinalityType
<1>2. ASSUME NEW p \in S
      PROVE  IsFiniteSet(Below(p)) /\ RankIn(S, p) \in 0 .. n - 1 /\ RankIn(S, p) \in Nat
  <2>1. Below(p) \subseteq S \ {p}
    BY PlacesInOrder
  <2>2. IsFiniteSet(S \ {p}) /\ Cardinality(S \ {p}) = n - 1
    BY FS_RemoveElement
  <2>3. IsFiniteSet(Below(p)) /\ Cardinality(Below(p)) <= n - 1
    BY <2>1, <2>2, FS_Subset
  <2>4. Cardinality(Below(p)) \in Nat
    BY <2>3, FS_CardinalityType
  <2> QED BY <1>1, <2>3, <2>4 DEF RankIn
<1>3. ASSUME NEW p \in S, NEW q \in S, Precedes(p, q) PROVE RankIn(S, p) < RankIn(S, q)
  <2>1. p \notin Below(p) /\ Below(p) \cup {p} \subseteq Below(q)
    BY <1>3, PlacesInOrder
  <2>2. Cardinality(Below(p) \cup {p}) = Cardinality(Below(p)) + 1 /\ IsFiniteSet(Below(p) \cup {p})
    BY <1>2, <2>1, FS_AddElement
  <2>3. Cardinality(Below(p) \cup {p}) <= Cardinality(Below(q))
    BY <1>2, <2>1, FS_Subset
  <2>4. Cardinality(Below(p)) \in Nat /\ Cardinality(Below(q)) \in Nat
    BY <1>2, FS_CardinalityType
  <2> QED BY <2>2, <2>3, <2>4 DEF RankIn
<1>4. ASSUME NEW p \in S, NEW q \in S PROVE Precedes(p, q) <=> RankIn(S, p) < RankIn(S, q)
  <2>1. RankIn(S, p) \in Nat /\ RankIn(S, q) \in Nat
    BY <1>2
  <2>2. RankIn(S, p) < RankIn(S, q) => ~(RankIn(S, q) < RankIn(S, p)) /\ p # q
    BY <2>1
  <2> QED BY <1>3, <2>2, PlacesInOrder
<1>5. f \in Injection(S, 0 .. n - 1)
  <2>1. f \in [S -> 0 .. n - 1]
    BY <1>2
  <2>2. ASSUME NEW p \in S, NEW q \in S, f[p] = f[q] PROVE p = q
    <3>1. RankIn(S, p) = RankIn(S, q) /\ RankIn(S, p) \in Nat
      BY <1>2, <2>2
    <3>2. ~Precedes(p, q) /\ ~Precedes(q, p)
      BY <1>4, <3>1
    <3> QED BY <3>2, PlacesInOrder
  <2>3. \A p, q \in S : f[p] = f[q] => p = q
    BY <2>2
  <2> HIDE DEF f, n
  <2> QED BY <2>1, <2>3, Fun_IsInj
<1>6. f \in Surjection(S, 0 .. n - 1)
  <2>1. IsFiniteSet(0 .. n - 1) /\ Cardinality(0 .. n - 1) = n
    BY <1>1, FS_Interval
  <2> HIDE DEF f, n
  <2> QED BY <1>5, <2>1, FS_Injection DEF n
<1>7. \A i \in 0 .. n - 1 : \E p \in S : RankIn(S, p) = i
  <2>1. \A i \in 0 .. n - 1 : \E p \in S : f[p] = i
    <3> HIDE DEF f, n
    <3> QED BY <1>6 DEF Surjection
  <2> QED BY <2>1
<1> QED BY <1>1, <1>2, <1>4, <1>7

\* So what is listed by rank is there once each, and in order.
LEMMA ListedInOrder ==
  ASSUME NEW list, NEW S \in SUBSET Places, IsFiniteSet(S)
  PROVE  \E order : /\ Lists(order, S)
                    /\ Listed(list, S) = [j \in 1 .. Cardinality(S) |-> list[order[j][2]]]
<1> DEFINE n == Cardinality(S)
           ranked == {<<Cardinality({q \in S : Precedes(q, p)}), p[2]>> : p \in S}
           order == [j \in 1 .. n |-> CHOOSE p \in S : RankIn(S, p) = j - 1]
<1>1. n \in Nat
  BY RanksDiffer
<1>2. \A j \in 1 .. n : order[j] \in S /\ RankIn(S, order[j]) = j - 1
  <2> TAKE j \in 1 .. n
  <2>1. j - 1 \in 0 .. n - 1
    BY <1>1
  <2>2. \E p \in S : RankIn(S, p) = j - 1
    BY <2>1, RanksDiffer
  <2> QED BY <2>2
<1>3. \A j \in 1 .. n : (CHOOSE r \in ranked : r[1] = j - 1)[2] = order[j][2]
  <2> TAKE j \in 1 .. n
  <2> DEFINE x == CHOOSE r \in ranked : r[1] = j - 1
  <2>1. <<RankIn(S, order[j]), order[j][2]>> \in ranked
    BY <1>2 DEF RankIn
  <2>2. \E r \in ranked : r[1] = j - 1
    BY <1>2, <2>1
  <2>3. x \in ranked /\ x[1] = j - 1
    BY <2>2
  <2> HIDE DEF x
  <2>4. PICK p \in S : x = <<RankIn(S, p), p[2]>>
    BY <2>3 DEF RankIn
  <2>5. RankIn(S, p) = j - 1 /\ x[2] = p[2]
    BY <2>3, <2>4
  <2>6. p = order[j]
    <3>1. ~Precedes(p, order[j]) /\ ~Precedes(order[j], p)
      <4> HIDE DEF order
      <4> QED BY <1>1, <1>2, <2>5, RanksDiffer
    <3>2. p \in Places /\ order[j] \in Places
      BY <1>2
    <3> QED BY <3>1, <3>2, PlacesInOrder
  <2> HIDE DEF order
  <2> QED BY <2>5, <2>6 DEF x
<1>4. order \in [1 .. n -> S]
  BY <1>2
<1>5. Listed(list, S) = [j \in 1 .. n |-> list[order[j][2]]]
  <2>1. Listed(list, S) = [j \in 1 .. n |-> list[(CHOOSE r \in ranked : r[1] = j - 1)[2]]]
    BY DEF Listed
  <2> HIDE DEF order, ranked
  <2> QED BY <1>3, <2>1
<1> HIDE DEF order
<1>6. ASSUME NEW p \in S PROVE \E j \in 1 .. n : order[j] = p
  <2>1. RankIn(S, p) \in 0 .. n - 1
    BY RanksDiffer
  <2>2. RankIn(S, p) + 1 \in 1 .. n /\ RankIn(S, p) + 1 - 1 = RankIn(S, p)
    <3> HIDE DEF n
    <3> QED BY <1>1, <2>1
  <2> DEFINE j == RankIn(S, p) + 1
  <2>a. j \in 1 .. n /\ j - 1 = RankIn(S, p)
    <3> HIDE DEF n
    <3> QED BY <1>1, <2>1
  <2>3. order[j] \in S /\ RankIn(S, order[j]) = RankIn(S, p)
    <3> HIDE DEF j, n
    <3> QED BY <1>2, <2>a
  <2>4. ~Precedes(p, order[j]) /\ ~Precedes(order[j], p)
    <3> HIDE DEF j, n
    <3> QED BY <1>1, <2>1, <2>3, RanksDiffer
  <2>5. p = order[j]
    BY <2>3, <2>4, PlacesInOrder
  <2> QED BY <2>2, <2>5
<1>7. ASSUME NEW i \in 1 .. n, NEW j \in 1 .. n, i < j PROVE Precedes(order[i], order[j])
  <2>1. RankIn(S, order[i]) < RankIn(S, order[j])
    <3> HIDE DEF n
    <3> QED BY <1>1, <1>2, <1>7
  <2> QED BY <1>2, <2>1, RanksDiffer
<1>8. Lists(order, S)
  BY <1>4, <1>6, <1>7 DEF Lists
<1> QED BY <1>5, <1>8

(***************************************************************************)
(* Contours stay in the image.                                             *)
(***************************************************************************)
\* Points of the image with an edge pixel of E; there is no next one, or one of these.
PointsOn(E) == [p : Pixels, e : E]
EdgePoints == PointsOn(Pixels)
IsNext(E, next) == next = <<>> \/ \E q \in PointsOn(E) : next = <<q>>

\* The next point of a contour is in the image, as the one before it is.
LEMMA NextTyped ==
  ASSUME NEW E, Pixels \subseteq E, NEW c \in PointsOn(E), NEW clock, NEW b
  PROVE  IsNext(E, next_contour_pixel(c, clock, b))
<1> DEFINE Visited(i) == Plus(c.p, Nbr8[next_scan_nbr(start_scan_nbr(c.p, c.e), i * clock)])
           Diagonal(i) == next_scan_nbr(start_scan_nbr(c.p, c.e), (i + 1) * clock) % 2 = 1
           Prev(i) == IF i = 0 THEN c.e ELSE Visited(i)
           V(i, x, y) ==
               IF i >= 8 \/ Visited(i + 1) \notin Pixels THEN <<>>
               ELSE IF ~(b[Visited(i + 1)] = b[c.p] /\ b[Prev(i)] = b[c.e]) THEN x
               ELSE IF ~Diagonal(i) THEN <<[p |-> Visited(i + 1), e |-> Prev(i)]>>
               ELSE IF Visited(i + 2) \notin Pixels THEN <<>>
               ELSE IF b[Visited(i + 2)] = b[c.p] THEN <<[p |-> Visited(i + 1), e |-> Prev(i)]>>
               ELSE y
           spin == CHOOSE h : h = [i \in 0 .. 9 |-> V(i, h[i + 1], h[i + 2])]
<1>1. next_contour_pixel(c, clock, b) = spin[0]
  BY DEF next_contour_pixel
<1>2. Prev(0) \in E /\ \A i \in 1 .. 11 : Prev(i) = Visited(i)
  BY DEF PointsOn
<1>3. ASSUME NEW i \in 0 .. 9, NEW x, NEW y, Prev(i) \in E,
             Prev(i + 1) \in E => IsNext(E, x), Prev(i + 2) \in E => IsNext(E, y)
      PROVE  IsNext(E, V(i, x, y))
  <2>1. Visited(i + 1) \in Pixels => [p |-> Visited(i + 1), e |-> Prev(i)] \in PointsOn(E)
    BY <1>3 DEF PointsOn
  <2>2. Prev(i + 1) = Visited(i + 1) /\ Prev(i + 2) = Visited(i + 2)
    <3>1. i + 1 \in 1 .. 11 /\ i + 2 \in 1 .. 11
      OBVIOUS
    <3> QED BY <1>2, <3>1
  <2> HIDE DEF Visited, Prev, Diagonal
  <2>3. (Visited(i + 1) \in Pixels => IsNext(E, x)) /\ (Visited(i + 2) \in Pixels => IsNext(E, y))
    BY <1>3, <2>2
  <2> QED BY <2>1, <2>3 DEF IsNext
<1>4. \A i \in 8 .. 9 : \A x, y : V(i, x, y) = <<>>
  OBVIOUS
<1> HIDE DEF V
<1>5. \E h : h = [i \in 0 .. 9 |-> V(i, h[i + 1], h[i + 2])]
  <2> DEFINE k7 == V(7, <<>>, <<>>)
             k6 == V(6, k7, <<>>)
             k5 == V(5, k6, k7)
             k4 == V(4, k5, k6)
             k3 == V(3, k4, k5)
             k2 == V(2, k3, k4)
             k1 == V(1, k2, k3)
             k0 == V(0, k1, k2)
             h == [i \in 0 .. 9 |-> CASE i = 0 -> k0 [] i = 1 -> k1 [] i = 2 -> k2 [] i = 3 -> k3
                                      [] i = 4 -> k4 [] i = 5 -> k5 [] i = 6 -> k6 [] i = 7 -> k7
                                      [] OTHER -> <<>>]
  <2>1. k0 = V(0, k1, k2) /\ k1 = V(1, k2, k3) /\ k2 = V(2, k3, k4) /\ k3 = V(3, k4, k5)
    OBVIOUS
  <2>2. k4 = V(4, k5, k6) /\ k5 = V(5, k6, k7) /\ k6 = V(6, k7, <<>>) /\ k7 = V(7, <<>>, <<>>)
    OBVIOUS
  <2> HIDE DEF k0, k1, k2, k3, k4, k5, k6, k7
  <2>3. /\ h[0] = k0 /\ h[1] = k1 /\ h[2] = k2 /\ h[3] = k3 /\ h[4] = k4
        /\ h[5] = k5 /\ h[6] = k6 /\ h[7] = k7 /\ h[8] = <<>> /\ h[9] = <<>>
    OBVIOUS
  <2>4. h = [i \in 0 .. 9 |-> h[i]]
    OBVIOUS
  <2> HIDE DEF h
  <2>5. \A i \in 0 .. 7 : h[i] = V(i, h[i + 1], h[i + 2])
    <3>1. \A i \in 0 .. 7 : i \in {0, 1, 2, 3, 4, 5, 6, 7}
      OBVIOUS
    <3>2. /\ h[0] = V(0, h[0 + 1], h[0 + 2]) /\ h[1] = V(1, h[1 + 1], h[1 + 2])
          /\ h[2] = V(2, h[2 + 1], h[2 + 2]) /\ h[3] = V(3, h[3 + 1], h[3 + 2])
      BY <2>1, <2>3
    <3>3. /\ h[4] = V(4, h[4 + 1], h[4 + 2]) /\ h[5] = V(5, h[5 + 1], h[5 + 2])
          /\ h[6] = V(6, h[6 + 1], h[6 + 2]) /\ h[7] = V(7, h[7 + 1], h[7 + 2])
      BY <2>2, <2>3
    <3> QED BY <3>1, <3>2, <3>3
  <2>6. \A i \in 8 .. 9 : h[i] = V(i, h[i + 1], h[i + 2])
    <3>1. \A i \in 8 .. 9 : h[i] = <<>>
      BY <2>3
    <3> QED BY <1>4, <3>1
  <2>7. \A i \in 0 .. 9 : h[i] = V(i, h[i + 1], h[i + 2])
    <3>1. \A i \in 0 .. 9 : i \in 0 .. 7 \/ i \in 8 .. 9
      OBVIOUS
    <3> QED BY <2>5, <2>6, <3>1
  <2>8. h = [i \in 0 .. 9 |-> V(i, h[i + 1], h[i + 2])]
    BY <2>4, <2>7
  <2> QED BY <2>8
<1>6. spin = [i \in 0 .. 9 |-> V(i, spin[i + 1], spin[i + 2])]
  BY <1>5
<1> HIDE DEF spin
<1>7. \A i \in 0 .. 9 : spin[i] = V(i, spin[i + 1], spin[i + 2])
  BY <1>6
<1> HIDE DEF Visited, Prev, Diagonal
<1> DEFINE Sound(i) == Prev(i) \in E => IsNext(E, spin[i])
<1>8. Sound(9) /\ Sound(8)
  BY <1>4, <1>7 DEF IsNext
<1>9. ASSUME NEW i \in 0 .. 7, Sound(i + 1), Sound(i + 2) PROVE Sound(i)
  BY <1>3, <1>7, <1>9
<1>10. \A i \in 0 .. 7 : Sound(i + 1) /\ Sound(i + 2) => Sound(i)
  BY <1>9
<1> HIDE DEF Sound
<1>11. Sound(7) /\ Sound(6) /\ Sound(5) /\ Sound(4)
  <2>1. Sound(7)
    <3>1. 7 \in 0 .. 7 /\ 7 + 1 = 8 /\ 7 + 2 = 9
      OBVIOUS
    <3> QED BY <1>8, <1>10, <3>1
  <2>2. Sound(6)
    BY <1>8, <1>10, <2>1
  <2>3. Sound(5)
    BY <1>10, <2>1, <2>2
  <2>4. Sound(4)
    BY <1>10, <2>2, <2>3
  <2> QED BY <2>1, <2>2, <2>3, <2>4
<1>12. Sound(0)
  <2>1. Sound(3)
    BY <1>10, <1>11
  <2>2. Sound(2)
    BY <1>10, <1>11, <2>1
  <2>3. Sound(1)
    BY <1>10, <2>1, <2>2
  <2> QED BY <1>10, <2>2, <2>3
<1> QED BY <1>1, <1>2, <1>12 DEF Sound

Traces == [ret : {IGNORE, LOOP_FOUND, OK}, c : Seq(EdgePoints)]

\* A traced contour has its points in the image: by induction over its length.
LEMMA TraceTyped ==
  ASSUME NEW c \in EdgePoints, NEW len \in Nat, NEW loop, NEW clock, NEW b
  PROVE  trace_contour(c, len, loop, clock, b) \in Traces
<1> DEFINE D == Points \X (0 .. len)
           Inner == EdgePoints \X (0 .. len)
           Next1(r) == IF r[2] = 0 THEN <<>> ELSE next_contour_pixel(r[1], clock, b)
           Grown(next, rest) == [rest EXCEPT !.c = next \o rest.c]
           E(f, r) == IF Next1(r) = <<>> THEN [ret |-> OK, c |-> <<>>]
                      ELSE IF Next1(r)[1].p = loop THEN [ret |-> LOOP_FOUND, c |-> <<>>]
                      ELSE Grown(Next1(r), f[<<Next1(r)[1], r[2] - 1>>])
           IsFun(f) == f = [r \in D |-> f[r]]
           Good(f, m) == \A r \in D : r[2] < m => f[r] = E(f, r)
           Made == {m \in Nat : \E f : IsFun(f) /\ Good(f, m)}
           trace == CHOOSE f : f = [r \in D |-> E(f, r)]
           Typed == {m \in Nat : \A r \in Inner : r[2] < m => trace[r] \in Traces}
<1>1. trace_contour(c, len, loop, clock, b)
        = IF b[c.p] = b[c.e] THEN [ret |-> IGNORE, c |-> <<>>] ELSE trace[<<c, len>>]
  BY DEF trace_contour
<1>2. \A r \in D : /\ r = <<r[1], r[2]>> /\ r[1] \in Points /\ r[2] \in 0 .. len
                   /\ IsNext(Int \X Int, Next1(r)) /\ (r[2] = 0 => Next1(r) = <<>>)
  <2> TAKE r \in D
  <2>1. r = <<r[1], r[2]>> /\ r[1] \in Points /\ r[2] \in 0 .. len
    BY DEF Points
  <2>2. IsNext(Int \X Int, next_contour_pixel(r[1], clock, b))
    <3>1. r[1] \in PointsOn(Int \X Int)
      BY <2>1 DEF Points, PointsOn
    <3>2. Pixels \subseteq Int \X Int
      BY SizeAssumption DEF Pixels
    <3> QED BY <3>1, <3>2, NextTyped
  <2> QED BY <2>1, <2>2 DEF IsNext
<1>3. \A r \in D : Next1(r) = <<>> \/ (\E q \in Points : Next1(r) = <<q>> /\ <<q, r[2] - 1>> \in D)
  <2> TAKE r \in D
  <2>1. CASE r[2] = 0
    BY <1>2, <2>1
  <2>2. CASE r[2] # 0
    <3>1. r[2] - 1 \in 0 .. len
      BY <1>2, <2>2
    <3>2. \A q \in Points : <<q, r[2] - 1>> \in D
      BY <3>1
    <3>3. PointsOn(Int \X Int) = Points
      BY DEF Points, PointsOn
    <3> HIDE DEF D, Next1
    <3> QED BY <1>2, <3>2, <3>3 DEF IsNext
  <2> QED BY <2>1, <2>2
<1>3a. \A r \in Inner : /\ r \in D /\ r[2] \in 0 .. len
                        /\ \/ Next1(r) = <<>>
                           \/ \E q \in EdgePoints :
                                 Next1(r) = <<q>> /\ <<q, r[2] - 1>> \in Inner
  <2> TAKE r \in Inner
  <2>1. r[1] \in PointsOn(Pixels) /\ r[2] \in 0 .. len /\ r = <<r[1], r[2]>>
    BY DEF EdgePoints
  <2>2. r \in D
    <3>1. r[1] \in Points
      BY <2>1, SizeAssumption DEF Points, Pixels, PointsOn
    <3> QED BY <2>1, <3>1
  <2>3. IsNext(Pixels, next_contour_pixel(r[1], clock, b))
    BY <2>1, NextTyped
  <2>4. CASE r[2] = 0
    BY <2>1, <2>2, <2>4
  <2>5. CASE r[2] # 0
    <3>1. r[2] - 1 \in 0 .. len
      BY <2>1, <2>5
    <3>2. \A q \in EdgePoints : <<q, r[2] - 1>> \in Inner
      BY <3>1
    <3>3. Next1(r) = next_contour_pixel(r[1], clock, b)
      BY <2>5
    <3> HIDE DEF D, Inner, Next1
    <3> QED BY <2>1, <2>2, <2>3, <3>2, <3>3 DEF IsNext, EdgePoints
  <2> QED BY <2>4, <2>5
<1>4. \A f : IsFun(f) <=> f = [r \in D |-> f[r]]
  OBVIOUS
<1> HIDE DEF Next1, Grown
<1>5. ASSUME NEW f, NEW g, NEW r \in D,
             \A q \in Points : <<q, r[2] - 1>> \in D => f[<<q, r[2] - 1>>] = g[<<q, r[2] - 1>>]
      PROVE  E(f, r) = E(g, r)
  <2>1. CASE Next1(r) = <<>>
    BY <2>1
  <2>2. CASE \E q \in Points : Next1(r) = <<q>> /\ <<q, r[2] - 1>> \in D
    <3>1. PICK q \in Points : Next1(r) = <<q>> /\ <<q, r[2] - 1>> \in D
      BY <2>2
    <3>2. Next1(r)[1] = q
      BY <3>1
    <3> QED BY <1>5, <3>1, <3>2
  <2> QED BY <1>3, <2>1, <2>2
<1>6. ASSUME NEW f, NEW r \in Inner,
             \A q \in EdgePoints : <<q, r[2] - 1>> \in Inner => f[<<q, r[2] - 1>>] \in Traces
      PROVE  E(f, r) \in Traces
  <2>1. CASE Next1(r) = <<>>
    BY <2>1 DEF Traces
  <2>2. CASE \E q \in EdgePoints : Next1(r) = <<q>> /\ <<q, r[2] - 1>> \in Inner
    <3>1. PICK q \in EdgePoints : Next1(r) = <<q>> /\ <<q, r[2] - 1>> \in Inner
      BY <2>2
    <3>2. Next1(r)[1] = q /\ Next1(r) \in Seq(EdgePoints)
      BY <3>1
    <3> DEFINE rest == f[<<q, r[2] - 1>>]
    <3>3. rest \in Traces
      BY <1>6, <3>1
    <3> HIDE DEF rest
    <3>4. rest.c \in Seq(EdgePoints)
      BY <3>3 DEF Traces
    <3>5. Next1(r) \o rest.c \in Seq(EdgePoints)
      BY <3>2, <3>4
    <3>6. Grown(Next1(r), rest) \in Traces
      BY <3>3, <3>5 DEF Traces, Grown
    <3>7. [ret |-> LOOP_FOUND, c |-> <<>>] \in Traces
      BY DEF Traces
    <3>8. Next1(r) # <<>>
      BY <3>1
    <3> QED BY <3>2, <3>6, <3>7, <3>8 DEF rest
  <2> QED BY <1>3a, <2>1, <2>2
<1> HIDE DEF D, E, Inner
<1>7. 0 \in Made
  <2> DEFINE f == [r \in D |-> 0]
  <2>1. IsFun(f)
    OBVIOUS
  <2> HIDE DEF f
  <2>2. Good(f, 0)
    BY <1>2
  <2> HIDE DEF IsFun, Good
  <2> QED BY <2>1, <2>2
<1>8. ASSUME NEW m \in Nat, m \in Made PROVE m + 1 \in Made
  <2>1. PICK f : IsFun(f) /\ Good(f, m)
    BY <1>8
  <2> DEFINE g == [r \in D |-> E(f, r)]
  <2>2. IsFun(g) /\ \A r \in D : g[r] = E(f, r)
    OBVIOUS
  <2> HIDE DEF g
  <2>3. ASSUME NEW r \in D, r[2] < m + 1 PROVE g[r] = E(g, r)
    <3>1. \A q \in Points : <<q, r[2] - 1>> \in D => f[<<q, r[2] - 1>>] = g[<<q, r[2] - 1>>]
      <4> SUFFICES ASSUME NEW q \in Points, <<q, r[2] - 1>> \in D
                   PROVE  f[<<q, r[2] - 1>>] = g[<<q, r[2] - 1>>]
        OBVIOUS
      <4>1. r[2] - 1 < m
        BY <1>2, <2>3
      <4> QED BY <2>1, <2>2, <4>1
    <3>2. E(f, r) = E(g, r)
      BY <1>5, <3>1
    <3> QED BY <2>2, <3>2
  <2>4. Good(g, m + 1)
    BY <2>3
  <2> HIDE DEF IsFun, Good
  <2> QED BY <2>2, <2>4
<1>9. Nat \subseteq Made
  <2> HIDE DEF Made
  <2> QED BY <1>7, <1>8, Induct
<1>10. PICK f : IsFun(f) /\ Good(f, len + 1)
  BY <1>9
<1>11. f = [r \in D |-> E(f, r)]
  <2>1. ASSUME NEW r \in D PROVE f[r] = E(f, r)
    <3>1. r[2] < len + 1
      BY <1>2
    <3> QED BY <1>10, <3>1
  <2> QED BY <1>10, <2>1
<1>12. trace = [r \in D |-> E(trace, r)]
  BY <1>11
<1> HIDE DEF trace
<1>13. \A r \in D : trace[r] = E(trace, r)
  BY <1>12
<1>14. 0 \in Typed
  BY <1>3a
<1>15. ASSUME NEW m \in Nat, m \in Typed PROVE m + 1 \in Typed
  <2>1. ASSUME NEW r \in Inner, r[2] < m + 1 PROVE trace[r] \in Traces
    <3>1. \A q \in EdgePoints : <<q, r[2] - 1>> \in Inner => trace[<<q, r[2] - 1>>] \in Traces
      <4> SUFFICES ASSUME NEW q \in EdgePoints, <<q, r[2] - 1>> \in Inner
                   PROVE  trace[<<q, r[2] - 1>>] \in Traces
        OBVIOUS
      <4>1. r[2] - 1 < m
        BY <1>3a, <2>1
      <4> QED BY <1>15, <4>1
    <3>2. E(trace, r) \in Traces
      BY <1>6, <3>1
    <3> QED BY <1>13, <1>3a, <3>2
  <2> QED BY <2>1
<1>16. Nat \subseteq Typed
  <2> HIDE DEF Typed
  <2> QED BY <1>14, <1>15, Induct
<1>17. <<c, len>> \in Inner
  BY DEF Inner
<1>18. trace[<<c, len>>] \in Traces
  <2>1. len + 1 \in Typed
    BY <1>16
  <2>2. <<c, len>>[2] < len + 1
    OBVIOUS
  <2> QED BY <1>17, <2>1, <2>2
<1> QED BY <1>1, <1>18 DEF Traces

\* Its points in the opposite order are.
LEMMA ReversePoints ==
  ASSUME NEW seq \in Seq(EdgePoints)
  PROVE  Reverse(seq) \in Seq(EdgePoints)
<1>1. Reverse(seq) = [i \in 1 .. Len(seq) |-> seq[(Len(seq) - i) + 1]]
  BY DEF Reverse
<1>2. Len(seq) \in Nat /\ \A i \in 1 .. Len(seq) : seq[i] \in EdgePoints
  OBVIOUS
<1>3. \A i \in 1 .. Len(seq) : seq[(Len(seq) - i) + 1] \in EdgePoints
  BY <1>2
<1> QED BY <1>1, <1>2, <1>3

\* So is the contour traced both ways from a point.
LEMMA CentredTyped ==
  ASSUME NEW c \in EdgePoints, NEW half \in Nat, NEW b
  PROVE  /\ get_high_curvature_contour(c, half, b).c \in Seq(EdgePoints)
         /\ get_centered_contour(c, half, b).c \in Seq(EdgePoints)
<1>1. \A loop : \A clock : trace_contour(c, half, loop, clock, b).c \in Seq(EdgePoints)
  BY TraceTyped DEF Traces
<1> DEFINE h1 == FirstHalf(c, half, b)
           h2 == SecondHalf(c, half, h1, b)
<1>2. h1.c \in Seq(EdgePoints) /\ h2.c \in Seq(EdgePoints)
  BY <1>1 DEF FirstHalf, SecondHalf
<1>3. <<>> \in Seq(EdgePoints) /\ <<c>> \in Seq(EdgePoints)
  OBVIOUS
<1> HIDE DEF h1, h2
<1>4. Joined(h1.c, c, h2.c) \in Seq(EdgePoints) /\ <<c>> \o Reverse(h1.c) \in Seq(EdgePoints)
  BY <1>2, ReversePoints DEF Joined
<1>5. get_high_curvature_contour(c, half, b).c
        \in {<<>>, <<c>> \o Reverse(h1.c), Joined(h1.c, c, h2.c)}
  BY DEF get_high_curvature_contour, h1, h2
<1>6. get_centered_contour(c, half, b).c \in {<<>>, Joined(h1.c, c, h2.c)}
  BY DEF get_centered_contour, h1, h2
<1> QED BY <1>3, <1>4, <1>5, <1>6

(***************************************************************************)
(* Places on a contour.                                                    *)
(***************************************************************************)
LEMMA LeastIn ==
  ASSUME NEW S \in SUBSET Nat, S # {}
  PROVE  Min(S) \in S
<1>1. \E n \in S : \A m \in S : n <= m
  BY LeastOf
<1> QED BY <1>1 DEF Min

\* The places of a contour, and what is there.
LEMMA PointsOf ==
  ASSUME NEW c \in Seq(EdgePoints)
  PROVE  Len(c) \in Nat /\ \A i \in 1 .. Len(c) : c[i] \in EdgePoints /\ c[i].p \in Pixels
<1>1. Len(c) \in Nat /\ \A i \in 1 .. Len(c) : c[i] \in EdgePoints
  OBVIOUS
<1>2. \A q \in EdgePoints : q.p \in Pixels
  BY DEF EdgePoints, PointsOn
<1> QED BY <1>1, <1>2

\* Fractions with positive denominators.
LEMMA Scaled ==
  ASSUME NEW a \in Int, NEW b \in Int, NEW k \in Int, k > 0
  PROVE  a * k > b * k <=> a > b
<1>1. CASE a > b
  <2>1. a - b > 0 /\ (a - b) * k > 0
    BY <1>1
  <2>2. (a - b) * k = a * k - b * k
    OBVIOUS
  <2> QED BY <1>1, <2>1, <2>2
<1>2. CASE a <= b
  <2>1. b - a >= 0 /\ (b - a) * k >= 0
    BY <1>2
  <2>2. (b - a) * k = b * k - a * k
    OBVIOUS
  <2> QED BY <1>2, <2>1, <2>2
<1> QED BY <1>1, <1>2

\* Products carried over from one pair of fractions to the next.
LEMMA SharperStill ==
  ASSUME NEW fn \in Int, NEW fd \in Int, NEW gn \in Int, NEW gd \in Int,
         NEW hn \in Int, NEW hd \in Int,
         fd > 0, gd > 0, hd > 0, fn * gd > gn * fd, gn * hd > hn * gd
  PROVE  fn * hd > hn * fd
<1>1. (fn * gd) * hd > (gn * fd) * hd
  BY Scaled
<1>2. (gn * hd) * fd > (hn * gd) * fd
  BY Scaled
<1>3. (fn * gd) * hd = (fn * hd) * gd /\ (hn * gd) * fd = (hn * fd) * gd
  OBVIOUS
<1>4. (gn * fd) * hd = (gn * hd) * fd
  OBVIOUS
<1> DEFINE a == fn * hd
           b == hn * fd
<1>5. a \in Int /\ b \in Int
  OBVIOUS
<1>6. a * gd > b * gd
  <2>1. (fn * gd) * hd \in Int /\ (gn * fd) * hd \in Int /\ (hn * gd) * fd \in Int
    OBVIOUS
  <2>2. a * gd = (fn * gd) * hd /\ b * gd = (hn * gd) * fd
    BY <1>3
  <2> HIDE DEF a, b
  <2> QED BY <1>1, <1>2, <1>4, <2>1, <2>2
<1>7. a > b
  <2> HIDE DEF a, b
  <2> QED BY <1>5, <1>6, Scaled
<1> QED BY <1>7

Fractions == [num : Int, den : Nat \ {0}]

\* Sharper orders the fractions, whichever their denominators.
LEMMA SharperTransitive ==
  \A f, g, h \in Fractions : Sharper(f, g) /\ Sharper(g, h) => Sharper(f, h)
<1> SUFFICES ASSUME NEW f \in Fractions, NEW g \in Fractions, NEW h \in Fractions,
                    Sharper(f, g), Sharper(g, h)
             PROVE  Sharper(f, h)
  OBVIOUS
<1>1. \A q \in Fractions : q.num \in Int /\ q.den \in Int /\ q.den > 0
  BY DEF Fractions
<1>2. f.num * g.den > g.num * f.den /\ g.num * h.den > h.num * g.den
  BY DEF Sharper
<1>3. f.num * h.den > h.num * f.den
  BY <1>1, <1>2, SharperStill
<1> QED BY <1>3 DEF Sharper

\* Of finitely many fractions one is a sharpest.
LEMMA OneSharpest ==
  ASSUME NEW n \in Nat, NEW B \in SUBSET (1 .. n), B # {}, NEW at, \A i \in B : at[i] \in Fractions
  PROVE  \E i \in B : \A j \in B : ~Sharper(at[j], at[i])
<1> DEFINE T == {m \in Nat : B \cap (1 .. m) # {} =>
                    \E i \in B \cap (1 .. m) : \A j \in B \cap (1 .. m) : ~Sharper(at[j], at[i])}
<1>0. \A f \in Fractions : ~Sharper(f, f)
  <2> SUFFICES ASSUME NEW f \in Fractions PROVE ~Sharper(f, f)
    OBVIOUS
  <2>1. f.num * f.den \in Int
    BY DEF Fractions
  <2> QED BY <2>1 DEF Sharper
<1>1. 0 \in T
  OBVIOUS
<1>2. ASSUME NEW m \in Nat, m \in T PROVE m + 1 \in T
  <2> DEFINE low == B \cap (1 .. m)
             high == B \cap (1 .. (m + 1))
             best(S) == \E i \in S : \A j \in S : ~Sharper(at[j], at[i])
  <2> SUFFICES ASSUME high # {} PROVE best(high)
    OBVIOUS
  <2>1. low # {} => best(low)
    BY <1>2
  <2>2. high = low \/ (high = low \cup {m + 1} /\ m + 1 \in B)
    OBVIOUS
  <2>3. low \subseteq B
    OBVIOUS
  <2> HIDE DEF low, high
  <2>4. CASE high = low
    BY <2>1, <2>4
  <2>5. CASE high = low \cup {m + 1} /\ m + 1 \in B
    <3>1. CASE low = {}
      <4>1. high = {m + 1}
        BY <2>5, <3>1
      <4> QED BY <1>0, <2>5, <4>1
    <3>2. CASE low # {}
      <4>1. PICK i \in low : \A j \in low : ~Sharper(at[j], at[i])
        BY <2>1, <3>2
      <4>2. at[i] \in Fractions /\ at[m + 1] \in Fractions /\ \A j \in low : at[j] \in Fractions
        BY <2>3, <2>5
      <4>3. CASE Sharper(at[m + 1], at[i])
        <5>1. \A j \in low : ~Sharper(at[j], at[m + 1])
          BY <4>1, <4>2, <4>3, SharperTransitive
        <5>2. \A j \in high : ~Sharper(at[j], at[m + 1])
          BY <1>0, <2>5, <4>2, <5>1
        <5> QED BY <2>5, <5>2
      <4>4. CASE ~Sharper(at[m + 1], at[i])
        BY <2>5, <4>1, <4>4
      <4> QED BY <4>3, <4>4
    <3> QED BY <3>1, <3>2
  <2> QED BY <2>2, <2>4, <2>5
<1>3. n \in T
  <2> HIDE DEF T
  <2> QED BY <1>1, <1>2, Induct
<1>4. B \cap (1 .. n) = B
  OBVIOUS
<1> QED BY <1>3, <1>4

\* The squared cosine of the angle at a pixel has a denominator that is not zero.
LEMMA CosineTyped ==
  ASSUME NEW p \in Pixels, NEW q \in Pixels, NEW r \in Pixels
  PROVE  Cosine(angle2line(p, q), angle2line(p, r)) \in Fractions
<1>1. \A o \in Pixels : o[1] \in Int /\ o[2] \in Int /\ o = <<o[1], o[2]>>
  BY DEF Pixels, SizeAssumption
<1>2. ASSUME NEW o \in Pixels
      PROVE  \E x, y \in Int : angle2line(p, o) = <<x, y>> /\ (x # 0 \/ y # 0)
  <2>1. CASE p = o
    <3>1. angle2line(p, o) = <<1, 0>>
      BY <2>1 DEF angle2line
    <3> QED BY <3>1
  <2>2. CASE p # o
    <3>1. angle2line(p, o) = <<o[1] - p[1], p[2] - o[2]>>
      BY <2>2 DEF angle2line
    <3>2. p[1] # o[1] \/ p[2] # o[2]
      BY <1>1, <2>2
    <3>3. o[1] - p[1] \in Int /\ p[2] - o[2] \in Int /\ (o[1] - p[1] # 0 \/ p[2] - o[2] # 0)
      BY <1>1, <3>2
    <3> QED BY <3>1, <3>3
  <2> QED BY <2>1, <2>2
<1>3. \A x, y \in Int : (x # 0 \/ y # 0) => x * x + y * y \in Nat \ {0}
  <2> TAKE x, y \in Int
  <2>1. x * x >= 0 /\ y * y >= 0 /\ (x # 0 => x * x > 0) /\ (y # 0 => y * y > 0)
    OBVIOUS
  <2>2. x * x \in Int /\ y * y \in Int
    OBVIOUS
  <2> QED BY <2>1, <2>2
<1>4. PICK x, y \in Int : angle2line(p, q) = <<x, y>> /\ (x # 0 \/ y # 0)
  BY <1>2
<1>5. PICK u, v \in Int : angle2line(p, r) = <<u, v>> /\ (u # 0 \/ v # 0)
  BY <1>2
<1> DEFINE dot == x * u + y * v
           xy == x * x + y * y
           uv == u * u + v * v
<1>6. dot \in Int /\ xy \in Nat \ {0} /\ uv \in Nat \ {0}
  BY <1>3, <1>4, <1>5
<1>7. Cosine(angle2line(p, q), angle2line(p, r)) = [num |-> Sign(dot) * dot * dot, den |-> xy * uv]
  BY <1>4, <1>5 DEF Cosine
<1> HIDE DEF dot, xy, uv
<1>8. Sign(dot) \in {-1, 0, 1}
  BY DEF Sign
<1>9. Sign(dot) * dot * dot \in Int /\ xy * uv \in Nat \ {0}
  BY <1>6, <1>8
<1> QED BY <1>7, <1>9 DEF Fractions

\* The sharpest bend of a contour is on it.
LEMMA SharpestPlace ==
  ASSUME NEW c \in Seq(EdgePoints), NEW edge \in Nat, min_contour_theta(c, edge).ret # IGNORE
  PROVE  min_contour_theta(c, edge).i \in 1 .. Len(c)
<1> DEFINE Centers == (edge + 1) .. (Len(c) - edge)
           At(i) == Cosine(angle2line(c[i].p, c[i - edge].p), angle2line(c[i].p, c[i + edge].p))
           flat == [num |-> -1, den |-> 1]
           Bent == {i \in Centers : Sharper(At(i), flat)}
           Sharpest == {i \in Bent : \A j \in Bent : ~Sharper(At(j), At(i))}
           t == min_contour_theta(c, edge)
<1>1. t = IF Len(c) < 2 * edge + 1 THEN [ret |-> IGNORE]
          ELSE IF Bent = {} THEN [ret |-> OK, i |-> Len(c) \div 2 + 1, theta |-> flat]
          ELSE [ret |-> OK, i |-> Min(Sharpest), theta |-> At(Min(Sharpest))]
  BY DEF min_contour_theta
<1>2. Len(c) \in Nat /\ \A i \in 1 .. Len(c) : c[i].p \in Pixels
  BY PointsOf
<1>3. \A i \in Centers : i \in 1 .. Len(c) /\ i - edge \in 1 .. Len(c) /\ i + edge \in 1 .. Len(c)
  BY <1>2
<1>4. \A i \in Centers : At(i) \in Fractions
  BY <1>2, <1>3, CosineTyped
<1> HIDE DEF At, flat
<1>5. CASE Bent # {}
  <2> DEFINE at == [i \in 1 .. Len(c) |-> At(i)]
  <2>1. \A i \in Bent : i \in 1 .. Len(c) /\ at[i] = At(i) /\ at[i] \in Fractions
    BY <1>3, <1>4
  <2>2. Bent \in SUBSET (1 .. Len(c))
    BY <2>1
  <2> HIDE DEF at, Bent
  <2>3. \E i \in Bent : \A j \in Bent : ~Sharper(at[j], at[i])
    BY <1>2, <1>5, <2>1, <2>2, OneSharpest
  <2>4. Sharpest # {}
    BY <2>1, <2>3
  <2>a. Sharpest \subseteq Bent
    OBVIOUS
  <2>5. Sharpest \in SUBSET (1 .. Len(c)) /\ Sharpest \in SUBSET Nat
    <3> HIDE DEF Sharpest
    <3> QED BY <1>2, <2>2, <2>a
  <2> HIDE DEF Sharpest
  <2>6. Min(Sharpest) \in 1 .. Len(c)
    BY <2>4, <2>5, LeastIn
  <2>7. t.ret # IGNORE => t.i = Min(Sharpest)
    BY <1>1, <1>5
  <2> QED BY <2>6, <2>7
<1>6. CASE Bent = {}
  <2> HIDE DEF Bent
  <2>1. Len(c) >= 2 * edge + 1 /\ t.i = Len(c) \div 2 + 1
    <3>1. ~(Len(c) < 2 * edge + 1)
      BY <1>1
    <3> QED BY <1>1, <1>2, <1>6, <3>1
  <2>2. Len(c) \div 2 + 1 \in 1 .. Len(c)
    BY <1>2, <2>1
  <2> QED BY <2>1, <2>2
<1> QED BY <1>5, <1>6

\* So are the ends of the longest chord of a loop.
LEMMA AspectPlaces ==
  ASSUME NEW c \in Seq(EdgePoints), c # <<>>
  PROVE  get_loop_aspect(c).fr \in 1 .. Len(c) /\ get_loop_aspect(c).to \in 1 .. Len(c)
<1> DEFINE n == Len(c)
           half == n \div 2
           Opp(i) == ((i - 1 + half) % n) + 1
           I == 1 .. (IF n % 2 = 1 THEN n ELSE half)
           D(i) == squared_distance(c[i].p, c[Opp(i)].p)
           lo == Min({i \in I : \A j \in I : D(i) <= D(j)})
           hi == Min({i \in I : \A j \in I : D(i) >= D(j)})
<1>1. get_loop_aspect(c) = [min |-> D(lo), max |-> D(hi), fr |-> hi, to |-> Opp(hi)]
  BY DEF get_loop_aspect
<1>2. n \in Nat /\ n >= 1 /\ \A i \in 1 .. n : c[i].p \in Pixels
  <2>1. n # 0
    OBVIOUS
  <2> QED BY <2>1, PointsOf
<1>3. \A p, q \in Pixels : squared_distance(p, q) \in Int
  BY DEF squared_distance, Pixels, SizeAssumption
<1> HIDE DEF n
<1>4. half \in 0 .. n /\ I \subseteq 1 .. n /\ 1 \in I
  BY <1>2
<1>5. \A i \in 1 .. n : Opp(i) \in 1 .. n
  <2> TAKE i \in 1 .. n
  <2>1. i - 1 + half \in Nat
    BY <1>2, <1>4
  <2> HIDE DEF half
  <2> QED BY <1>2, <2>1
<1>6. \A i \in I : D(i) \in Int
  BY <1>2, <1>3, <1>4, <1>5
<1> HIDE DEF I, D, Opp
<1> DEFINE at == [i \in I |-> [num |-> D(i), den |-> 1]]
           best == {i \in I : \A j \in I : D(i) >= D(j)}
<1>7. \A i \in I : at[i] = [num |-> D(i), den |-> 1] /\ at[i] \in Fractions
  BY <1>6 DEF Fractions
<1> HIDE DEF at
<1>10. PICK i \in I : \A j \in I : ~Sharper(at[j], at[i])
  <2>1. I \in SUBSET (1 .. n) /\ I # {} /\ n \in Nat
    BY <1>2, <1>4
  <2> QED BY <1>7, <2>1, OneSharpest
<1>11. \A j \in I : D(i) >= D(j)
  <2> TAKE j \in I
  <2>a. at[i] = [num |-> D(i), den |-> 1] /\ at[j] = [num |-> D(j), den |-> 1]
    BY <1>7
  <2>1. /\ at[i].num = D(i) /\ at[i].den = 1 /\ at[j].num = D(j) /\ at[j].den = 1
        /\ D(i) \in Int /\ D(j) \in Int
    BY <1>6, <2>a
  <2>2. ~(at[j].num * at[i].den > at[i].num * at[j].den)
    BY <1>10 DEF Sharper
  <2>3. ~(D(j) * 1 > D(i) * 1)
    BY <2>1, <2>2
  <2> QED BY <2>1, <2>3
<1>12. best # {} /\ best \in SUBSET Nat /\ best \subseteq 1 .. n
  <2>1. best \subseteq I /\ best # {}
    BY <1>10, <1>11
  <2> HIDE DEF best
  <2> QED BY <1>2, <1>4, <2>1
<1>13. hi \in 1 .. n
  <2>1. Min(best) \in best
    <3> HIDE DEF best
    <3> QED BY <1>12, LeastIn
  <2> QED BY <1>12, <2>1
<1> HIDE DEF hi, lo
<1> QED BY <1>1, <1>5, <1>13 DEF n

\* The extrema of a sequence of n values lie on it.
Extrema(n, items) == [type : {-1, 0, 1}, i : 1 .. n, val : {items[k] : k \in 1 .. n}]

\* minmaxs finds extrema on the sequence: by induction over the places it comes to.
LEMMA ExtremaTyped ==
  ASSUME NEW items, Len(items) \in Nat
  PROVE  minmaxs(items) \in Seq(Extrema(Len(items), items))
<1> DEFINE n == Len(items)
           L == n - 1
           X == Extrema(n, items)
           States == [found : Seq(X), state : {-1, 0, 1}, start : 1 .. n]
           S(i) == Sign(items[i + 1] - items[i])
           After(t, i) == [found |-> IF Turning(t, S(i), i)
                                     THEN Append(t.found, Extremum(items, t, S(i), i)) ELSE t.found,
                           state |-> S(i), start |-> i]
           E(f, i) == IF i = 1 THEN [found |-> <<>>, state |-> S(i), start |-> 1]
                      ELSE IF S(i) = 0 THEN f[i - 1] ELSE After(f[i - 1], i)
           IsFun(f) == f = [i \in 1 .. L |-> f[i]]
           Good(f, m) == \A i \in 1 .. L : i < m => f[i] = E(f, i)
           Made == {m \in Nat : \E f : IsFun(f) /\ Good(f, m)}
           seen == CHOOSE f : f = [i \in 1 .. L |-> E(f, i)]
           Typed == {m \in Nat : \A i \in 1 .. L : i < m => seen[i] \in States /\ seen[i].start <= i}
<1>1. minmaxs(items) = IF n < 3 THEN <<>> ELSE seen[L].found
  BY DEF minmaxs
<1>2. \A i : S(i) \in {-1, 0, 1} /\ -S(i) \in {-1, 0, 1}
  <2>1. \A x : Sign(x) \in {-1, 0, 1}
    BY DEF Sign
  <2>2. \A x \in {-1, 0, 1} : -x \in {-1, 0, 1}
    OBVIOUS
  <2> QED BY <2>1, <2>2
<1>3. \A f, g, i : i # 1 /\ f[i - 1] = g[i - 1] => E(f, i) = E(g, i)
  OBVIOUS
<1>4. \A f, g : E(f, 1) = E(g, 1)
  OBVIOUS
<1>5. ASSUME NEW i \in 2 .. L, NEW t \in States, t.start <= i - 1
      PROVE  After(t, i) \in States /\ After(t, i).start <= i
  <2> DEFINE loc == (t.start + i - 2) \div 2 + 1
  <2>1. t.start \in Nat /\ t.start >= 1 /\ i \in 1 .. n /\ i \in Nat
    <3>1. t.start \in 1 .. n
      BY DEF States
    <3> HIDE DEF States
    <3> QED BY <3>1
  <2>2. loc \in 1 .. n
    <3>1. n \in Nat
      OBVIOUS
    <3> DEFINE x == t.start
    <3>2. x \in Nat /\ x >= 1 /\ x <= i - 1 /\ i \in 1 .. n
      BY <1>5, <2>1
    <3> HIDE DEF n, States, x
    <3>3. (x + i - 2) \div 2 + 1 \in 1 .. n
      BY <3>1, <3>2
    <3> QED BY <3>3 DEF x
  <2>3. Extremum(items, t, S(i), i) = [type |-> -S(i), i |-> loc, val |-> items[loc]]
    BY DEF Extremum
  <2>4. Extremum(items, t, S(i), i) \in X
    <3> HIDE DEF loc, S, n, States
    <3> QED BY <1>2, <2>2, <2>3 DEF Extrema
  <2>5. t.found \in Seq(X)
    <3> HIDE DEF X
    <3> QED OBVIOUS
  <2>6. Append(t.found, Extremum(items, t, S(i), i)) \in Seq(X)
    <3> HIDE DEF X, S
    <3> QED BY <2>4, <2>5
  <2> HIDE DEF X, S, n
  <2> QED BY <1>2, <2>1, <2>5, <2>6
<1> HIDE DEF E
<1>6. 0 \in Made
  <2> DEFINE f == [i \in 1 .. L |-> 0]
  <2>1. IsFun(f)
    OBVIOUS
  <2> HIDE DEF f
  <2>2. Good(f, 0)
    OBVIOUS
  <2> HIDE DEF IsFun, Good
  <2> QED BY <2>1, <2>2
<1>7. ASSUME NEW m \in Nat, m \in Made PROVE m + 1 \in Made
  <2>1. PICK f : IsFun(f) /\ Good(f, m)
    BY <1>7
  <2> DEFINE g == [i \in 1 .. L |-> E(f, i)]
  <2>2. IsFun(g) /\ \A i \in 1 .. L : g[i] = E(f, i)
    OBVIOUS
  <2> HIDE DEF g
  <2>3. ASSUME NEW i \in 1 .. L, i < m + 1 PROVE g[i] = E(g, i)
    <3>1. CASE i = 1
      BY <1>4, <2>2, <3>1
    <3>2. CASE i # 1
      <4>1. i - 1 \in 1 .. L /\ i - 1 < m
        BY <2>3, <3>2
      <4>2. f[i - 1] = g[i - 1]
        BY <2>1, <2>2, <4>1
      <4> QED BY <1>3, <2>2, <3>2, <4>2
    <3> QED BY <3>1, <3>2
  <2>4. Good(g, m + 1)
    BY <2>3
  <2> HIDE DEF IsFun, Good
  <2> QED BY <2>2, <2>4
<1>8. Nat \subseteq Made
  <2> HIDE DEF Made
  <2> QED BY <1>6, <1>7, Induct
<1>9. PICK f : IsFun(f) /\ Good(f, n)
  BY <1>8
<1>10. f = [i \in 1 .. L |-> E(f, i)]
  <2>1. ASSUME NEW i \in 1 .. L PROVE f[i] = E(f, i)
    <3>1. i < n
      OBVIOUS
    <3> QED BY <1>9, <3>1
  <2> QED BY <1>9, <2>1
<1>11. seen = [i \in 1 .. L |-> E(seen, i)]
  BY <1>10
<1> HIDE DEF seen
<1>12. \A i \in 1 .. L : seen[i] = E(seen, i)
  BY <1>11
<1>13. 0 \in Typed
  OBVIOUS
<1>14. ASSUME NEW m \in Nat, m \in Typed PROVE m + 1 \in Typed
  <2>1. ASSUME NEW i \in 1 .. L, i < m + 1 PROVE seen[i] \in States /\ seen[i].start <= i
    <3>1. CASE i = 1
      <4>1. seen[i] = [found |-> <<>>, state |-> S(i), start |-> 1]
        BY <1>12, <3>1 DEF E
      <4>2. <<>> \in Seq(X) /\ 1 \in 1 .. n
        <5> HIDE DEF X
        <5> QED OBVIOUS
      <4> HIDE DEF X, S
      <4> QED BY <1>2, <3>1, <4>1, <4>2
    <3>2. CASE i # 1
      <4>1. i - 1 \in 1 .. L /\ i - 1 < m /\ i \in 2 .. L
        BY <2>1, <3>2
      <4>2. seen[i - 1] \in States /\ seen[i - 1].start <= i - 1
        BY <1>14, <4>1
      <4>3. After(seen[i - 1], i) \in States /\ After(seen[i - 1], i).start <= i
        <5> HIDE DEF States, After
        <5> QED BY <1>5, <4>1, <4>2
      <4>4. seen[i] = IF S(i) = 0 THEN seen[i - 1] ELSE After(seen[i - 1], i)
        BY <1>12, <3>2 DEF E
      <4>5. seen[i - 1].start \in Int
        <5>1. seen[i - 1].start \in 1 .. n
          BY <4>2
        <5> QED BY <5>1
      <4> HIDE DEF States, After
      <4> QED BY <4>1, <4>2, <4>3, <4>4, <4>5
    <3> QED BY <3>1, <3>2
  <2> HIDE DEF States
  <2> QED BY <2>1
<1>15. Nat \subseteq Typed
  <2> HIDE DEF Typed
  <2> QED BY <1>13, <1>14, Induct
<1>16. n >= 3 => seen[L].found \in Seq(X)
  <2> SUFFICES ASSUME n >= 3 PROVE seen[L].found \in Seq(X)
    OBVIOUS
  <2>1. L \in 1 .. L /\ L < n
    OBVIOUS
  <2>2. n \in Typed
    BY <1>15
  <2>3. seen[L] \in States
    <3> HIDE DEF States
    <3> QED BY <2>1, <2>2
  <2> HIDE DEF X
  <2> QED BY <2>3
<1>17. <<>> \in Seq(X)
  <2> HIDE DEF X
  <2> QED OBVIOUS
<1> HIDE DEF X
<1> QED BY <1>1, <1>16, <1>17 DEF X

\* A minutia moves to a place on its contour.
LEMMA TipTyped ==
  ASSUME NEW c \in Seq(EdgePoints), NEW dir
  PROVE  TipOf(c, dir) \in {0} \cup 1 .. Len(c)
<1> DEFINE items == RotatedY(c, dir)
           mm == minmaxs(items)
<1>1. Len(c) \in Nat /\ DOMAIN c = 1 .. Len(c)
  OBVIOUS
<1>2. items = [i \in 1 .. Len(c) |-> sround(c[i].p[1] * SinOf(dir) - c[i].p[2] * CosOf(dir), 1000)]
  BY <1>1 DEF RotatedY
<1>3. Len(items) = Len(c)
  BY <1>1, <1>2
<1> HIDE DEF items
<1>4. mm \in Seq(Extrema(Len(c), items))
  BY <1>1, <1>3, ExtremaTyped
<1> HIDE DEF mm
<1>5. \A i \in 1 .. Len(mm) : mm[i].i \in 1 .. Len(c)
  <2>1. \A i \in 1 .. Len(mm) : mm[i] \in Extrema(Len(c), items)
    BY <1>4
  <2> QED BY <2>1 DEF Extrema
<1>6. TipOf(c, dir) = CASE Len(mm) = 1 /\ mm[1].type = -1 -> mm[1].i
         [] Len(mm) = 3 /\ mm[1].type = -1 ->
              IF mm[1].val < mm[3].val THEN mm[1].i ELSE mm[3].i
         [] OTHER -> 0
  BY DEF TipOf, mm, items
<1>7. Len(mm) = 1 => mm[1].i \in 1 .. Len(c)
  BY <1>5
<1>8. Len(mm) = 3 => mm[1].i \in 1 .. Len(c) /\ mm[3].i \in 1 .. Len(c)
  BY <1>5
<1> QED BY <1>6, <1>7, <1>8

Ranked(r, T) == {<<r[i], i>> : i \in T}
Picked(list, at, N) == [j \in 1 .. N |-> list[at[j]]]

\* The places T in the order of their ranks r: by rank, the same rank by place.
InTurn(at, N, T, r) ==
    /\ at \in [1 .. N -> T]
    /\ \A i \in T : \E j \in 1 .. N : at[j] = i
    /\ \A i, j \in 1 .. N :
          i < j => r[at[i]] < r[at[j]] \/ (r[at[i]] = r[at[j]] /\ at[i] < at[j])

\* Listing the places of a list by rank names each of them once, in turn.
LEMMA ListedAs ==
  ASSUME NEW n \in Nat, NEW T \in SUBSET (1 .. n), NEW r, \A i \in T : r[i] \in Int, NEW list
  PROVE  /\ Cardinality(T) \in Nat
         /\ \E at : /\ InTurn(at, Cardinality(T), T, r)
                    /\ Listed(list, Ranked(r, T)) = Picked(list, at, Cardinality(T))
<1> DEFINE S == Ranked(r, T)
           f == [i \in T |-> <<r[i], i>>]
           N == Cardinality(T)
<1>1. IsFiniteSet(T) /\ N \in Nat
  <2>1. IsFiniteSet(1 .. n)
    BY FS_Interval
  <2>2. IsFiniteSet(T)
    BY <2>1, FS_Subset
  <2> QED BY <2>2, FS_CardinalityType
<1>2. \A i \in T : f[i] = <<r[i], i>> /\ f[i] \in S
  BY DEF Ranked
<1>3. f \in [T -> S]
  BY DEF Ranked
<1>4. \A x \in S : \E i \in T : f[i] = x
  BY DEF Ranked
<1>5. S \in SUBSET Places
  <2>1. \A i \in T : <<r[i], i>> \in Places
    BY DEF Places
  <2> QED BY <2>1 DEF Ranked
<1> HIDE DEF f, S
<1>6. f \in Bijection(T, S)
  <2>1. \A i, j \in T : f[i] = f[j] => i = j
    BY <1>2
  <2>2. f \in Injection(T, S)
    BY <1>3, <2>1, Fun_IsInj
  <2>3. f \in Surjection(T, S)
    BY <1>3, <1>4, Fun_IsSurj
  <2> QED BY <2>2, <2>3 DEF Bijection
<1>7. IsFiniteSet(S) /\ Cardinality(S) = N
  <2>1. ExistsBijection(T, S)
    BY <1>6 DEF ExistsBijection
  <2> QED BY <1>1, <2>1, FS_Bijection
<1> HIDE DEF N
<1>8. PICK order : /\ Lists(order, S)
                   /\ Listed(list, S) = [j \in 1 .. N |-> list[order[j][2]]]
  <2>1. \E order : /\ Lists(order, S)
                   /\ Listed(list, S) = [j \in 1 .. Cardinality(S) |-> list[order[j][2]]]
    BY <1>5, <1>7, ListedInOrder
  <2> QED BY <1>7, <2>1
<1> DEFINE at == [j \in 1 .. N |-> order[j][2]]
<1>9. \A j \in 1 .. N : order[j] \in S
  BY <1>7, <1>8 DEF Lists
<1>10. \A j \in 1 .. N : at[j] \in T /\ order[j] = <<r[at[j]], at[j]>>
  <2> TAKE j \in 1 .. N
  <2>1. PICK i \in T : order[j] = <<r[i], i>>
    BY <1>9 DEF S, Ranked
  <2>2. at[j] = i
    BY <2>1
  <2> QED BY <2>1, <2>2
<1>11. Listed(list, S) = Picked(list, at, N)
  BY <1>8 DEF Picked
<1>12. at \in [1 .. N -> T]
  BY <1>10
<1> HIDE DEF at
<1>13. ASSUME NEW i \in T PROVE \E j \in 1 .. N : at[j] = i
  <2>1. <<r[i], i>> \in S
    BY DEF S, Ranked
  <2>2. PICK j \in 1 .. N : order[j] = <<r[i], i>>
    BY <1>7, <1>8, <2>1 DEF Lists
  <2>3. at[j] = i
    BY <1>10, <2>2
  <2> QED BY <2>3
<1>14. ASSUME NEW i \in 1 .. N, NEW j \in 1 .. N, i < j
       PROVE  r[at[i]] < r[at[j]] \/ (r[at[i]] = r[at[j]] /\ at[i] < at[j])
  <2>1. Precedes(order[i], order[j])
    BY <1>7, <1>8, <1>14 DEF Lists
  <2>2. Precedes(<<r[at[i]], at[i]>>, <<r[at[j]], at[j]>>)
    BY <1>10, <2>1
  <2> QED BY <2>2 DEF Precedes
<1>15. InTurn(at, N, T, r)
  BY <1>12, <1>13, <1>14 DEF InTurn
<1> QED BY <1>1, <1>11, <1>15 DEF N, S

(***************************************************************************)
(* A list of minutiae in the image.                                        *)
(***************************************************************************)
Sited(m) == m.p \in Pixels /\ m.e \in Pixels /\ "p" \in DOMAIN m /\ "e" \in DOMAIN m
Placed(ms) == \E S : ms \in Seq(S) /\ \A m \in S : Sited(m)

\* A list whose minutiae all lie in the image, by its places.
LEMMA PlacedAt ==
  ASSUME NEW ms, Placed(ms)
  PROVE  /\ Len(ms) \in Nat /\ DOMAIN ms = 1 .. Len(ms)
         /\ \A i \in 1 .. Len(ms) : Sited(ms[i])
<1>1. PICK S : ms \in Seq(S) /\ \A m \in S : Sited(m)
  BY DEF Placed
<1>2. Len(ms) \in Nat /\ DOMAIN ms = 1 .. Len(ms) /\ \A i \in 1 .. Len(ms) : ms[i] \in S
  BY <1>1
<1> QED BY <1>1, <1>2

LEMMA PlacedIf ==
  ASSUME NEW n \in Nat, NEW f, \A i \in 1 .. n : Sited(f[i])
  PROVE  Placed([i \in 1 .. n |-> f[i]])
<1> DEFINE S == {f[i] : i \in 1 .. n}
           ms == [i \in 1 .. n |-> f[i]]
<1>1. \A m \in S : Sited(m)
  OBVIOUS
<1>2. \A i \in 1 .. n : f[i] \in S
  OBVIOUS
<1> HIDE DEF S
<1>3. ms \in Seq(S)
  BY <1>2
<1> QED BY <1>1, <1>3 DEF Placed

LEMMA NonePlaced == Placed(<<>>)
<1> DEFINE S == {}
<1>1. <<>> \in Seq(S) /\ \A m \in S : Sited(m)
  OBVIOUS
<1> HIDE DEF S
<1> QED BY <1>1 DEF Placed

\* One more minutia that lies in the image.
LEMMA OnePlaced ==
  ASSUME NEW ms, Placed(ms), NEW m, Sited(m)
  PROVE  Placed(Append(ms, m))
<1>1. PICK S : ms \in Seq(S) /\ \A q \in S : Sited(q)
  BY DEF Placed
<1> DEFINE R == S \cup {m}
<1>2. \A q \in R : Sited(q)
  BY <1>1
<1>3. m \in R /\ S \subseteq R
  OBVIOUS
<1> HIDE DEF R
<1>4. ms \in Seq(R)
  BY <1>1, <1>3
<1>5. Append(ms, m) \in Seq(R)
  BY <1>3, <1>4
<1> QED BY <1>2, <1>5 DEF Placed

\* Some of the minutiae of a list that lie there.
LEMMA SomePlaced ==
  ASSUME NEW ms, Placed(ms), NEW T \in SUBSET (1 .. Len(ms)), NEW r, \A i \in T : r[i] \in Int
  PROVE  Placed(Listed(ms, Ranked(r, T)))
<1> DEFINE N == Cardinality(T)
           list == Listed(ms, Ranked(r, T))
<1>1. Len(ms) \in Nat /\ \A i \in 1 .. Len(ms) : Sited(ms[i])
  BY PlacedAt
<1>2. N \in Nat /\ \E at : InTurn(at, N, T, r) /\ list = Picked(ms, at, N)
  BY <1>1, ListedAs
<1> HIDE DEF N, list
<1>3. PICK at : InTurn(at, N, T, r) /\ list = Picked(ms, at, N)
  BY <1>2
<1> DEFINE f == [j \in 1 .. N |-> ms[at[j]]]
<1>4. \A j \in 1 .. N : f[j] = ms[at[j]] /\ Sited(f[j])
  BY <1>1, <1>3 DEF InTurn
<1>5. list = [j \in 1 .. N |-> f[j]]
  BY <1>3 DEF Picked
<1> HIDE DEF f
<1>6. Placed([j \in 1 .. N |-> f[j]])
  BY <1>2, <1>4, PlacedIf
<1>7. Placed(list)
  BY <1>5, <1>6
<1> QED BY <1>7 DEF list

\* Those of a list that stay are in the order they were in.
Thinned(ms, Gone, at, N) ==
    /\ N \in Nat /\ at \in [1 .. N -> 1 .. Len(ms)]
    /\ \A i \in 1 .. N : at[i] \notin Gone
    /\ \A i, j \in 1 .. N : i < j => at[i] < at[j]

\* What removal leaves of a list lies there, in the order it had.
LEMMA KeptAs ==
  ASSUME NEW ms, Placed(ms), NEW Gone
  PROVE  /\ Placed(Kept(ms, Gone))
         /\ \E N, at : Thinned(ms, Gone, at, N) /\ Kept(ms, Gone) = Picked(ms, at, N)
<1> DEFINE T == 1 .. Len(ms) \ Gone
           r == [i \in T |-> 0]
           N == Cardinality(T)
           S == Ranked(r, T)
<1>1. Len(ms) \in Nat /\ DOMAIN ms = 1 .. Len(ms)
  BY PlacedAt
<1>2. \A i \in T : r[i] = 0 /\ r[i] \in Int
  OBVIOUS
<1>3. Kept(ms, Gone) = Listed(ms, S)
  <2>1. S = {<<0, i>> : i \in DOMAIN ms \ Gone}
    BY <1>1, <1>2 DEF Ranked
  <2> HIDE DEF S
  <2> QED BY <2>1 DEF Kept
<1>4. T \in SUBSET (1 .. Len(ms))
  OBVIOUS
<1> HIDE DEF r, T
<1>5. Placed(Listed(ms, S))
  BY <1>2, <1>4, SomePlaced
<1>6. N \in Nat /\ \E at : InTurn(at, N, T, r) /\ Listed(ms, S) = Picked(ms, at, N)
  BY <1>1, <1>2, <1>4, ListedAs
<1> HIDE DEF N, S
<1>7. PICK at : InTurn(at, N, T, r) /\ Listed(ms, S) = Picked(ms, at, N)
  BY <1>6
<1>8. Thinned(ms, Gone, at, N)
  <2>1. at \in [1 .. N -> 1 .. Len(ms)] /\ \A i \in 1 .. N : at[i] \notin Gone
    BY <1>4, <1>7 DEF InTurn, T
  <2>2. ASSUME NEW i \in 1 .. N, NEW j \in 1 .. N, i < j PROVE at[i] < at[j]
    <3>1. at[i] \in T /\ at[j] \in T
      BY <1>7 DEF InTurn
    <3>2. ~(r[at[i]] < r[at[j]])
      BY <1>2, <3>1
    <3> QED BY <1>7, <2>2, <3>2 DEF InTurn
  <2> QED BY <1>6, <2>1, <2>2 DEF Thinned
<1> QED BY <1>3, <1>5, <1>7, <1>8

(***************************************************************************)
(* Sorting.                                                                *)
(***************************************************************************)
LEMMA SitedInts ==
  ASSUME NEW m, Sited(m)
  PROVE  m.p[1] \in 0 .. W - 1 /\ m.p[2] \in 0 .. H - 1 /\ RankYX(m) \in Int /\ RankXY(m) \in Int
<1>1. m.p[1] \in 0 .. W - 1 /\ m.p[2] \in 0 .. H - 1
  BY DEF Sited, Pixels
<1>2. W \in Int
  BY SizeAssumption
<1>3. \A x, y \in Int : x * W + y \in Int
  BY <1>2
<1>4. m.p[1] \in Int /\ m.p[2] \in Int
  BY <1>1, SizeAssumption
<1>5. RankYX(m) \in Int /\ RankXY(m) \in Int
  BY <1>3, <1>4 DEF RankYX, RankXY
<1> QED BY <1>1, <1>5

\* The coordinates of a minutia of the list.
LEMMA PlaceInts ==
  ASSUME NEW m, Sited(m)
  PROVE  m.p[1] \in Int /\ m.p[2] \in Int
<1>1. m.p[1] \in 0 .. W - 1 /\ m.p[2] \in 0 .. H - 1
  BY DEF Sited, Pixels
<1> QED BY <1>1, SizeAssumption

\* Sorting by row, then by column.
LEMMA RowsPlaced ==
  ASSUME NEW ms, Placed(ms)
  PROVE  Placed(sort_minutiae_y_x(ms))
<1> DEFINE T == 1 .. Len(ms)
           r == [i \in T |-> RankYX(ms[i])]
<1>1. DOMAIN ms = T /\ \A i \in T : r[i] \in Int
  BY PlacedAt, SitedInts
<1>2. sort_minutiae_y_x(ms) = Listed(ms, Ranked(r, T))
  <2>1. {<<RankYX(ms[i]), i>> : i \in DOMAIN ms} = Ranked(r, T)
    BY <1>1 DEF Ranked
  <2> HIDE DEF r, T
  <2> QED BY <2>1 DEF sort_minutiae_y_x, SortBy
<1>3. T \in SUBSET (1 .. Len(ms))
  OBVIOUS
<1> HIDE DEF T, r
<1> QED BY <1>1, <1>2, <1>3, SomePlaced

ByRank(ms) == \A i, j \in 1 .. Len(ms) : i < j => RankXY(ms[i]) <= RankXY(ms[j])
ByColumn(ms) == \A i, j \in 1 .. Len(ms) : i < j => ms[i].p[1] <= ms[j].p[1]

\* With an image no higher than wide the rank by column tells columns apart.
LEMMA RankColumn ==
  ASSUME NEW x \in Int, NEW y \in 0 .. H - 1, NEW u \in Int, NEW v \in 0 .. H - 1,
         H <= W, x * W + y <= u * W + v
  PROVE  x <= u
<1>0. W \in Nat /\ H \in Nat
  BY SizeAssumption
<1> SUFFICES ASSUME x >= u + 1 PROVE FALSE
  OBVIOUS
<1>1. (x - (u + 1)) * W >= 0
  BY <1>0
<1>2. (x - (u + 1)) * W = x * W - u * W - W
  BY <1>0
<1>3. x * W \in Int /\ u * W \in Int
  BY <1>0
<1> QED BY <1>0, <1>1, <1>2, <1>3

\* Sorting by column, then by row, brings equal places next to each other.
LEMMA ColumnsPlaced ==
  ASSUME NEW ms, Placed(ms)
  PROVE  /\ Placed(sort_minutiae_x_y(ms))
         /\ ByRank(sort_minutiae_x_y(ms))
         /\ H <= W => ByColumn(sort_minutiae_x_y(ms))
<1> DEFINE T == 1 .. Len(ms)
           r == [i \in T |-> RankXY(ms[i])]
           N == Cardinality(T)
           list == sort_minutiae_x_y(ms)
<1>1. Len(ms) \in Nat /\ DOMAIN ms = T /\ \A i \in T : Sited(ms[i])
  BY PlacedAt
<1>2. \A i \in T : r[i] = RankXY(ms[i]) /\ r[i] \in Int
  BY <1>1, SitedInts
<1>3. list = Listed(ms, Ranked(r, T))
  <2>1. {<<RankXY(ms[i]), i>> : i \in DOMAIN ms} = Ranked(r, T)
    BY <1>1, <1>2 DEF Ranked
  <2> HIDE DEF r, T
  <2> QED BY <2>1 DEF sort_minutiae_x_y, SortBy
<1>4. T \in SUBSET (1 .. Len(ms))
  OBVIOUS
<1> HIDE DEF T, r
<1>5. Placed(list)
  BY <1>2, <1>3, <1>4, SomePlaced
<1>6. N \in Nat /\ \E at : InTurn(at, N, T, r) /\ Listed(ms, Ranked(r, T)) = Picked(ms, at, N)
  BY <1>1, <1>2, <1>4, ListedAs
<1> HIDE DEF N, list
<1>7. PICK at : InTurn(at, N, T, r) /\ list = Picked(ms, at, N)
  BY <1>3, <1>6
<1>8. Len(list) = N /\ \A j \in 1 .. N : list[j] = ms[at[j]] /\ at[j] \in T
  BY <1>6, <1>7 DEF Picked, InTurn
<1>9. ASSUME NEW i \in 1 .. N, NEW j \in 1 .. N, i < j PROVE RankXY(list[i]) <= RankXY(list[j])
  <2>1. Sited(list[i]) /\ Sited(list[j]) /\ r[at[i]] = RankXY(list[i]) /\ r[at[j]] = RankXY(list[j])
    BY <1>1, <1>2, <1>8
  <2>2. r[at[i]] < r[at[j]] \/ r[at[i]] = r[at[j]]
    BY <1>7, <1>9 DEF InTurn
  <2>3. RankXY(list[i]) \in Int /\ RankXY(list[j]) \in Int
    BY <2>1, SitedInts
  <2> QED BY <2>1, <2>2, <2>3
<1>10. ByRank(list)
  BY <1>8, <1>9 DEF ByRank
<1>11. ASSUME H <= W, NEW i \in 1 .. N, NEW j \in 1 .. N, i < j PROVE list[i].p[1] <= list[j].p[1]
  <2> DEFINE a == list[i]
             z == list[j]
  <2>1. Sited(a) /\ Sited(z)
    BY <1>1, <1>8
  <2>2. RankXY(a) <= RankXY(z)
    BY <1>9, <1>11
  <2> HIDE DEF a, z
  <2>3. a.p[1] * W + a.p[2] <= z.p[1] * W + z.p[2]
    BY <2>2 DEF RankXY
  <2>4. /\ a.p[1] \in Int /\ a.p[2] \in 0 .. H - 1
        /\ z.p[1] \in Int /\ z.p[2] \in 0 .. H - 1
    BY <2>1, SitedInts, SizeAssumption
  <2>5. a.p[1] <= z.p[1]
    BY <1>11, <2>3, <2>4, RankColumn
  <2> QED BY <2>5 DEF a, z
<1>12. H <= W => ByColumn(list)
  BY <1>8, <1>11 DEF ByColumn
<1> QED BY <1>5, <1>10, <1>12 DEF list

\* In an image no higher than wide the rank of a pixel tells it from every other.
LEMMA RankTells ==
  ASSUME NEW m, Sited(m), NEW o, Sited(o), H <= W, RankXY(m) = RankXY(o)
  PROVE  m.p = o.p
<1>1. /\ m.p[1] \in Int /\ m.p[2] \in 0 .. H - 1 /\ o.p[1] \in Int /\ o.p[2] \in 0 .. H - 1
      /\ m.p = <<m.p[1], m.p[2]>> /\ o.p = <<o.p[1], o.p[2]>>
  <2>1. m.p \in Pixels /\ o.p \in Pixels
    BY DEF Sited
  <2> QED BY <2>1, SizeAssumption DEF Pixels
<1>2. m.p[1] * W + m.p[2] = o.p[1] * W + o.p[2]
  BY DEF RankXY
<1> DEFINE a == m.p[1]
           b == m.p[2]
           x == o.p[1]
           y == o.p[2]
<1>3. a \in Int /\ b \in 0 .. H - 1 /\ x \in Int /\ y \in 0 .. H - 1 /\ a * W + b = x * W + y
  BY <1>1, <1>2
<1> HIDE DEF a, b, x, y
<1>4. a * W \in Int /\ x * W \in Int /\ b \in Int /\ y \in Int
  BY <1>3, SizeAssumption
<1>5. a * W + b <= x * W + y /\ x * W + y <= a * W + b
  BY <1>3, <1>4
<1>6. a <= x /\ x <= a
  BY <1>3, <1>5, RankColumn
<1>7. a = x
  BY <1>3, <1>6
<1>8. a * W = x * W
  BY <1>7
<1>9. b = y
  <2> DEFINE c == a * W
             z == x * W
  <2>1. c \in Int /\ c = z /\ c + b = z + y
    BY <1>3, <1>4, <1>8
  <2> HIDE DEF c, z
  <2> QED BY <1>4, <2>1
<1> QED BY <1>1, <1>7, <1>9 DEF a, b, x, y

\* No place is in the list twice.
Distinct(ms) == \A i, j \in 1 .. Len(ms) : ms[i].p = ms[j].p => i = j

\* The list ridges are counted in is by column and holds no place twice.
LEMMA OrderedPlaced ==
  ASSUME NEW ms, Placed(ms)
  PROVE  /\ Placed(Ordered(ms))
         /\ H <= W => ByColumn(Ordered(ms)) /\ Distinct(Ordered(ms))
<1> DEFINE list == sort_minutiae_x_y(ms)
           gone == {i \in DOMAIN list : i # Len(list) /\ list[i].p = list[i + 1].p}
<1>1. Placed(list) /\ ByRank(list) /\ (H <= W => ByColumn(list))
  BY ColumnsPlaced
<1>2. Ordered(ms) = Kept(list, gone)
  BY DEF Ordered, rm_dup_minutiae
<1>3. Len(list) \in Nat /\ DOMAIN list = 1 .. Len(list) /\ \A i \in 1 .. Len(list) : Sited(list[i])
  BY <1>1, PlacedAt
<1>4. \A i \in 1 .. Len(list) : i # Len(list) /\ list[i].p = list[i + 1].p => i \in gone
  BY <1>3
<1> HIDE DEF list, gone
<1>5. Placed(Kept(list, gone))
  BY <1>1, KeptAs
<1>6. PICK N, at : Thinned(list, gone, at, N) /\ Kept(list, gone) = Picked(list, at, N)
  BY <1>1, KeptAs
<1> DEFINE kept == Kept(list, gone)
<1>7. /\ N \in Nat /\ Len(kept) = N
      /\ \A j \in 1 .. N : kept[j] = list[at[j]] /\ at[j] \in 1 .. Len(list) /\ at[j] \notin gone
      /\ \A i, j \in 1 .. N : i < j => at[i] < at[j]
  BY <1>6 DEF Picked, Thinned
<1> HIDE DEF kept
<1>8. ASSUME H <= W, NEW i \in 1 .. N, NEW j \in 1 .. N, i < j PROVE kept[i].p[1] <= kept[j].p[1]
  <2>1. at[i] < at[j]
    BY <1>7, <1>8
  <2>2. list[at[i]].p[1] <= list[at[j]].p[1]
    BY <1>1, <1>7, <1>8, <2>1 DEF ByColumn
  <2> QED BY <1>7, <2>2
<1>9. ASSUME H <= W, NEW i \in 1 .. N, NEW j \in 1 .. N, i < j PROVE kept[i].p # kept[j].p
  <2> DEFINE a == at[i]
             z == at[j]
  <2>1. a \in 1 .. Len(list) /\ z \in 1 .. Len(list) /\ a < z /\ a \notin gone
    BY <1>7, <1>9
  <2>2. kept[i] = list[a] /\ kept[j] = list[z]
    BY <1>7
  <2> HIDE DEF a, z
  <2>3. a + 1 \in 1 .. Len(list) /\ a # Len(list) /\ a < a + 1 /\ (a + 1 < z \/ a + 1 = z)
    <3> DEFINE l == Len(list)
    <3>1. l \in Nat /\ a \in 1 .. l /\ z \in 1 .. l /\ a < z
      BY <1>3, <2>1
    <3> HIDE DEF l
    <3>2. a + 1 \in 1 .. l /\ a # l /\ a < a + 1 /\ (a + 1 < z \/ a + 1 = z)
      BY <3>1
    <3> QED BY <3>2 DEF l
  <2>4. list[a].p # list[a + 1].p
    BY <1>4, <2>1, <2>3
  <2>5. RankXY(list[a]) <= RankXY(list[a + 1]) /\ RankXY(list[a + 1]) <= RankXY(list[z])
    <3>1. RankXY(list[a + 1]) \in Int
      BY <1>3, <2>3, SitedInts
    <3> QED BY <1>1, <2>1, <2>3, <3>1 DEF ByRank
  <2>6. RankXY(list[a]) # RankXY(list[a + 1])
    <3>1. Sited(list[a]) /\ Sited(list[a + 1])
      BY <1>3, <2>1, <2>3
    <3> QED BY <1>9, <2>4, <3>1, RankTells
  <2>7. list[a].p # list[z].p
    <3> SUFFICES ASSUME list[a].p = list[z].p PROVE FALSE
      OBVIOUS
    <3>1. RankXY(list[a]) = RankXY(list[z])
      BY DEF RankXY
    <3>2. RankXY(list[a]) \in Int /\ RankXY(list[a + 1]) \in Int /\ RankXY(list[z]) \in Int
      BY <1>3, <2>1, <2>3, SitedInts
    <3> QED BY <2>5, <2>6, <3>1, <3>2
  <2> QED BY <2>2, <2>7
<1>10. H <= W => ByColumn(kept)
  BY <1>7, <1>8 DEF ByColumn
<1>11. H <= W => Distinct(kept)
  <2> SUFFICES ASSUME H <= W, NEW i \in 1 .. N, NEW j \in 1 .. N, kept[i].p = kept[j].p PROVE i = j
    BY <1>7 DEF Distinct
  <2>1. i < j \/ j < i \/ i = j
    BY <1>7
  <2> QED BY <1>9, <2>1
<1> QED BY <1>2, <1>5, <1>10, <1>11 DEF kept

(***************************************************************************)
(* Detection.                                                              *)
(***************************************************************************)
Detected(t) == t = [b |-> t.b, ms |-> t.ms] /\ Placed(t.ms)

\* Other minutiae, all in the image.
LEMMA DetectedWith ==
  ASSUME NEW t, Detected(t), NEW list, Placed(list)
  PROVE  Detected([t EXCEPT !.ms = list]) /\ [t EXCEPT !.ms = list].ms = list
<1>1. [t EXCEPT !.ms = list] = [b |-> t.b, ms |-> list]
  BY DEF Detected
<1> QED BY <1>1 DEF Detected

\* Another binary image.
LEMMA PaintedDetected ==
  ASSUME NEW t, Detected(t), NEW b
  PROVE  Detected([t EXCEPT !.b = b])
<1>1. [t EXCEPT !.b = b] = [b |-> b, ms |-> t.ms]
  BY DEF Detected
<1> QED BY <1>1 DEF Detected

\* A minutia made of a point of a contour.
LEMMA PointSited ==
  ASSUME NEW c \in EdgePoints, NEW dir, NEW rel, NEW type, NEW app
  PROVE  Sited(create_minutia(c, dir, rel, type, app))
<1>1. c.p \in Pixels /\ c.e \in Pixels
  BY DEF EdgePoints, PointsOn
<1> QED BY <1>1 DEF create_minutia, Sited

\* update_minutiae and update_minutiae_V2 add one minutia and drop some.
LEMMA UpdatedDetected ==
  ASSUME NEW t, Detected(t), NEW m, Sited(m)
  PROVE  Detected(update_minutiae(t, m))
<1>1. Placed(Append(t.ms, m))
  BY OnePlaced DEF Detected
<1>2. update_minutiae(t, m) = t \/ update_minutiae(t, m) = [t EXCEPT !.ms = Append(t.ms, m)]
  BY DEF update_minutiae
<1> QED BY <1>1, <1>2, DetectedWith

LEMMA UpdatedV2Detected ==
  ASSUME NEW t, Detected(t), NEW m, Sited(m), NEW scan, NEW dir
  PROVE  Detected(update_minutiae_V2(t, m, scan, dir))
<1> DEFINE same == {i \in DOMAIN t.ms : /\ Similar(t.ms[i], m)
                                        /\ t.ms[i].p = m.p \/ SameContour(t.ms[i], m, t.b)}
           yields == dir >= 0 /\ choose_scan_direction(dir) = scan
           last == Max({0} \cup {i \in same : t.ms[i].p = m.p \/ ~yields})
           kept == Kept(t.ms, {i \in same : i > last})
<1>1. update_minutiae_V2(t, m, scan, dir)
        = [t EXCEPT !.ms = IF last = 0 THEN Append(kept, m) ELSE kept]
  BY DEF update_minutiae_V2
<1>2. Placed(kept)
  BY KeptAs DEF Detected
<1> HIDE DEF kept, last
<1>3. Placed(IF last = 0 THEN Append(kept, m) ELSE kept)
  BY <1>2, OnePlaced
<1> QED BY <1>1, <1>3, DetectedWith

\* A loop becomes two minutiae on it, or is filled.
LEMMA LoopDetected ==
  ASSUME NEW t, Detected(t), NEW c \in Seq(EdgePoints), NEW m
  PROVE  Detected(process_loop_V2(t, c, m))
<1> DEFINE a == get_loop_aspect(c)
           Made(q, d) == create_minutia(q, d, Reliability(m.flow, q.p),
                                        minutia_type(t.b[c[1].p]), is_minutia_appearing(q))
           dir == line2direction(c[a.fr].p, c[a.to].p)
           one == update_minutiae(t, Made(c[a.fr], dir))
           two == update_minutiae(one, Made(c[a.to], (dir + NumDirs) % (2 * NumDirs)))
<1>1. CASE c = <<>>
  BY <1>1 DEF process_loop_V2
<1>2. CASE c # <<>>
  <2>1. \/ process_loop_V2(t, c, m) = two
        \/ process_loop_V2(t, c, m) = [t EXCEPT !.b = fill_loop(c, t.b)]
    BY <1>2 DEF process_loop_V2
  <2>2. c[a.fr] \in EdgePoints /\ c[a.to] \in EdgePoints
    <3>1. a.fr \in 1 .. Len(c) /\ a.to \in 1 .. Len(c)
      BY <1>2, AspectPlaces
    <3> HIDE DEF a
    <3> QED BY <3>1, PointsOf
  <2>3. \A d : Sited(Made(c[a.fr], d)) /\ Sited(Made(c[a.to], d))
    <3> HIDE DEF a
    <3> QED BY <2>2, PointSited
  <2> HIDE DEF Made, a, dir
  <2>4. Detected(one)
    BY <2>3, UpdatedDetected
  <2> HIDE DEF one
  <2>5. Detected(two)
    BY <2>3, <2>4, UpdatedDetected
  <2> HIDE DEF two
  <2> DEFINE painted == fill_loop(c, t.b)
  <2>6. Detected([t EXCEPT !.b = painted])
    <3> HIDE DEF painted
    <3> QED BY PaintedDetected
  <2>7. process_loop_V2(t, c, m) = two \/ process_loop_V2(t, c, m) = [t EXCEPT !.b = painted]
    BY <2>1
  <2>8. CASE process_loop_V2(t, c, m) = two
    BY <2>5, <2>8
  <2>9. CASE process_loop_V2(t, c, m) = [t EXCEPT !.b = painted]
    <3> HIDE DEF painted
    <3> QED BY <2>6, <2>9, Zenon
  <2> QED BY <2>7, <2>8, <2>9
<1> QED BY <1>1, <1>2

\* What the adjustment of a candidate returns.
Adjusting(r) ==
    /\ Detected(r.s)
    /\ r.at = <<>> \/ \E q \in EdgePoints : \E d : r.at = <<[c |-> q, dir |-> d]>>

\* A candidate in a high-curvature block moves to the sharpest bend of its contour.
LEMMA CurvedDetected ==
  ASSUME NEW t, Detected(t), NEW c0 \in EdgePoints, NEW m
  PROVE  Adjusting(adjust_high_curvature_minutia_V2(t, c0, m))
<1> DEFINE half == Lfs.high_curve_half_contour
           edge == half \div 2
           h == get_high_curvature_contour(c0, half, t.b)
           tip == min_contour_theta(h.c, edge)
           mid == Midpoint(h.c[tip.i - edge].p, h.c[tip.i + edge].p)
           ignored == [s |-> t, at |-> <<>>]
           r == adjust_high_curvature_minutia_V2(t, c0, m)
<1>1. h.c \in Seq(EdgePoints)
  BY CentredTyped, ContourAssumption
<1>2. \/ r = ignored
      \/ r = [ignored EXCEPT !.s = process_loop_V2(t, h.c, m)]
      \/ /\ tip.ret # IGNORE
         /\ r = [s |-> t, at |-> <<[c |-> h.c[tip.i], dir |-> line2direction(h.c[tip.i].p, mid)]>>]
  BY DEF adjust_high_curvature_minutia_V2
<1>3. edge \in Nat
  BY ContourAssumption
<1> SUFFICES Adjusting(r)
  OBVIOUS
<1> HIDE DEF h, edge, r
<1>4. tip.ret # IGNORE => h.c[tip.i] \in EdgePoints
  <2> SUFFICES ASSUME tip.ret # IGNORE PROVE h.c[tip.i] \in EdgePoints
    OBVIOUS
  <2>1. tip.i \in 1 .. Len(h.c)
    BY <1>1, <1>3, SharpestPlace
  <2> HIDE DEF tip
  <2> QED BY <1>1, <2>1, PointsOf
<1>5. Detected(process_loop_V2(t, h.c, m))
  BY <1>1, LoopDetected
<1>6. CASE r = ignored
  BY <1>6 DEF Adjusting
<1>7. CASE r = [ignored EXCEPT !.s = process_loop_V2(t, h.c, m)]
  <2>1. r = [s |-> process_loop_V2(t, h.c, m), at |-> <<>>]
    BY <1>7
  <2> QED BY <1>5, <2>1 DEF Adjusting
<1> HIDE DEF tip, mid
<1>8. CASE /\ tip.ret # IGNORE
           /\ r = [s |-> t, at |-> <<[c |-> h.c[tip.i], dir |-> line2direction(h.c[tip.i].p, mid)]>>]
  BY <1>4, <1>8 DEF Adjusting
<1> QED BY <1>2, <1>6, <1>7, <1>8

AtPosition(a, scan, k, i, map) == IF a.i = i THEN ScanFrom(a.s, scan, k, i, map) ELSE a
Along(scan) == Steps(0, LineLength(scan) - 2)
Across(scan) == Steps(0, LinePairs(scan) - 1)

\* A line pair is read one position after the other.
LineRead(h, t, scan, k, map) ==
    /\ h[0] = [s |-> t, i |-> 0]
    /\ ScanLine(t, scan, k, map) = h[Len(Along(scan))].s
    /\ \A n \in 1 .. Len(Along(scan)) : h[n] = AtPosition(h[n - 1], scan, k, Along(scan)[n], map)

\* The recursion along a scan line has one solution.
LEMMA LineDefined ==
  ASSUME NEW t, NEW scan, NEW k, NEW map, Len(Along(scan)) \in Nat
  PROVE  \E h : LineRead(h, t, scan, k, map)
<1> DEFINE seq == Along(scan)
           L == Len(seq)
           Op(a, x) == AtPosition(a, scan, k, x, map)
           E(f, n) == IF n = 0 THEN [s |-> t, i |-> 0]
                      ELSE CHOOSE r \in {Op(a, seq[n]) : a \in {f[n - 1]}} : TRUE
           IsFun(f) == f = [n \in 0 .. L |-> f[n]]
           Good(f, m) == \A n \in 0 .. L : n < m => f[n] = E(f, n)
           T == {m \in Nat : \E f : IsFun(f) /\ Good(f, m)}
<1>0. L \in Nat
  OBVIOUS
<1>a. \A f : E(f, 0) = [s |-> t, i |-> 0]
  OBVIOUS
<1>8. ScanLine(t, scan, k, map) = (CHOOSE h : h = [n \in 0 .. L |-> E(h, n)])[L].s
  BY DEF Along, AtPosition, InOrder, ScanLine
<1> HIDE DEF Op
<1>b. ASSUME NEW f, NEW n \in Nat, n # 0 PROVE E(f, n) = Op(f[n - 1], seq[n])
  <2>1. {Op(a, seq[n]) : a \in {f[n - 1]}} = {Op(f[n - 1], seq[n])}
    OBVIOUS
  <2> QED BY <1>b, <2>1
<1> HIDE DEF seq, L, E
<1>1. 0 \in T
  <2> DEFINE f == [n \in 0 .. L |-> 0]
  <2>1. IsFun(f) /\ Good(f, 0)
    OBVIOUS
  <2> HIDE DEF f, IsFun, Good
  <2> QED BY <2>1
<1>2. ASSUME NEW m \in Nat, m \in T PROVE m + 1 \in T
  <2>1. PICK f : IsFun(f) /\ Good(f, m)
    BY <1>2
  <2> DEFINE g == [n \in 0 .. L |-> E(f, n)]
  <2>2. IsFun(g) /\ \A n \in 0 .. L : g[n] = E(f, n)
    OBVIOUS
  <2> HIDE DEF g
  <2>3. ASSUME NEW n \in 0 .. L, n < m + 1 PROVE g[n] = E(g, n)
    <3>1. CASE n = 0
      BY <1>a, <2>2, <3>1
    <3>2. CASE n # 0
      <4>1. n \in Nat /\ n - 1 \in 0 .. L /\ n - 1 < m
        BY <1>0, <2>3, <3>2
      <4>2. g[n - 1] = f[n - 1]
        BY <2>1, <2>2, <4>1
      <4> QED BY <1>b, <2>2, <3>2, <4>1, <4>2
    <3> QED BY <3>1, <3>2
  <2>4. Good(g, m + 1)
    BY <2>3
  <2> HIDE DEF IsFun, Good
  <2> QED BY <2>2, <2>4
<1>3. Nat \subseteq T
  <2> HIDE DEF T
  <2> QED BY <1>1, <1>2, Induct
<1>4. PICK f : IsFun(f) /\ Good(f, L + 1)
  <2>1. L + 1 \in T
    <3> HIDE DEF T
    <3> QED BY <1>0, <1>3
  <2> QED BY <2>1
<1>6. f = [n \in 0 .. L |-> E(f, n)]
  <2>1. ASSUME NEW n \in 0 .. L PROVE f[n] = E(f, n)
    <3>1. n < L + 1
      BY <1>0
    <3> QED BY <1>4, <3>1
  <2> QED BY <1>4, <2>1
<1> DEFINE h == CHOOSE h : h = [n \in 0 .. L |-> E(h, n)]
<1>7. h = [n \in 0 .. L |-> E(h, n)]
  BY <1>6
<1>9. ScanLine(t, scan, k, map) = h[L].s
  BY <1>8
<1> HIDE DEF h
<1>10. \A n \in 0 .. L : h[n] = E(h, n)
  BY <1>7
<1>11. h[0] = [s |-> t, i |-> 0]
  BY <1>0, <1>a, <1>10
<1>12. \A n \in 1 .. L : h[n] = Op(h[n - 1], seq[n])
  <2> TAKE n \in 1 .. L
  <2>1. n \in 0 .. L /\ n \in Nat /\ n # 0
    BY <1>0
  <2> QED BY <1>b, <1>10, <2>1
<1>13. LineRead(h, t, scan, k, map)
  BY <1>9, <1>11, <1>12 DEF L, seq, Op, LineRead
<1> QED BY <1>13

\* An image is read one line pair after the other.
ImageRead(h, t, scan, map) ==
    /\ h[0] = t
    /\ scan4minutiae(t, scan, map) = h[Len(Across(scan))]
    /\ \A n \in 1 .. Len(Across(scan)) : h[n] = ScanLine(h[n - 1], scan, Across(scan)[n], map)

\* So has the one over the lines.
LEMMA ScanDefined ==
  ASSUME NEW t, NEW scan, NEW map, Len(Across(scan)) \in Nat
  PROVE  \E h : ImageRead(h, t, scan, map)
<1> DEFINE seq == Across(scan)
           L == Len(seq)
           Op(a, x) == ScanLine(a, scan, x, map)
           E(f, n) == IF n = 0 THEN t
                      ELSE CHOOSE r \in {Op(a, seq[n]) : a \in {f[n - 1]}} : TRUE
           IsFun(f) == f = [n \in 0 .. L |-> f[n]]
           Good(f, m) == \A n \in 0 .. L : n < m => f[n] = E(f, n)
           T == {m \in Nat : \E f : IsFun(f) /\ Good(f, m)}
<1>0. L \in Nat
  OBVIOUS
<1>a. \A f : E(f, 0) = t
  OBVIOUS
<1>8. scan4minutiae(t, scan, map) = (CHOOSE h : h = [n \in 0 .. L |-> E(h, n)])[L]
  BY DEF Across, InOrder, scan4minutiae
<1> HIDE DEF Op
<1>b. ASSUME NEW f, NEW n \in Nat, n # 0 PROVE E(f, n) = Op(f[n - 1], seq[n])
  <2>1. {Op(a, seq[n]) : a \in {f[n - 1]}} = {Op(f[n - 1], seq[n])}
    OBVIOUS
  <2> QED BY <1>b, <2>1
<1> HIDE DEF seq, L, E
<1>1. 0 \in T
  <2> DEFINE f == [n \in 0 .. L |-> 0]
  <2>1. IsFun(f) /\ Good(f, 0)
    OBVIOUS
  <2> HIDE DEF f, IsFun, Good
  <2> QED BY <2>1
<1>2. ASSUME NEW m \in Nat, m \in T PROVE m + 1 \in T
  <2>1. PICK f : IsFun(f) /\ Good(f, m)
    BY <1>2
  <2> DEFINE g == [n \in 0 .. L |-> E(f, n)]
  <2>2. IsFun(g) /\ \A n \in 0 .. L : g[n] = E(f, n)
    OBVIOUS
  <2> HIDE DEF g
  <2>3. ASSUME NEW n \in 0 .. L, n < m + 1 PROVE g[n] = E(g, n)
    <3>1. CASE n = 0
      BY <1>a, <2>2, <3>1
    <3>2. CASE n # 0
      <4>1. n \in Nat /\ n - 1 \in 0 .. L /\ n - 1 < m
        BY <1>0, <2>3, <3>2
      <4>2. g[n - 1] = f[n - 1]
        BY <2>1, <2>2, <4>1
      <4> QED BY <1>b, <2>2, <3>2, <4>1, <4>2
    <3> QED BY <3>1, <3>2
  <2>4. Good(g, m + 1)
    BY <2>3
  <2> HIDE DEF IsFun, Good
  <2> QED BY <2>2, <2>4
<1>3. Nat \subseteq T
  <2> HIDE DEF T
  <2> QED BY <1>1, <1>2, Induct
<1>4. PICK f : IsFun(f) /\ Good(f, L + 1)
  <2>1. L + 1 \in T
    <3> HIDE DEF T
    <3> QED BY <1>0, <1>3
  <2> QED BY <2>1
<1>6. f = [n \in 0 .. L |-> E(f, n)]
  <2>1. ASSUME NEW n \in 0 .. L PROVE f[n] = E(f, n)
    <3>1. n < L + 1
      BY <1>0
    <3> QED BY <1>4, <3>1
  <2> QED BY <1>4, <2>1
<1> DEFINE h == CHOOSE h : h = [n \in 0 .. L |-> E(h, n)]
<1>7. h = [n \in 0 .. L |-> E(h, n)]
  BY <1>6
<1>9. scan4minutiae(t, scan, map) = h[L]
  BY <1>8
<1> HIDE DEF h
<1>10. \A n \in 0 .. L : h[n] = E(h, n)
  BY <1>7
<1>11. h[0] = t
  BY <1>0, <1>a, <1>10
<1>12. \A n \in 1 .. L : h[n] = Op(h[n - 1], seq[n])
  <2> TAKE n \in 1 .. L
  <2>1. n \in 0 .. L /\ n \in Nat /\ n # 0
    BY <1>0
  <2> QED BY <1>b, <1>10, <2>1
<1>13. ImageRead(h, t, scan, map)
  BY <1>9, <1>11, <1>12 DEF L, seq, Op, ImageRead
<1> QED BY <1>13

\* Steps lists the numbers from one to another.
LEMMA StepsIn ==
  ASSUME NEW from \in Int, NEW to \in Int
  PROVE  /\ Len(Steps(from, to)) = IF to >= from THEN to - from + 1 ELSE 0
         /\ Len(Steps(from, to)) \in Nat
         /\ \A n \in 1 .. Len(Steps(from, to)) :
               Steps(from, to)[n] = from + n - 1 /\ Steps(from, to)[n] \in from .. to
<1> DEFINE m == Max({0, to - from + 1})
<1>1. m = IF to >= from THEN to - from + 1 ELSE 0
  <2>1. to - from + 1 \in Int /\ 0 \in Int
    OBVIOUS
  <2>2. m = IF 0 >= to - from + 1 THEN 0 ELSE to - from + 1
    BY <2>1, MaxTwo
  <2> QED BY <2>2
<1>2. Steps(from, to) = [i \in 1 .. m |-> from + i - 1]
  BY DEF Steps
<1> HIDE DEF m
<1>3. m \in Nat
  BY <1>1
<1>4. Len(Steps(from, to)) = m /\ \A n \in 1 .. m : Steps(from, to)[n] = from + n - 1
  BY <1>2, <1>3
<1> QED BY <1>1, <1>3, <1>4

(***************************************************************************)
(* Scanning an image.                                                      *)
(***************************************************************************)
Scans == {SCAN_HORIZONTAL, SCAN_VERTICAL}

\* The pixels a scan compares are in the image.
LEMMA ScanSited ==
  ASSUME NEW scan \in Scans, NEW k \in 0 .. LinePairs(scan) - 1,
         NEW i \in 0 .. LineLength(scan) - 1
  PROVE  Near(scan, k, i) \in Pixels /\ Far(scan, k, i) \in Pixels
<1>1. CASE scan = SCAN_HORIZONTAL
  <2>1. i \in 0 .. W - 1 /\ k \in 0 .. H - 1 /\ k + 1 \in 0 .. H - 1
    BY <1>1, SizeAssumption DEF LinePairs, LineLength
  <2> QED BY <1>1, <2>1 DEF Near, Far, Pixels
<1>2. CASE scan # SCAN_HORIZONTAL
  <2>1. i \in 0 .. H - 1 /\ k \in 0 .. W - 1 /\ k + 1 \in 0 .. W - 1
    BY <1>2, SizeAssumption DEF LinePairs, LineLength
  <2> QED BY <1>2, <2>1 DEF Near, Far, Pixels
<1> QED BY <1>1, <1>2

\* What the adjustment leaves is added at a place in the image.
LEMMA AddedDetected ==
  ASSUME NEW adj, Adjusting(adj), NEW rel, NEW type, NEW app, NEW scan, NEW dir
  PROVE  Detected(IF adj.at = <<>> THEN adj.s
                  ELSE update_minutiae_V2(adj.s, create_minutia(adj.at[1].c, adj.at[1].dir,
                                                                rel, type, app), scan, dir))
<1>1. CASE adj.at = <<>>
  BY <1>1 DEF Adjusting
<1>2. CASE adj.at # <<>>
  <2>1. PICK q \in EdgePoints : \E d : adj.at = <<[c |-> q, dir |-> d]>>
    BY <1>2 DEF Adjusting
  <2>2. adj.at[1].c \in EdgePoints /\ Detected(adj.s)
    BY <2>1 DEF Adjusting
  <2> QED BY <1>2, <2>2, PointSited, UpdatedV2Detected
<1> QED BY <1>1, <1>2

\* A feature found between two lines.
LEMMA FeatureDetected ==
  ASSUME NEW t, Detected(t), NEW scan \in Scans, NEW k \in 0 .. LinePairs(scan) - 1,
         NEW i2, NEW i3, (i2 + i3) \div 2 \in 0 .. LineLength(scan) - 1, NEW f, NEW map
  PROVE  Detected(process_scan_minutia_V2(t, scan, k, i2, i3, f, map))
<1> DEFINE mid == (i2 + i3) \div 2
           pat == FeaturePatterns[f]
           c0 == IF pat.app THEN [p |-> Far(scan, k, mid), e |-> Near(scan, k, mid)]
                            ELSE [p |-> Near(scan, k, mid), e |-> Far(scan, k, mid)]
           dir == pixelize_map(map.dir, c0.p)
           Here == [c |-> c0, dir |-> get_low_curvature_direction(scan, pat.app, dir)]
           rel == Reliability(map.flow, c0.p)
           Added(adj) ==
               IF adj.at = <<>> THEN adj.s
               ELSE update_minutiae_V2(adj.s, create_minutia(adj.at[1].c, adj.at[1].dir,
                                                             rel, pat.type, pat.app), scan, dir)
           curved == adjust_high_curvature_minutia_V2(t, c0, map)
           plain == [s |-> t, at |-> <<Here>>]
<1>1. \/ process_scan_minutia_V2(t, scan, k, i2, i3, f, map) = t
      \/ process_scan_minutia_V2(t, scan, k, i2, i3, f, map) = Added(curved)
      \/ process_scan_minutia_V2(t, scan, k, i2, i3, f, map) = Added(plain)
  BY DEF process_scan_minutia_V2
<1>2. c0 \in EdgePoints
  <2> HIDE DEF mid, pat
  <2>1. Near(scan, k, mid) \in Pixels /\ Far(scan, k, mid) \in Pixels
    <3>1. mid \in 0 .. LineLength(scan) - 1
      BY DEF mid
    <3> QED BY <3>1, ScanSited
  <2> QED BY <2>1 DEF EdgePoints, PointsOn
<1>3. Adjusting(curved)
  <2> HIDE DEF c0
  <2> QED BY <1>2, CurvedDetected
<1>4. Adjusting(plain)
  <2> HIDE DEF c0, dir
  <2> QED BY <1>2 DEF Adjusting
<1> HIDE DEF curved, plain, dir, pat, rel, c0
<1>5. Detected(Added(curved)) /\ Detected(Added(plain))
  BY <1>3, <1>4, AddedDetected
<1> HIDE DEF Added
<1> QED BY <1>1, <1>5

\* Skipping the repeats of a pair stays on the line.
LEMMA SkipTo ==
  ASSUME NEW b, NEW scan \in Scans, NEW k, NEW i \in Nat
  PROVE  \/ skip_repeated_pair(b, scan, k, i) = LineLength(scan)
         \/ skip_repeated_pair(b, scan, k, i) \in i + 1 .. LineLength(scan) - 1
<1> DEFINE n == LineLength(scan)
           S == {n} \cup {j \in i + 1 .. n - 1 :
                            PairAt(b, scan, k, j) # PairAt(b, scan, k, i)}
<1>1. n \in Nat
  BY SizeAssumption DEF LineLength
<1>2. S \in SUBSET Nat /\ S # {}
  BY <1>1
<1>3. skip_repeated_pair(b, scan, k, i) = Min(S)
  BY DEF skip_repeated_pair
<1>4. Min(S) \in S
  <2> HIDE DEF S
  <2> QED BY <1>2, LeastIn
<1> QED BY <1>3, <1>4

\* A scan at one place of a line, from those after it.
LEMMA PositionDetected ==
  ASSUME NEW t, Detected(t), NEW scan \in Scans, NEW k \in 0 .. LinePairs(scan) - 1,
         NEW i \in 0 .. LineLength(scan) - 2, NEW map
  PROVE  Detected(ScanFrom(t, scan, k, i, map).s)
<1> DEFINE n == LineLength(scan)
           i3 == skip_repeated_pair(t.b, scan, k, i + 1)
           poss3 == match_3rd_pair(PairAt(t.b, scan, k, i3),
                      match_2nd_pair(PairAt(t.b, scan, k, i + 1),
                                     match_1st_pair(PairAt(t.b, scan, k, i))))
           u == process_scan_minutia_V2(t, scan, k, i + 1, i3, Min(poss3), map)
<1>1. \/ ScanFrom(t, scan, k, i, map).s = t
      \/ ~(i3 >= n) /\ ScanFrom(t, scan, k, i, map).s = u
  BY DEF ScanFrom
<1>2. n \in Nat /\ i \in Nat
  BY SizeAssumption DEF LineLength
<1>3. i3 = n \/ i3 \in i + 2 .. n - 1
  <2>1. i + 1 \in Nat /\ i + 1 + 1 = i + 2
    BY <1>2
  <2>2. i3 = n \/ i3 \in i + 1 + 1 .. n - 1
    BY <2>1, SkipTo
  <2> HIDE DEF i3, n
  <2> QED BY <1>2, <2>2
<1> HIDE DEF i3, poss3
<1>4. ~(i3 >= n) => Detected(u)
  <2> SUFFICES ASSUME ~(i3 >= n) PROVE Detected(u)
    OBVIOUS
  <2>1. (i + 1 + i3) \div 2 \in 0 .. n - 1
    <3> HIDE DEF n
    <3> QED BY <1>2, <1>3
  <2> QED BY <2>1, FeatureDetected
<1> HIDE DEF u
<1> QED BY <1>1, <1>4

\* A line, a place at a time.
LEMMA LineDetected ==
  ASSUME NEW t, Detected(t), NEW scan \in Scans, NEW k \in 0 .. LinePairs(scan) - 1, NEW map
  PROVE  Detected(ScanLine(t, scan, k, map))
<1> DEFINE n == LineLength(scan)
           L == Len(Along(scan))
<1>1. n \in Nat
  BY SizeAssumption DEF LineLength
<1>2. L \in Nat /\ \A j \in 1 .. L : Along(scan)[j] \in 0 .. n - 2
  <2>1. n - 2 \in Int /\ 0 \in Int
    BY <1>1
  <2> HIDE DEF n
  <2>2. Along(scan) = Steps(0, n - 2)
    BY DEF Along, n
  <2> QED BY <2>1, <2>2, StepsIn
<1>3. PICK h : LineRead(h, t, scan, k, map)
  BY <1>2, LineDefined
<1> HIDE DEF n, L
<1> DEFINE I == {j \in Nat : j <= L => Detected(h[j].s)}
<1>4. 0 \in I
  BY <1>3 DEF LineRead
<1>5. ASSUME NEW j \in Nat, j \in I PROVE j + 1 \in I
  <2> SUFFICES ASSUME j + 1 <= L PROVE Detected(h[j + 1].s)
    OBVIOUS
  <2> DEFINE a == h[j]
             x == Along(scan)[j + 1]
  <2>1. j + 1 \in 1 .. L /\ j <= L /\ j + 1 - 1 = j
    BY <1>2
  <2>2. Detected(a.s)
    BY <1>5, <2>1
  <2>3. h[j + 1] = AtPosition(a, scan, k, x, map)
    BY <1>3, <2>1 DEF LineRead, L
  <2>4. x \in 0 .. n - 2
    BY <1>2, <2>1
  <2> HIDE DEF a, x
  <2>5. Detected(ScanFrom(a.s, scan, k, x, map).s)
    BY <2>2, <2>4, PositionDetected DEF n
  <2> QED BY <2>2, <2>3, <2>5 DEF AtPosition
<1>6. Nat \subseteq I
  <2> HIDE DEF I
  <2> QED BY <1>4, <1>5, Induct
<1>7. Detected(h[L].s)
  BY <1>2, <1>6
<1> QED BY <1>3, <1>7 DEF LineRead, L

\* The image, a line at a time.
LEMMA ScanDetected ==
  ASSUME NEW t, Detected(t), NEW scan \in Scans, NEW map
  PROVE  Detected(scan4minutiae(t, scan, map))
<1> DEFINE n == LinePairs(scan)
           L == Len(Across(scan))
<1>1. n \in Int
  BY SizeAssumption DEF LinePairs
<1>2. L \in Nat /\ \A j \in 1 .. L : Across(scan)[j] \in 0 .. n - 1
  <2>1. n - 1 \in Int /\ 0 \in Int
    BY <1>1
  <2> HIDE DEF n
  <2>2. Across(scan) = Steps(0, n - 1)
    BY DEF Across, n
  <2> QED BY <2>1, <2>2, StepsIn
<1>3. PICK h : ImageRead(h, t, scan, map)
  BY <1>2, ScanDefined
<1> HIDE DEF n, L
<1> DEFINE I == {j \in Nat : j <= L => Detected(h[j])}
<1>4. 0 \in I
  BY <1>3 DEF ImageRead
<1>5. ASSUME NEW j \in Nat, j \in I PROVE j + 1 \in I
  <2> SUFFICES ASSUME j + 1 <= L PROVE Detected(h[j + 1])
    OBVIOUS
  <2> DEFINE a == h[j]
             x == Across(scan)[j + 1]
  <2>1. j + 1 \in 1 .. L /\ j <= L /\ j + 1 - 1 = j
    BY <1>2
  <2>2. Detected(a)
    BY <1>5, <2>1
  <2>3. h[j + 1] = ScanLine(a, scan, x, map)
    BY <1>3, <2>1 DEF ImageRead, L
  <2>4. x \in 0 .. n - 1
    BY <1>2, <2>1
  <2> HIDE DEF a, x
  <2> QED BY <2>2, <2>3, <2>4, LineDetected DEF n
<1>6. Nat \subseteq I
  <2> HIDE DEF I
  <2> QED BY <1>4, <1>5, Induct
<1>7. Detected(h[L])
  BY <1>2, <1>6
<1> QED BY <1>3, <1>7 DEF ImageRead, L

(***************************************************************************)
(* The removal steps.                                                      *)
(***************************************************************************)
LEMMA KeptDetected ==
  ASSUME NEW t, Detected(t), NEW Gone
  PROVE  Detected([t EXCEPT !.ms = Kept(t.ms, Gone)])
<1>1. Placed(Kept(t.ms, Gone))
  BY KeptAs DEF Detected
<1> QED BY <1>1, DetectedWith

\* The steps that compare minutiae two by two remove some of them.
LEMMA PairedDetected ==
  ASSUME NEW t, Detected(t), NEW which
  PROVE  Detected(Paired(which, t))
<1>1. \E b, Gone : Paired(which, t) = [b |-> b, ms |-> Kept(t.ms, Gone)]
  BY DEF Paired
<1>2. \A Gone : Placed(Kept(t.ms, Gone))
  BY KeptAs DEF Detected
<1> QED BY <1>1, <1>2 DEF Detected

\* The steps that judge each by itself do.
LEMMA FilteredDetected ==
  ASSUME NEW t, Detected(t), NEW map
  PROVE  /\ Detected(remove_holes(t))
         /\ Detected(remove_pointing_invblock_V2(t, map))
         /\ Detected(remove_near_invblock_V2(t, map))
         /\ Detected(remove_malformations(t, map))
         /\ Detected(remove_pores_V2(t, map))
<1>1. \E Gone : remove_holes(t) = [t EXCEPT !.ms = Kept(t.ms, Gone)]
  BY DEF remove_holes, Filtered
<1>2. \E Gone : remove_pointing_invblock_V2(t, map) = [t EXCEPT !.ms = Kept(t.ms, Gone)]
  BY DEF remove_pointing_invblock_V2, Filtered
<1>3. \E Gone : remove_near_invblock_V2(t, map) = [t EXCEPT !.ms = Kept(t.ms, Gone)]
  BY DEF remove_near_invblock_V2, Filtered
<1>4. \E Gone : remove_malformations(t, map) = [t EXCEPT !.ms = Kept(t.ms, Gone)]
  BY DEF remove_malformations, Filtered
<1>5. \E Gone : remove_pores_V2(t, map) = [t EXCEPT !.ms = Kept(t.ms, Gone)]
  BY DEF remove_pores_V2, Filtered
<1>6. \A Gone : Detected([t EXCEPT !.ms = Kept(t.ms, Gone)])
  BY KeptDetected
<1> QED BY <1>1, <1>2, <1>3, <1>4, <1>5, <1>6

\* A minutia moved along the contour around it.
LEMMA AdjustedSited ==
  ASSUME NEW m, Sited(m), NEW b, NEW map
  PROVE  Adjusted(m, b, map) = <<>> \/ \E o : Adjusted(m, b, map) = <<o>> /\ Sited(o)
<1> DEFINE c == get_centered_contour(PointOf(m), Lfs.side_half_contour, b)
           tip == TipOf(c.c, m.dir)
           moved == {"p", "e"}
           To(q) == [f \in DOMAIN m |-> IF f \in moved THEN q[f] ELSE m[f]]
<1>1. \/ Adjusted(m, b, map) = <<>>
      \/ tip # 0 /\ Adjusted(m, b, map) = <<To(c.c[tip])>>
  BY DEF Adjusted, AtTip
<1>2. PointOf(m) \in EdgePoints
  BY DEF PointOf, EdgePoints, PointsOn, Sited
<1>3. c.c \in Seq(EdgePoints)
  BY <1>2, CentredTyped, ContourAssumption
<1> HIDE DEF c
<1>4. tip # 0 => c.c[tip] \in EdgePoints
  <2> SUFFICES ASSUME tip # 0 PROVE c.c[tip] \in EdgePoints
    OBVIOUS
  <2>1. tip \in {0} \cup 1 .. Len(c.c)
    BY <1>3, TipTyped
  <2> HIDE DEF tip
  <2> QED BY <1>3, <2>1, PointsOf
<1>5. ASSUME NEW q \in EdgePoints PROVE Sited(To(q))
  <2>1. "p" \in DOMAIN m /\ "e" \in DOMAIN m
    BY DEF Sited
  <2>2. To(q).p = q.p /\ To(q).e = q.e /\ DOMAIN To(q) = DOMAIN m
    BY <2>1
  <2>3. q.p \in Pixels /\ q.e \in Pixels
    BY DEF EdgePoints, PointsOn
  <2> HIDE DEF To
  <2> QED BY <2>1, <2>2, <2>3 DEF Sited
<1> HIDE DEF tip, To
<1> QED BY <1>1, <1>4, <1>5

\* The side step moves or removes each.
LEMMA SideDetected ==
  ASSUME NEW t, Detected(t), NEW map
  PROVE  Detected(remove_or_adjust_side_minutiae_V2(t, map))
<1> DEFINE ms == t.ms
           at == [i \in DOMAIN ms |-> Adjusted(ms[i], t.b, map)]
           f == [i \in DOMAIN ms |-> IF at[i] = <<>> THEN ms[i] ELSE at[i][1]]
           gone == {i \in DOMAIN ms : at[i] = <<>>}
<1>1. remove_or_adjust_side_minutiae_V2(t, map) = [t EXCEPT !.ms = Kept(f, gone)]
  BY DEF remove_or_adjust_side_minutiae_V2
<1>2. Len(ms) \in Nat /\ DOMAIN ms = 1 .. Len(ms) /\ \A i \in 1 .. Len(ms) : Sited(ms[i])
  BY PlacedAt DEF Detected
<1>3. ASSUME NEW i \in 1 .. Len(ms) PROVE Sited(f[i])
  <2>1. at[i] = Adjusted(ms[i], t.b, map)
    BY <1>2
  <2>2. f[i] = IF at[i] = <<>> THEN ms[i] ELSE at[i][1]
    BY <1>2
  <2>3. Sited(ms[i])
    BY <1>2
  <2>4. at[i] = <<>> \/ \E o : at[i] = <<o>> /\ Sited(o)
    <3> HIDE DEF at, ms
    <3> QED BY <2>1, <2>3, AdjustedSited
  <2> HIDE DEF at, ms, f
  <2> QED BY <2>2, <2>3, <2>4
<1>4. f = [i \in 1 .. Len(ms) |-> f[i]]
  BY <1>2
<1> HIDE DEF f, gone
<1>5. Placed(f)
  <2>1. Placed([i \in 1 .. Len(ms) |-> f[i]])
    BY <1>2, <1>3, PlacedIf
  <2> QED BY <1>4, <2>1
<1>6. Placed(Kept(f, gone))
  BY <1>5, KeptAs
<1> QED BY <1>1, <1>6, DetectedWith

(***************************************************************************)
(* Every minutia lies in the image, after every step.                      *)
(***************************************************************************)
LEMMA DetectedNext ==
  ASSUME Detected(s), [Next]_vars
  PROVE  Detected(s')
<1>1. CASE s' = s
  BY <1>1
<1>2. CASE Binarize
  BY <1>2, PaintedDetected DEF Binarize
<1>3. CASE ScanHorizontally \/ ScanVertically
  <2>1. \E scan \in Scans : s' = scan4minutiae(s, scan, maps)
    BY <1>3 DEF ScanHorizontally, ScanVertically, MinutiaeCall, Scans
  <2> QED BY <2>1, ScanDetected
<1>4. CASE Sort
  <2>1. s' = [s EXCEPT !.ms = sort_minutiae_y_x(s.ms)]
    BY <1>4 DEF Sort, MinutiaeCall
  <2>2. Placed(sort_minutiae_y_x(s.ms))
    BY RowsPlaced DEF Detected
  <2> QED BY <2>1, <2>2, DetectedWith
<1>5. CASE Islands \/ Hooks \/ Overlaps
  <2>1. \E which : s' = Paired(which, s)
    BY <1>5 DEF Islands, Hooks, Overlaps, MinutiaeCall,
                remove_islands_and_lakes, remove_hooks, remove_overlaps
  <2> QED BY <2>1, PairedDetected
<1>6. CASE Holes \/ Pointing \/ NearInvalid \/ Malformations \/ Pores
  <2>1. \/ s' = remove_holes(s)
        \/ s' = remove_pointing_invblock_V2(s, maps)
        \/ s' = remove_near_invblock_V2(s, maps)
        \/ s' = remove_malformations(s, maps)
        \/ s' = remove_pores_V2(s, maps)
    BY <1>6 DEF Holes, Pointing, NearInvalid, Malformations, Pores, MinutiaeCall
  <2> QED BY <2>1, FilteredDetected
<1>7. CASE SideMinutiae
  <2>1. s' = remove_or_adjust_side_minutiae_V2(s, maps)
    BY <1>7 DEF SideMinutiae, MinutiaeCall
  <2> QED BY <2>1, SideDetected
<1>8. CASE CountRidges
  <2>1. s' = [s EXCEPT !.ms = Ordered(s.ms)]
    BY <1>8 DEF CountRidges
  <2>2. Placed(Ordered(s.ms))
    BY OrderedPlaced DEF Detected
  <2> QED BY <2>1, <2>2, DetectedWith
<1>9. \/ s' = s \/ Binarize \/ ScanHorizontally \/ ScanVertically
      \/ Sort \/ Islands \/ Holes \/ Pointing \/ NearInvalid \/ SideMinutiae \/ Hooks
      \/ Overlaps \/ Malformations \/ Pores \/ CountRidges
  BY DEF Next, vars, InitialMaps, MorphFlow, RemoveIncon, Smooth, Interpolate,
         MarginAndCurve, MapsCall, Quality, Template
<1> QED BY <1>1, <1>2, <1>3, <1>4, <1>5, <1>6, <1>7, <1>8, <1>9

(***************************************************************************)
(* The list of neighbours.                                                 *)
(***************************************************************************)
Most == Lfs.max_nbrs

\* seq with x at pos, without its last entry when it was full.
WithInserted(r, seq, pos, x, S) ==
    /\ r \in Seq(S) /\ Len(r) = IF Len(seq) < Most THEN Len(seq) + 1 ELSE Most
    /\ \A a \in 1 .. Len(r) : r[a] = IF a < pos THEN seq[a] ELSE IF a = pos THEN x ELSE seq[a - 1]

\* Where the entries of a full or growing list go when one is inserted.
LEMMA Inserted ==
  ASSUME NEW S, NEW seq \in Seq(S), NEW x \in S, NEW pos \in 1 .. Len(seq) + 1
  PROVE  WithInserted(insert_neighbor(seq, pos, x), seq, pos, x, S)
<1> DEFINE l == Len(seq)
           n == IF l < Most THEN l + 1 ELSE Most
           before == SubSeq(seq, 1, pos - 1)
           after == SubSeq(seq, pos, l)
           all == InsertAt(seq, pos, x)
<1>1. l \in Nat /\ Most \in Nat \ {0} /\ pos \in Int /\ \A a \in 1 .. l : seq[a] \in S
  BY NeighborAssumption DEF Most
<1>2. /\ before \in Seq(S) /\ Len(before) = pos - 1
      /\ \A a \in 1 .. pos - 1 : before[a] = seq[a]
  <2> HIDE DEF l
  <2>1. pos - 1 \in Int /\ 1 \in Int /\ \A a \in 1 .. pos - 1 : seq[a] \in S
    BY <1>1 DEF l
  <2>2. /\ before \in Seq(S)
        /\ Len(before) = IF 1 <= pos - 1 THEN pos - 1 - 1 + 1 ELSE 0
        /\ \A a \in 1 .. pos - 1 - 1 + 1 : before[a] = seq[1 + a - 1]
    BY <2>1, SubSeqProperties
  <2> HIDE DEF before
  <2>3. pos - 1 - 1 + 1 = pos - 1 /\ (1 <= pos - 1 \/ pos - 1 = 0)
    BY <1>1
  <2> QED BY <1>1, <2>2, <2>3
<1>3. /\ after \in Seq(S) /\ Len(after) = l - pos + 1
      /\ \A a \in 1 .. l - pos + 1 : after[a] = seq[pos + a - 1]
  <2>1. \A a \in pos .. l : seq[a] \in S
    BY <1>1
  <2>2. pos <= l \/ l - pos + 1 = 0
    BY <1>1
  <2> HIDE DEF l
  <2>3. /\ after \in Seq(S)
        /\ Len(after) = IF pos <= l THEN l - pos + 1 ELSE 0
        /\ \A a \in 1 .. l - pos + 1 : after[a] = seq[pos + a - 1]
    BY <1>1, <2>1, SubSeqProperties
  <2> HIDE DEF after
  <2> QED BY <2>2, <2>3
<1>4. all = before \o <<x>> \o after
  BY DEF InsertAt
<1>5. insert_neighbor(seq, pos, x) = SubSeq(all, 1, Min({l + 1, Most}))
  BY DEF insert_neighbor, Most
<1>6. Min({l + 1, Most}) = n
  <2>1. Min({l + 1, Most}) = IF l + 1 <= Most THEN l + 1 ELSE Most
    BY <1>1, MinTwo
  <2> QED BY <1>1, <2>1
<1> HIDE DEF before, after, all
<1>7. /\ all \in Seq(S) /\ Len(all) = l + 1
      /\ \A a \in 1 .. l + 1 :
            all[a] = IF a < pos THEN seq[a] ELSE IF a = pos THEN x ELSE seq[a - 1]
  <2> DEFINE front == before \o <<x>>
  <2>1. /\ front \in Seq(S) /\ Len(front) = pos
        /\ \A a \in 1 .. pos : front[a] = IF a < pos THEN seq[a] ELSE x
    BY <1>1, <1>2
  <2> HIDE DEF front
  <2> HIDE DEF l
  <2>5. /\ front \o after \in Seq(S)
        /\ Len(front \o after) = Len(front) + Len(after)
        /\ \A a \in 1 .. Len(front) + Len(after) :
              (front \o after)[a] = IF a <= Len(front) THEN front[a] ELSE after[a - Len(front)]
    BY <1>3, <2>1, ConcatProperties
  <2>2. /\ front \o after \in Seq(S)
        /\ Len(front \o after) = pos + (l - pos + 1)
        /\ \A a \in 1 .. pos + (l - pos + 1) :
              (front \o after)[a] = IF a <= pos THEN front[a] ELSE after[a - pos]
    BY <1>3, <2>1, <2>5
  <2>3. pos + (l - pos + 1) = l + 1 /\ all = front \o after
    BY <1>1, <1>4 DEF front
  <2>4. ASSUME NEW a \in 1 .. l + 1
        PROVE  all[a] = IF a < pos THEN seq[a] ELSE IF a = pos THEN x ELSE seq[a - 1]
    <3>1. CASE a <= pos
      BY <1>1, <2>1, <2>2, <2>3, <3>1
    <3>2. CASE a > pos
      <4>1. a - pos \in 1 .. l - pos + 1 /\ pos + (a - pos) - 1 = a - 1
        BY <1>1, <3>2
      <4>2. after[a - pos] = seq[a - 1]
        BY <1>3, <4>1
      <4>3. all[a] = (front \o after)[a] /\ a \in 1 .. pos + (l - pos + 1)
        BY <2>3
      <4>4. ~(a <= pos) /\ ~(a < pos) /\ a # pos
        BY <1>1, <3>2
      <4>5. all[a] = after[a - pos]
        BY <2>2, <4>3, <4>4
      <4> QED BY <4>2, <4>4, <4>5
    <3> QED BY <1>1, <3>1, <3>2
  <2> QED BY <2>2, <2>3, <2>4
<1>8. n \in 1 .. l + 1
  BY <1>1
<1> HIDE DEF l, n
<1>9. /\ SubSeq(all, 1, n) \in Seq(S) /\ Len(SubSeq(all, 1, n)) = n
      /\ \A a \in 1 .. n : SubSeq(all, 1, n)[a] = all[a]
  <2>1. n \in Int /\ 1 \in Int /\ \A a \in 1 .. n : all[a] \in S
    BY <1>1, <1>7, <1>8
  <2>2. /\ SubSeq(all, 1, n) \in Seq(S)
        /\ Len(SubSeq(all, 1, n)) = IF 1 <= n THEN n - 1 + 1 ELSE 0
        /\ \A a \in 1 .. n - 1 + 1 : SubSeq(all, 1, n)[a] = all[1 + a - 1]
    BY <2>1, SubSeqProperties
  <2>3. n - 1 + 1 = n /\ 1 <= n /\ \A a \in 1 .. n : 1 + a - 1 = a
    BY <1>1, <1>8
  <2> QED BY <2>2, <2>3
<1>10. \A a \in 1 .. n : all[a] = IF a < pos THEN seq[a] ELSE IF a = pos THEN x ELSE seq[a - 1]
  BY <1>1, <1>7, <1>8
<1> HIDE DEF n
<1>11. insert_neighbor(seq, pos, x) = SubSeq(all, 1, n)
  BY <1>5, <1>6
<1>12. /\ insert_neighbor(seq, pos, x) \in Seq(S) /\ Len(insert_neighbor(seq, pos, x)) = n
       /\ \A a \in 1 .. n : insert_neighbor(seq, pos, x)[a]
              = IF a < pos THEN seq[a] ELSE IF a = pos THEN x ELSE seq[a - 1]
  BY <1>9, <1>10, <1>11
<1> QED BY <1>12 DEF n, l, WithInserted

\* The place a distance is inserted at.
LEMMA PositionFound ==
  ASSUME NEW seq, Len(seq) \in Nat, DOMAIN seq = 1 .. Len(seq),
         \A a \in 1 .. Len(seq) : seq[a].d \in Int, NEW d \in Int
  PROVE  LET pos == find_incr_position(seq, d)
         IN /\ pos \in 1 .. Len(seq) + 1
            /\ \A a \in 1 .. Len(seq) : a < pos => seq[a].d <= d
            /\ pos <= Len(seq) => d < seq[pos].d
<1> DEFINE l == Len(seq)
           larger == {i \in DOMAIN seq : d < seq[i].d}
           S == {l + 1} \cup larger
           pos == find_incr_position(seq, d)
<1>1. pos = Min(S)
  BY DEF find_incr_position
<1>2. S \in SUBSET Nat /\ S # {} /\ S \subseteq 1 .. l + 1
  OBVIOUS
<1>3. pos \in S /\ \A i \in S : pos <= i
  <2> HIDE DEF S
  <2>1. \E i \in S : \A j \in S : i <= j
    BY <1>2, LeastOf
  <2>2. Min(S) \in S /\ \A i \in S : Min(S) <= i
    BY <2>1 DEF Min
  <2> QED BY <1>1, <2>2
<1> HIDE DEF pos
<1>4. ASSUME NEW a \in 1 .. l, a < pos PROVE seq[a].d <= d
  <2>1. a \notin S
    BY <1>2, <1>3, <1>4
  <2> QED BY <2>1
<1> QED BY <1>2, <1>3, <1>4 DEF pos

Away(ms, first, k) == squared_distance(ms[first].p, ms[k].p)
Entries(first, u) == [i : first + 1 .. u, d : Int]

\* seq are the nearest neighbours of minutia first among those up to u.
Closest(seq, ms, first, u) ==
    /\ seq \in Seq(Entries(first, u))
    /\ Len(seq) = IF u - first <= Most THEN u - first ELSE Most
    /\ \A a \in 1 .. Len(seq) : seq[a].d = Away(ms, first, seq[a].i)
    /\ \A a, b \in 1 .. Len(seq) : a < b => seq[a].d <= seq[b].d /\ seq[a].i # seq[b].i
    /\ \A k \in first + 1 .. u :
          \/ \E a \in 1 .. Len(seq) : seq[a].i = k
          \/ Len(seq) = Most /\ seq[Most].d <= Away(ms, first, k)

\* A column further right is further away.
LEMMA SquareMonotone ==
  ASSUME NEW a \in Int, NEW b \in Int, 0 <= a, a <= b
  PROVE  a * a <= b * b
<1>1. (b - a) * (b + a) >= 0
  OBVIOUS
<1>2. (b - a) * (b + a) = b * b - a * a
  OBVIOUS
<1>3. a * a \in Int /\ b * b \in Int
  OBVIOUS
<1> QED BY <1>1, <1>2, <1>3

\* Distances are integers, and none is less than the one along the columns.
LEMMA AwayTyped ==
  ASSUME NEW ms, Placed(ms), NEW first \in 1 .. Len(ms), NEW k \in 1 .. Len(ms)
  PROVE  LET dx == ms[k].p[1] - ms[first].p[1]
         IN /\ Away(ms, first, k) \in Int /\ dx \in Int /\ dx * dx \in Int
            /\ dx * dx <= Away(ms, first, k)
<1> DEFINE p == ms[first].p
           q == ms[k].p
           dx == q[1] - p[1]
           ex == p[1] - q[1]
           ey == p[2] - q[2]
<1>1. Sited(ms[first]) /\ Sited(ms[k])
  BY PlacedAt
<1>2. p[1] \in Int /\ p[2] \in Int /\ q[1] \in Int /\ q[2] \in Int
  BY <1>1, PlaceInts
<1>3. Away(ms, first, k) = ex * ex + ey * ey
  BY DEF Away, squared_distance
<1> HIDE DEF p, q
<1>4. dx \in Int /\ ex \in Int /\ ey \in Int /\ dx * dx = ex * ex
  BY <1>2
<1> HIDE DEF dx, ex, ey
<1>5. ey * ey >= 0 /\ ex * ex \in Int /\ ey * ey \in Int
  BY <1>4
<1>6. Away(ms, first, k) \in Int /\ dx \in Int /\ dx * dx \in Int /\ dx * dx <= Away(ms, first, k)
  BY <1>3, <1>4, <1>5
<1> QED BY <1>6 DEF dx, p, q

\* Once a column is too far away every later minutia is.
LEMMA FurtherRight ==
  ASSUME NEW ms, Placed(ms), ByColumn(ms), NEW first \in 1 .. Len(ms),
         NEW j \in first + 1 .. Len(ms), NEW k \in j .. Len(ms)
  PROVE  LET dx == ms[j].p[1] - ms[first].p[1]
         IN dx * dx <= Away(ms, first, k)
<1> DEFINE dx == ms[j].p[1] - ms[first].p[1]
           ex == ms[k].p[1] - ms[first].p[1]
<1>1. Len(ms) \in Nat
  BY PlacedAt
<1>2. j \in 1 .. Len(ms) /\ k \in 1 .. Len(ms)
  BY <1>1
<1>3. /\ ms[first].p[1] \in Int /\ ms[j].p[1] \in Int /\ ms[k].p[1] \in Int
  <2>1. Sited(ms[first]) /\ Sited(ms[j]) /\ Sited(ms[k])
    BY <1>2, PlacedAt
  <2> QED BY <2>1, PlaceInts
<1>4. ms[first].p[1] <= ms[j].p[1] /\ ms[j].p[1] <= ms[k].p[1]
  <2>1. first < j /\ (j < k \/ j = k)
    BY <1>1
  <2> QED BY <1>2, <1>3, <2>1 DEF ByColumn
<1>5. dx \in Int /\ ex \in Int /\ 0 <= dx /\ dx <= ex
  BY <1>3, <1>4
<1>6. ex * ex \in Int /\ ex * ex <= Away(ms, first, k) /\ Away(ms, first, k) \in Int
  BY <1>2, AwayTyped
<1> HIDE DEF dx, ex
<1>7. dx * dx <= ex * ex
  BY <1>5, SquareMonotone
<1>8. dx * dx \in Int
  BY <1>5
<1>9. dx * dx <= Away(ms, first, k)
  BY <1>6, <1>7, <1>8
<1> QED BY <1>9 DEF dx

\* The list of neighbours by its places.
LEMMA ClosestInts ==
  ASSUME NEW seq, NEW ms, NEW first \in Nat, NEW u \in Nat, Closest(seq, ms, first, u)
  PROVE  /\ Len(seq) \in Nat /\ Len(seq) <= Most /\ DOMAIN seq = 1 .. Len(seq)
         /\ Most \in Nat \ {0} /\ (Len(seq) < Most => Len(seq) = u - first)
         /\ \A a \in 1 .. Len(seq) : seq[a].i \in first + 1 .. u /\ seq[a].d \in Int
<1>1. Most \in Nat \ {0}
  BY NeighborAssumption DEF Most
<1>2. seq \in Seq(Entries(first, u))
  BY DEF Closest
<1>3. /\ Len(seq) \in Nat /\ DOMAIN seq = 1 .. Len(seq)
      /\ \A a \in 1 .. Len(seq) : seq[a] \in Entries(first, u)
  BY <1>2
<1>4. Len(seq) = IF u - first <= Most THEN u - first ELSE Most
  BY DEF Closest
<1>5. \A e \in Entries(first, u) : e.i \in first + 1 .. u /\ e.d \in Int
  BY DEF Entries
<1> QED BY <1>1, <1>3, <1>4, <1>5

\* One minutia more: it displaces the farthest of a full list when it is closer.
LEMMA ClosestUpdated ==
  ASSUME NEW ms, Placed(ms), NEW first \in 1 .. Len(ms), NEW u \in first .. Len(ms) - 1,
         NEW seq, Closest(seq, ms, first, u)
  PROVE  Closest(update_nbr_dists(seq, ms, first, u + 1), ms, first, u + 1)
<1> DEFINE v == u + 1
           d == squared_distance(ms[first].p, ms[v].p)
           l == Len(seq)
           x == [i |-> v, d |-> d]
           pos == find_incr_position(seq, d)
           r == insert_neighbor(seq, pos, x)
           n == IF l < Most THEN l + 1 ELSE Most
           takes == l < Most \/ d < seq[Most].d
<1>1. update_nbr_dists(seq, ms, first, v) = IF takes THEN r ELSE seq
  BY DEF update_nbr_dists, Most
<1>2. Len(ms) \in Nat /\ first \in Nat /\ u \in Nat /\ first <= u /\ v \in 1 .. Len(ms)
  BY PlacedAt
<1>3. d = Away(ms, first, v) /\ d \in Int
  <2>1. Away(ms, first, v) \in Int
    BY <1>2, AwayTyped
  <2> QED BY <2>1 DEF Away
<1>4. /\ l \in Nat /\ l <= Most /\ DOMAIN seq = 1 .. l /\ Most \in Nat \ {0}
      /\ (l < Most => l = u - first)
      /\ \A a \in 1 .. l : seq[a].i \in first + 1 .. u /\ seq[a].d \in Int
  BY <1>2, ClosestInts
<1>5. \A k \in first + 1 .. u : Away(ms, first, k) \in Int
  <2>1. \A k \in first + 1 .. u : k \in 1 .. Len(ms)
    BY <1>2
  <2> QED BY <2>1, AwayTyped
<1>6. /\ \A a \in 1 .. l : seq[a].d = Away(ms, first, seq[a].i)
      /\ \A a, b \in 1 .. l : a < b => seq[a].d <= seq[b].d /\ seq[a].i # seq[b].i
      /\ \A k \in first + 1 .. u :
            \/ \E a \in 1 .. l : seq[a].i = k
            \/ l = Most /\ seq[Most].d <= Away(ms, first, k)
  BY DEF Closest
<1>7. seq \in Seq(Entries(first, v)) /\ l = IF u - first <= Most THEN u - first ELSE Most
  <2>1. Entries(first, u) \subseteq Entries(first, v)
    BY <1>2 DEF Entries
  <2>2. seq \in Seq(Entries(first, u)) /\ l = IF u - first <= Most THEN u - first ELSE Most
    BY DEF Closest
  <2> QED BY <2>1, <2>2
<1>8. v \in Nat /\ first + 1 <= v /\ v - first = u - first + 1
  BY <1>2
<1> HIDE DEF d, v, l
<1> SUFFICES Closest(IF takes THEN r ELSE seq, ms, first, v)
  BY <1>1 DEF v
<1>9. CASE ~takes
  <2>1. l = Most /\ seq[Most].d <= d
    BY <1>3, <1>4, <1>9
  <2>2. l = IF v - first <= Most THEN v - first ELSE Most
    BY <1>2, <1>4, <1>7, <1>8, <2>1
  <2>3. \A k \in first + 1 .. v : k \in first + 1 .. u \/ k = v
    BY <1>2 DEF v
  <2>4. \A k \in first + 1 .. v :
           \/ \E a \in 1 .. l : seq[a].i = k
           \/ l = Most /\ seq[Most].d <= Away(ms, first, k)
    BY <1>3, <1>6, <2>1, <2>3
  <2> QED BY <1>6, <1>7, <1>9, <2>2, <2>4 DEF Closest, l
<1>10. CASE takes
  <2>1. /\ pos \in 1 .. l + 1
        /\ \A a \in 1 .. l : a < pos => seq[a].d <= d
        /\ pos <= l => d < seq[pos].d
    BY <1>3, <1>4, PositionFound DEF l
  <2> HIDE DEF pos
  <2>2. x \in Entries(first, v) /\ x.i = v /\ x.d = d
    BY <1>2, <1>3, <1>8 DEF Entries
  <2> HIDE DEF x
  <2>12. WithInserted(r, seq, pos, x, Entries(first, v))
    <3>1. pos \in 1 .. Len(seq) + 1
      BY <2>1 DEF l
    <3> QED BY <1>7, <2>2, <3>1, Inserted
  <2> HIDE DEF r
  <2>3. /\ r \in Seq(Entries(first, v)) /\ Len(r) = n
        /\ \A a \in 1 .. n :
              r[a] = IF a < pos THEN seq[a] ELSE IF a = pos THEN x ELSE seq[a - 1]
    BY <2>12 DEF WithInserted, l
  <2>4. n \in Nat /\ n <= l + 1 /\ pos \in 1 .. n
    <3>1. CASE l < Most
      BY <1>4, <2>1, <3>1
    <3>2. CASE ~(l < Most)
      <4>1. l = Most /\ d < seq[Most].d
        <5>1. d < seq[Most].d
          BY <1>10, <3>2
        <5>2. l = Most
          BY <1>4, <3>2
        <5> QED BY <5>1, <5>2
      <4>2. pos # l + 1
        <5>1. seq[Most].d \in Int
          BY <1>4, <4>1
        <5>2. pos = l + 1 => seq[Most].d <= d
          BY <1>4, <2>1, <4>1
        <5> QED BY <1>3, <4>1, <5>1, <5>2
      <4> QED BY <1>4, <2>1, <4>1, <4>2
    <3> QED BY <3>1, <3>2
  <2>5. n = IF v - first <= Most THEN v - first ELSE Most
    BY <1>2, <1>4, <1>7, <1>8
  <2>6. ASSUME NEW a \in 1 .. n
        PROVE  /\ a < pos => a \in 1 .. l /\ r[a] = seq[a]
               /\ a = pos => r[a] = x
               /\ a > pos => a - 1 \in 1 .. l /\ pos <= a - 1 /\ pos <= l /\ r[a] = seq[a - 1]
    <3>1. a < pos => a \in 1 .. l
      BY <1>4, <2>1, <2>4
    <3>2. a > pos => a - 1 \in 1 .. l /\ pos <= a - 1 /\ pos <= l
      BY <1>4, <2>1, <2>4
    <3> QED BY <2>1, <2>3, <2>4, <3>1, <3>2
  <2> HIDE DEF n
  <2>7. ASSUME NEW a \in 1 .. n PROVE r[a].d = Away(ms, first, r[a].i)
    <3>1. CASE a < pos
      BY <1>6, <2>6, <3>1
    <3>2. CASE a = pos
      BY <1>3, <2>2, <2>6, <3>2
    <3>3. CASE a > pos
      BY <1>6, <2>6, <3>3
    <3> QED BY <2>1, <2>4, <3>1, <3>2, <3>3
  <2>8. ASSUME NEW a \in 1 .. n, NEW b \in 1 .. n, a < b
        PROVE  r[a].d <= r[b].d /\ r[a].i # r[b].i
    <3>1. CASE b < pos
      <4>1. a < pos
        BY <2>1, <2>4, <2>8, <3>1
      <4> QED BY <1>6, <2>6, <2>8, <3>1, <4>1
    <3>2. CASE b = pos
      <4>1. r[a] = seq[a] /\ a \in 1 .. l /\ r[b] = x /\ seq[a].d <= d
        BY <2>1, <2>6, <2>8, <3>2
      <4>2. seq[a].i # v
        BY <1>2, <1>4, <4>1 DEF v
      <4> QED BY <2>2, <4>1, <4>2
    <3>3. CASE b > pos
      <4>1. b - 1 \in 1 .. l /\ pos <= b - 1 /\ pos \in 1 .. l /\ r[b] = seq[b - 1]
        BY <1>4, <2>1, <2>6, <3>3
      <4>2. CASE a < pos
        <5>1. a < b - 1 /\ a \in 1 .. l /\ r[a] = seq[a]
          BY <2>1, <2>4, <2>6, <4>1, <4>2
        <5> QED BY <1>6, <4>1, <5>1
      <4>3. CASE a = pos
        <5>1. r[a] = x /\ d < seq[pos].d
          BY <1>4, <2>1, <2>6, <4>1, <4>3
        <5>2. seq[pos].d <= seq[b - 1].d
          <6>1. pos < b - 1 \/ pos = b - 1
            BY <1>4, <2>1, <4>1
          <6>2. seq[b - 1].d \in Int
            BY <1>4, <4>1
          <6> QED BY <1>6, <4>1, <6>1, <6>2
        <5>3. seq[b - 1].i # v /\ seq[b - 1].d \in Int /\ seq[pos].d \in Int
          BY <1>2, <1>4, <4>1 DEF v
        <5> QED BY <1>3, <2>2, <4>1, <5>1, <5>2, <5>3
      <4>4. CASE a > pos
        <5>1. a - 1 \in 1 .. l /\ r[a] = seq[a - 1] /\ a - 1 < b - 1
          BY <2>4, <2>6, <2>8, <4>4
        <5> QED BY <1>6, <4>1, <5>1
      <4> QED BY <2>1, <2>4, <4>2, <4>3, <4>4
    <3> QED BY <2>1, <2>4, <3>1, <3>2, <3>3
  <2>9. l = Most => n = Most /\ r[Most].d <= seq[Most].d /\ r[Most].d \in Int /\ seq[Most].d \in Int
    <3> SUFFICES ASSUME l = Most
                 PROVE  /\ n = Most /\ r[Most].d <= seq[Most].d
                        /\ r[Most].d \in Int /\ seq[Most].d \in Int
      OBVIOUS
    <3>1. n = Most /\ d < seq[Most].d /\ Most \in 1 .. l /\ Most \in 1 .. n /\ seq[Most].d \in Int
      BY <1>4, <1>10 DEF n
    <3>2. CASE pos = Most
      BY <1>3, <2>2, <2>6, <3>1, <3>2
    <3>3. CASE pos < Most
      <4>1. r[Most] = seq[Most - 1] /\ Most - 1 \in 1 .. l /\ Most - 1 < Most
        BY <1>4, <2>6, <3>1, <3>3
      <4> QED BY <1>4, <1>6, <3>1, <4>1
    <3> QED BY <1>4, <2>1, <2>4, <3>1, <3>2, <3>3
  <2>10. ASSUME NEW k \in first + 1 .. v
         PROVE  \/ \E a \in 1 .. n : r[a].i = k
                \/ n = Most /\ r[Most].d <= Away(ms, first, k)
    <3>1. CASE k = v
      BY <2>2, <2>4, <2>6, <3>1
    <3>2. CASE k # v
      <4>1. k \in first + 1 .. u
        BY <1>2, <3>2 DEF v
      <4>2. CASE \E a \in 1 .. l : seq[a].i = k
        <5>1. PICK a \in 1 .. l : seq[a].i = k
          BY <4>2
        <5>2. CASE a < pos
          <6>1. a \in 1 .. n
            BY <1>4, <2>4, <5>2
          <6> QED BY <2>6, <5>1, <5>2, <6>1
        <5>3. CASE a >= pos /\ a + 1 <= n
          <6>1. a + 1 \in 1 .. n /\ a + 1 > pos /\ a + 1 - 1 = a
            BY <1>4, <2>1, <2>4, <5>3
          <6>2. r[a + 1] = seq[a]
            BY <2>6, <6>1
          <6> QED BY <5>1, <6>1, <6>2
        <5>4. CASE ~(a + 1 <= n)
          <6>1. l = Most /\ a = Most
            BY <1>4, <5>4 DEF n
          <6>2. seq[Most].d = Away(ms, first, k)
            BY <1>6, <5>1, <6>1
          <6> QED BY <2>9, <6>1, <6>2
        <5> QED BY <1>4, <2>1, <2>4, <5>2, <5>3, <5>4
      <4>3. CASE l = Most /\ seq[Most].d <= Away(ms, first, k)
        <5>1. Away(ms, first, k) \in Int
          BY <1>5, <4>1
        <5> QED BY <2>9, <4>3, <5>1
      <4> QED BY <1>6, <4>1, <4>2, <4>3
    <3> QED BY <3>1, <3>2
  <2>11. Closest(r, ms, first, v)
    BY <2>3, <2>5, <2>7, <2>8, <2>10 DEF Closest
  <2> QED BY <1>10, <2>11
<1> QED BY <1>9, <1>10

(***************************************************************************)
(* find_neighbors.                                                         *)
(***************************************************************************)
Empty == [nbrs |-> <<>>, on |-> TRUE]
After(ms, first) == Steps(first + 1, Len(ms))
TooFar(seq, ms, first, second) ==
    LET dx == ms[second].p[1] - ms[first].p[1]
    IN ~(Len(seq) < Lfs.max_nbrs \/ dx * dx < seq[Lfs.max_nbrs].d)
NextTried(t, ms, first, second) ==
    IF ~t.on \/ TooFar(t.nbrs, ms, first, second) THEN [t EXCEPT !.on = FALSE]
    ELSE [t EXCEPT !.nbrs = update_nbr_dists(t.nbrs, ms, first, second)]

\* The neighbours of a minutia are looked for in one minutia after the other.
Searched(h, ms, first) ==
    /\ h[0] = Empty
    /\ find_neighbors(ms, first) = h[Len(After(ms, first))].nbrs
    /\ \A n \in 1 .. Len(After(ms, first)) :
          h[n] = NextTried(h[n - 1], ms, first, After(ms, first)[n])

\* The search, as a function of the minutiae it has come to.
LEMMA NeighboursDefined ==
  ASSUME NEW ms, NEW first, Len(After(ms, first)) \in Nat
  PROVE  \E h : Searched(h, ms, first)
<1> DEFINE seq == After(ms, first)
           L == Len(seq)
           Op(a, x) == NextTried(a, ms, first, x)
           E(f, n) == IF n = 0 THEN Empty
                      ELSE CHOOSE r \in {Op(a, seq[n]) : a \in {f[n - 1]}} : TRUE
           IsFun(f) == f = [n \in 0 .. L |-> f[n]]
           Good(f, m) == \A n \in 0 .. L : n < m => f[n] = E(f, n)
           T == {m \in Nat : \E f : IsFun(f) /\ Good(f, m)}
<1>0. L \in Nat
  OBVIOUS
<1>a. \A f : E(f, 0) = Empty
  OBVIOUS
<1>8. find_neighbors(ms, first) = (CHOOSE h : h = [n \in 0 .. L |-> E(h, n)])[L].nbrs
  BY DEF After, Empty, InOrder, NextTried, find_neighbors, TooFar
<1> HIDE DEF Op
<1>b. ASSUME NEW f, NEW n \in Nat, n # 0 PROVE E(f, n) = Op(f[n - 1], seq[n])
  <2>1. {Op(a, seq[n]) : a \in {f[n - 1]}} = {Op(f[n - 1], seq[n])}
    OBVIOUS
  <2> QED BY <1>b, <2>1
<1> HIDE DEF seq, L, E
<1>1. 0 \in T
  <2> DEFINE f == [n \in 0 .. L |-> 0]
  <2>1. IsFun(f) /\ Good(f, 0)
    OBVIOUS
  <2> HIDE DEF f, IsFun, Good
  <2> QED BY <2>1
<1>2. ASSUME NEW m \in Nat, m \in T PROVE m + 1 \in T
  <2>1. PICK f : IsFun(f) /\ Good(f, m)
    BY <1>2
  <2> DEFINE g == [n \in 0 .. L |-> E(f, n)]
  <2>2. IsFun(g) /\ \A n \in 0 .. L : g[n] = E(f, n)
    OBVIOUS
  <2> HIDE DEF g
  <2>3. ASSUME NEW n \in 0 .. L, n < m + 1 PROVE g[n] = E(g, n)
    <3>1. CASE n = 0
      BY <1>a, <2>2, <3>1
    <3>2. CASE n # 0
      <4>1. n \in Nat /\ n - 1 \in 0 .. L /\ n - 1 < m
        BY <1>0, <2>3, <3>2
      <4>2. g[n - 1] = f[n - 1]
        BY <2>1, <2>2, <4>1
      <4> QED BY <1>b, <2>2, <3>2, <4>1, <4>2
    <3> QED BY <3>1, <3>2
  <2>4. Good(g, m + 1)
    BY <2>3
  <2> HIDE DEF IsFun, Good
  <2> QED BY <2>2, <2>4
<1>3. Nat \subseteq T
  <2> HIDE DEF T
  <2> QED BY <1>1, <1>2, Induct
<1>4. PICK f : IsFun(f) /\ Good(f, L + 1)
  <2>1. L + 1 \in T
    <3> HIDE DEF T
    <3> QED BY <1>0, <1>3
  <2> QED BY <2>1
<1>6. f = [n \in 0 .. L |-> E(f, n)]
  <2>1. ASSUME NEW n \in 0 .. L PROVE f[n] = E(f, n)
    <3>1. n < L + 1
      BY <1>0
    <3> QED BY <1>4, <3>1
  <2> QED BY <1>4, <2>1
<1> DEFINE h == CHOOSE h : h = [n \in 0 .. L |-> E(h, n)]
<1>7. h = [n \in 0 .. L |-> E(h, n)]
  BY <1>6
<1>9. find_neighbors(ms, first) = h[L].nbrs
  BY <1>8
<1> HIDE DEF h
<1>10. \A n \in 0 .. L : h[n] = E(h, n)
  BY <1>7
<1>11. h[0] = Empty
  BY <1>0, <1>a, <1>10
<1>12. \A n \in 1 .. L : h[n] = Op(h[n - 1], seq[n])
  <2> TAKE n \in 1 .. L
  <2>1. n \in 0 .. L /\ n \in Nat /\ n # 0
    BY <1>0
  <2> QED BY <1>b, <1>10, <2>1
<1>13. Searched(h, ms, first)
  BY <1>9, <1>11, <1>12 DEF L, seq, Op, Searched
<1> QED BY <1>13

\* The search has come to minutia u; it is over when all further ones are too far away.
Tried(t, ms, first, u) ==
    /\ t = [nbrs |-> t.nbrs, on |-> t.on] /\ t.on \in BOOLEAN
    /\ Closest(t.nbrs, ms, first, u)
    /\ ~t.on => /\ Len(t.nbrs) = Most
                /\ \A k \in u + 1 .. Len(ms) : t.nbrs[Most].d <= Away(ms, first, k)

\* The search at its start.
LEMMA TriedFirst ==
  ASSUME NEW ms, NEW first \in Nat
  PROVE  Tried(Empty, ms, first, first)
<1>1. Most \in Nat
  BY NeighborAssumption DEF Most
<1>2. Closest(<<>>, ms, first, first)
  BY <1>1 DEF Closest
<1> QED BY <1>2 DEF Empty, Tried

\* The fields of its state.
LEMMA TriedFields ==
  ASSUME NEW t, NEW seq, NEW on, t = [nbrs |-> seq, on |-> on], NEW x
  PROVE  /\ [t EXCEPT !.on = FALSE] = [nbrs |-> seq, on |-> FALSE]
         /\ [t EXCEPT !.nbrs = x] = [nbrs |-> x, on |-> on]
<1>1. [t EXCEPT !.nbrs = x] = [nbrs |-> x, on |-> on]
  OBVIOUS
<1>2. \A y : [t EXCEPT !.on = y] = [nbrs |-> seq, on |-> y]
  OBVIOUS
<1>3. [t EXCEPT !.on = FALSE] = [nbrs |-> seq, on |-> FALSE]
  BY <1>2, Zenon
<1> QED BY <1>1, <1>3, Zenon

\* The search comes to one more minutia.
LEMMA TriedNext ==
  ASSUME NEW ms, Placed(ms), ByColumn(ms), NEW first \in 1 .. Len(ms),
         NEW u \in first .. Len(ms) - 1, NEW t, Tried(t, ms, first, u)
  PROVE  Tried(NextTried(t, ms, first, u + 1), ms, first, u + 1)
<1> DEFINE seq == t.nbrs
           l == Len(seq)
           v == u + 1
           o == NextTried(t, ms, first, v)
           new == update_nbr_dists(seq, ms, first, v)
           stop == ~t.on \/ TooFar(seq, ms, first, v)
<1>1. /\ Len(ms) \in Nat /\ first \in Nat /\ u \in Nat
      /\ v \in 1 .. Len(ms) /\ v \in first + 1 .. Len(ms)
  BY PlacedAt
<1>2. Closest(seq, ms, first, u)
  BY DEF Tried
<1>3. l \in Nat /\ l <= Most /\ Most \in Nat \ {0} /\ \A a \in 1 .. l : seq[a].d \in Int
  BY <1>1, <1>2, ClosestInts
<1>4. Closest(new, ms, first, v)
  BY <1>2, ClosestUpdated
<1>5. o = IF stop THEN [nbrs |-> seq, on |-> FALSE] ELSE [nbrs |-> new, on |-> t.on]
  <2>1. t = [nbrs |-> seq, on |-> t.on]
    BY DEF Tried
  <2>2. o = IF stop THEN [t EXCEPT !.on = FALSE] ELSE [t EXCEPT !.nbrs = new]
    BY DEF NextTried
  <2> HIDE DEF o, stop, seq, new
  <2>3. /\ [t EXCEPT !.on = FALSE] = [nbrs |-> seq, on |-> FALSE]
        /\ [t EXCEPT !.nbrs = new] = [nbrs |-> new, on |-> t.on]
    <3>1. PICK on : t = [nbrs |-> seq, on |-> on] /\ t.on = on
      BY <2>1
    <3>2. /\ [t EXCEPT !.on = FALSE] = [nbrs |-> seq, on |-> FALSE]
          /\ [t EXCEPT !.nbrs = new] = [nbrs |-> new, on |-> on]
      BY <3>1, TriedFields
    <3> QED BY <3>1, <3>2
  <2> QED BY <2>2, <2>3
<1>6. t.on \in BOOLEAN
  BY DEF Tried
<1>7. \A k \in v .. Len(ms) : Away(ms, first, k) \in Int
  <2>1. \A k \in v .. Len(ms) : k \in 1 .. Len(ms)
    BY <1>1
  <2> QED BY <2>1, AwayTyped
<1> SUFFICES Tried(o, ms, first, v)
  OBVIOUS
<1> HIDE DEF o, new
<1>8. CASE stop
  <2>1. l = Most /\ \A k \in v .. Len(ms) : seq[Most].d <= Away(ms, first, k)
    <3>1. CASE ~t.on
      BY <3>1 DEF Tried
    <3>2. CASE TooFar(seq, ms, first, v)
      <4> DEFINE dx == ms[v].p[1] - ms[first].p[1]
      <4>1. ~(l < Most) /\ ~(dx * dx < seq[Most].d)
        BY <3>2 DEF TooFar, Most
      <4>2. l = Most /\ seq[Most].d \in Int
        BY <1>3, <4>1
      <4>3. dx * dx \in Int
        BY <1>1, AwayTyped
      <4>4. \A k \in v .. Len(ms) : dx * dx <= Away(ms, first, k)
        BY <1>1, FurtherRight
      <4> HIDE DEF dx
      <4>5. ASSUME NEW k \in v .. Len(ms) PROVE seq[Most].d <= Away(ms, first, k)
        BY <1>7, <4>1, <4>2, <4>3, <4>4
      <4> QED BY <4>2, <4>5
    <3> QED BY <1>8, <3>1, <3>2
  <2>2. new = seq
    <3>1. Away(ms, first, v) \in Int /\ seq[Most].d <= Away(ms, first, v)
      BY <1>1, <1>7, <2>1
    <3>2. seq[Most].d \in Int
      BY <1>3, <2>1
    <3>3. ~(l < Most) /\ ~(squared_distance(ms[first].p, ms[v].p) < seq[Most].d)
      BY <1>3, <2>1, <3>1, <3>2 DEF Away
    <3> QED BY <3>3 DEF new, update_nbr_dists, Most
  <2>3. \A k \in v + 1 .. Len(ms) : k \in v .. Len(ms)
    BY <1>1
  <2>4. o = [nbrs |-> seq, on |-> FALSE]
    BY <1>5, <1>8
  <2> HIDE DEF seq
  <2>5. o.nbrs = seq /\ o.on = FALSE /\ Closest(seq, ms, first, v)
    BY <1>4, <2>2, <2>4
  <2> QED BY <2>1, <2>3, <2>4, <2>5 DEF Tried
<1>9. CASE ~stop
  <2>1. o = [nbrs |-> new, on |-> TRUE]
    BY <1>5, <1>6, <1>9
  <2> QED BY <1>4, <2>1 DEF Tried
<1> QED BY <1>8, <1>9

\* find_neighbors: by induction over the minutiae it comes to.
LEMMA NeighboursClosest ==
  ASSUME NEW ms, Placed(ms), ByColumn(ms), NEW first \in 1 .. Len(ms)
  PROVE  Closest(find_neighbors(ms, first), ms, first, Len(ms))
<1> DEFINE L == Len(After(ms, first))
<1>1. Len(ms) \in Nat /\ first \in Nat
  BY PlacedAt
<1>2. /\ L = Len(ms) - first /\ L \in Nat
      /\ \A j \in 1 .. L : After(ms, first)[j] = first + j
  <2>1. first + 1 \in Int /\ Len(ms) \in Int
    BY <1>1
  <2>2. /\ L = IF Len(ms) >= first + 1 THEN Len(ms) - (first + 1) + 1 ELSE 0
        /\ \A j \in 1 .. L : After(ms, first)[j] = first + 1 + j - 1
    BY <2>1, StepsIn DEF After
  <2> HIDE DEF L
  <2> QED BY <1>1, <2>2
<1>3. PICK h : Searched(h, ms, first)
  BY <1>2, NeighboursDefined
<1>4. h[0] = Empty /\ \A j \in 1 .. L : h[j] = NextTried(h[j - 1], ms, first, first + j)
  BY <1>2, <1>3 DEF Searched
<1>5. find_neighbors(ms, first) = h[L].nbrs
  BY <1>3 DEF Searched
<1> HIDE DEF L
<1> DEFINE I == {j \in Nat : j <= L => Tried(h[j], ms, first, first + j)}
<1>6. 0 \in I
  <2>1. Tried(Empty, ms, first, first) /\ first + 0 = first
    BY <1>1, TriedFirst
  <2> QED BY <1>4, <2>1
<1>7. ASSUME NEW j \in Nat, j \in I PROVE j + 1 \in I
  <2> SUFFICES ASSUME j + 1 <= L PROVE Tried(h[j + 1], ms, first, first + (j + 1))
    OBVIOUS
  <2> DEFINE u == first + j
             t == h[j]
  <2>1. j <= L /\ j + 1 \in 1 .. L /\ j + 1 - 1 = j /\ first + (j + 1) = u + 1
    BY <1>1, <1>2
  <2>2. u \in first .. Len(ms) - 1
    BY <1>1, <1>2
  <2>3. Tried(t, ms, first, u)
    BY <1>7, <2>1
  <2>4. h[j + 1] = NextTried(t, ms, first, u + 1)
    BY <1>4, <2>1
  <2> HIDE DEF u, t
  <2>5. Tried(NextTried(t, ms, first, u + 1), ms, first, u + 1)
    BY <2>2, <2>3, TriedNext
  <2> QED BY <2>1, <2>4, <2>5
<1>8. Nat \subseteq I
  <2> HIDE DEF I
  <2> QED BY <1>6, <1>7, Induct
<1>9. Tried(h[L], ms, first, first + L) /\ first + L = Len(ms)
  BY <1>1, <1>2, <1>8
<1> QED BY <1>5, <1>9 DEF Tried

\* What NearestNeighbours says of the neighbours of one minutia.
NearestOf(list, ms, first) ==
    LET mine == {list[j].i : j \in DOMAIN list}
        later == first + 1 .. Len(ms)
        Dist(j) == squared_distance(ms[first].p, ms[j].p)
    IN /\ Cardinality(mine) = Min({Lfs.max_nbrs, Cardinality(later)})
       /\ mine \subseteq later
       /\ \A j \in mine, k \in later \ mine : Dist(j) <= Dist(k)

\* list holds the numbers of the neighbours seq.
NumbersOf(list, seq) == {list[j] : j \in DOMAIN list} = {seq[a].i : a \in 1 .. Len(seq)}

\* sort_neighbors changes their order alone.
LEMMA SortedSame ==
  ASSUME NEW seq, Len(seq) \in Nat, DOMAIN seq = 1 .. Len(seq), NEW ms, NEW first
  PROVE  NumbersOf(sort_neighbors(seq, ms, first), seq)
<1> DEFINE l == Len(seq)
           T == 1 .. l
           Theta(j) == angle2line(<<ms[seq[j].i].p[2], ms[seq[j].i].p[1]>>,
                                  <<ms[first].p[2], ms[first].p[1]>>)
           Smaller(j) == {k \in T : AngleBefore(Theta(k), Theta(j))}
           r == [j \in T |-> Cardinality(Smaller(j))]
           ids == [j \in T |-> seq[j].i]
           list == sort_neighbors(seq, ms, first)
<1>1. list = Listed(ids, {<<Cardinality(Smaller(j)), j>> : j \in T})
  BY DEF sort_neighbors
<1>2. IsFiniteSet(T) /\ Cardinality(T) = l
  <2>1. IsFiniteSet(1 .. l) /\ Cardinality(1 .. l) = IF 1 > l THEN 0 ELSE l - 1 + 1
    BY FS_Interval
  <2> QED BY <2>1
<1>3. \A j \in T : Smaller(j) \subseteq T
  OBVIOUS
<1> HIDE DEF Smaller
<1>4. \A j \in T : r[j] = Cardinality(Smaller(j)) /\ r[j] \in Int
  <2> TAKE j \in T
  <2>1. IsFiniteSet(Smaller(j))
    BY <1>2, <1>3, FS_Subset
  <2>2. Cardinality(Smaller(j)) \in Nat
    BY <2>1, FS_CardinalityType
  <2> QED BY <2>2
<1>5. list = Listed(ids, Ranked(r, T))
  <2>1. Ranked(r, T) = {<<Cardinality(Smaller(j)), j>> : j \in T}
    BY <1>4 DEF Ranked
  <2> QED BY <1>1, <2>1
<1>6. \A j \in T : ids[j] = seq[j].i
  OBVIOUS
<1>7. T \in SUBSET (1 .. l) /\ l \in Nat
  OBVIOUS
<1> HIDE DEF T, r, ids, list
<1>8. PICK at : InTurn(at, l, T, r) /\ list = Picked(ids, at, l)
  <2>1. \E at : /\ InTurn(at, Cardinality(T), T, r)
                /\ Listed(ids, Ranked(r, T)) = Picked(ids, at, Cardinality(T))
    BY <1>4, <1>7, ListedAs
  <2> QED BY <1>2, <1>5, <2>1
<1>9. DOMAIN list = 1 .. l /\ \A j \in 1 .. l : at[j] \in T /\ list[j] = seq[at[j]].i
  BY <1>6, <1>8 DEF Picked, InTurn
<1>10. \A a \in T : \E j \in 1 .. l : at[j] = a
  BY <1>8 DEF InTurn
<1>11. {list[j] : j \in DOMAIN list} = {seq[a].i : a \in 1 .. l}
  <2>1. ASSUME NEW y \in {list[j] : j \in DOMAIN list} PROVE y \in {seq[a].i : a \in 1 .. l}
    BY <1>9 DEF T
  <2>2. ASSUME NEW y \in {seq[a].i : a \in 1 .. l} PROVE y \in {list[j] : j \in DOMAIN list}
    <3>1. PICK a \in T : y = seq[a].i
      BY DEF T
    <3>2. PICK j \in 1 .. l : at[j] = a
      BY <1>10
    <3> QED BY <1>9, <3>1, <3>2
  <2> QED BY <2>1, <2>2
<1> QED BY <1>11 DEF list, l, NumbersOf

\* So the minutiae ridges are counted to are the closest.
LEMMA CountedNearest ==
  ASSUME NEW ms, Placed(ms), ByColumn(ms), NEW first \in 1 .. Len(ms), NEW b
  PROVE  NearestOf(count_minutia_ridges(ms, first, b), ms, first)
<1> DEFINE seq == find_neighbors(ms, first)
           l == Len(seq)
           ids == sort_neighbors(seq, ms, first)
           list == count_minutia_ridges(ms, first, b)
           mine == {list[j].i : j \in DOMAIN list}
           later == first + 1 .. Len(ms)
           f == [a \in 1 .. l |-> seq[a].i]
<1>1. Len(ms) \in Nat /\ first \in Nat
  BY PlacedAt
<1>2. Closest(seq, ms, first, Len(ms))
  BY NeighboursClosest
<1>3. DOMAIN list = DOMAIN ids /\ \A j \in DOMAIN ids : list[j].i = ids[j]
  BY DEF count_minutia_ridges
<1> HIDE DEF seq
<1>4. /\ l \in Nat /\ l <= Most /\ DOMAIN seq = 1 .. l /\ Most \in Nat \ {0}
      /\ (l < Most => l = Len(ms) - first)
      /\ \A a \in 1 .. l : seq[a].i \in first + 1 .. Len(ms) /\ seq[a].d \in Int
  BY <1>1, <1>2, ClosestInts
<1>5. mine = {seq[a].i : a \in 1 .. l}
  <2>1. {ids[j] : j \in DOMAIN ids} = {seq[a].i : a \in 1 .. l}
    <3>1. NumbersOf(ids, seq)
      BY <1>4, SortedSame
    <3> HIDE DEF ids
    <3> QED BY <3>1 DEF NumbersOf
  <2> HIDE DEF ids, list, l
  <2>2. mine = {ids[j] : j \in DOMAIN ids}
    BY <1>3
  <2> QED BY <2>1, <2>2
<1> HIDE DEF mine, ids, list
<1>6. /\ \A a \in 1 .. l : seq[a].d = Away(ms, first, seq[a].i)
      /\ \A a, c \in 1 .. l : a < c => seq[a].d <= seq[c].d /\ seq[a].i # seq[c].i
      /\ \A k \in first + 1 .. Len(ms) :
            \/ \E a \in 1 .. l : seq[a].i = k
            \/ l = Most /\ seq[Most].d <= Away(ms, first, k)
      /\ l = IF Len(ms) - first <= Most THEN Len(ms) - first ELSE Most
  BY <1>2 DEF Closest
<1> HIDE DEF l
<1>7. Cardinality(mine) = l
  <2>1. IsFiniteSet(1 .. l) /\ Cardinality(1 .. l) = l
    <3>1. IsFiniteSet(1 .. l) /\ Cardinality(1 .. l) = IF 1 > l THEN 0 ELSE l - 1 + 1
      BY <1>4, FS_Interval
    <3> QED BY <1>4, <3>1
  <2>2. f \in [1 .. l -> mine] /\ \A a \in 1 .. l : f[a] = seq[a].i
    BY <1>5
  <2>3. \A y \in mine : \E a \in 1 .. l : f[a] = y
    BY <1>5
  <2> HIDE DEF f
  <2>4. ASSUME NEW a \in 1 .. l, NEW c \in 1 .. l, f[a] = f[c] PROVE a = c
    <3>1. a < c \/ c < a \/ a = c
      BY <1>4
    <3> QED BY <1>6, <2>2, <2>4, <3>1
  <2>5. f \in Bijection(1 .. l, mine)
    <3>1. f \in Injection(1 .. l, mine)
      BY <2>2, <2>4, Fun_IsInj
    <3>2. f \in Surjection(1 .. l, mine)
      BY <2>2, <2>3, Fun_IsSurj
    <3> QED BY <3>1, <3>2 DEF Bijection
  <2>6. ExistsBijection(1 .. l, mine)
    BY <2>5 DEF ExistsBijection
  <2> QED BY <2>1, <2>6, FS_Bijection
<1>8. Cardinality(later) = Len(ms) - first
  <2>1. first + 1 \in Int /\ Len(ms) \in Int
    BY <1>1
  <2>2. Cardinality(later) = IF first + 1 > Len(ms) THEN 0 ELSE Len(ms) - (first + 1) + 1
    BY <2>1, FS_Interval
  <2> HIDE DEF later
  <2> QED BY <1>1, <2>2
<1>9. Min({Lfs.max_nbrs, Cardinality(later)}) = l
  <2> DEFINE c == Cardinality(later)
  <2>1. c \in Int /\ c = Len(ms) - first
    BY <1>1, <1>8
  <2> HIDE DEF c
  <2>2. Min({Most, c}) = IF Most <= c THEN Most ELSE c
    <3>1. Most \in Int
      BY <1>4
    <3> QED BY <2>1, <3>1, MinTwo
  <2>3. Min({Most, c}) = l
    BY <1>1, <1>4, <1>6, <2>1, <2>2
  <2> QED BY <2>3 DEF c, Most
<1>10. mine \subseteq later
  BY <1>4, <1>5
<1>11. ASSUME NEW j \in mine, NEW k \in later \ mine
       PROVE  squared_distance(ms[first].p, ms[j].p) <= squared_distance(ms[first].p, ms[k].p)
  <2>1. PICK a \in 1 .. l : j = seq[a].i
    BY <1>5
  <2>2. l = Most /\ seq[Most].d <= Away(ms, first, k)
    BY <1>5, <1>6
  <2>3. seq[a].d <= seq[Most].d /\ seq[a].d \in Int /\ seq[Most].d \in Int
    <3>1. Most \in 1 .. l /\ (a < Most \/ a = Most)
      BY <1>4, <2>2
    <3> QED BY <1>4, <1>6, <3>1
  <2>4. Away(ms, first, k) \in Int
    <3>1. k \in 1 .. Len(ms)
      BY <1>1
    <3> QED BY <3>1, AwayTyped
  <2>5. Away(ms, first, j) = seq[a].d
    BY <1>6, <2>1
  <2>6. Away(ms, first, j) <= Away(ms, first, k)
    BY <2>2, <2>3, <2>4, <2>5
  <2> QED BY <2>6 DEF Away
<1>12. Cardinality(mine) = Min({Lfs.max_nbrs, Cardinality(later)})
  BY <1>7, <1>9
<1> QED BY <1>10, <1>11, <1>12 DEF NearestOf, mine, list

(***************************************************************************)
(* Ridge counting is the last to change the list, and leaves the           *)
(* neighbours of that list behind.                                         *)
(***************************************************************************)
Finished == {"quality", "template", "done"}

\* The steps after ridge counting.
LEMMA ReachedQuality ==
  ASSUME Reached("quality")
  PROVE  step \in Finished
<1>1. PICK i, j \in 1 .. 25 : StepOrder[i] = "quality" /\ StepOrder[j] = step /\ j >= i
  <2>1. DOMAIN StepOrder = 1 .. 25
    BY DEF StepOrder
  <2> QED BY <2>1 DEF Reached
<1>2. \A k \in 1 .. 25 : k < 23 => StepOrder[k] # "quality"
  BY DEF StepOrder
<1>3. i >= 23
  BY <1>1, <1>2
<1>4. j = 23 \/ j = 24 \/ j = 25
  BY <1>1, <1>3
<1>5. StepOrder[23] = "quality" /\ StepOrder[24] = "template" /\ StepOrder[25] = "done"
  BY DEF StepOrder
<1> QED BY <1>1, <1>4, <1>5 DEF Finished

NeighbourInv ==
    /\ Detected(s)
    /\ step \in Finished => /\ nbrs = count_minutiae_ridges(s.ms, s.b)
                            /\ H <= W => ByColumn(s.ms) /\ Distinct(s.ms)

\* No minutia at first.
LEMMA NeighbourInvInit == Init => NeighbourInv
<1>1. Init => s = [b |-> [p \in Pixels |-> 0], ms |-> <<>>] /\ step = "initial"
  BY DEF Init
<1>2. Init => Detected(s)
  BY <1>1, NonePlaced DEF Detected
<1> QED BY <1>1, <1>2 DEF NeighbourInv, Finished

\* Ridge counting leaves the neighbours of the list it sorted, and no later step changes
\* either.
LEMMA NeighbourInvNext == NeighbourInv /\ [Next]_vars => NeighbourInv'
<1> SUFFICES ASSUME NeighbourInv, [Next]_vars PROVE NeighbourInv'
  OBVIOUS
<1>1. Detected(s')
  BY DetectedNext DEF NeighbourInv
<1>2. NeighbourInv' <=> /\ Detected(s')
                        /\ step' \in Finished => /\ nbrs' = count_minutiae_ridges(s'.ms, s'.b)
                                                 /\ H <= W => ByColumn(s'.ms) /\ Distinct(s'.ms)
  BY DEF NeighbourInv, Finished
<1>3. CASE CountRidges
  <2> DEFINE ms == Ordered(s.ms)
  <2>1. s' = [s EXCEPT !.ms = ms] /\ nbrs' = count_minutiae_ridges(ms, s.b)
    BY <1>3 DEF CountRidges
  <2>2. Placed(ms) /\ (H <= W => ByColumn(ms) /\ Distinct(ms))
    BY OrderedPlaced DEF NeighbourInv, Detected
  <2> HIDE DEF ms
  <2>3. s = [b |-> s.b, ms |-> s.ms]
    BY DEF NeighbourInv, Detected
  <2>4. s'.ms = ms /\ s'.b = s.b
    BY <2>1, <2>3
  <2> QED BY <1>1, <1>2, <2>1, <2>2, <2>4
<1>4. CASE UNCHANGED <<s, nbrs>> /\ (step' \in Finished => step \in Finished)
  BY <1>1, <1>2, <1>4 DEF NeighbourInv
<1>5. CASE step' \notin Finished
  BY <1>1, <1>2, <1>5
<1>6. CASE Quality \/ Template
  BY <1>4, <1>6 DEF Quality, Template, Call, Finished
<1>7. CASE UNCHANGED vars
  BY <1>4, <1>7 DEF vars
<1>8. CASE \/ InitialMaps \/ MorphFlow \/ RemoveIncon \/ Smooth \/ Interpolate \/ MarginAndCurve
           \/ Binarize \/ ScanHorizontally \/ ScanVertically
           \/ Sort \/ Islands \/ Holes \/ Pointing \/ NearInvalid \/ SideMinutiae \/ Hooks
           \/ Overlaps \/ Malformations \/ Pores
  <2>1. step' \notin Finished
    BY <1>8 DEF InitialMaps, MorphFlow, RemoveIncon, Smooth, Interpolate, MarginAndCurve, Binarize,
       ScanHorizontally, ScanVertically, Sort, Islands, Holes, Pointing, NearInvalid, SideMinutiae,
       Hooks, Overlaps, Malformations, Pores, MapsCall, MinutiaeCall, Call, Finished
  <2> QED BY <1>5, <2>1
<1> QED BY <1>3, <1>6, <1>7, <1>8 DEF Next

\* In the list the template is made from, the neighbours of a minutia are the max_nbrs
\* closest of those after it, whatever the image, if it is no higher than wide: the
\* search may end at the first column that is too far away, and a full list drops its
\* farthest entry for a closer one.
THEOREM NearestFound == Spec => []NearestNeighbours
<1>1. NeighbourInv => NearestNeighbours
  <2> SUFFICES ASSUME NeighbourInv, H <= W, Reached("quality"), NEW i \in DOMAIN nbrs
               PROVE  NearestOf(nbrs[i], s.ms, i)
    BY DEF NearestNeighbours, NearestOf
  <2>1. /\ nbrs = count_minutiae_ridges(s.ms, s.b)
        /\ Placed(s.ms) /\ ByColumn(s.ms)
    BY ReachedQuality DEF NeighbourInv, Detected
  <2>2. DOMAIN nbrs = 1 .. Len(s.ms) - 1 /\ nbrs[i] = count_minutia_ridges(s.ms, i, s.b)
    BY <2>1 DEF count_minutiae_ridges
  <2>3. i \in 1 .. Len(s.ms)
    <3>1. Len(s.ms) \in Nat
      BY <2>1, PlacedAt
    <3> QED BY <2>2, <3>1
  <2>4. NearestOf(count_minutia_ridges(s.ms, i, s.b), s.ms, i)
    BY <2>1, <2>3, CountedNearest
  <2> QED BY <2>2, <2>4
<1> QED BY <1>1, NeighbourInvInit, NeighbourInvNext, PTL DEF Spec

\* No place is twice in that list: the two minutiae the side step moved to the same tip
\* are next to each other once they are sorted, so that one of them goes.
THEOREM PlacesDiffer == Spec => []NoPlaceTwice
<1>1. NeighbourInv => NoPlaceTwice
  <2> SUFFICES ASSUME NeighbourInv, H <= W, Reached("quality"),
                      NEW i \in DOMAIN s.ms, NEW j \in DOMAIN s.ms, s.ms[i].p = s.ms[j].p
               PROVE  i = j
    BY DEF NoPlaceTwice
  <2>1. Placed(s.ms) /\ Distinct(s.ms)
    BY ReachedQuality DEF NeighbourInv, Detected
  <2>2. DOMAIN s.ms = 1 .. Len(s.ms)
    BY <2>1, PlacedAt
  <2> QED BY <2>1, <2>2 DEF Distinct
<1> QED BY <1>1, NeighbourInvInit, NeighbourInvNext, PTL DEF Spec

\* A minutia and its edge pixel lie in the image when it is found, when it is moved along the
\* contour around it and when the template is made of it: the scan, the contours and their
\* tips never leave the image.
MinutiaeInImage == \A i \in DOMAIN s.ms : s.ms[i].p \in Pixels /\ s.ms[i].e \in Pixels

THEOREM MinutiaeStayInImage == Spec => []MinutiaeInImage
<1>1. NeighbourInv => MinutiaeInImage
  BY PlacedAt DEF NeighbourInv, Detected, MinutiaeInImage, Sited
<1> QED BY <1>1, NeighbourInvInit, NeighbourInvNext, PTL DEF Spec

(***************************************************************************)
(* remove_overlaps, of a list sorted by row without a stale minutia.       *)
(***************************************************************************)
WithNext(u, ms, first, second) ==
    IF u.on THEN PairTested("overlaps", u, ms, first, second) ELSE u

\* The inner loop: a minutia is compared with each after it.
Compared(h, t, ms, first) ==
    /\ h[0] = [t EXCEPT !.on = first \notin t.rm]
    /\ PairScan("overlaps", t, ms, first) = h[Len(After(ms, first))]
    /\ \A n \in 1 .. Len(After(ms, first)) :
          h[n] = WithNext(h[n - 1], ms, first, After(ms, first)[n])

LEMMA PairScanDefined ==
  ASSUME NEW t, NEW ms, NEW first, Len(After(ms, first)) \in Nat
  PROVE  \E h : Compared(h, t, ms, first)
<1> DEFINE seq == After(ms, first)
           L == Len(seq)
           Op(a, x) == WithNext(a, ms, first, x)
           E(f, n) == IF n = 0 THEN [t EXCEPT !.on = first \notin t.rm]
                      ELSE CHOOSE r \in {Op(a, seq[n]) : a \in {f[n - 1]}} : TRUE
           IsFun(f) == f = [n \in 0 .. L |-> f[n]]
           Good(f, m) == \A n \in 0 .. L : n < m => f[n] = E(f, n)
           T == {m \in Nat : \E f : IsFun(f) /\ Good(f, m)}
<1>0. L \in Nat
  OBVIOUS
<1>a. \A f : E(f, 0) = [t EXCEPT !.on = first \notin t.rm]
  OBVIOUS
<1>8. PairScan("overlaps", t, ms, first) = (CHOOSE h : h = [n \in 0 .. L |-> E(h, n)])[L]
  BY DEF After, InOrder, PairScan, WithNext
<1> HIDE DEF Op
<1>b. ASSUME NEW f, NEW n \in Nat, n # 0 PROVE E(f, n) = Op(f[n - 1], seq[n])
  <2>1. {Op(a, seq[n]) : a \in {f[n - 1]}} = {Op(f[n - 1], seq[n])}
    OBVIOUS
  <2> QED BY <1>b, <2>1
<1> HIDE DEF seq, L, E
<1>1. 0 \in T
  <2> DEFINE f == [n \in 0 .. L |-> 0]
  <2>1. IsFun(f) /\ Good(f, 0)
    OBVIOUS
  <2> HIDE DEF f, IsFun, Good
  <2> QED BY <2>1
<1>2. ASSUME NEW m \in Nat, m \in T PROVE m + 1 \in T
  <2>1. PICK f : IsFun(f) /\ Good(f, m)
    BY <1>2
  <2> DEFINE g == [n \in 0 .. L |-> E(f, n)]
  <2>2. IsFun(g) /\ \A n \in 0 .. L : g[n] = E(f, n)
    OBVIOUS
  <2> HIDE DEF g
  <2>3. ASSUME NEW n \in 0 .. L, n < m + 1 PROVE g[n] = E(g, n)
    <3>1. CASE n = 0
      BY <1>a, <2>2, <3>1
    <3>2. CASE n # 0
      <4>1. n \in Nat /\ n - 1 \in 0 .. L /\ n - 1 < m
        BY <1>0, <2>3, <3>2
      <4>2. g[n - 1] = f[n - 1]
        BY <2>1, <2>2, <4>1
      <4> QED BY <1>b, <2>2, <3>2, <4>1, <4>2
    <3> QED BY <3>1, <3>2
  <2>4. Good(g, m + 1)
    BY <2>3
  <2> HIDE DEF IsFun, Good
  <2> QED BY <2>2, <2>4
<1>3. Nat \subseteq T
  <2> HIDE DEF T
  <2> QED BY <1>1, <1>2, Induct
<1>4. PICK f : IsFun(f) /\ Good(f, L + 1)
  <2>1. L + 1 \in T
    <3> HIDE DEF T
    <3> QED BY <1>0, <1>3
  <2> QED BY <2>1
<1>6. f = [n \in 0 .. L |-> E(f, n)]
  <2>1. ASSUME NEW n \in 0 .. L PROVE f[n] = E(f, n)
    <3>1. n < L + 1
      BY <1>0
    <3> QED BY <1>4, <3>1
  <2> QED BY <1>4, <2>1
<1> DEFINE h == CHOOSE h : h = [n \in 0 .. L |-> E(h, n)]
<1>7. h = [n \in 0 .. L |-> E(h, n)]
  BY <1>6
<1>9. PairScan("overlaps", t, ms, first) = h[L]
  BY <1>8
<1> HIDE DEF h
<1>10. \A n \in 0 .. L : h[n] = E(h, n)
  BY <1>7
<1>11. h[0] = [t EXCEPT !.on = first \notin t.rm]
  BY <1>0, <1>a, <1>10
<1>12. \A n \in 1 .. L : h[n] = Op(h[n - 1], seq[n])
  <2> TAKE n \in 1 .. L
  <2>1. n \in 0 .. L /\ n \in Nat /\ n # 0
    BY <1>0
  <2> QED BY <1>b, <1>10, <2>1
<1>13. Compared(h, t, ms, first)
  BY <1>9, <1>11, <1>12 DEF L, seq, Op, Compared
<1> QED BY <1>13

Firsts(ms) == Steps(1, Len(ms) - 1)
NoneGone(t) == [b |-> t.b, rm |-> {}, on |-> TRUE]
Remaining(ms, u) == [b |-> u.b, ms |-> Kept(ms, u.rm)]

\* The outer loop: every minutia but the last is the first of a pair.
AllCompared(h, t) ==
    /\ h[0] = NoneGone(t)
    /\ remove_overlaps(t) = Remaining(t.ms, h[Len(Firsts(t.ms))])
    /\ \A n \in 1 .. Len(Firsts(t.ms)) :
          h[n] = PairScan("overlaps", h[n - 1], t.ms, Firsts(t.ms)[n])

LEMMA PairedDefined ==
  ASSUME NEW t, Len(Firsts(t.ms)) \in Nat
  PROVE  \E h : AllCompared(h, t)
<1> DEFINE seq == Firsts(t.ms)
           L == Len(seq)
           Op(a, x) == PairScan("overlaps", a, t.ms, x)
           E(f, n) == IF n = 0 THEN NoneGone(t)
                      ELSE CHOOSE r \in {Op(a, seq[n]) : a \in {f[n - 1]}} : TRUE
           IsFun(f) == f = [n \in 0 .. L |-> f[n]]
           Good(f, m) == \A n \in 0 .. L : n < m => f[n] = E(f, n)
           T == {m \in Nat : \E f : IsFun(f) /\ Good(f, m)}
<1>0. L \in Nat
  OBVIOUS
<1>a. \A f : E(f, 0) = NoneGone(t)
  OBVIOUS
<1>8. remove_overlaps(t) = Remaining(t.ms, (CHOOSE h : h = [n \in 0 .. L |-> E(h, n)])[L])
  BY DEF Firsts, InOrder, NoneGone, Paired, Remaining, remove_overlaps
<1> HIDE DEF Op
<1>b. ASSUME NEW f, NEW n \in Nat, n # 0 PROVE E(f, n) = Op(f[n - 1], seq[n])
  <2>1. {Op(a, seq[n]) : a \in {f[n - 1]}} = {Op(f[n - 1], seq[n])}
    OBVIOUS
  <2> QED BY <1>b, <2>1
<1> HIDE DEF seq, L, E
<1>1. 0 \in T
  <2> DEFINE f == [n \in 0 .. L |-> 0]
  <2>1. IsFun(f) /\ Good(f, 0)
    OBVIOUS
  <2> HIDE DEF f, IsFun, Good
  <2> QED BY <2>1
<1>2. ASSUME NEW m \in Nat, m \in T PROVE m + 1 \in T
  <2>1. PICK f : IsFun(f) /\ Good(f, m)
    BY <1>2
  <2> DEFINE g == [n \in 0 .. L |-> E(f, n)]
  <2>2. IsFun(g) /\ \A n \in 0 .. L : g[n] = E(f, n)
    OBVIOUS
  <2> HIDE DEF g
  <2>3. ASSUME NEW n \in 0 .. L, n < m + 1 PROVE g[n] = E(g, n)
    <3>1. CASE n = 0
      BY <1>a, <2>2, <3>1
    <3>2. CASE n # 0
      <4>1. n \in Nat /\ n - 1 \in 0 .. L /\ n - 1 < m
        BY <1>0, <2>3, <3>2
      <4>2. g[n - 1] = f[n - 1]
        BY <2>1, <2>2, <4>1
      <4> QED BY <1>b, <2>2, <3>2, <4>1, <4>2
    <3> QED BY <3>1, <3>2
  <2>4. Good(g, m + 1)
    BY <2>3
  <2> HIDE DEF IsFun, Good
  <2> QED BY <2>2, <2>4
<1>3. Nat \subseteq T
  <2> HIDE DEF T
  <2> QED BY <1>1, <1>2, Induct
<1>4. PICK f : IsFun(f) /\ Good(f, L + 1)
  <2>1. L + 1 \in T
    <3> HIDE DEF T
    <3> QED BY <1>0, <1>3
  <2> QED BY <2>1
<1>6. f = [n \in 0 .. L |-> E(f, n)]
  <2>1. ASSUME NEW n \in 0 .. L PROVE f[n] = E(f, n)
    <3>1. n < L + 1
      BY <1>0
    <3> QED BY <1>4, <3>1
  <2> QED BY <1>4, <2>1
<1> DEFINE h == CHOOSE h : h = [n \in 0 .. L |-> E(h, n)]
<1>7. h = [n \in 0 .. L |-> E(h, n)]
  BY <1>6
<1>9. remove_overlaps(t) = Remaining(t.ms, h[L])
  BY <1>8
<1> HIDE DEF h
<1>10. \A n \in 0 .. L : h[n] = E(h, n)
  BY <1>7
<1>11. h[0] = NoneGone(t)
  BY <1>0, <1>a, <1>10
<1>12. \A n \in 1 .. L : h[n] = Op(h[n - 1], seq[n])
  <2> TAKE n \in 1 .. L
  <2>1. n \in 0 .. L /\ n \in Nat /\ n # 0
    BY <1>0
  <2> QED BY <1>b, <1>10, <2>1
<1>13. AllCompared(h, t)
  BY <1>9, <1>11, <1>12 DEF L, seq, Op, AllCompared
<1> QED BY <1>13

ByRow(ms) == \A i, j \in 1 .. Len(ms) : i < j => ms[i].p[2] <= ms[j].p[2]
NoneStale(ms, b) == \A i \in 1 .. Len(ms) : b[ms[i].p] = ms[i].type

\* The two minutiae are on opposite sides of an overlap.
OverlapOf(b, m1, m2) ==
    Opposed(m1, m2, Lfs.max_overlap_dist) /\ TestOverlap(b, m1, m2).verdict = "both"

\* Of the minutiae from first to last none is left that overlaps with the first, unless that goes.
Clear(rm, b, ms, first, last) ==
    \A g \in first + 1 .. last : OverlapOf(b, ms[first], ms[g]) => first \in rm \/ g \in rm

\* u has come to the pair of first and last; it is over when none of the rest can overlap.
ClearTo(u, b, ms, first, last) ==
    /\ u = [b |-> b, rm |-> u.rm, on |-> u.on] /\ u.on \in BOOLEAN
    /\ Clear(u.rm, b, ms, first, last)
    /\ ~u.on => Clear(u.rm, b, ms, first, Len(ms))

\* In a list sorted by row no minutia is close enough that comes after one too far below.
LEMMA RowsApart ==
  ASSUME NEW ms, Placed(ms), ByRow(ms), NEW first \in 1 .. Len(ms), NEW g \in first + 1 .. Len(ms),
         ms[g].p[2] - ms[first].p[2] > Lfs.max_overlap_dist, NEW k \in g .. Len(ms), NEW b
  PROVE  ~OverlapOf(b, ms[first], ms[k])
<1> DEFINE far == Lfs.max_overlap_dist
           dy == ms[k].p[2] - ms[first].p[2]
<1>1. Len(ms) \in Nat /\ g \in 1 .. Len(ms) /\ k \in 1 .. Len(ms) /\ (g < k \/ g = k)
  <2>1. Len(ms) \in Nat
    BY PlacedAt
  <2> QED BY <2>1
<1>2. /\ ms[first].p[1] \in Int /\ ms[first].p[2] \in Int
      /\ ms[g].p[2] \in Int /\ ms[k].p[1] \in Int /\ ms[k].p[2] \in Int
  <2>1. Sited(ms[first]) /\ Sited(ms[g]) /\ Sited(ms[k])
    BY <1>1, PlacedAt
  <2> QED BY <2>1, PlaceInts
<1>3. ms[g].p[2] <= ms[k].p[2]
  BY <1>1, <1>2 DEF ByRow
<1>4. far \in Nat
  BY OverlapAssumption
<1> DEFINE ex == ms[first].p[1] - ms[k].p[1]
           ey == ms[first].p[2] - ms[k].p[2]
<1>5. dy \in Int /\ far < dy /\ ex \in Int /\ ey \in Int /\ ey = -dy
  <2> DEFINE a == ms[first].p[2]
             c == ms[g].p[2]
             e == ms[k].p[2]
  <2>1. a \in Int /\ c \in Int /\ e \in Int /\ c <= e /\ c - a > far
    BY <1>2, <1>3
  <2>2. dy = e - a /\ ey = a - e /\ ex \in Int
    BY <1>2
  <2> HIDE DEF a, c, e, far, dy, ex, ey
  <2> QED BY <1>4, <2>1, <2>2
<1>6. squared_distance(ms[first].p, ms[k].p) = ex * ex + ey * ey
  BY DEF squared_distance
<1> HIDE DEF far, dy, ex, ey
<1>7. ey * ey = dy * dy /\ ex * ex >= 0 /\ ex * ex \in Int /\ dy * dy \in Int /\ far * far \in Int
  BY <1>4, <1>5
<1>8. far * far < dy * dy
  <2>1. far * dy < dy * dy
    <3>1. (dy - far) * dy > 0
      BY <1>4, <1>5
    <3>2. (dy - far) * dy = dy * dy - far * dy
      BY <1>4, <1>5
    <3> QED BY <1>4, <1>5, <3>1, <3>2
  <2>2. far * far <= far * dy
    <3>1. far * (dy - far) >= 0
      BY <1>4, <1>5
    <3>2. far * (dy - far) = far * dy - far * far
      BY <1>4, <1>5
    <3> QED BY <1>4, <1>5, <3>1, <3>2
  <2>3. far * dy \in Int
    BY <1>4, <1>5
  <2> QED BY <1>7, <2>1, <2>2, <2>3
<1>9. ~(ex * ex + ey * ey <= far * far)
  BY <1>7, <1>8
<1> QED BY <1>6, <1>9 DEF OverlapOf, Opposed, DistanceAtMost, far

\* The loop comes to one more pair.
LEMMA PairClear ==
  ASSUME NEW ms, Placed(ms), ByRow(ms), NEW b, NoneStale(ms, b),
         NEW first \in 1 .. Len(ms), NEW last \in first .. Len(ms) - 1,
         NEW u, ClearTo(u, b, ms, first, last)
  PROVE  /\ ClearTo(WithNext(u, ms, first, last + 1), b, ms, first, last + 1)
         /\ u.rm \subseteq WithNext(u, ms, first, last + 1).rm
<1> DEFINE g == last + 1
           m1 == ms[first]
           m2 == ms[g]
           o == WithNext(u, ms, first, g)
           far == Lfs.max_overlap_dist
           test == TestOverlap(b, m1, m2)
           both == [b |-> b, rm |-> u.rm \cup {first, g}, on |-> TRUE]
           over == [b |-> b, rm |-> u.rm, on |-> FALSE]
<1>1. Len(ms) \in Nat /\ first \in Nat /\ g \in first + 1 .. Len(ms) /\ g \in 1 .. Len(ms)
  <2>1. Len(ms) \in Nat
    BY PlacedAt
  <2> QED BY <2>1
<1>2. b[m1.p] = m1.type /\ b[m2.p] = m2.type
  BY <1>1 DEF NoneStale
<1>3. PICK rm, on : u = [b |-> b, rm |-> rm, on |-> on] /\ rm = u.rm /\ on = u.on /\ on \in BOOLEAN
  BY DEF ClearTo
<1>4. /\ Clear(rm, b, ms, first, last)
      /\ ~on => Clear(rm, b, ms, first, Len(ms))
  BY <1>3 DEF ClearTo
<1>5. \/ test = [verdict |-> "both", b |-> b]
      \/ test = [verdict |-> "keep", b |-> b]
  BY DEF TestOverlap
<1> SUFFICES ClearTo(o, b, ms, first, g) /\ rm \subseteq o.rm
  BY <1>3
<1> HIDE DEF test
<1>6. CASE ~on
  <2>1. o = u
    BY <1>3, <1>6 DEF WithNext
  <2>2. Clear(rm, b, ms, first, g)
    BY <1>1, <1>4, <1>6 DEF Clear
  <2> QED BY <1>3, <1>4, <2>1, <2>2 DEF ClearTo
<1>7. CASE on
  <2>1. o = IF g \in rm THEN u
            ELSE IF m2.p[2] - m1.p[2] > far THEN [u EXCEPT !.on = FALSE]
            ELSE IF ~Opposed(m1, m2, far) THEN u
            ELSE IF test.verdict = "both"
                 THEN [u EXCEPT !.b = test.b, !.rm = @ \cup {first, g}]
            ELSE u
    BY <1>2, <1>3, <1>5, <1>7 DEF WithNext, PairTested, Reach, Test, test
  <2>2. \A R : Clear(R, b, ms, first, last) /\ (OverlapOf(b, m1, m2) => first \in R \/ g \in R)
               => Clear(R, b, ms, first, g)
    <3> HIDE DEF m1
    <3>1. \A k \in first + 1 .. g : k \in first + 1 .. last \/ k = g
      BY <1>1
    <3> QED BY <3>1 DEF Clear, m1
  <2>3. Clear(u.rm, b, ms, first, last)
    BY <1>3, <1>4
  <2> HIDE DEF m1, m2, o, g, far
  <2>4. CASE o = u /\ (OverlapOf(b, m1, m2) => g \in rm)
    BY <1>3, <1>4, <1>7, <2>2, <2>4 DEF ClearTo
  <2>5. CASE g \notin rm /\ m2.p[2] - m1.p[2] > far
    <3>1. o = over
      <4>1. o = [u EXCEPT !.on = FALSE]
        BY <2>1, <2>5
      <4>2. \A x : [u EXCEPT !.on = x] = [b |-> b, rm |-> rm, on |-> x]
        BY <1>3
      <4>3. [u EXCEPT !.on = FALSE] = [b |-> b, rm |-> rm, on |-> FALSE]
        BY <4>2, Zenon
      <4> QED BY <1>3, <4>1, <4>3, Zenon
    <3>2. \A k \in g .. Len(ms) : ~OverlapOf(b, ms[first], ms[k])
      BY <1>1, <2>5, RowsApart DEF m1, m2, far
    <3>3. \A k \in first + 1 .. Len(ms) : k \in first + 1 .. last \/ k \in g .. Len(ms)
      BY <1>1 DEF g
    <3>4. Clear(rm, b, ms, first, Len(ms))
      BY <1>4, <3>2, <3>3 DEF Clear
    <3>5. Clear(rm, b, ms, first, g)
      BY <1>1, <3>4 DEF Clear
    <3>6. o.rm = rm /\ o.on = FALSE /\ o = [b |-> b, rm |-> o.rm, on |-> o.on]
      BY <1>3, <3>1
    <3> QED BY <3>4, <3>5, <3>6 DEF ClearTo
  <2>6. CASE /\ g \notin rm /\ ~(m2.p[2] - m1.p[2] > far)
             /\ Opposed(m1, m2, far) /\ test.verdict = "both"
    <3>1. o = both
      <4>1. o = [u EXCEPT !.b = test.b, !.rm = @ \cup {first, g}] /\ test.b = b
        BY <1>5, <2>1, <2>6
      <4> DEFINE y == u.rm \cup {first, g}
                 v == [u EXCEPT !.b = b]
      <4>2. v = [b |-> b, rm |-> rm, on |-> on]
        BY <1>3
      <4>5. [v EXCEPT !.rm = y] = [b |-> b, rm |-> y, on |-> on]
        <5> HIDE DEF v, y
        <5> QED BY <4>2
      <4>6. [u EXCEPT !.b = b, !.rm = y] = [v EXCEPT !.rm = y]
        <5> HIDE DEF y
        <5> QED OBVIOUS
      <4>3. on = TRUE
        BY <1>7, <1>3
      <4>4. o = [u EXCEPT !.b = b, !.rm = y]
        BY <4>1
      <4> HIDE DEF v
      <4> QED BY <4>3, <4>4, <4>5, <4>6
    <3>2. Clear(both.rm, b, ms, first, g)
      <4>1. both.rm = rm \cup {first, g}
        BY <1>3
      <4>2. Clear(rm \cup {first, g}, b, ms, first, last)
        BY <1>4 DEF Clear
      <4> QED BY <2>2, <4>1, <4>2
    <3>3. o.rm = rm \cup {first, g} /\ o.on = TRUE /\ o = [b |-> b, rm |-> o.rm, on |-> o.on]
      BY <1>3, <3>1
    <3> QED BY <3>1, <3>2, <3>3 DEF ClearTo
  <2>7. CASE /\ g \notin rm /\ ~(m2.p[2] - m1.p[2] > far)
             /\ ~(Opposed(m1, m2, far) /\ test.verdict = "both")
    <3>1. o = u
      BY <2>1, <2>7
    <3>2. ~OverlapOf(b, m1, m2)
      BY <2>7 DEF OverlapOf, far, test
    <3> QED BY <2>4, <3>1, <3>2
  <2>8. CASE g \in rm
    <3>1. o = u
      BY <2>1, <2>8
    <3> QED BY <2>4, <2>8, <3>1
  <2> QED BY <2>5, <2>6, <2>7, <2>8
<1> QED BY <1>3, <1>6, <1>7

FirstDone(o, rm, b, ms, first) ==
    \E all, more : /\ o = [b |-> b, rm |-> all, on |-> more]
                   /\ rm \subseteq all /\ Clear(all, b, ms, first, Len(ms))

\* The inner loop leaves nothing that overlaps with its first minutia, and takes nothing back.
LEMMA FirstClear ==
  ASSUME NEW ms, Placed(ms), ByRow(ms), NEW b, NoneStale(ms, b),
         NEW first \in 1 .. Len(ms), NEW t, NEW rm, NEW on, t = [b |-> b, rm |-> rm, on |-> on]
  PROVE  FirstDone(PairScan("overlaps", t, ms, first), rm, b, ms, first)
<1> DEFINE L == Len(After(ms, first))
           start == [t EXCEPT !.on = first \notin t.rm]
<1>1. Len(ms) \in Nat /\ first \in Nat
  BY PlacedAt
<1>2. /\ L = Len(ms) - first /\ L \in Nat
      /\ \A j \in 1 .. L : After(ms, first)[j] = first + j
  <2>1. first + 1 \in Int /\ Len(ms) \in Int
    BY <1>1
  <2>2. /\ L = IF Len(ms) >= first + 1 THEN Len(ms) - (first + 1) + 1 ELSE 0
        /\ \A j \in 1 .. L : After(ms, first)[j] = first + 1 + j - 1
    BY <2>1, StepsIn DEF After
  <2> HIDE DEF L
  <2> QED BY <1>1, <2>2
<1>3. PICK h : Compared(h, t, ms, first)
  BY <1>2, PairScanDefined
<1>4. h[0] = start /\ \A j \in 1 .. L : h[j] = WithNext(h[j - 1], ms, first, first + j)
  BY <1>2, <1>3 DEF Compared
<1>5. PairScan("overlaps", t, ms, first) = h[L]
  BY <1>3 DEF Compared
<1> HIDE DEF L
<1>6. ClearTo(start, b, ms, first, first) /\ start.rm = rm
  <2> DEFINE x == first \notin rm
  <2>1. start = [b |-> b, rm |-> rm, on |-> x]
    OBVIOUS
  <2>2. x \in BOOLEAN /\ (~x => first \in rm)
    OBVIOUS
  <2> HIDE DEF x, start
  <2>3. start.rm = rm /\ start.on = x /\ start = [b |-> b, rm |-> start.rm, on |-> start.on]
    BY <2>1
  <2>4. Clear(rm, b, ms, first, first)
    BY <1>1 DEF Clear
  <2>5. ~x => Clear(rm, b, ms, first, Len(ms))
    BY <2>2 DEF Clear
  <2> QED BY <2>2, <2>3, <2>4, <2>5 DEF ClearTo
<1> HIDE DEF start
<1> DEFINE I == {j \in Nat : j <= L => /\ ClearTo(h[j], b, ms, first, first + j)
                                       /\ rm \subseteq h[j].rm}
<1>7. 0 \in I
  <2>1. first + 0 = first
    BY <1>1
  <2> QED BY <1>4, <1>6, <2>1
<1>8. ASSUME NEW j \in Nat, j \in I PROVE j + 1 \in I
  <2> SUFFICES ASSUME j + 1 <= L
               PROVE  ClearTo(h[j + 1], b, ms, first, first + (j + 1)) /\ rm \subseteq h[j + 1].rm
    OBVIOUS
  <2> DEFINE last == first + j
             u == h[j]
  <2>1. j <= L /\ j + 1 \in 1 .. L /\ j + 1 - 1 = j /\ first + (j + 1) = last + 1
    BY <1>1, <1>2
  <2>2. last \in first .. Len(ms) - 1
    BY <1>1, <1>2
  <2>3. ClearTo(u, b, ms, first, last) /\ rm \subseteq u.rm
    BY <1>8, <2>1
  <2>4. h[j + 1] = WithNext(u, ms, first, last + 1)
    BY <1>4, <2>1
  <2> HIDE DEF last, u
  <2>5. /\ ClearTo(WithNext(u, ms, first, last + 1), b, ms, first, last + 1)
        /\ u.rm \subseteq WithNext(u, ms, first, last + 1).rm
    BY <2>2, <2>3, PairClear
  <2> QED BY <2>1, <2>3, <2>4, <2>5
<1>9. Nat \subseteq I
  <2> HIDE DEF I
  <2> QED BY <1>7, <1>8, Induct
<1>10. ClearTo(h[L], b, ms, first, Len(ms)) /\ rm \subseteq h[L].rm
  <2>1. first + L = Len(ms)
    BY <1>1, <1>2
  <2> QED BY <1>2, <1>9, <2>1
<1>11. /\ h[L] = [b |-> b, rm |-> h[L].rm, on |-> h[L].on]
       /\ Clear(h[L].rm, b, ms, first, Len(ms))
  BY <1>10 DEF ClearTo
<1> QED BY <1>5, <1>10, <1>11 DEF FirstDone

\* The loops have dealt with the first m minutiae.
AllClear(u, b, ms, m) ==
    \E rm, on : /\ u = [b |-> b, rm |-> rm, on |-> on]
                /\ \A f \in 1 .. m : Clear(rm, b, ms, f, Len(ms))

\* So no pair of what remains overlaps: the test sees every pair it has to.
LEMMA NoneOverlap ==
  ASSUME NEW t, Detected(t), ByRow(t.ms), NoneStale(t.ms, t.b)
  PROVE  LET o == remove_overlaps(t)
         IN \A i, j \in DOMAIN o.ms : i < j => ~OverlapOf(o.b, o.ms[i], o.ms[j])
<1> DEFINE ms == t.ms
           b == t.b
           L == Len(Firsts(ms))
<1>1. Placed(ms) /\ ByRow(ms) /\ Len(ms) \in Nat /\ DOMAIN ms = 1 .. Len(ms)
  BY PlacedAt DEF Detected
<1>2. NoneStale(ms, b)
  OBVIOUS
<1>3. /\ L \in Nat /\ Len(ms) - 1 <= L /\ L <= Len(ms)
      /\ \A j \in 1 .. L : Firsts(ms)[j] = j
  <2>1. 1 \in Int /\ Len(ms) - 1 \in Int
    BY <1>1
  <2>2. /\ L = IF Len(ms) - 1 >= 1 THEN Len(ms) - 1 - 1 + 1 ELSE 0
        /\ \A j \in 1 .. L : Firsts(ms)[j] = 1 + j - 1
    BY <2>1, StepsIn DEF Firsts
  <2> HIDE DEF L, ms
  <2>3. \A j \in 1 .. L : 1 + j - 1 = j
    OBVIOUS
  <2>4. \A j \in 1 .. L : Firsts(ms)[j] = j
    BY <2>2, <2>3
  <2>5. L = IF Len(ms) - 1 >= 1 THEN Len(ms) - 1 - 1 + 1 ELSE 0
    BY <2>2
  <2>6. L \in Nat /\ Len(ms) - 1 <= L /\ L <= Len(ms)
    <3> DEFINE n == Len(ms)
    <3>1. n \in Nat /\ L = IF n - 1 >= 1 THEN n - 1 - 1 + 1 ELSE 0
      BY <1>1, <2>5
    <3> HIDE DEF n
    <3>2. L \in Nat /\ n - 1 <= L /\ L <= n
      BY <3>1
    <3> QED BY <3>2 DEF n
  <2> QED BY <2>4, <2>6
<1>4. PICK h : AllCompared(h, t)
  BY <1>3, PairedDefined
<1>5. h[0] = NoneGone(t) /\ \A j \in 1 .. L : h[j] = PairScan("overlaps", h[j - 1], ms, j)
  BY <1>3, <1>4 DEF AllCompared
<1>6. remove_overlaps(t) = Remaining(ms, h[L])
  BY <1>4 DEF AllCompared
<1> HIDE DEF L, ms, b
<1> DEFINE I == {j \in Nat : j <= L => AllClear(h[j], b, ms, j)}
<1>7. 0 \in I
  <2>1. h[0] = [b |-> b, rm |-> {}, on |-> TRUE]
    BY <1>5 DEF NoneGone, b
  <2>2. \A f \in 1 .. 0 : Clear({}, b, ms, f, Len(ms))
    OBVIOUS
  <2>3. AllClear(h[0], b, ms, 0)
    BY <2>1, <2>2 DEF AllClear
  <2> QED BY <2>3
<1>8. ASSUME NEW j \in Nat, j \in I PROVE j + 1 \in I
  <2> SUFFICES ASSUME j + 1 <= L PROVE AllClear(h[j + 1], b, ms, j + 1)
    OBVIOUS
  <2>1. j <= L /\ j + 1 \in 1 .. L /\ j + 1 - 1 = j /\ j + 1 \in 1 .. Len(ms)
    BY <1>1, <1>3
  <2>2. AllClear(h[j], b, ms, j)
    BY <1>8, <2>1
  <2>3. PICK rm, on : /\ h[j] = [b |-> b, rm |-> rm, on |-> on]
                      /\ \A f \in 1 .. j : Clear(rm, b, ms, f, Len(ms))
    BY <2>2 DEF AllClear
  <2>5. PICK all, more : /\ PairScan("overlaps", h[j], ms, j + 1)
                                = [b |-> b, rm |-> all, on |-> more]
                         /\ rm \subseteq all /\ Clear(all, b, ms, j + 1, Len(ms))
    <3> DEFINE u == h[j]
               first == j + 1
    <3>1. u = [b |-> b, rm |-> rm, on |-> on] /\ first \in 1 .. Len(ms)
      BY <2>1, <2>3
    <3> HIDE DEF u, first
    <3>2. FirstDone(PairScan("overlaps", u, ms, first), rm, b, ms, first)
      BY <1>1, <1>2, <3>1, FirstClear
    <3> QED BY <3>2 DEF FirstDone, u, first
  <2>6. h[j + 1] = [b |-> b, rm |-> all, on |-> more]
    BY <1>5, <2>1, <2>5
  <2>7. \A f \in 1 .. j + 1 : Clear(all, b, ms, f, Len(ms))
    <3>1. \A f \in 1 .. j + 1 : f \in 1 .. j \/ f = j + 1
      OBVIOUS
    <3>2. \A f \in 1 .. j : Clear(all, b, ms, f, Len(ms))
      BY <2>3, <2>5 DEF Clear
    <3> QED BY <2>5, <3>1, <3>2
  <2> QED BY <2>6, <2>7 DEF AllClear
<1>9. Nat \subseteq I
  <2> HIDE DEF I
  <2> QED BY <1>7, <1>8, Induct
<1>10. AllClear(h[L], b, ms, L)
  <2> L \in I
    BY <1>3, <1>9
  <2> QED OBVIOUS
<1>11. PICK rm, on : /\ h[L] = [b |-> b, rm |-> rm, on |-> on]
                     /\ \A f \in 1 .. L : Clear(rm, b, ms, f, Len(ms))
  BY <1>10 DEF AllClear
<1>13. remove_overlaps(t) = [b |-> b, ms |-> Kept(ms, rm)]
  BY <1>6, <1>11 DEF Remaining
<1>14. PICK N, at : Thinned(ms, rm, at, N) /\ Kept(ms, rm) = Picked(ms, at, N)
  BY <1>1, KeptAs
<1> DEFINE left == Kept(ms, rm)
<1>15. N \in Nat /\ DOMAIN left = 1 .. N /\ \A i \in 1 .. N : left[i] = ms[at[i]]
  BY <1>14 DEF Picked, Thinned
<1> HIDE DEF left
<1>16. ASSUME NEW i \in 1 .. N, NEW j \in 1 .. N, i < j PROVE ~OverlapOf(b, left[i], left[j])
  <2> DEFINE f == at[i]
             g == at[j]
  <2>1. /\ f \in 1 .. Len(ms) /\ g \in 1 .. Len(ms) /\ f < g
        /\ f \notin rm /\ g \notin rm
    BY <1>14, <1>16 DEF Thinned
  <2>2. left[i] = ms[f] /\ left[j] = ms[g]
    BY <1>15
  <2> HIDE DEF f, g
  <2>3. f \in 1 .. L /\ g \in f + 1 .. Len(ms)
    BY <1>1, <1>3, <2>1
  <2> QED BY <1>11, <2>1, <2>2, <2>3 DEF Clear
<1>17. remove_overlaps(t).b = b /\ remove_overlaps(t).ms = left
  BY <1>13 DEF left
<1> QED BY <1>15, <1>16, <1>17

\* Of a list sorted by row, none of it stale, remove_overlaps leaves no pair that its own
\* test would remove, for every image: the first row too far below ends the inner loop
\* with no pair missed, and a pair is missed neither when its first minutia goes early nor
\* when a removal comes late.  The side step, which sorts nothing, is thus all that
\* OverlapsRemoved has to fear.
THEOREM OverlapsOfSorted ==
  Spec => [][Overlaps /\ ByRow(s.ms) /\ NoStaleMinutiae => OverlapsRemoved']_vars
<1>1. ASSUME NeighbourInv, Overlaps, ByRow(s.ms), NoStaleMinutiae PROVE OverlapsRemoved'
  <2>1. step = "overlaps" /\ s' = remove_overlaps(s)
    BY <1>1 DEF Overlaps, MinutiaeCall, Call
  <2>2. Detected(s) /\ DOMAIN s.ms = 1 .. Len(s.ms)
    BY <1>1, PlacedAt DEF NeighbourInv, Detected
  <2>3. Reached("hooks")
    <3>1. StepOrder[18] = "hooks" /\ StepOrder[19] = "overlaps" /\ DOMAIN StepOrder = 1 .. 25
      BY DEF StepOrder
    <3> QED BY <2>1, <3>1 DEF Reached
  <2>4. NoneStale(s.ms, s.b)
    BY <1>1, <2>2, <2>3 DEF NoStaleMinutiae, NoneStale
  <2>5. \A i, j \in DOMAIN s'.ms : i < j => ~OverlapOf(s'.b, s'.ms[i], s'.ms[j])
    BY <1>1, <2>1, <2>2, <2>4, NoneOverlap
  <2> QED BY <2>5 DEF OverlapsRemoved, OverlapOf
<1>2. NeighbourInv => (Overlaps /\ ByRow(s.ms) /\ NoStaleMinutiae => OverlapsRemoved')
  BY <1>1
<1> QED BY <1>2, NeighbourInvInit, NeighbourInvNext, PTL DEF Spec
=============================================================================
