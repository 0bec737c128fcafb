---------------------------- MODULE BozorthProofs ----------------------------
(***************************************************************************)
(* The match table and its traversal, for templates of any size and any    *)
(* limits on rows, queue and alternatives.                                 *)
(***************************************************************************)
EXTENDS BozorthSafety, Induction, FiniteSetTheorems, FunctionTheorems, SequenceTheorems, TLAPS

-----------------------------------------------------------------------------
(***************************************************************************)
(* Keys in order                                                           *)
(***************************************************************************)
Keys == Int \X Int \X Int \X Int \X Int

LEMMA KeyOrder ==
  ASSUME NEW p \in Keys, NEW q \in Keys
  PROVE  Before(p, q) <=>
           \/ p[1] < q[1]
           \/ p[1] = q[1] /\ p[2] < q[2]
           \/ p[1] = q[1] /\ p[2] = q[2] /\ p[3] < q[3]
           \/ p[1] = q[1] /\ p[2] = q[2] /\ p[3] = q[3] /\ p[4] < q[4]
           \/ p[1] = q[1] /\ p[2] = q[2] /\ p[3] = q[3] /\ p[4] = q[4] /\ p[5] < q[5]
<1> DEFINE At5(i) == p[i] < q[i] /\ \A h \in 1 .. i - 1 : p[h] = q[h]
<1>1. DOMAIN p = 1 .. 5
  BY DEF Keys
<1>2. Before(p, q) <=> \E i \in 1 .. 5 : At5(i)
  BY <1>1 DEF Before
<1>3. /\ At5(1) <=> p[1] < q[1]
      /\ At5(2) <=> p[1] = q[1] /\ p[2] < q[2]
  <2>1. 1 .. 1 - 1 = {} /\ 1 .. 2 - 1 = {1}
    OBVIOUS
  <2> QED BY <2>1
<1>4. /\ At5(3) <=> p[1] = q[1] /\ p[2] = q[2] /\ p[3] < q[3]
      /\ At5(4) <=> p[1] = q[1] /\ p[2] = q[2] /\ p[3] = q[3] /\ p[4] < q[4]
      /\ At5(5) <=> p[1] = q[1] /\ p[2] = q[2] /\ p[3] = q[3] /\ p[4] = q[4] /\ p[5] < q[5]
  <2>1. 1 .. 3 - 1 = {1, 2} /\ 1 .. 4 - 1 = {1, 2, 3} /\ 1 .. 5 - 1 = {1, 2, 3, 4}
    OBVIOUS
  <2> QED BY <2>1
<1>5. 1 .. 5 = {1, 2, 3, 4, 5}
  OBVIOUS
<1> HIDE DEF At5
<1>6. (\E i \in 1 .. 5 : At5(i)) <=> At5(1) \/ At5(2) \/ At5(3) \/ At5(4) \/ At5(5)
  BY <1>5
<1> QED BY <1>2, <1>3, <1>4, <1>6

LEMMA KeysInOrder ==
  /\ \A p \in Keys : ~Before(p, p)
  /\ \A p, q \in Keys : p # q => Before(p, q) \/ Before(q, p)
  /\ \A p, q, r \in Keys : Before(p, q) /\ Before(q, r) => Before(p, r)
<1>1. ASSUME NEW p \in Keys PROVE p[1] \in Int /\ p[2] \in Int /\ p[3] \in Int /\ p[4] \in Int /\ p[5] \in Int
  BY DEF Keys
<1>2. ASSUME NEW p \in Keys PROVE ~Before(p, p)
  BY <1>1, KeyOrder
<1>3. ASSUME NEW p \in Keys, NEW q \in Keys, ~Before(p, q), ~Before(q, p) PROVE p = q
  <2>1. p[1] = q[1] /\ p[2] = q[2] /\ p[3] = q[3] /\ p[4] = q[4] /\ p[5] = q[5]
    BY <1>1, <1>3, KeyOrder
  <2> QED BY <2>1 DEF Keys
<1>4. ASSUME NEW p \in Keys, NEW q \in Keys, NEW r \in Keys, Before(p, q), Before(q, r) PROVE Before(p, r)
  <2>1. /\ p[1] \in Int /\ p[2] \in Int /\ p[3] \in Int /\ p[4] \in Int /\ p[5] \in Int
        /\ q[1] \in Int /\ q[2] \in Int /\ q[3] \in Int /\ q[4] \in Int /\ q[5] \in Int
        /\ r[1] \in Int /\ r[2] \in Int /\ r[3] \in Int /\ r[4] \in Int /\ r[5] \in Int
    BY <1>1
  <2> QED BY <1>4, <2>1, KeyOrder
<1> QED BY <1>2, <1>3, <1>4

Rank(s, p) == Cardinality({q \in s : Before(q, p)})

LEMMA Sorted ==
  ASSUME NEW s \in SUBSET Keys, IsFiniteSet(s)
  PROVE  /\ InOrder(s) \in Seq(s) /\ Len(InOrder(s)) = Cardinality(s)
         /\ \A p \in s : \E i \in DOMAIN InOrder(s) : InOrder(s)[i] = p
         /\ \A i, h \in DOMAIN InOrder(s) : i < h => Before(InOrder(s)[i], InOrder(s)[h])
<1> DEFINE n == Cardinality(s)
           Below(p) == {q \in s : Before(q, p)}
           ranked == {<<Rank(s, p), p>> : p \in s}
           f == [p \in s |-> Rank(s, p)]
<1>1. n \in Nat
  BY FS_CardinalityType
<1>2. ASSUME NEW p \in s PROVE IsFiniteSet(Below(p)) /\ Rank(s, p) \in 0 .. n - 1 /\ Rank(s, p) \in Nat
  <2>1. Below(p) \subseteq s \ {p}
    BY KeysInOrder
  <2>2. IsFiniteSet(s \ {p}) /\ Cardinality(s \ {p}) = n - 1
    BY FS_RemoveElement
  <2>3. IsFiniteSet(Below(p)) /\ Cardinality(Below(p)) <= n - 1
    BY <2>1, <2>2, FS_Subset
  <2>4. Cardinality(Below(p)) \in Nat
    BY <2>3, FS_CardinalityType
  <2> QED BY <1>1, <2>3, <2>4 DEF Rank
<1>3. ASSUME NEW p \in s, NEW q \in s, Before(p, q) PROVE Rank(s, p) < Rank(s, q)
  <2>1. p \notin Below(p) /\ Below(p) \cup {p} \subseteq Below(q)
    BY <1>3, KeysInOrder
  <2>2. Cardinality(Below(p) \cup {p}) = Cardinality(Below(p)) + 1 /\ IsFiniteSet(Below(p) \cup {p})
    BY <1>2, <2>1, FS_AddElement
  <2>3. Cardinality(Below(p) \cup {p}) <= Cardinality(Below(q))
    BY <1>2, <2>1, FS_Subset
  <2>4. Cardinality(Below(p)) \in Nat /\ Cardinality(Below(q)) \in Nat
    BY <1>2, FS_CardinalityType
  <2> QED BY <2>2, <2>3, <2>4 DEF Rank
<1>4. ASSUME NEW p \in s, NEW q \in s PROVE Before(p, q) <=> Rank(s, p) < Rank(s, q)
  <2>1. Rank(s, p) \in Nat /\ Rank(s, q) \in Nat
    BY <1>2
  <2> QED BY <1>3, <2>1, KeysInOrder
<1>5. f \in Injection(s, 0 .. n - 1)
  <2>1. f \in [s -> 0 .. n - 1]
    BY <1>2
  <2>2. ASSUME NEW p \in s, NEW q \in s, f[p] = f[q] PROVE p = q
    <3>1. Rank(s, p) = Rank(s, q) /\ Rank(s, p) \in Nat
      BY <1>2, <2>2
    <3>2. ~Before(p, q) /\ ~Before(q, p)
      BY <1>4, <3>1
    <3> QED BY <3>2, KeysInOrder
  <2>3. \A p, q \in s : f[p] = f[q] => p = q
    BY <2>2
  <2> HIDE DEF f, n
  <2> QED BY <2>1, <2>3, Fun_IsInj
<1>6. f \in Surjection(s, 0 .. n - 1)
  <2>1. IsFiniteSet(0 .. n - 1) /\ Cardinality(0 .. n - 1) = n
    BY <1>1, FS_Interval
  <2> HIDE DEF f, n
  <2> QED BY <1>5, <2>1, FS_Injection DEF n
<1>7. \A i \in 0 .. n - 1 : \E p \in s : Rank(s, p) = i
  <2>1. \A i \in 0 .. n - 1 : \E p \in s : f[p] = i
    <3> HIDE DEF f, n
    <3> QED BY <1>6 DEF Surjection
  <2> QED BY <2>1
<1> DEFINE o == [i \in 1 .. n |-> (CHOOSE r \in ranked : r[1] = i - 1)[2]]
<1>8. InOrder(s) = o
  BY DEF InOrder, Rank
<1>9. ASSUME NEW i \in 1 .. n PROVE o[i] \in s /\ Rank(s, o[i]) = i - 1
  <2>1. i - 1 \in 0 .. n - 1
    BY <1>1
  <2>2. PICK p \in s : Rank(s, p) = i - 1
    BY <1>7, <2>1
  <2>3. <<Rank(s, p), p>> \in ranked
    OBVIOUS
  <2>4. \E r \in ranked : r[1] = i - 1
    BY <2>2, <2>3
  <2> DEFINE x == CHOOSE r \in ranked : r[1] = i - 1
  <2>5. x \in ranked /\ x[1] = i - 1 /\ o[i] = x[2]
    BY <2>4
  <2> HIDE DEF x
  <2> QED BY <2>5
<1> HIDE DEF o
<1>10. o \in Seq(s) /\ Len(o) = n /\ DOMAIN o = 1 .. n
  <2>1. o = [i \in 1 .. n |-> (CHOOSE r \in ranked : r[1] = i - 1)[2]]
    BY DEF o
  <2>2. o \in [1 .. n -> s]
    BY <1>9, <2>1
  <2> QED BY <1>1, <2>2
<1>11. ASSUME NEW p \in s PROVE \E i \in 1 .. n : o[i] = p
  <2>1. Rank(s, p) + 1 \in 1 .. n /\ Rank(s, p) \in Nat
    <3>1. Rank(s, p) \in 0 .. n - 1
      BY <1>2
    <3> HIDE DEF n
    <3> QED BY <1>1, <3>1
  <2>2. o[Rank(s, p) + 1] \in s /\ Rank(s, o[Rank(s, p) + 1]) = Rank(s, p)
    BY <1>9, <2>1
  <2>3. o[Rank(s, p) + 1] = p
    BY <1>4, <2>1, <2>2, KeysInOrder
  <2> QED BY <2>1, <2>3
<1>12. ASSUME NEW i \in 1 .. n, NEW h \in 1 .. n, i < h PROVE Before(o[i], o[h])
  BY <1>1, <1>4, <1>9, <1>12
<1> QED BY <1>8, <1>10, <1>11, <1>12

LEMMA ImageFinite ==
  ASSUME NEW S, IsFiniteSet(S), NEW f
  PROVE  IsFiniteSet({f[x] : x \in S})
<1> DEFINE T == {f[x] : x \in S}
           g == [x \in S |-> f[x]]
<1>1. g \in [S -> T] /\ \A y \in T : \E x \in S : g[x] = y
  OBVIOUS
<1> HIDE DEF g, T
<1>2. g \in Surjection(S, T)
  BY <1>1 DEF Surjection
<1>3. IsFiniteSet(T)
  BY <1>2, FS_Surjection
<1> QED BY <1>3 DEF T

-----------------------------------------------------------------------------
(***************************************************************************)
(* The webs                                                                *)
(***************************************************************************)
Slopes == -90 .. 90
Edges == Int \X Int \X Int \X Points \X Points \X Slopes \X BOOLEAN
Template == [n : 0 .. MaxMinutiae, p : [Points -> Int \X Int \X Int]]

LEMMA AnglesTyped ==
  /\ \A a \in Int : IANGLE180(a) \in Int
  /\ \A a \in Int : -360 <= a /\ a <= 360 => IANGLE180(a) \in Degrees
  /\ \A dx, dy \in Int : EdgeAngle(dx, dy) \in Slopes
<1>1. ASSUME NEW dx, NEW dy PROVE Slope(dx, dy) \in 0 .. 90
  <2> DEFINE steep == {t \in 1 .. 90 : 10000 * Absolute(dy) >= TanHalf[t] * Absolute(dx)}
  <2> DEFINE n == 90
  <2>1. steep \in SUBSET (1 .. n) /\ n \in Nat
    OBVIOUS
  <2> HIDE DEF n
  <2>2. IsFiniteSet(1 .. n) /\ Cardinality(1 .. n) = n
    BY <2>1, FS_Interval
  <2>3. IsFiniteSet(steep) /\ Cardinality(steep) <= n
    <3> HIDE DEF steep
    <3> QED BY <2>1, <2>2, FS_Subset
  <2>4. Cardinality(steep) \in Nat
    <3> HIDE DEF steep
    <3> QED BY <2>3, FS_CardinalityType
  <2>5. Cardinality(steep) \in 0 .. n
    <3> HIDE DEF steep
    <3> QED BY <2>1, <2>3, <2>4
  <2> QED BY <2>5 DEF Slope, n
<1>2. \A a \in Int : IANGLE180(a) \in Int
  BY DEF IANGLE180
<1>3. \A a \in Int : -360 <= a /\ a <= 360 => IANGLE180(a) \in Degrees
  BY DEF IANGLE180, Degrees
<1>4. ASSUME NEW dx \in Int, NEW dy \in Int PROVE EdgeAngle(dx, dy) \in Slopes
  <2>1. Slope(dx, dy) \in 0 .. 90
    BY <1>1
  <2> QED BY <2>1 DEF EdgeAngle, Slopes
<1> QED BY <1>2, <1>3, <1>4

LEMMA EdgeTyped ==
  ASSUME NEW t \in Template, NEW k \in Points, NEW j \in Points
  PROVE  /\ Edge(t, k, j) \in Edges /\ EdgeKey(Edge(t, k, j)) \in Keys
         /\ EdgeKey(Edge(t, k, j))[4] = k /\ EdgeKey(Edge(t, k, j))[5] = j
         /\ EdgeKey(Edge(t, k, j))[1] = Edge(t, k, j)[1]
<1> DEFINE dx == t.p[j][1] - t.p[k][1]
           dy == t.p[j][2] - t.p[k][2]
           theta == EdgeAngle(dx, dy)
           bk == IANGLE180(theta - t.p[k][3])
           bj == IANGLE180(theta - t.p[j][3] + 180)
           d == dx * dx + dy * dy
<1>1. t.p[k] \in Int \X Int \X Int /\ t.p[j] \in Int \X Int \X Int
  BY DEF Template
<1>2. dx \in Int /\ dy \in Int /\ t.p[k][3] \in Int /\ t.p[j][3] \in Int
  BY <1>1
<1>3. k \in Int /\ j \in Int
  BY JobsAssumption DEF Points
<1> HIDE DEF dx, dy
<1>4. theta \in Int /\ theta \in Slopes /\ d \in Int
  <2>1. theta \in Slopes
    BY <1>2, AnglesTyped
  <2>2. d \in Int
    BY <1>2
  <2> QED BY <2>1, <2>2 DEF Slopes
<1> HIDE DEF theta, d
<1>5. bk \in Int /\ bj \in Int
  <2>1. theta - t.p[k][3] \in Int /\ theta - t.p[j][3] + 180 \in Int
    BY <1>2, <1>4
  <2> QED BY <2>1, AnglesTyped
<1>6. Edge(t, k, j) = IF bk < bj THEN <<d, bk, bj, k, j, theta, FALSE>> ELSE <<d, bj, bk, k, j, theta, TRUE>>
  BY DEF Edge, d, theta, dx, dy
<1> HIDE DEF bk, bj
<1>7. ASSUME NEW a \in Int, NEW b \in Int, NEW s \in BOOLEAN
      PROVE  /\ <<d, a, b, k, j, theta, s>> \in Edges
             /\ EdgeKey(<<d, a, b, k, j, theta, s>>) = <<d, a, b, k, j>>
  BY <1>4 DEF Edges, EdgeKey
<1>8. ASSUME NEW a \in Int, NEW b \in Int PROVE <<d, a, b, k, j>> \in Keys
  BY <1>3, <1>4 DEF Keys
<1>9. PICK a \in Int, b \in Int, s \in BOOLEAN : Edge(t, k, j) = <<d, a, b, k, j, theta, s>>
  BY <1>5, <1>6
<1> QED BY <1>7, <1>8, <1>9

\* Edges as bz_comp() leaves them, shortest first.
IsWeb(edges) ==
    /\ edges \in Seq(Edges)
    /\ \A i, h \in DOMAIN edges : i < h => edges[i][1] <= edges[h][1]

LEMMA WebBuilt ==
  ASSUME NEW t \in Template
  PROVE  IsWeb(bz_comp(t)) /\ IsWeb(bz_find(bz_comp(t)))
<1> DEFINE Compared(k, j) ==
            /\ k < j /\ ~Opposite(t.p[k], t.p[j]) /\ ~Long(t.p[k], t.p[j])
            /\ \A i \in k + 1 .. j - 1 : ~Ends(t.p[k], t.p[i])
           all == {c \in (1 .. t.n) \X (1 .. t.n) : Compared(c[1], c[2])}
           found == Held(all)
           f == [c \in found |-> EdgeKey(Edge(t, c[1], c[2]))]
           set == {EdgeKey(Edge(t, c[1], c[2])) : c \in found}
           keys == InOrder(set)
           edges == [i \in DOMAIN keys |-> Edge(t, keys[i][4], keys[i][5])]
<1>1. bz_comp(t) = edges
  BY DEF bz_comp
<1>2. found \in SUBSET ((1 .. t.n) \X (1 .. t.n))
  BY DEF Held
<1>3. 1 .. t.n \subseteq Points /\ t.n \in Int
  BY JobsAssumption DEF Points, Template
<1>4. IsFiniteSet(found)
  <2>1. IsFiniteSet(1 .. t.n)
    BY <1>3, FS_Interval
  <2>2. IsFiniteSet((1 .. t.n) \X (1 .. t.n))
    BY <2>1, FS_Product
  <2> HIDE DEF found
  <2> QED BY <1>2, <2>2, FS_Subset
<1> HIDE DEF found, Compared, all
<1>5. \A c \in found : c[1] \in Points /\ c[2] \in Points
  BY <1>2, <1>3
<1>6. IsFiniteSet(set) /\ set \in SUBSET Keys
  <2>1. set = {f[c] : c \in found}
    OBVIOUS
  <2>2. IsFiniteSet(set)
    <3> HIDE DEF f, set
    <3> QED BY <1>4, <2>1, ImageFinite
  <2>3. set \in SUBSET Keys
    BY <1>5, EdgeTyped
  <2> QED BY <2>2, <2>3
<1>7. \A e \in set : \E k, j \in Points : e = EdgeKey(Edge(t, k, j))
  BY <1>5
<1> HIDE DEF set
<1>8. /\ keys \in Seq(set) /\ Len(keys) = Cardinality(set)
      /\ \A i, h \in DOMAIN keys : i < h => Before(keys[i], keys[h])
  BY <1>6, Sorted
<1> HIDE DEF keys
<1>9. ASSUME NEW i \in DOMAIN keys
      PROVE  edges[i] \in Edges /\ keys[i] \in Keys /\ keys[i][1] = edges[i][1]
  <2>1. keys[i] \in set
    BY <1>8
  <2>2. PICK k \in Points, j \in Points : keys[i] = EdgeKey(Edge(t, k, j))
    BY <1>7, <2>1
  <2>3. edges[i] = Edge(t, k, j)
    BY <2>2, EdgeTyped
  <2> QED BY <2>2, <2>3, EdgeTyped
<1>10. edges \in Seq(Edges) /\ DOMAIN edges = DOMAIN keys
  <2>1. DOMAIN keys = 1 .. Len(keys) /\ Len(keys) \in Nat
    BY <1>8
  <2>2. edges \in [1 .. Len(keys) -> Edges]
    BY <1>9, <2>1
  <2> QED BY <2>1, <2>2
<1> HIDE DEF edges
<1>11. ASSUME NEW i \in DOMAIN edges, NEW h \in DOMAIN edges, i < h PROVE edges[i][1] <= edges[h][1]
  <2>1. keys[i] \in Keys /\ keys[h] \in Keys /\ Before(keys[i], keys[h])
    BY <1>8, <1>9, <1>10, <1>11
  <2>2. keys[i][1] \in Int /\ keys[h][1] \in Int
    BY <2>1 DEF Keys
  <2>3. keys[i][1] <= keys[h][1]
    BY <2>1, <2>2, KeyOrder
  <2> QED BY <1>9, <1>10, <2>3
<1>12. IsWeb(bz_comp(t))
  BY <1>1, <1>10, <1>11 DEF IsWeb
<1>13. ASSUME NEW n \in Nat PROVE IsWeb(Take(edges, n))
  <2> DEFINE m == IF n < Len(edges) THEN n ELSE Len(edges)
  <2>1. m \in 0 .. Len(edges) /\ m \in Nat /\ Len(edges) \in Nat
    BY <1>10
  <2>2. Take(edges, n) = SubSeq(edges, 1, m)
    BY DEF Take
  <2> HIDE DEF m
  <2>3. /\ SubSeq(edges, 1, m) \in Seq(Edges) /\ Len(SubSeq(edges, 1, m)) = m
        /\ \A i \in 1 .. m : SubSeq(edges, 1, m)[i] = edges[i]
    BY <1>10, <2>1
  <2>4. DOMAIN SubSeq(edges, 1, m) = 1 .. m /\ 1 .. m \subseteq DOMAIN edges
    BY <1>10, <2>1, <2>3
  <2> QED BY <1>11, <2>2, <2>3, <2>4 DEF IsWeb
<1>14. PICK n \in Nat : bz_find(edges) = Take(edges, n)
  <2> DEFINE near == Cardinality({i \in DOMAIN edges : edges[i][1] <= FD})
             lim == IF near + 1 < Len(edges) THEN near + 1 ELSE Len(edges)
  <2>1. near \in Nat
    <3>1. IsFiniteSet(DOMAIN edges)
      BY <1>10, FS_Interval
    <3>2. {i \in DOMAIN edges : edges[i][1] <= FD} \in SUBSET DOMAIN edges
      OBVIOUS
    <3>3. IsFiniteSet({i \in DOMAIN edges : edges[i][1] <= FD})
      BY <3>1, <3>2, FS_Subset
    <3> QED BY <3>3, FS_CardinalityType
  <2>2. bz_find(edges) = Take(edges, IF lim < FDD THEN FDD ELSE lim)
    BY DEF bz_find
  <2> HIDE DEF near
  <2>3. (IF lim < FDD THEN FDD ELSE lim) \in Nat
    BY <1>10, <2>1, JobsAssumption
  <2> QED BY <2>2, <2>3
<1> QED BY <1>1, <1>12, <1>13, <1>14

-----------------------------------------------------------------------------
(***************************************************************************)
(* The match table                                                         *)
(***************************************************************************)
Rows == Degrees \X Points \X Points \X Points \X Points
Webs == web = <<web[1], web[2]>> /\ IsWeb(web[1]) /\ IsWeb(web[2])
Candidates == (1 .. Len(web[1])) \X (1 .. Len(web[2]))
Agreed(n) == {c \in (1 .. n) \X (1 .. Len(web[2])) : Agree(c)}

LEMMA RowTyped ==
  ASSUME Webs, NEW c \in Candidates
  PROVE  /\ RowOf(c[1], c[2]) \in Rows /\ PairKey(c) \in Keys
         /\ c = <<PairKey(c)[4], PairKey(c)[5]>>
         /\ RowKey(RowOf(c[1], c[2])) = <<PairKey(c)[1], PairKey(c)[2], PairKey(c)[3]>>
<1> DEFINE e == web[1][c[1]]
           f == web[2][c[2]]
<1>1. e \in Edges /\ f \in Edges
  BY DEF Webs, IsWeb, Candidates
<1>2. c[1] \in Int /\ c[2] \in Int /\ c = <<c[1], c[2]>>
  BY DEF Webs, IsWeb, Candidates
<1>3. ASSUME NEW x \in Edges PROVE Turned(x) \in Int /\ -270 <= Turned(x) /\ Turned(x) <= 90
  <2>1. x[6] \in Slopes
    BY DEF Edges
  <2>2. x[6] \in Int /\ -90 <= x[6] /\ x[6] <= 90
    BY <2>1 DEF Slopes
  <2> QED BY <2>2 DEF Turned
<1>4. e[4] \in Points /\ e[5] \in Points /\ f[4] \in Points /\ f[5] \in Points
  BY <1>1 DEF Edges
<1> HIDE DEF e, f
<1>5. IANGLE180(Turned(e) - Turned(f)) \in Degrees
  <2>1. /\ Turned(e) \in Int /\ -270 <= Turned(e) /\ Turned(e) <= 90
        /\ Turned(f) \in Int /\ -270 <= Turned(f) /\ Turned(f) <= 90
    BY <1>1, <1>3
  <2>2. /\ Turned(e) - Turned(f) \in Int
        /\ -360 <= Turned(e) - Turned(f) /\ Turned(e) - Turned(f) <= 360
    BY <2>1
  <2> QED BY <2>2, AnglesTyped
<1>6. PICK a \in Points, b \in Points :
        Row(e, f) = <<IANGLE180(Turned(e) - Turned(f)), e[4], e[5], a, b>>
  BY <1>4 DEF Row
<1>7. Row(e, f) \in Rows
  BY <1>4, <1>5, <1>6 DEF Rows
<1>8. RowOf(c[1], c[2]) = Row(e, f)
  BY DEF RowOf, e, f
<1>9. RowKey(Row(e, f)) = <<e[4], a, e[5]>>
  BY <1>6 DEF RowKey
<1>10. PairKey(c) = <<e[4], a, e[5], c[1], c[2]>>
  BY <1>8, <1>9 DEF PairKey
<1>11. e[4] \in Int /\ e[5] \in Int /\ a \in Int
  BY <1>4, <1>6, JobsAssumption DEF Points
<1>12. PairKey(c) \in Keys
  BY <1>2, <1>10, <1>11 DEF Keys
<1> QED BY <1>2, <1>7, <1>8, <1>9, <1>10, <1>12

LEMMA AllHeld ==
  ASSUME NEW s \in SUBSET (Int \X Int), IsFiniteSet(s)
  PROVE  Cardinality(s) <= MaxRows => Held(s) = s
<1> HAVE Cardinality(s) <= MaxRows
<1> SUFFICES ASSUME NEW c \in s PROVE Cardinality({d \in s : Before(d, c)}) < MaxRows
  BY DEF Held
<1> DEFINE T == {d \in s : Before(d, c)}
<1>1. ~Before(c, c)
  BY DEF Before
<1>2. T \in SUBSET (s \ {c})
  BY <1>1
<1>3. IsFiniteSet(s \ {c}) /\ Cardinality(s \ {c}) = Cardinality(s) - 1 /\ Cardinality(s) \in Nat
  BY FS_RemoveElement, FS_CardinalityType
<1> HIDE DEF T
<1>4. IsFiniteSet(T) /\ Cardinality(T) <= Cardinality(s \ {c})
  BY <1>2, <1>3, FS_Subset
<1>5. Cardinality(T) \in Nat
  BY <1>4, FS_CardinalityType
<1>6. Cardinality(T) < MaxRows
  BY <1>3, <1>4, <1>5, JobsAssumption
<1> QED BY <1>6 DEF T

\* The rows of the pairs, in the order of their keys and each as often as pairs have it.
Tabled(rows, s) ==
    /\ \A r \in Range(rows) \cup {RowOf(c[1], c[2]) : c \in s} :
           Cardinality({i \in DOMAIN rows : rows[i] = r}) = Cardinality({c \in s : RowOf(c[1], c[2]) = r})
    /\ \A i \in 1 .. Len(rows) - 1 : ~Before(RowKey(rows[i + 1]), RowKey(rows[i]))

LEMMA TableBuilt ==
  ASSUME Webs, NEW s \in SUBSET Candidates
  PROVE  Table(s) \in Seq(Rows) /\ (Cardinality(s) <= MaxRows => Tabled(Table(s), s))
<1> DEFINE held == Held(s)
           f == [c \in held |-> PairKey(c)]
           set == {PairKey(c) : c \in held}
           keys == InOrder(set)
           rows == [i \in DOMAIN keys |-> RowOf(keys[i][4], keys[i][5])]
<1>1. Table(s) = rows
  BY DEF Table
<1>2. held \in SUBSET s
  BY DEF Held
<1>3. IsFiniteSet(s) /\ IsFiniteSet(held) /\ s \in SUBSET (Int \X Int)
  <2>1. Len(web[1]) \in Nat /\ Len(web[2]) \in Nat
    BY DEF Webs, IsWeb
  <2>2. IsFiniteSet(1 .. Len(web[1])) /\ IsFiniteSet(1 .. Len(web[2]))
    <3>1. ASSUME NEW n \in Nat PROVE IsFiniteSet(1 .. n)
      BY FS_Interval
    <3> QED BY <2>1, <3>1
  <2>3. IsFiniteSet(Candidates)
    BY <2>2, FS_Product DEF Candidates
  <2>4. Candidates \subseteq Int \X Int
    BY <2>1 DEF Candidates
  <2>5. IsFiniteSet(s)
    BY <2>3, FS_Subset
  <2> HIDE DEF held
  <2> QED BY <1>2, <2>4, <2>5, FS_Subset
<1>4. Cardinality(s) <= MaxRows => held = s
  BY <1>3, AllHeld
<1> HIDE DEF held
<1>5. IsFiniteSet(set) /\ set \in SUBSET Keys
  <2>1. set = {f[c] : c \in held}
    OBVIOUS
  <2>2. IsFiniteSet(set)
    <3> HIDE DEF f, set
    <3> QED BY <1>3, <2>1, ImageFinite
  <2>3. set \in SUBSET Keys
    BY <1>2, RowTyped
  <2> QED BY <2>2, <2>3
<1>6. \A e \in set : \E c \in held : e = PairKey(c)
  OBVIOUS
<1>7. \A c \in held : PairKey(c) \in set
  OBVIOUS
<1> HIDE DEF set
<1>8. /\ keys \in Seq(set) /\ Len(keys) = Cardinality(set)
      /\ \A p \in set : \E i \in DOMAIN keys : keys[i] = p
      /\ \A i, h \in DOMAIN keys : i < h => Before(keys[i], keys[h])
  BY <1>5, Sorted
<1> HIDE DEF keys
<1> DEFINE pair == [i \in DOMAIN keys |-> <<keys[i][4], keys[i][5]>>]
<1>9. ASSUME NEW i \in DOMAIN keys
      PROVE  /\ pair[i] \in held /\ keys[i] = PairKey(pair[i])
             /\ rows[i] = RowOf(pair[i][1], pair[i][2]) /\ rows[i] \in Rows
             /\ RowKey(rows[i]) = <<keys[i][1], keys[i][2], keys[i][3]>> /\ keys[i] \in Keys
  <2>1. keys[i] \in set
    BY <1>8
  <2>2. PICK c \in held : keys[i] = PairKey(c)
    BY <1>6, <2>1
  <2>3. c \in Candidates
    BY <1>2
  <2>4. pair[i] = c
    BY <2>2, <2>3, RowTyped
  <2>5. rows[i] = RowOf(pair[i][1], pair[i][2])
    OBVIOUS
  <2> HIDE DEF pair, rows
  <2> QED BY <1>5, <2>1, <2>2, <2>3, <2>4, <2>5, RowTyped
<1>10. rows \in Seq(Rows) /\ DOMAIN rows = DOMAIN keys /\ DOMAIN keys = 1 .. Len(keys) /\ Len(keys) \in Nat
  <2>1. DOMAIN keys = 1 .. Len(keys) /\ Len(keys) \in Nat
    BY <1>8
  <2>2. rows \in [1 .. Len(keys) -> Rows]
    BY <1>9, <2>1
  <2> QED BY <2>1, <2>2
<1>11. ASSUME NEW c \in held PROVE \E i \in DOMAIN keys : pair[i] = c
  <2>1. PICK i \in DOMAIN keys : keys[i] = PairKey(c)
    BY <1>7, <1>8
  <2>2. c \in Candidates
    BY <1>2
  <2> QED BY <2>1, <2>2, RowTyped
<1>12. ASSUME NEW i \in DOMAIN keys, NEW h \in DOMAIN keys, pair[i] = pair[h] PROVE i = h
  <2>1. keys[i] = keys[h] /\ keys[i] \in Keys
    BY <1>9, <1>12
  <2>2. ~(i < h) /\ ~(h < i)
    BY <1>8, <2>1, KeysInOrder
  <2> QED BY <1>10, <2>2
<1>13. pair \in [DOMAIN keys -> held]
  BY <1>9
<1> HIDE DEF pair, rows
<1>14. ASSUME NEW r, held = s
       PROVE  Cardinality({i \in DOMAIN rows : rows[i] = r}) = Cardinality({c \in s : RowOf(c[1], c[2]) = r})
  <2> DEFINE places == {i \in DOMAIN rows : rows[i] = r}
             pairs == {c \in s : RowOf(c[1], c[2]) = r}
             g == [i \in places |-> pair[i]]
  <2>1. places \in SUBSET DOMAIN keys
    BY <1>10
  <2>2. g \in [places -> pairs]
    BY <1>9, <1>14, <2>1
  <2>3. \A i, h \in places : g[i] = g[h] => i = h
    BY <1>12, <2>1
  <2>4. \A c \in pairs : \E i \in places : g[i] = c
    <3> SUFFICES ASSUME NEW c \in pairs PROVE \E i \in places : g[i] = c
      OBVIOUS
    <3>1. PICK i \in DOMAIN keys : pair[i] = c
      BY <1>11, <1>14
    <3>2. rows[i] = r
      BY <1>9, <3>1
    <3> QED BY <1>10, <3>1, <3>2
  <2>5. IsFiniteSet(places)
    <3>1. IsFiniteSet(DOMAIN keys)
      BY <1>10, FS_Interval
    <3> HIDE DEF places
    <3> QED BY <2>1, <3>1, FS_Subset
  <2> HIDE DEF places, pairs, g
  <2>6. g \in Bijection(places, pairs)
    BY <2>2, <2>3, <2>4, Fun_IsBij
  <2>7. Cardinality(pairs) = Cardinality(places)
    BY <2>5, <2>6, FS_Bijection DEF ExistsBijection
  <2> QED BY <2>7 DEF places, pairs
<1>15. ASSUME NEW i \in 1 .. Len(rows) - 1 PROVE ~Before(RowKey(rows[i + 1]), RowKey(rows[i]))
  <2>1. i \in DOMAIN keys /\ i + 1 \in DOMAIN keys /\ i < i + 1
    BY <1>10
  <2>2. Before(keys[i], keys[i + 1]) /\ keys[i] \in Keys /\ keys[i + 1] \in Keys
    BY <1>8, <1>9, <2>1
  <2> DEFINE p == keys[i]
             q == keys[i + 1]
  <2>3. /\ RowKey(rows[i]) = <<p[1], p[2], p[3]>> /\ RowKey(rows[i + 1]) = <<q[1], q[2], q[3]>>
        /\ p \in Keys /\ q \in Keys
    BY <1>9, <2>1
  <2> HIDE DEF p, q
  <2>4. Before(p, q)
    BY <2>2 DEF p, q
  <2>5. p[1] \in Int /\ p[2] \in Int /\ p[3] \in Int /\ q[1] \in Int /\ q[2] \in Int /\ q[3] \in Int
    BY <2>3 DEF Keys
  <2>6. Before(<<q[1], q[2], q[3]>>, <<p[1], p[2], p[3]>>) =>
          q[1] < p[1] \/ (q[1] = p[1] /\ q[2] < p[2]) \/ (q[1] = p[1] /\ q[2] = p[2] /\ q[3] < p[3])
    <3> DEFINE a == <<q[1], q[2], q[3]>>
               b == <<p[1], p[2], p[3]>>
    <3> SUFFICES ASSUME NEW n \in DOMAIN a, a[n] < b[n], \A h \in 1 .. n - 1 : a[h] = b[h]
                 PROVE  q[1] < p[1] \/ (q[1] = p[1] /\ q[2] < p[2]) \/ (q[1] = p[1] /\ q[2] = p[2] /\ q[3] < p[3])
      BY DEF Before
    <3>1. n \in {1, 2, 3}
      OBVIOUS
    <3>2. CASE n = 1
      BY <3>2
    <3>3. CASE n = 2
      <4>1. a[1] = b[1]
        BY <3>3
      <4> QED BY <3>3, <4>1
    <3>4. CASE n = 3
      <4>1. a[1] = b[1] /\ a[2] = b[2]
        BY <3>4
      <4> QED BY <3>4, <4>1
    <3> QED BY <3>1, <3>2, <3>3, <3>4
  <2>7. ~Before(<<q[1], q[2], q[3]>>, <<p[1], p[2], p[3]>>)
    BY <2>3, <2>4, <2>5, <2>6, KeyOrder
  <2> QED BY <2>3, <2>7
<1> QED BY <1>1, <1>4, <1>10, <1>14, <1>15 DEF Tabled

-----------------------------------------------------------------------------
(***************************************************************************)
(* The search for pairs                                                    *)
(***************************************************************************)
\* An edge of the gallery that is too short for edge k of the probe.
Passed(k, j) == web[2][j][1] < web[1][k][1] /\ TooFar(web[1][k][1], web[2][j][1])

LEMMA Farther ==
  ASSUME NEW a \in Int, NEW b \in Int, TooFar(a, b)
  PROVE  /\ \A c, d \in Int : b < a /\ a <= c /\ d <= b => d < c /\ TooFar(c, d)
         /\ \A d \in Int : b >= a /\ d >= b => TooFar(a, d)
<1>1. \A x, y \in Int : TooFar(x, y) <=> IF x < y THEN 10 * (y - x) > x + y ELSE 10 * (x - y) > x + y
  BY DEF TooFar, Absolute
<1>2. ASSUME NEW c \in Int, NEW d \in Int, b < a, a <= c, d <= b PROVE d < c /\ TooFar(c, d)
  <2>1. 10 * (a - b) > a + b
    BY <1>1, <1>2
  <2>2. d < c /\ 10 * (c - d) > c + d
    BY <1>2, <2>1
  <2> QED BY <1>1, <2>2
<1>3. ASSUME NEW d \in Int, b >= a, d >= b PROVE TooFar(a, d)
  <2>1. CASE a = b
    <3>1. 0 > a + a
      BY <1>1, <2>1
    <3>2. IF a < d THEN 10 * (d - a) > a + d ELSE 10 * (a - d) > a + d
      BY <1>3, <2>1, <3>1
    <3> QED BY <1>1, <3>2
  <2>2. CASE a < b
    <3>1. 10 * (b - a) > a + b
      BY <1>1, <2>2
    <3>2. a < d /\ 10 * (d - a) > a + d
      BY <1>3, <2>2, <3>1
    <3> QED BY <1>1, <3>2
  <2> QED BY <1>3, <2>1, <2>2
<1> QED BY <1>2, <1>3

LEMMA Searched ==
  ASSUME Webs, NEW k \in 1 .. Len(web[1]), NEW st \in 1 .. Len(web[2]) + 1,
         \A j \in 1 .. st - 1 : Passed(k, j)
  PROVE  /\ Fitting(k, st) = {c \in {k} \X (1 .. Len(web[2])) : Agree(c)}
         /\ \A next \in st .. Len(web[2]) + 1 :
              next = st \/ next - 1 \in Short(k, st) =>
                \A h \in k .. Len(web[1]), j \in 1 .. next - 1 : Passed(h, j)
<1> DEFINE m == Len(web[2])
<1>1. /\ m \in Nat /\ Len(web[1]) \in Nat /\ DOMAIN web[1] = 1 .. Len(web[1]) /\ DOMAIN web[2] = 1 .. m
      /\ \A j \in 1 .. m : web[2][j][1] \in Int
      /\ \A h \in 1 .. Len(web[1]) : web[1][h][1] \in Int
  <2>1. web[1] \in Seq(Edges) /\ web[2] \in Seq(Edges)
    BY DEF Webs, IsWeb
  <2>2. \A e \in Edges : e[1] \in Int
    BY DEF Edges
  <2> QED BY <2>1, <2>2
<1>2. /\ \A i, j \in 1 .. m : i <= j => web[2][i][1] <= web[2][j][1]
      /\ \A i, h \in 1 .. Len(web[1]) : i <= h => web[1][i][1] <= web[1][h][1]
  <2>1. /\ \A i, j \in 1 .. m : i < j => web[2][i][1] <= web[2][j][1]
        /\ \A i, h \in 1 .. Len(web[1]) : i < h => web[1][i][1] <= web[1][h][1]
    BY <1>1 DEF Webs, IsWeb
  <2>2. /\ \A i, j \in 1 .. m : i <= j => i < j \/ i = j
        /\ \A i, h \in 1 .. Len(web[1]) : i <= h => i < h \/ i = h
    BY <1>1
  <2>3. /\ \A i \in 1 .. m : web[2][i][1] <= web[2][i][1]
        /\ \A i \in 1 .. Len(web[1]) : web[1][i][1] <= web[1][i][1]
    BY <1>1
  <2> QED BY <2>1, <2>2, <2>3
<1> HIDE DEF m
<1> DEFINE a == web[1][k][1]
<1>3. a \in Int
  BY <1>1
<1> DEFINE b(j) == web[2][j][1]
<1>4. ASSUME NEW j \in 1 .. m, ~TooFar(a, b(j)) PROVE j \in Scanned(k, st) \ Short(k, st)
  <2>1. j \in st .. m
    <3>1. ~Passed(k, j)
      BY <1>4 DEF Passed
    <3> QED BY <1>1, <3>1 DEF m
  <2>2. ASSUME NEW i \in st .. j PROVE ~Starts(web[1][k], web[2][i])
    <3>1. i \in 1 .. m /\ i <= j
      BY <1>1, <2>1 DEF m
    <3>2. b(i) <= b(j) /\ b(i) \in Int /\ b(j) \in Int
      BY <1>1, <1>2, <3>1
    <3>3. ~(TooFar(a, b(i)) /\ b(i) >= a)
      BY <1>3, <1>4, <3>2, Farther
    <3> QED BY <3>3 DEF Starts
  <2> QED BY <1>4, <2>1, <2>2 DEF Scanned, Short, m
<1>5. Scanned(k, st) \subseteq 1 .. m
  BY <1>1 DEF Scanned, m
<1>6. \A j \in Scanned(k, st) \ Short(k, st) : ~TooFar(a, b(j))
  BY DEF Short
<1>7. Fitting(k, st) = {c \in {k} \X (1 .. m) : Agree(c)}
  <2>1. Fitting(k, st) =
          {<<k, j>> : j \in {j \in Scanned(k, st) \ Short(k, st) : SameAngles(web[1][k], web[2][j])}}
    BY DEF Fitting
  <2>2. \A j : Agree(<<k, j>>) <=> ~TooFar(a, b(j)) /\ SameAngles(web[1][k], web[2][j])
    BY DEF Agree
  <2>3. \A j \in 1 .. m : Agree(<<k, j>>)
                            <=> j \in Scanned(k, st) \ Short(k, st) /\ SameAngles(web[1][k], web[2][j])
    BY <1>4, <1>6, <2>2
  <2> QED BY <1>5, <2>1, <2>3
<1>8. ASSUME NEW next \in st .. m + 1, next = st \/ next - 1 \in Short(k, st),
             NEW h \in k .. Len(web[1]), NEW j \in 1 .. next - 1
      PROVE  Passed(h, j)
  <2>1. PICK i \in 1 .. m : j <= i /\ Passed(k, i)
    <3>1. CASE j < st
      <4>1. j \in 1 .. st - 1 /\ j \in 1 .. m /\ j <= j
        BY <1>1, <3>1 DEF m
      <4>2. Passed(k, j)
        BY <4>1
      <4> QED BY <4>1, <4>2
    <3>2. CASE ~(j < st)
      <4>1. next - 1 \in Short(k, st) /\ j <= next - 1
        BY <1>1, <1>8, <3>2 DEF m
      <4>2. next - 1 \in Scanned(k, st) /\ TooFar(a, b(next - 1))
        BY <4>1 DEF Short
      <4>3. next - 1 \in 1 .. m /\ next - 1 \in st .. next - 1
        BY <1>1, <1>5, <4>2 DEF m, Scanned
      <4>4. ~Starts(web[1][k], web[2][next - 1])
        BY <4>2, <4>3 DEF Scanned
      <4>5. Passed(k, next - 1)
        BY <1>1, <1>3, <4>2, <4>3, <4>4 DEF Starts, Passed
      <4> QED BY <4>1, <4>3, <4>5
    <3> QED BY <3>1, <3>2
  <2>2. j \in 1 .. m /\ h \in 1 .. Len(web[1]) /\ k <= h
    BY <1>1, <2>1, <1>8
  <2>3. b(j) <= b(i) /\ a <= web[1][h][1] /\ b(j) \in Int /\ b(i) \in Int /\ web[1][h][1] \in Int
    BY <1>1, <1>2, <2>1, <2>2
  <2>4. b(i) < a /\ TooFar(a, b(i))
    BY <2>1 DEF Passed
  <2>5. b(j) < web[1][h][1] /\ TooFar(web[1][h][1], b(j))
    BY <1>3, <2>3, <2>4, Farther
  <2> QED BY <2>5 DEF Passed
<1> QED BY <1>7, <1>8 DEF m
-----------------------------------------------------------------------------
(***************************************************************************)
(* The invariant of the traversal                                          *)
(***************************************************************************)
Partners == {0} \cup Points
Groups == [side : {"probe", "gallery"}, pt : Points, alts : Seq(Points), pick : Nat]
Work == [np : Nat, k : Nat, kx : Nat, kq : Nat, j : Nat, ftt : Int, turn : Nat, dw : Nat, over : BOOLEAN,
         sc : Seq(Int), rk : Seq(Int), y : Seq(Nat), qq : Seq(Points), queued : SUBSET Points,
         tq : [Points -> Partners], rq : [Points -> Partners], groups : Seq(Groups)]

\* What a traversal refers to exists: the marks are those of the table's rows, ...
Sized(v) ==
    /\ v \in Work
    /\ Len(v.sc) = Len(colp) /\ Len(v.rk) = Len(colp) /\ v.np <= Len(colp)
    /\ \A i \in DOMAIN v.y : v.y[i] \in DOMAIN colp
    /\ Len(v.qq) <= QQ_SIZE /\ Len(v.groups) <= WWIM + 1
    /\ v.dw <= Len(v.groups) /\ v.turn <= Len(v.groups)
    /\ \A i \in DOMAIN v.groups : v.groups[i].pick \in DOMAIN v.groups[i].alts

\* ... both arrays pair the same minutiae, ...
Mutual(v) == \A p, q \in Points : v.tq[p] = q <=> v.rq[q] = p

\* ... a paired minutia is in the queue or was chosen, and what has a place in the queue
\* behind its head is paired, so that undoing the queue and the choices undoes all, ...
InQueue(v, p) == \E i \in DOMAIN v.qq : v.qq[i] = p
WasChosen(v, p) == \E i \in 1 .. v.dw : p = ProbeEnd(v.groups[i])
Reached(v) ==
    /\ v.qq # <<>> /\ v.k \in 1 .. v.np - 1
    /\ \A p \in Points : v.tq[p] # 0 => InQueue(v, p) \/ WasChosen(v, p)
    /\ \A p \in v.queued : v.tq[p] # 0 /\ \E i \in 2 .. Len(v.qq) : v.qq[i] = p

\* ... and a row of the path ends at a pair.
Joint(v) == \A i \in DOMAIN v.y : v.tq[At(v.y[i])[3]] = At(v.y[i])[5]

\* Between two paths of a row only its own start may be paired, between two rows nothing.
Undone(v) ==
    /\ v.qq # <<>> /\ v.k \in 1 .. v.np - 1 /\ v.queued = {}
    /\ \A p \in Points : v.tq[p] # 0 => p = v.qq[1]
Clean(v) ==
    v.tq = NoPairs /\ v.rq = NoPairs /\ v.queued = {} /\ v.groups = <<>> /\ v.dw = 0 /\ v.k \in Nat \ {0}

\* The traversal in step s.
InStep(v, s) ==
    /\ Sized(v) /\ Mutual(v)
    /\ s \in {"gather", "back", "run", "undo"} => Reached(v)
    /\ s \in {"gather", "back", "run"} => Joint(v)
    /\ s \in {"gather", "run"} => v.kx \in DOMAIN colp
    /\ s \in {"back", "run"} => v.j \in Nat \ {0}
    /\ s \in {"turn", "release"} => Undone(v)
    /\ s = "release" => v.turn = 0
    /\ s = "pair" => Clean(v)
Traversed == InStep(w, step)

-----------------------------------------------------------------------------
(***************************************************************************)
(* bz_sift()                                                               *)
(***************************************************************************)

\* Everything a row leaves alone.
Frame(q, v) ==
    q.np = v.np /\ q.k = v.k /\ q.kx = v.kx /\ q.kq = v.kq /\ q.j = v.j /\ q.turn = v.turn /\ q.dw = v.dw
Marks(q, v) == q.sc = v.sc /\ q.rk = v.rk /\ q.y = v.y /\ q.ftt = v.ftt
Pairs(q, v) == q.tq = v.tq /\ q.rq = v.rq
Queue(q, v) == q.qq = v.qq /\ q.queued = v.queued

LEMMA PointsArePositive == \A p \in Points : p \in Nat /\ p # 0
BY JobsAssumption DEF Points

LEMMA AppendKeeps ==
  ASSUME NEW S, NEW s \in Seq(S), NEW e \in S
  PROVE  Append(s, e) # <<>> /\ \A i \in DOMAIN s : i \in DOMAIN Append(s, e) /\ Append(s, e)[i] = s[i]
<1>1. Append(s, e) # <<>>
  BY AppendProperties
<1>2. /\ Append(s, e) \in Seq(S) /\ Len(Append(s, e)) = Len(s) + 1 /\ Len(s) \in Nat
      /\ \A i \in 1 .. Len(s) : Append(s, e)[i] = s[i]
  OBVIOUS
<1>3. DOMAIN s = 1 .. Len(s) /\ DOMAIN Append(s, e) = 1 .. Len(Append(s, e))
  OBVIOUS
<1> QED BY <1>1, <1>2, <1>3

LEMMA JoinsKeeps ==
  ASSUME NEW v \in Work, NEW r \in DOMAIN v.sc, Len(v.rk) = Len(v.sc)
  PROVE  /\ Joins(v, r) \in Work
         /\ Frame(Joins(v, r), v) /\ Pairs(Joins(v, r), v) /\ Queue(Joins(v, r), v)
         /\ Joins(v, r).groups = v.groups /\ Joins(v, r).over = v.over
         /\ Len(Joins(v, r).sc) = Len(v.sc) /\ Len(Joins(v, r).rk) = Len(v.rk)
         /\ Joins(v, r).y = v.y \/ Joins(v, r).y = Append(v.y, r)
<1>0. v.sc \in Seq(Int) /\ v.rk \in Seq(Int) /\ v.ftt \in Int /\ v.y \in Seq(Nat)
  BY DEF Work
<1>1. r \in Nat /\ r \in DOMAIN v.rk /\ v.sc[r] \in Int
  BY <1>0
<1>2. Append(v.y, r) \in Seq(Nat)
  BY <1>0, <1>1
<1>3. [v.rk EXCEPT ![r] = v.sc[r]] \in Seq(Int) /\ Len([v.rk EXCEPT ![r] = v.sc[r]]) = Len(v.rk)
  BY <1>0, <1>1
<1>4. [v.sc EXCEPT ![r] = v.ftt] \in Seq(Int) /\ Len([v.sc EXCEPT ![r] = v.ftt]) = Len(v.sc)
  BY <1>0, <1>1
<1> DEFINE v1 == [v EXCEPT !.y = Append(v.y, r)]
           v2 == [v1 EXCEPT !.rk = [v.rk EXCEPT ![r] = v.sc[r]]]
           v3 == [v2 EXCEPT !.sc = [v.sc EXCEPT ![r] = v.ftt]]
           Same(q) == /\ Frame(q, v) /\ Pairs(q, v) /\ Queue(q, v) /\ q.groups = v.groups
                      /\ q.over = v.over /\ q.ftt = v.ftt
<1>5. v1 \in Work /\ Same(v1) /\ v1.y = Append(v.y, r) /\ v1.rk = v.rk /\ v1.sc = v.sc
  BY <1>2 DEF Work, Frame, Pairs, Queue
<1> HIDE DEF v1
<1>6. /\ v2 \in Work /\ Same(v2) /\ v2.y = Append(v.y, r) /\ v2.sc = v.sc
      /\ v2.rk = [v.rk EXCEPT ![r] = v.sc[r]]
  BY <1>3, <1>5 DEF Work, Frame, Pairs, Queue
<1> HIDE DEF v2
<1>7. /\ v3 \in Work /\ Same(v3) /\ v3.y = Append(v.y, r) /\ v3.rk = [v.rk EXCEPT ![r] = v.sc[r]]
      /\ v3.sc = [v.sc EXCEPT ![r] = v.ftt]
  BY <1>4, <1>6 DEF Work, Frame, Pairs, Queue
<1>8. Joins(v, r) = IF v.sc[r] = v.ftt THEN v ELSE v3
  BY <1>5, <1>6 DEF Joins, v1, v2
<1> HIDE DEF v3
<1>9. Same(v)
  BY DEF Frame, Pairs, Queue
<1> QED BY <1>3, <1>4, <1>7, <1>8, <1>9

LEMMA EnqueueKeeps ==
  ASSUME NEW v \in Work, NEW kz \in Points
  PROVE  LET q == Enqueue(v, kz)
         IN /\ q \in Work /\ Frame(q, v) /\ Marks(q, v) /\ Pairs(q, v) /\ q.groups = v.groups
            /\ \/ q.over /\ Queue(q, v)
               \/ /\ q.over = v.over /\ Len(v.qq) < QQ_SIZE
                  /\ q.qq = Append(v.qq, kz) /\ q.queued = v.queued \cup {kz}
<1>1. Append(v.qq, kz) \in Seq(Points) /\ v.queued \cup {kz} \in SUBSET Points
  BY DEF Work
<1>2. Len(v.qq) \in Nat /\ QQ_SIZE \in Nat
  BY JobsAssumption DEF Work
<1> DEFINE v1 == [v EXCEPT !.over = TRUE]
           v2 == [v EXCEPT !.qq = Append(v.qq, kz)]
           v3 == [v2 EXCEPT !.queued = v.queued \cup {kz}]
           Same(q) == Frame(q, v) /\ Marks(q, v) /\ Pairs(q, v) /\ q.groups = v.groups
<1>3. v1 \in Work /\ Same(v1) /\ v1.over /\ Queue(v1, v)
  BY DEF Work, Frame, Marks, Pairs, Queue
<1>4. v2 \in Work /\ Same(v2) /\ v2.over = v.over /\ v2.qq = Append(v.qq, kz) /\ v2.queued = v.queued
  BY <1>1 DEF Work, Frame, Marks, Pairs
<1> HIDE DEF v1
<1>5. Enqueue(v, kz) = IF Len(v.qq) >= QQ_SIZE THEN v1 ELSE v3
  BY <1>4 DEF Enqueue, v1, v2
<1> HIDE DEF v2
<1>6. /\ v3 \in Work /\ Same(v3) /\ v3.over = v.over /\ v3.qq = Append(v.qq, kz)
      /\ v3.queued = v.queued \cup {kz}
  BY <1>1, <1>4 DEF Work, Frame, Marks, Pairs
<1> HIDE DEF v3
<1> QED BY <1>2, <1>3, <1>5, <1>6

\* A group keeps its minutia and the alternatives it had.
Extends(g, h) ==
    /\ g.side = h.side /\ g.pt = h.pt /\ g.pick = h.pick
    /\ Len(h.alts) <= Len(g.alts) /\ \A x \in DOMAIN h.alts : g.alts[x] = h.alts[x]
Picks(gs) == \A i \in DOMAIN gs : gs[i].pick \in DOMAIN gs[i].alts

LEMMA AlternativeKeeps ==
  ASSUME NEW v \in Work, NEW side \in {"probe", "gallery"}, NEW pt \in Points,
         NEW held \in Partners, NEW other \in Points, Picks(v.groups)
  PROVE  LET q == Alternative(v, side, pt, held, other)
         IN /\ q \in Work /\ Frame(q, v) /\ Marks(q, v) /\ Pairs(q, v) /\ Queue(q, v) /\ q.over = v.over
            /\ Len(v.groups) <= Len(q.groups) /\ Len(q.groups) <= Len(v.groups) + 1
            /\ \A i \in DOMAIN v.groups : Extends(q.groups[i], v.groups[i])
            /\ Picks(q.groups)
<1> DEFINE new == [side |-> side, pt |-> pt, alts |-> <<held>>, pick |-> 1]
           old == {b \in DOMAIN v.groups : v.groups[b].side = side /\ v.groups[b].pt = pt}
           all == IF old # {} THEN v.groups ELSE Append(v.groups, new)
           b == IF old # {} THEN CHOOSE b \in old : TRUE ELSE Len(all)
           more == [all EXCEPT ![b].alts = Append(@, other)]
<1>1. CASE held = 0
  <2>1. Alternative(v, side, pt, held, other) = v
    BY <1>1 DEF Alternative
  <2> QED BY <2>1 DEF Work, Groups, Frame, Marks, Pairs, Queue, Extends
<1>2. CASE held # 0
  <2>1. held \in Points
    BY <1>2 DEF Partners
  <2>2. new \in Groups /\ new.pick \in DOMAIN new.alts
    BY <2>1 DEF Groups
  <2>3. /\ all \in Seq(Groups) /\ Picks(all) /\ b \in DOMAIN all
        /\ Len(v.groups) <= Len(all) /\ Len(all) <= Len(v.groups) + 1
        /\ \A i \in DOMAIN v.groups : all[i] = v.groups[i]
    <3>1. CASE old # {}
      <4>1. all = v.groups /\ v.groups \in Seq(Groups) /\ b \in old
        BY <3>1 DEF Work
      <4>2. b \in DOMAIN v.groups
        BY <4>1
      <4> HIDE DEF new, all, b
      <4> QED BY <4>1, <4>2
    <3>2. CASE old = {}
      <4>1. all = Append(v.groups, new) /\ v.groups \in Seq(Groups) /\ b = Len(all)
        BY <3>2 DEF Work
      <4> HIDE DEF new, all, b
      <4> QED BY <4>1, <2>2 DEF Picks
    <3> QED BY <3>1, <3>2
  <2> HIDE DEF all, b
  <2>4. \A i \in DOMAIN v.groups : v.groups[i] \in Groups
    BY DEF Work
  <2>5. \A i \in DOMAIN all : all[i] \in Groups
    BY <2>3
  <2>6. /\ more \in Seq(Groups) /\ Len(more) = Len(all) /\ DOMAIN more = DOMAIN all
        /\ \A i \in DOMAIN all : Extends(more[i], all[i])
    <3>1. Append(all[b].alts, other) \in Seq(Points) /\ all[b] \in Groups
      BY <2>3, <2>5 DEF Groups
    <3> DEFINE g == [all[b] EXCEPT !.alts = Append(@, other)]
    <3>2. g \in Groups /\ Extends(g, all[b])
      BY <3>1 DEF Groups, Extends
    <3>3. more = [all EXCEPT ![b] = g]
      OBVIOUS
    <3>4. \A i \in DOMAIN all : Extends(all[i], all[i])
      BY <2>5 DEF Extends, Groups
    <3> HIDE DEF g, more
    <3> QED BY <2>3, <2>5, <3>2, <3>3, <3>4
  <2>7. Picks(more)
    BY <2>3, <2>5, <2>6 DEF Picks, Extends, Groups
  <2> HIDE DEF more
  <2> DEFINE final == IF other \in Range(all[b].alts) THEN all ELSE more
  <2>8. Alternative(v, side, pt, held, other) = [v EXCEPT !.groups = final]
    BY <1>2 DEF Alternative, all, b, more
  <2>9. /\ final \in Seq(Groups) /\ Picks(final)
        /\ Len(v.groups) <= Len(final) /\ Len(final) <= Len(v.groups) + 1
        /\ \A i \in DOMAIN v.groups : i \in DOMAIN all /\ Extends(final[i], v.groups[i])
    <3>1. \A i \in DOMAIN v.groups : i \in DOMAIN all /\ Extends(v.groups[i], v.groups[i])
      BY <2>3, <2>4 DEF Extends, Groups, Work
    <3>2. \A i \in DOMAIN v.groups : Extends(more[i], v.groups[i])
      BY <2>3, <2>6, <3>1
    <3> QED BY <2>3, <2>6, <2>7, <3>1, <3>2
  <2> HIDE DEF final
  <2> QED BY <2>8, <2>9 DEF Work, Frame, Marks, Pairs, Queue
<1> QED BY <1>1, <1>2

LEMMA ChosenKept ==
  ASSUME NEW v \in Work, NEW q \in Work, v.dw <= Len(v.groups), q.dw = v.dw, Picks(v.groups),
         Len(v.groups) <= Len(q.groups), \A i \in DOMAIN v.groups : Extends(q.groups[i], v.groups[i]),
         NEW p, WasChosen(v, p)
  PROVE  WasChosen(q, p)
<1>1. PICK i \in 1 .. v.dw : p = ProbeEnd(v.groups[i])
  BY DEF WasChosen
<1>2. i \in DOMAIN v.groups
  <2>1. v.groups \in Seq(Groups) /\ v.dw \in Nat
    BY DEF Work
  <2> QED BY <1>1, <2>1
<1>3. ProbeEnd(q.groups[i]) = ProbeEnd(v.groups[i])
  BY <1>2 DEF Extends, Picks, ProbeEnd
<1> QED BY <1>1, <1>3 DEF WasChosen

\* What a row does to a traversal: pairs that are there stay, and a row that joins the path
\* ends at a pair.
Sifted(q, v, r, kz, l) ==
    /\ Sized(q) /\ Mutual(q) /\ Reached(q) /\ Frame(q, v)
    /\ \A p \in Points : v.tq[p] # 0 => q.tq[p] = v.tq[p]
    /\ \/ q.y = v.y
       \/ q.y = Append(v.y, r) /\ (~q.over => q.tq[kz] = l)

LEMMA Sift ==
  ASSUME NEW v, Sized(v), Mutual(v), Reached(v), NEW r \in DOMAIN colp,
         NEW kz \in Points, NEW l \in Points, colp \in Seq(Rows)
  PROVE  Sifted(bz_sift(v, r, kz, l), v, r, kz, l)
<1>1. v \in Work /\ Picks(v.groups) /\ v.dw <= Len(v.groups)
  BY DEF Sized, Picks
<1>2. r \in Nat /\ r \in DOMAIN v.sc /\ Len(v.rk) = Len(v.sc)
  BY <1>1 DEF Sized, Work
<1>3. v.tq \in [Points -> Partners] /\ v.rq \in [Points -> Partners]
  BY <1>1 DEF Work
<1>4. /\ v.qq \in Seq(Points) /\ v.qq # <<>> /\ Len(v.qq) \in Nat \ {0} /\ v.y \in Seq(Nat)
      /\ v.queued \subseteq Points /\ v.dw \in Nat /\ v.turn \in Nat /\ v.groups \in Seq(Groups)
  BY <1>1 DEF Work, Reached
<1>5. ASSUME NEW q \in Work, Frame(q, v), Len(q.sc) = Len(v.sc), Len(q.rk) = Len(v.rk),
             q.y = v.y \/ q.y = Append(v.y, r), Len(q.qq) <= QQ_SIZE,
             Len(v.groups) <= Len(q.groups), Len(q.groups) <= WWIM + 1, Picks(q.groups)
      PROVE  Sized(q)
  <2>1. \A i \in DOMAIN q.y : q.y[i] \in DOMAIN colp
    <3>1. \A i \in DOMAIN v.y : v.y[i] \in DOMAIN colp
      BY DEF Sized
    <3>2. CASE q.y = v.y
      BY <3>1, <3>2
    <3>3. CASE q.y = Append(v.y, r)
      <4>1. \A i \in DOMAIN q.y : q.y[i] = r \/ (i \in DOMAIN v.y /\ q.y[i] = v.y[i])
        BY <1>2, <1>4, <3>3
      <4> QED BY <3>1, <4>1
    <3> QED BY <1>5, <3>2, <3>3
  <2>2. q.dw <= Len(q.groups) /\ q.turn <= Len(q.groups)
    <3>1. q.groups \in Seq(Groups) /\ v.turn <= Len(v.groups)
      BY <1>5 DEF Work, Sized
    <3>2. Len(q.groups) \in Nat /\ Len(v.groups) \in Nat
      BY <1>4, <3>1
    <3> QED BY <1>1, <1>4, <1>5, <3>1, <3>2 DEF Frame
  <2> QED BY <1>5, <2>1, <2>2 DEF Sized, Frame, Picks
<1>6. ASSUME NEW q \in Work, Frame(q, v), q.groups = v.groups,
             \/ q.qq = v.qq /\ q.queued = v.queued
             \/ q.qq = Append(v.qq, kz) /\ q.queued = v.queued \cup {kz} /\ q.tq[kz] # 0,
             \A p \in Points : v.tq[p] # 0 => q.tq[p] # 0,
             \A p \in Points : (q.tq[p] # 0 /\ v.tq[p] = 0) => (p = kz /\ q.qq = Append(v.qq, kz))
      PROVE  Reached(q)
  <2>1. q.qq # <<>> /\ \A i \in DOMAIN v.qq : i \in DOMAIN q.qq /\ q.qq[i] = v.qq[i]
    <3>1. CASE q.qq = v.qq
      BY <1>4, <3>1
    <3>2. CASE q.qq = Append(v.qq, kz)
      <4>1. v.qq \in Seq(Points)
        BY <1>4
      <4> QED BY <3>2, <4>1, AppendKeeps
    <3> QED BY <1>6, <3>1, <3>2
  <2>2. q.qq = Append(v.qq, kz) => InQueue(q, kz) /\ \E i \in 2 .. Len(q.qq) : q.qq[i] = kz
    <3> HAVE q.qq = Append(v.qq, kz)
    <3>1. Len(q.qq) = Len(v.qq) + 1 /\ q.qq[Len(q.qq)] = kz /\ Len(q.qq) \in 2 .. Len(q.qq)
      BY <1>4
    <3>2. Len(q.qq) \in DOMAIN q.qq
      BY <3>1, <1>4
    <3> QED BY <3>1, <3>2 DEF InQueue
  <2>3. ASSUME NEW p \in Points, q.tq[p] # 0 PROVE InQueue(q, p) \/ WasChosen(q, p)
    <3>1. CASE v.tq[p] # 0
      <4>1. InQueue(v, p) \/ WasChosen(v, p)
        BY <3>1 DEF Reached
      <4> QED BY <4>1, <2>1, <1>6 DEF InQueue, WasChosen, Frame
    <3>2. CASE v.tq[p] = 0
      BY <3>2, <2>2, <2>3, <1>6
    <3> QED BY <3>1, <3>2
  <2>4. ASSUME NEW p \in q.queued PROVE q.tq[p] # 0 /\ \E i \in 2 .. Len(q.qq) : q.qq[i] = p
    <3>1. CASE p \in v.queued
      <4>1. p \in Points /\ v.tq[p] # 0
        BY <1>1, <3>1 DEF Work, Reached
      <4>2. PICK i \in 2 .. Len(v.qq) : v.qq[i] = p
        BY <3>1 DEF Reached
      <4>3. i \in 2 .. Len(q.qq) /\ q.qq[i] = p
        BY <4>2, <2>1, <1>4, <1>6
      <4> QED BY <4>1, <4>3, <1>6
    <3>2. CASE p \notin v.queued
      <4>1. p = kz /\ q.qq = Append(v.qq, kz) /\ q.tq[kz] # 0
        BY <3>2, <2>4, <1>6
      <4> QED BY <4>1, <2>2
    <3> QED BY <3>1, <3>2
  <2>5. q.k \in 1 .. q.np - 1
    BY <1>6 DEF Reached, Frame
  <2> QED BY <2>1, <2>3, <2>4, <2>5 DEF Reached
<1> DEFINE q == bz_sift(v, r, kz, l)
<1>7. CASE v.over
  <2>1. q = v
    BY <1>7 DEF bz_sift
  <2> QED BY <2>1 DEF Sifted, Frame
<1>8. CASE ~v.over /\ Unpaired(v, kz, l)
  <2> DEFINE v1 == Joins(v, r)
             v2 == Enqueue(v1, kz)
             v3 == [v2 EXCEPT !.tq = [v2.tq EXCEPT ![kz] = l]]
             v4 == [v3 EXCEPT !.rq = [v2.rq EXCEPT ![l] = kz]]
  <2>1. /\ v1 \in Work /\ Frame(v1, v) /\ Pairs(v1, v) /\ Queue(v1, v)
        /\ v1.groups = v.groups /\ v1.over = v.over
        /\ Len(v1.sc) = Len(v.sc) /\ Len(v1.rk) = Len(v.rk)
        /\ v1.y = v.y \/ v1.y = Append(v.y, r)
    BY <1>1, <1>2, JoinsKeeps
  <2> HIDE DEF v1
  <2>2. /\ v2 \in Work /\ Frame(v2, v1) /\ Marks(v2, v1) /\ Pairs(v2, v1) /\ v2.groups = v1.groups
        /\ \/ v2.over /\ Queue(v2, v1)
           \/ /\ v2.over = v1.over /\ Len(v1.qq) < QQ_SIZE
              /\ v2.qq = Append(v1.qq, kz) /\ v2.queued = v1.queued \cup {kz}
    BY <2>1, EnqueueKeeps
  <2> HIDE DEF v2
  <2>3. q = IF v2.over THEN v2 ELSE v4
    <3>1. v3.rq = v2.rq
      BY <2>2 DEF Work
    <3> QED BY <1>8, <3>1 DEF bz_sift, v1, v2
  <2>4. /\ Frame(v2, v) /\ v2.tq = v.tq /\ v2.rq = v.rq /\ v2.groups = v.groups
        /\ Len(v2.sc) = Len(v.sc) /\ Len(v2.rk) = Len(v.rk) /\ (v2.y = v.y \/ v2.y = Append(v.y, r))
    BY <2>1, <2>2 DEF Frame, Pairs, Marks
  <2>5. CASE v2.over
    <3>1. v2.qq = v.qq /\ v2.queued = v.queued
      BY <1>8, <2>1, <2>2, <2>5 DEF Queue
    <3>2. Sized(v2)
      BY <1>1, <1>5, <2>2, <2>4, <3>1 DEF Sized
    <3>3. Reached(v2) /\ Mutual(v2)
      <4>1. Reached(v2)
        BY <1>6, <2>2, <2>4, <3>1
      <4>2. Mutual(v2)
        BY <2>4 DEF Mutual
      <4> QED BY <4>1, <4>2
    <3> QED BY <2>3, <2>4, <2>5, <3>2, <3>3 DEF Sifted
  <2>6. CASE ~v2.over
    <3>1. v2.qq = Append(v.qq, kz) /\ v2.queued = v.queued \cup {kz} /\ Len(v.qq) < QQ_SIZE
      BY <2>1, <2>2, <2>6 DEF Queue
    <3>2. v.tq[kz] = 0 /\ v.rq[l] = 0
      BY <1>8 DEF Unpaired
    <3>3. [v.tq EXCEPT ![kz] = l] \in [Points -> Partners] /\ [v.rq EXCEPT ![l] = kz] \in [Points -> Partners]
      BY <1>3 DEF Partners
    <3>4. /\ v3 \in Work /\ Frame(v3, v2) /\ Marks(v3, v2) /\ Queue(v3, v2) /\ v3.groups = v2.groups
          /\ v3.tq = [v.tq EXCEPT ![kz] = l] /\ v3.over = v2.over
      BY <2>2, <2>4, <3>3 DEF Work, Frame, Marks, Queue
    <3> HIDE DEF v3
    <3>5. /\ v4 \in Work /\ Frame(v4, v3) /\ Marks(v4, v3) /\ Queue(v4, v3) /\ v4.groups = v3.groups
          /\ v4.tq = v3.tq /\ v4.over = v3.over /\ v4.rq = [v.rq EXCEPT ![l] = kz]
      BY <2>4, <3>3, <3>4 DEF Work, Frame, Marks, Queue
    <3> HIDE DEF v4
    <3>6. /\ Frame(v4, v) /\ v4.groups = v.groups /\ (v4.y = v.y \/ v4.y = Append(v.y, r))
          /\ v4.tq = [v.tq EXCEPT ![kz] = l] /\ v4.rq = [v.rq EXCEPT ![l] = kz]
          /\ Len(v4.sc) = Len(v.sc) /\ Len(v4.rk) = Len(v.rk)
          /\ v4.qq = Append(v.qq, kz) /\ v4.queued = v.queued \cup {kz}
      BY <2>4, <3>1, <3>4, <3>5 DEF Frame, Marks, Queue
    <3>7. v4.tq[kz] = l /\ kz # 0 /\ l # 0 /\ \A p \in Points : p # kz => v4.tq[p] = v.tq[p]
      BY <1>3, <3>6, PointsArePositive
    <3>8. Sized(v4)
      <4>1. Len(v4.qq) <= QQ_SIZE
        BY <1>4, <3>1, <3>6, JobsAssumption
      <4> QED BY <1>1, <1>5, <3>5, <3>6, <4>1 DEF Sized
    <3>9. Reached(v4)
      BY <1>6, <3>5, <3>6, <3>7
    <3>10. Mutual(v4)
      BY <1>3, <3>2, <3>6, PointsArePositive DEF Mutual
    <3>11. \A p \in Points : v.tq[p] # 0 => v4.tq[p] = v.tq[p]
      BY <3>2, <3>7
    <3> QED BY <2>3, <2>6, <3>6, <3>7, <3>8, <3>9, <3>10, <3>11 DEF Sifted
  <2> QED BY <2>5, <2>6
<1>9. CASE ~v.over /\ ~Unpaired(v, kz, l) /\ Paired(v, kz, l)
  <2> DEFINE v1 == IF r \in v.queued THEN v ELSE Enqueue(v, kz)
             v2 == Joins(v1, r)
  <2>1. q = IF v.sc[r] = v.ftt THEN v ELSE IF v1.over THEN v1 ELSE v2
    BY <1>9 DEF bz_sift
  <2>2. v.tq[kz] = l /\ l # 0
    BY <1>9, PointsArePositive DEF Paired
  <2>3. /\ v1 \in Work /\ Frame(v1, v) /\ Marks(v1, v) /\ Pairs(v1, v) /\ v1.groups = v.groups
        /\ \/ Queue(v1, v)
           \/ Len(v.qq) < QQ_SIZE /\ v1.qq = Append(v.qq, kz) /\ v1.queued = v.queued \cup {kz}
    <3>1. CASE r \in v.queued
      BY <1>1, <3>1 DEF Frame, Marks, Pairs, Queue
    <3>2. CASE r \notin v.queued
      BY <1>1, <3>2, EnqueueKeeps
    <3> QED BY <3>1, <3>2
  <2> HIDE DEF v1
  <2>4. /\ v2 \in Work /\ Frame(v2, v) /\ v2.groups = v.groups /\ Pairs(v2, v) /\ Queue(v2, v1)
        /\ Len(v2.sc) = Len(v.sc) /\ Len(v2.rk) = Len(v.rk) /\ (v2.y = v.y \/ v2.y = Append(v.y, r))
    <3>1. r \in DOMAIN v1.sc /\ Len(v1.rk) = Len(v1.sc) /\ v1.sc = v.sc /\ v1.rk = v.rk /\ v1.y = v.y
      BY <1>2, <2>3 DEF Marks
    <3>2. /\ v2 \in Work /\ Frame(v2, v1) /\ Pairs(v2, v1) /\ Queue(v2, v1) /\ v2.groups = v1.groups
          /\ Len(v2.sc) = Len(v1.sc) /\ Len(v2.rk) = Len(v1.rk) /\ (v2.y = v1.y \/ v2.y = Append(v1.y, r))
      BY <2>3, <3>1, JoinsKeeps
    <3> QED BY <2>3, <3>1, <3>2 DEF Frame, Pairs
  <2> HIDE DEF v2
  <2>5. ASSUME NEW u, u \in {v1, v2} PROVE Sifted(u, v, r, kz, l)
    <3>1. /\ u \in Work /\ Frame(u, v) /\ u.groups = v.groups /\ u.tq = v.tq /\ u.rq = v.rq
          /\ Len(u.sc) = Len(v.sc) /\ Len(u.rk) = Len(v.rk) /\ (u.y = v.y \/ u.y = Append(v.y, r))
          /\ \/ u.qq = v.qq /\ u.queued = v.queued
             \/ Len(v.qq) < QQ_SIZE /\ u.qq = Append(v.qq, kz) /\ u.queued = v.queued \cup {kz}
      BY <2>3, <2>4, <2>5 DEF Marks, Pairs, Queue
    <3>2. Sized(u)
      <4>1. Len(u.qq) <= QQ_SIZE
        <5>1. Len(v.qq) <= QQ_SIZE
          BY DEF Sized
        <5> QED BY <1>4, <3>1, <5>1, JobsAssumption
      <4> QED BY <1>1, <1>5, <3>1, <4>1 DEF Sized
    <3>3. Reached(u)
      BY <1>6, <2>2, <3>1
    <3>4. Mutual(u)
      BY <3>1 DEF Mutual
    <3> QED BY <2>2, <3>1, <3>2, <3>3, <3>4 DEF Sifted
  <2>6. Sifted(v, v, r, kz, l)
    BY DEF Sifted, Frame
  <2> QED BY <2>1, <2>5, <2>6
<1>10. CASE ~v.over /\ ~Unpaired(v, kz, l) /\ ~Paired(v, kz, l)
  <2> DEFINE v1 == Alternative(v, "probe", kz, v.tq[kz], l)
             v2 == Alternative(v1, "gallery", l, v.rq[l], kz)
  <2>1. q = IF GroupsFull(v) THEN v ELSE v2
    BY <1>10 DEF bz_sift
  <2>2. Sifted(v, v, r, kz, l)
    BY DEF Sifted, Frame
  <2>3. ASSUME ~GroupsFull(v) PROVE Sifted(v2, v, r, kz, l)
    <3>1. /\ v1 \in Work /\ Frame(v1, v) /\ Marks(v1, v) /\ Pairs(v1, v) /\ Queue(v1, v)
          /\ Len(v.groups) <= Len(v1.groups) /\ Len(v1.groups) <= Len(v.groups) + 1
          /\ \A i \in DOMAIN v.groups : Extends(v1.groups[i], v.groups[i])
          /\ Picks(v1.groups)
      BY <1>1, <1>3, AlternativeKeeps
    <3> HIDE DEF v1
    <3>2. /\ v2 \in Work /\ Frame(v2, v1) /\ Marks(v2, v1) /\ Pairs(v2, v1) /\ Queue(v2, v1)
          /\ Len(v1.groups) <= Len(v2.groups) /\ Len(v2.groups) <= Len(v1.groups) + 1
          /\ \A i \in DOMAIN v1.groups : Extends(v2.groups[i], v1.groups[i])
          /\ Picks(v2.groups)
      BY <1>3, <3>1, AlternativeKeeps
    <3> HIDE DEF v2
    <3>3. /\ Frame(v2, v) /\ v2.y = v.y /\ Len(v2.sc) = Len(v.sc) /\ Len(v2.rk) = Len(v.rk)
          /\ v2.tq = v.tq /\ v2.rq = v.rq /\ v2.qq = v.qq /\ v2.queued = v.queued
      BY <3>1, <3>2 DEF Frame, Marks, Pairs, Queue
    <3>4. v1.groups \in Seq(Groups) /\ v2.groups \in Seq(Groups)
      BY <3>1, <3>2 DEF Work
    <3>5. /\ Len(v.groups) <= Len(v2.groups) /\ Len(v2.groups) <= Len(v.groups) + 2
          /\ \A i \in DOMAIN v.groups : i \in DOMAIN v1.groups
      BY <1>4, <3>1, <3>2, <3>4
    <3>6. Len(v2.groups) <= WWIM + 1
      <4>1. Len(v.groups) \in Nat /\ Len(v2.groups) \in Nat /\ WWIM \in Nat
        BY <1>4, <3>4, JobsAssumption
      <4>2. Len(v.groups) < WWIM
        BY <2>3, <4>1 DEF GroupsFull
      <4> QED BY <3>5, <4>1, <4>2
    <3>7. Sized(v2)
      BY <1>5, <3>2, <3>3, <3>5, <3>6 DEF Sized
    <3>8. ASSUME NEW p \in Points, WasChosen(v, p) PROVE WasChosen(v2, p)
      <4>1. WasChosen(v1, p)
        BY <1>1, <3>1, <3>8, ChosenKept DEF Frame
      <4>2. v1.dw <= Len(v1.groups) /\ v2.dw = v1.dw
        BY <1>1, <1>4, <3>1, <3>2, <3>4 DEF Frame
      <4> QED BY <3>1, <3>2, <4>1, <4>2, ChosenKept
    <3>9. Reached(v2)
      BY <3>3, <3>8 DEF Reached, InQueue, Frame
    <3> QED BY <3>3, <3>7, <3>9 DEF Sifted, Mutual
  <2> QED BY <2>1, <2>2, <2>3
<1> QED BY <1>7, <1>8, <1>9, <1>10

-----------------------------------------------------------------------------
(***************************************************************************)
(* Undoing                                                                 *)
(***************************************************************************)
LEMMA ReleaseKeeps ==
  ASSUME NEW v \in Work, Mutual(v), NEW ps \in SUBSET Points
  PROVE  LET q == Release(v, ps)
         IN /\ q \in Work /\ Frame(q, v) /\ Marks(q, v) /\ Queue(q, v) /\ q.groups = v.groups /\ q.over = v.over
            /\ Mutual(q)
            /\ \A p \in Points : q.tq[p] = IF p \in ps THEN 0 ELSE v.tq[p]
<1> DEFINE gone == {p \in ps : v.tq[p] # 0}
           tq == [p \in DOMAIN v.tq |-> IF p \in gone THEN 0 ELSE v.tq[p]]
           rq == [q \in DOMAIN v.rq |-> IF \E p \in gone : v.tq[p] = q THEN 0 ELSE v.rq[q]]
           v1 == [v EXCEPT !.tq = tq]
           v2 == [v1 EXCEPT !.rq = rq]
<1>1. /\ v.tq \in [Points -> Partners] /\ v.rq \in [Points -> Partners]
      /\ 0 \in Partners /\ \A p \in Points : p # 0
  BY PointsArePositive DEF Work, Partners
<1>2. tq \in [Points -> Partners] /\ \A p \in Points : tq[p] = IF p \in gone THEN 0 ELSE v.tq[p]
  BY <1>1
<1>3. /\ rq \in [Points -> Partners]
      /\ \A q \in Points : rq[q] = IF \E p \in gone : v.tq[p] = q THEN 0 ELSE v.rq[q]
  BY <1>1
<1> HIDE DEF tq, rq
<1>4. \A p \in Points : p \in gone <=> p \in ps /\ v.tq[p] # 0
  OBVIOUS
<1>5. v1 \in Work /\ v1.tq = tq /\ v1.rq = v.rq /\ Frame(v1, v) /\ Marks(v1, v) /\ Queue(v1, v)
      /\ v1.groups = v.groups /\ v1.over = v.over
  BY <1>2 DEF Work, Frame, Marks, Queue
<1>6. Release(v, ps) = v2
  BY DEF Release, tq, rq
<1> HIDE DEF v1
<1>7. v2 \in Work /\ v2.tq = tq /\ v2.rq = rq /\ Frame(v2, v) /\ Marks(v2, v) /\ Queue(v2, v)
      /\ v2.groups = v.groups /\ v2.over = v.over
  BY <1>3, <1>5 DEF Work, Frame, Marks, Queue
<1> HIDE DEF v2
<1>8. ASSUME NEW p \in Points, NEW q \in Points PROVE tq[p] = q <=> rq[q] = p
  <2>1. q # 0 /\ p # 0 /\ (v.tq[p] = q <=> v.rq[q] = p)
    BY PointsArePositive DEF Mutual
  <2>2. tq[p] = q <=> p \notin gone /\ v.tq[p] = q
    BY <1>2, <2>1
  <2>3. rq[q] = p <=> ~(\E g \in gone : v.tq[g] = q) /\ v.rq[q] = p
    BY <1>3, <2>1
  <2>4. ASSUME NEW g \in gone, v.tq[g] = q, v.tq[p] = q PROVE g = p
    <3>1. g \in Points
      OBVIOUS
    <3>2. v.rq[q] = g /\ v.rq[q] = p
      BY <2>4, <3>1 DEF Mutual
    <3> QED BY <3>2
  <2> QED BY <2>1, <2>2, <2>3, <2>4
<1>9. Mutual(v2)
  BY <1>7, <1>8 DEF Mutual
<1>10. \A p \in Points : v2.tq[p] = IF p \in ps THEN 0 ELSE v.tq[p]
  BY <1>2, <1>4, <1>7
<1> QED BY <1>6, <1>7, <1>9, <1>10

LEMMA ChoiceTyped ==
  ASSUME NEW v \in Work, Picks(v.groups), NEW i \in DOMAIN v.groups
  PROVE  ProbeEnd(v.groups[i]) \in Points /\ GalleryEnd(v.groups[i]) \in Points
<1>1. v.groups[i] \in Groups
  BY DEF Work
<1>2. v.groups[i].alts \in Seq(Points) /\ v.groups[i].pick \in DOMAIN v.groups[i].alts
  BY <1>1 DEF Picks, Groups
<1>3. v.groups[i].alts[v.groups[i].pick] \in Points
  BY <1>2
<1> QED BY <1>1, <1>3 DEF ProbeEnd, GalleryEnd, Groups

LEMMA UndoneByUndo ==
  ASSUME NEW v, Sized(v), Mutual(v), Reached(v)
  PROVE  InStep(Undo(v), "turn") /\ Undo(v).np = v.np
<1> DEFINE queue == {p \in Range(Tail(v.qq)) : v.tq[p] # 0}
           r1 == Release(v, queue)
           v1 == [r1 EXCEPT !.queued = @ \ queue]
           chosen == {ProbeEnd(v1.groups[i]) : i \in 1 .. v1.dw}
           r2 == Release(v1, chosen)
           n == Len(v1.groups)
           v2 == [r2 EXCEPT !.turn = n]
<1>1. /\ v \in Work /\ Picks(v.groups) /\ v.dw <= Len(v.groups) /\ v.dw \in Nat
      /\ v.groups \in Seq(Groups) /\ Len(v.groups) \in Nat
      /\ v.qq \in Seq(Points) /\ v.qq # <<>> /\ v.queued \in SUBSET Points
  <2>1. v \in Work /\ Picks(v.groups) /\ v.dw <= Len(v.groups) /\ v.qq # <<>>
    BY DEF Sized, Reached, Picks
  <2>2. v.dw \in Nat /\ v.groups \in Seq(Groups) /\ v.qq \in Seq(Points) /\ v.queued \in SUBSET Points
    BY <2>1 DEF Work
  <2> QED BY <2>1, <2>2
<1>2. /\ queue \in SUBSET Points
      /\ \A p \in Points, i \in 2 .. Len(v.qq) : v.qq[i] = p /\ v.tq[p] # 0 => p \in queue
  <2>1. /\ Tail(v.qq) \in Seq(Points) /\ DOMAIN Tail(v.qq) = 1 .. Len(v.qq) - 1
        /\ \A i \in 1 .. Len(v.qq) - 1 : Tail(v.qq)[i] = v.qq[i + 1]
    BY <1>1
  <2>2. queue \in SUBSET Points
    BY <2>1 DEF Range
  <2>3. ASSUME NEW i \in 2 .. Len(v.qq) PROVE v.qq[i] \in Range(Tail(v.qq))
    <3>1. i - 1 \in DOMAIN Tail(v.qq) /\ Tail(v.qq)[i - 1] = v.qq[i]
      BY <1>1, <2>1
    <3> QED BY <3>1 DEF Range
  <2> QED BY <2>2, <2>3
<1> HIDE DEF queue
<1>3. /\ r1 \in Work /\ Frame(r1, v) /\ Marks(r1, v) /\ Queue(r1, v) /\ r1.groups = v.groups
      /\ r1.over = v.over /\ Mutual(r1)
      /\ \A p \in Points : r1.tq[p] = IF p \in queue THEN 0 ELSE v.tq[p]
  BY <1>1, <1>2, ReleaseKeeps
<1> HIDE DEF r1
<1>4. /\ v1 \in Work /\ Frame(v1, v) /\ Marks(v1, v) /\ v1.qq = v.qq /\ v1.groups = v.groups
      /\ v1.over = v.over /\ v1.queued = v.queued \ queue /\ v1.tq = r1.tq /\ v1.rq = r1.rq
  BY <1>1, <1>3 DEF Work, Frame, Marks, Queue
<1> HIDE DEF v1
<1>5. Mutual(v1)
  BY <1>3, <1>4 DEF Mutual
<1>6. chosen \in SUBSET Points /\ \A p : WasChosen(v, p) => p \in chosen
  <2>1. v1.dw = v.dw
    BY <1>4 DEF Frame
  <2>2. \A i \in 1 .. v.dw : i \in DOMAIN v1.groups
    BY <1>1, <1>4
  <2>3. chosen \in SUBSET Points
    BY <1>1, <1>4, <2>1, <2>2, ChoiceTyped
  <2> QED BY <1>4, <2>1, <2>3 DEF WasChosen
<1> HIDE DEF chosen
<1>7. /\ r2 \in Work /\ Frame(r2, v1) /\ Marks(r2, v1) /\ Queue(r2, v1) /\ r2.groups = v1.groups
      /\ r2.over = v1.over /\ Mutual(r2)
      /\ \A p \in Points : r2.tq[p] = IF p \in chosen THEN 0 ELSE v1.tq[p]
  BY <1>4, <1>5, <1>6, ReleaseKeeps
<1>8. Undo(v) = v2
  BY DEF Undo, v1, queue, r1, chosen
<1> HIDE DEF r2
<1>9. n \in Nat /\ n = Len(v.groups)
  BY <1>1, <1>4
<1> HIDE DEF n
<1>10. /\ v2 \in Work /\ v2.np = r2.np /\ v2.k = r2.k /\ v2.dw = r2.dw /\ Marks(v2, r2) /\ v2.qq = r2.qq
       /\ v2.queued = r2.queued /\ v2.groups = r2.groups /\ v2.tq = r2.tq /\ v2.rq = r2.rq /\ v2.turn = n
  BY <1>7, <1>9 DEF Work, Marks
<1> HIDE DEF v2
<1>11. /\ v2.np = v.np /\ v2.k = v.k /\ v2.dw = v.dw /\ Marks(v2, v) /\ v2.qq = v.qq
       /\ v2.queued = v.queued \ queue /\ v2.groups = v.groups /\ v2.turn = Len(v.groups)
       /\ v2.tq = r2.tq /\ v2.rq = r2.rq
       /\ \A p \in Points : v2.tq[p] = IF p \in chosen \cup queue THEN 0 ELSE v.tq[p]
  BY <1>3, <1>4, <1>7, <1>9, <1>10 DEF Frame, Marks, Queue
<1>12. Sized(v2)
  BY <1>1, <1>10, <1>11 DEF Sized, Marks
<1>13. Mutual(v2)
  BY <1>7, <1>11 DEF Mutual
<1>14. ASSUME NEW p \in Points, v2.tq[p] # 0 PROVE p = v2.qq[1]
  <2>1. p \notin chosen /\ p \notin queue /\ v.tq[p] # 0
    BY <1>11, <1>14
  <2>2. InQueue(v, p)
    BY <1>6, <2>1 DEF Reached
  <2>3. PICK i \in DOMAIN v.qq : v.qq[i] = p
    BY <2>2 DEF InQueue
  <2>4. i \notin 2 .. Len(v.qq)
    BY <1>2, <2>1, <2>3
  <2>5. i = 1
    BY <1>1, <2>3, <2>4
  <2> QED BY <1>11, <2>3, <2>5
<1>15. v2.queued = {}
  <2>1. \A p \in v.queued : p \in queue
    BY <1>1, <1>2 DEF Reached
  <2> QED BY <1>11, <2>1
<1>16. Undone(v2)
  BY <1>1, <1>11, <1>14, <1>15 DEF Undone, Reached
<1> QED BY <1>8, <1>11, <1>12, <1>13, <1>16 DEF InStep

\* Choices that do not clash pair minutiae one to one with each other and with the pairs that
\* are left.
LEMMA ChoicesMade ==
  ASSUME NEW v, Sized(v), Mutual(v), Chosen(v)
  PROVE  LET q == Choose(v)
         IN /\ q \in Work /\ q.np = v.np /\ q.k = v.k /\ q.ftt = v.ftt /\ q.turn = v.turn /\ q.qq = v.qq
            /\ q.queued = v.queued /\ q.groups = v.groups /\ q.sc = v.sc /\ q.rk = v.rk /\ q.y = v.y
            /\ q.dw = Len(v.groups) /\ Sized(q) /\ Mutual(q)
            /\ \A p \in Points : q.tq[p] # 0 => v.tq[p] # 0 \/ WasChosen(q, p)
<1> DEFINE D == DOMAIN v.groups
           P(i) == ProbeEnd(v.groups[i])
           Q(i) == GalleryEnd(v.groups[i])
           Picking(p) == {i \in D : P(i) = p}
           Picked(q) == {i \in D : Q(i) = q}
           tq == [p \in DOMAIN v.tq |-> IF Picking(p) = {} THEN v.tq[p] ELSE Q(CHOOSE i \in Picking(p) : TRUE)]
           rq == [q \in DOMAIN v.rq |-> IF Picked(q) = {} THEN v.rq[q] ELSE P(CHOOSE i \in Picked(q) : TRUE)]
           v1 == [v EXCEPT !.dw = Len(v.groups)]
           v2 == [v1 EXCEPT !.tq = tq]
           v3 == [v2 EXCEPT !.rq = rq]
<1>1. /\ v \in Work /\ Picks(v.groups) /\ v.groups \in Seq(Groups) /\ Len(v.groups) \in Nat
      /\ D = 1 .. Len(v.groups)
      /\ v.tq \in [Points -> Partners] /\ v.rq \in [Points -> Partners]
      /\ 0 \in Partners /\ Points \subseteq Partners
  BY DEF Sized, Work, Picks, Partners
<1>2. \A i \in D : P(i) \in Points /\ Q(i) \in Points
  BY <1>1, ChoiceTyped
<1>3. ASSUME NEW i \in D
      PROVE  /\ v.tq[P(i)] \in {0, Q(i)} /\ v.rq[Q(i)] \in {0, P(i)}
             /\ \A h \in i + 1 .. Len(v.groups) : (P(h) = P(i)) = (Q(h) = Q(i))
  BY DEF Chosen, Clash
<1>4. ASSUME NEW i \in D, NEW h \in D PROVE P(h) = P(i) <=> Q(h) = Q(i)
  <2>1. h \in i + 1 .. Len(v.groups) \/ i \in h + 1 .. Len(v.groups) \/ h = i
    BY <1>1
  <2> QED BY <1>3, <2>1
<1> HIDE DEF P, Q
<1>5. ASSUME NEW p \in Points
      PROVE  /\ ~(\E i \in D : P(i) = p) => tq[p] = v.tq[p]
             /\ \A i \in D : P(i) = p => tq[p] = Q(i)
  <2>1. tq[p] = IF Picking(p) = {} THEN v.tq[p] ELSE Q(CHOOSE i \in Picking(p) : TRUE)
    BY <1>1
  <2>2. ASSUME NEW i \in D, P(i) = p PROVE tq[p] = Q(i)
    <3> DEFINE h == CHOOSE h \in Picking(p) : TRUE
    <3>1. i \in Picking(p)
      BY <2>2
    <3>2. h \in Picking(p)
      BY <3>1
    <3>3. tq[p] = Q(h)
      BY <2>1, <3>1
    <3> QED BY <1>4, <2>2, <3>2, <3>3
  <2> QED BY <2>1, <2>2
<1>6. ASSUME NEW q \in Points
      PROVE  /\ ~(\E i \in D : Q(i) = q) => rq[q] = v.rq[q]
             /\ \A i \in D : Q(i) = q => rq[q] = P(i)
  <2>1. rq[q] = IF Picked(q) = {} THEN v.rq[q] ELSE P(CHOOSE i \in Picked(q) : TRUE)
    BY <1>1
  <2>2. ASSUME NEW i \in D, Q(i) = q PROVE rq[q] = P(i)
    <3> DEFINE h == CHOOSE h \in Picked(q) : TRUE
    <3>1. i \in Picked(q)
      BY <2>2
    <3>2. h \in Picked(q)
      BY <3>1
    <3>3. rq[q] = P(h)
      BY <2>1, <3>1
    <3> QED BY <1>4, <2>2, <3>2, <3>3
  <2> QED BY <2>1, <2>2
<1>7. tq \in [Points -> Partners]
  <2>1. DOMAIN tq = Points /\ tq = [p \in Points |-> tq[p]]
    BY <1>1
  <2>2. ASSUME NEW p \in Points PROVE tq[p] \in Partners
    BY <1>1, <1>2, <1>5
  <2> HIDE DEF tq
  <2> QED BY <2>1, <2>2
<1>8. rq \in [Points -> Partners]
  <2>1. DOMAIN rq = Points /\ rq = [p \in Points |-> rq[p]]
    BY <1>1
  <2>2. ASSUME NEW p \in Points PROVE rq[p] \in Partners
    BY <1>1, <1>2, <1>6
  <2> HIDE DEF rq
  <2> QED BY <2>1, <2>2
<1>9. Choose(v) = v3
  BY DEF Choose, P, Q
<1> HIDE DEF tq, rq, Picking, Picked, D
<1>10. ASSUME NEW p \in Points, NEW q \in Points PROVE tq[p] = q <=> rq[q] = p
  <2>1. p # 0 /\ q # 0 /\ (v.tq[p] = q <=> v.rq[q] = p)
    BY PointsArePositive DEF Mutual
  <2>2. CASE \E i \in D : P(i) = p
    <3>1. PICK i \in D : P(i) = p
      BY <2>2
    <3>2. tq[p] = Q(i) /\ v.tq[p] \in {0, Q(i)}
      BY <1>3, <1>5, <3>1
    <3>3. CASE \E h \in D : Q(h) = q
      BY <1>4, <1>6, <3>1, <3>2, <3>3
    <3>4. CASE ~(\E h \in D : Q(h) = q)
      BY <1>6, <2>1, <3>1, <3>2, <3>4
    <3> QED BY <3>3, <3>4
  <2>3. CASE ~(\E i \in D : P(i) = p)
    <3>1. tq[p] = v.tq[p]
      BY <1>5, <2>3
    <3>2. CASE \E h \in D : Q(h) = q
      <4>1. PICK h \in D : Q(h) = q
        BY <3>2
      <4>2. rq[q] = P(h) /\ v.rq[q] \in {0, P(h)} /\ P(h) # p
        BY <1>3, <1>6, <2>3, <4>1
      <4> QED BY <2>1, <3>1, <4>2
    <3>3. CASE ~(\E h \in D : Q(h) = q)
      BY <1>6, <2>1, <3>1, <3>3
    <3> QED BY <3>2, <3>3
  <2> QED BY <2>2, <2>3
<1> DEFINE Same(q) == /\ q.np = v.np /\ q.k = v.k /\ q.ftt = v.ftt /\ q.turn = v.turn /\ q.qq = v.qq
                      /\ q.queued = v.queued /\ q.groups = v.groups /\ q.sc = v.sc /\ q.rk = v.rk /\ q.y = v.y
<1>11. v1 \in Work /\ Same(v1) /\ v1.dw = Len(v.groups)
  BY <1>1 DEF Work
<1> HIDE DEF v1
<1>12. v2 \in Work /\ Same(v2) /\ v2.dw = Len(v.groups) /\ v2.tq = tq
  BY <1>7, <1>11 DEF Work
<1> HIDE DEF v2
<1>13. v3 \in Work /\ Same(v3) /\ v3.dw = Len(v.groups) /\ v3.tq = tq /\ v3.rq = rq
  BY <1>8, <1>12 DEF Work
<1> HIDE DEF v3
<1>14. Sized(v3)
  BY <1>1, <1>13 DEF Sized
<1>15. Mutual(v3)
  BY <1>10, <1>13 DEF Mutual
<1>16. ASSUME NEW p \in Points, v3.tq[p] # 0 PROVE v.tq[p] # 0 \/ WasChosen(v3, p)
  <2>1. CASE \E i \in D : P(i) = p
    BY <1>1, <1>13, <2>1 DEF WasChosen, P, D
  <2>2. CASE ~(\E i \in D : P(i) = p)
    BY <1>5, <1>13, <1>16, <2>2
  <2> QED BY <2>1, <2>2
<1> QED BY <1>9, <1>13, <1>14, <1>15, <1>16

LEMMA PathBegins ==
  ASSUME NEW v, Sized(v), Mutual(v), v.qq # <<>>, v.k \in 1 .. v.np - 1, v.queued = {},
         \A p \in Points : v.tq[p] # 0 => p = v.qq[1] \/ WasChosen(v, p), colp \in Seq(Rows)
  PROVE  InStep(Begin(v), "gather") /\ Begin(v).np = v.np
<1> DEFINE v1 == [v EXCEPT !.ftt = @ + 1]
           v2 == [v1 EXCEPT !.y = <<>>]
           v3 == [v2 EXCEPT !.qq = <<v.qq[1]>>]
           v4 == [v3 EXCEPT !.kx = v.k]
           Same(q) == /\ q.np = v.np /\ q.k = v.k /\ q.dw = v.dw /\ q.turn = v.turn /\ q.queued = v.queued
                      /\ q.groups = v.groups /\ q.sc = v.sc /\ q.rk = v.rk /\ q.tq = v.tq /\ q.rq = v.rq
<1>1. v \in Work /\ v.ftt + 1 \in Int /\ v.k \in Nat /\ v.np \in Nat /\ v.qq \in Seq(Points)
  <2>1. v \in Work
    BY DEF Sized
  <2>2. v.ftt \in Int /\ v.k \in Nat /\ v.np \in Nat /\ v.qq \in Seq(Points)
    BY <2>1 DEF Work
  <2> QED BY <2>1, <2>2
<1>2. v.qq[1] \in Points
  BY <1>1
<1>3. <<v.qq[1]>> \in Seq(Points) /\ Len(<<v.qq[1]>>) = 1 /\ <<v.qq[1]>>[1] = v.qq[1]
      /\ <<v.qq[1]>> # <<>> /\ DOMAIN <<v.qq[1]>> = {1}
  BY <1>2
<1>4. v1 \in Work /\ Same(v1)
  BY <1>1 DEF Work
<1> HIDE DEF v1
<1>5. v2 \in Work /\ Same(v2) /\ v2.y = <<>>
  <2>1. <<>> \in Seq(Nat)
    OBVIOUS
  <2> QED BY <1>4, <2>1 DEF Work
<1> HIDE DEF v2
<1>6. v3 \in Work /\ Same(v3) /\ v3.y = <<>> /\ v3.qq = <<v.qq[1]>>
  BY <1>3, <1>5 DEF Work
<1> HIDE DEF v3
<1>7. v4 \in Work /\ Same(v4) /\ v4.y = <<>> /\ v4.qq = <<v.qq[1]>> /\ v4.kx = v.k
  BY <1>1, <1>6 DEF Work
<1>8. Begin(v) = v4
  BY DEF Begin, v1, v2, v3
<1> HIDE DEF v4
<1>9. Sized(v4)
  <2>1. Len(v4.qq) <= QQ_SIZE
    BY <1>3, <1>7, JobsAssumption
  <2>2. \A i \in DOMAIN v4.y : v4.y[i] \in DOMAIN colp
    BY <1>7
  <2> QED BY <1>7, <2>1, <2>2 DEF Sized
<1>10. Mutual(v4) /\ Joint(v4)
  BY <1>7 DEF Mutual, Joint
<1>11. Reached(v4)
  <2>1. ASSUME NEW p \in Points, v4.tq[p] # 0 PROVE InQueue(v4, p) \/ WasChosen(v4, p)
    <3>1. CASE p = v.qq[1]
      BY <1>3, <1>7, <3>1 DEF InQueue
    <3>2. CASE WasChosen(v, p)
      BY <1>7, <3>2 DEF WasChosen
    <3> QED BY <1>7, <2>1, <3>1, <3>2
  <2> QED BY <1>3, <1>7, <2>1 DEF Reached
<1>12. v4.kx \in DOMAIN colp
  <2>1. v.np <= Len(colp) /\ colp \in Seq(Rows)
    BY DEF Sized
  <2> QED BY <1>1, <1>7, <2>1
<1> QED BY <1>7, <1>8, <1>9, <1>10, <1>11, <1>12 DEF InStep

LEMMA Abandoned ==
  ASSUME NEW v, Sized(v), Mutual(v), Undone(v)
  PROVE  InStep(Abandon(v), "turn") /\ Abandon(v).np = v.np
<1> DEFINE n == Len(v.groups)
           made == {i \in DOMAIN v.groups : \A h \in i .. n : ~Clash(v, h)}
           ps == {ProbeEnd(v.groups[i]) : i \in made}
           r == Release(v, ps)
           q == [r EXCEPT !.turn = n]
<1>1. v \in Work /\ Picks(v.groups) /\ v.groups \in Seq(Groups) /\ n \in Nat /\ v.qq \in Seq(Points)
  BY DEF Sized, Picks, Work
<1>2. ps \in SUBSET Points
  BY <1>1, ChoiceTyped
<1>3. Abandon(v) = q
  BY DEF Abandon
<1> HIDE DEF ps, n
<1>4. /\ r \in Work /\ Frame(r, v) /\ Marks(r, v) /\ Queue(r, v) /\ r.groups = v.groups
      /\ r.over = v.over /\ Mutual(r)
      /\ \A p \in Points : r.tq[p] = IF p \in ps THEN 0 ELSE v.tq[p]
  BY <1>1, <1>2, ReleaseKeeps
<1> HIDE DEF r
<1>5. /\ q \in Work /\ q.np = v.np /\ q.k = v.k /\ q.dw = v.dw /\ Marks(q, v) /\ Queue(q, v)
      /\ q.groups = v.groups /\ q.tq = r.tq /\ q.rq = r.rq /\ q.turn = n
  BY <1>1, <1>4 DEF Work, Frame, Marks, Queue
<1> HIDE DEF q
<1>6. Sized(q)
  BY <1>1, <1>5 DEF Sized, Marks, Queue, n
<1>7. Mutual(q) /\ Undone(q)
  BY <1>4, <1>5 DEF Mutual, Undone, Queue
<1> QED BY <1>3, <1>5, <1>6, <1>7 DEF InStep

-----------------------------------------------------------------------------
(***************************************************************************)
(* The steps of the traversal                                              *)
(***************************************************************************)
Tables == Webs /\ colp \in Seq(Rows)

LEMMA Carried ==
  ASSUME NEW v, InStep(v, step'), v.np = w.np, w' = v, colp' = colp
  PROVE  Traversed' /\ w'.np = w.np
BY DEF Traversed, InStep, Sized, Mutual, Reached, InQueue, WasChosen, Joint, At, Undone, Clean

LEMMA RowRead ==
  ASSUME colp \in Seq(Rows), NEW i
  PROVE  /\ i \in DOMAIN colp => At(i) \in Rows
         /\ \A h \in DOMAIN colp : SameStart(i, h) => i \in DOMAIN colp
<1>1. i \in DOMAIN colp => At(i) \in Rows
  BY DEF At
<1>2. ASSUME NEW h \in DOMAIN colp, SameStart(i, h) PROVE i \in DOMAIN colp
  <2>1. At(h) \in Rows /\ At(i)[2] = At(h)[2]
    BY <1>2 DEF At, SameStart
  <2>2. At(i)[2] # 0
    BY <2>1, PointsArePositive DEF Rows
  <2> QED BY <2>2 DEF At
<1> QED BY <1>1, <1>2

LEMMA TurnKeeps ==
  ASSUME Traversed, Tables, Turn
  PROVE  Traversed' /\ w'.np = w.np
<1>1. /\ Sized(w) /\ Mutual(w) /\ Undone(w) /\ w \in Work /\ Picks(w.groups) /\ w.turn <= Len(w.groups)
      /\ w.groups \in Seq(Groups) /\ Len(w.groups) \in Nat /\ w.turn \in Nat
      /\ colp \in Seq(Rows) /\ colp' = colp
  <2>1. step = "turn" /\ colp' = colp
    BY DEF Turn, Traverse, Rest
  <2>2. Sized(w) /\ Mutual(w) /\ Undone(w)
    BY <2>1 DEF Traversed, InStep
  <2>3. w \in Work /\ Picks(w.groups) /\ w.turn <= Len(w.groups)
    BY <2>2 DEF Sized, Picks
  <2>4. w.groups \in Seq(Groups) /\ w.turn \in Nat
    BY <2>3 DEF Work
  <2> QED BY <2>1, <2>2, <2>3, <2>4 DEF Tables
<1> DEFINE b == w.turn
           Pick(n) == [w EXCEPT !.groups[b].pick = n]
<1>2. ASSUME w.turn > 0, NEW n \in DOMAIN w.groups[b].alts, NEW m \in 0 .. Len(w.groups)
      PROVE  LET v == Pick(n)
                 u == [v EXCEPT !.turn = m]
             IN /\ Sized(v) /\ Mutual(v) /\ Undone(v) /\ v.np = w.np /\ Len(v.groups) = Len(w.groups)
                /\ v.turn = w.turn
                /\ Sized(u) /\ Mutual(u) /\ Undone(u) /\ u.np = w.np
  <2>1. b \in DOMAIN w.groups
    BY <1>1, <1>2
  <2>2. w.groups[b] \in Groups /\ w.groups[b].alts \in Seq(Points)
    <3>1. w.groups[b] \in Groups
      BY <1>1, <2>1
    <3> QED BY <3>1 DEF Groups
  <2> DEFINE g == [w.groups[b] EXCEPT !.pick = n]
             gs == [w.groups EXCEPT ![b] = g]
             v == [w EXCEPT !.groups = gs]
             u == [v EXCEPT !.turn = m]
  <2>3. n \in Nat
    BY <1>2, <2>2
  <2>4. g \in Groups /\ g.pick \in DOMAIN g.alts
    BY <1>2, <2>2, <2>3 DEF Groups
  <2>5. Pick(n) = v
    OBVIOUS
  <2> HIDE DEF g
  <2>6. gs \in Seq(Groups) /\ Len(gs) = Len(w.groups) /\ Picks(gs)
    <3>1. gs \in Seq(Groups) /\ Len(gs) = Len(w.groups) /\ DOMAIN gs = DOMAIN w.groups
      BY <1>1, <2>1, <2>4
    <3>2. \A i \in DOMAIN w.groups : gs[i] = IF i = b THEN g ELSE w.groups[i]
      BY <2>1
    <3> QED BY <1>1, <2>4, <3>1, <3>2 DEF Picks
  <2> HIDE DEF gs
  <2> DEFINE Same(q) == /\ q.np = w.np /\ q.k = w.k /\ q.dw = w.dw /\ Marks(q, w) /\ Queue(q, w) /\ Pairs(q, w)
                        /\ q.groups = gs
  <2>7. v \in Work /\ Same(v) /\ v.turn = w.turn
    BY <1>1, <2>6 DEF Work, Marks, Queue, Pairs
  <2> HIDE DEF v
  <2>8. u \in Work /\ Same(u) /\ u.turn = m
    <3>1. m \in Nat
      BY <1>1
    <3> HIDE DEF gs
    <3> QED BY <2>7, <3>1 DEF Work, Marks, Queue, Pairs
  <2> HIDE DEF u
  <2>9. ASSUME NEW q \in Work, Same(q), q.turn <= Len(w.groups)
        PROVE  Sized(q) /\ Mutual(q) /\ Undone(q)
    <3>1. Sized(q)
      BY <1>1, <2>6, <2>9 DEF Sized, Marks, Queue, Picks
    <3>2. Mutual(q) /\ Undone(q)
      BY <1>1, <2>9 DEF Mutual, Undone, Queue, Pairs
    <3> QED BY <3>1, <3>2
  <2>10. Sized(v) /\ Mutual(v) /\ Undone(v) /\ Sized(u) /\ Mutual(u) /\ Undone(u)
    BY <1>1, <2>7, <2>8, <2>9
  <2> QED BY <2>5, <2>6, <2>7, <2>8, <2>10 DEF u
<1> DEFINE g == w.groups[b]
           next == Pick(g.pick + 1)
           full == Len(clusters) > MaxGroups
           last == [w EXCEPT !.groups[w.turn].pick = 1, !.turn = @ - 1]
<1>3. \/ w.turn = 0 /\ step' \in {"final", "release"} /\ w' = w
      \/ w.turn > 0 /\ g.pick < Len(g.alts) /\ step' = "turn" /\ w' = Abandon(next)
      \/ w.turn > 0 /\ g.pick < Len(g.alts) /\ Chosen(next) /\ step' = "gather" /\ w' = Begin(Choose(next))
      \/ w.turn > 0 /\ g.pick < Len(g.alts) /\ Chosen(next) /\ step' = "final" /\ w' = Choose(next)
      \/ w.turn > 0 /\ step' = "turn" /\ w' = last
  BY DEF Turn, To
<1>4. w.turn > 0 => g \in Groups /\ g.pick \in DOMAIN g.alts /\ g.alts \in Seq(Points)
  <2> HAVE w.turn > 0
  <2>1. b \in DOMAIN w.groups
    BY <1>1
  <2>2. g \in Groups /\ g.pick \in DOMAIN g.alts
    BY <1>1, <2>1 DEF Picks
  <2> QED BY <2>2 DEF Groups
<1>5. w.turn > 0 /\ g.pick < Len(g.alts) => g.pick + 1 \in DOMAIN g.alts
  <2> HAVE w.turn > 0 /\ g.pick < Len(g.alts)
  <2>1. g.pick \in 1 .. Len(g.alts) /\ Len(g.alts) \in Nat
    BY <1>4
  <2> QED BY <1>4, <2>1
<1> HIDE DEF g
<1>6. w.turn > 0 /\ g.pick < Len(g.alts) => Sized(next) /\ Mutual(next) /\ Undone(next) /\ next.np = w.np
  <2> HAVE w.turn > 0 /\ g.pick < Len(g.alts)
  <2>1. g.pick + 1 \in DOMAIN w.groups[b].alts /\ 0 \in 0 .. Len(w.groups)
    BY <1>1, <1>5 DEF g
  <2> HIDE DEF Pick
  <2> QED BY <1>2, <2>1
<1>7. last = [Pick(1) EXCEPT !.turn = b - 1]
  BY <1>1 DEF Work
<1> HIDE DEF next, last, Pick
<1>8. CASE w.turn = 0 /\ step' \in {"final", "release"} /\ w' = w
  <2>1. InStep(w, step')
    BY <1>1, <1>8 DEF InStep
  <2> QED BY <1>1, <1>8, <2>1, Carried
<1>9. CASE w.turn > 0 /\ g.pick < Len(g.alts) /\ step' = "turn" /\ w' = Abandon(next)
  <2>1. InStep(Abandon(next), "turn") /\ Abandon(next).np = w.np
    BY <1>6, <1>9, Abandoned
  <2> QED BY <1>1, <1>9, <2>1, Carried
<1>10. ASSUME w.turn > 0, g.pick < Len(g.alts), Chosen(next)
       PROVE  LET q == Choose(next)
              IN /\ Sized(q) /\ Mutual(q) /\ q.np = w.np
                 /\ InStep(Begin(q), "gather") /\ Begin(q).np = w.np
  <2> DEFINE q == Choose(next)
  <2>1. /\ q.np = next.np /\ q.k = next.k /\ q.qq = next.qq /\ q.queued = next.queued /\ Sized(q) /\ Mutual(q)
        /\ \A p \in Points : q.tq[p] # 0 => next.tq[p] # 0 \/ WasChosen(q, p)
    BY <1>6, <1>10, ChoicesMade
  <2> HIDE DEF q
  <2>2. /\ q.qq # <<>> /\ q.k \in 1 .. q.np - 1 /\ q.queued = {}
        /\ \A p \in Points : q.tq[p] # 0 => p = q.qq[1] \/ WasChosen(q, p)
    BY <1>6, <1>10, <2>1 DEF Undone
  <2>3. InStep(Begin(q), "gather") /\ Begin(q).np = q.np
    BY <1>1, <2>1, <2>2, PathBegins
  <2> QED BY <1>6, <1>10, <2>1, <2>3 DEF q
<1>11. CASE w.turn > 0 /\ g.pick < Len(g.alts) /\ Chosen(next) /\ step' = "gather" /\ w' = Begin(Choose(next))
  BY <1>1, <1>10, <1>11, Carried
<1>12. CASE w.turn > 0 /\ g.pick < Len(g.alts) /\ Chosen(next) /\ step' = "final" /\ w' = Choose(next)
  <2>1. InStep(Choose(next), "final") /\ Choose(next).np = w.np
    BY <1>10, <1>12 DEF InStep
  <2> QED BY <1>1, <1>12, <2>1, Carried
<1>13. CASE w.turn > 0 /\ step' = "turn" /\ w' = last
  <2>1. 1 \in DOMAIN w.groups[b].alts
    BY <1>4, <1>13 DEF g
  <2>2. b - 1 \in 0 .. Len(w.groups)
    BY <1>1, <1>13
  <2>3. Sized(last) /\ Mutual(last) /\ Undone(last) /\ last.np = w.np
    BY <1>2, <1>7, <1>13, <2>1, <2>2
  <2>4. InStep(last, "turn")
    BY <2>3 DEF InStep
  <2> QED BY <1>1, <1>13, <2>3, <2>4, Carried
<1> QED BY <1>3, <1>8, <1>9, <1>11, <1>12, <1>13

LEMMA NextRowKeeps ==
  ASSUME Traversed, Tables, NextRow
  PROVE  Traversed' /\ w'.np = w.np
<1>1. /\ Sized(w) /\ Mutual(w) /\ Clean(w) /\ w \in Work /\ w.k \in Nat \ {0} /\ w.np \in Nat
      /\ w.np <= Len(colp) /\ colp \in Seq(Rows) /\ colp' = colp
  <2>1. step = "pair" /\ colp' = colp /\ colp \in Seq(Rows)
    BY DEF NextRow, Traverse, Rest, Tables
  <2>2. Sized(w) /\ Mutual(w) /\ Clean(w)
    BY <2>1 DEF Traversed, InStep
  <2>3. w \in Work /\ w.np <= Len(colp) /\ w.k \in Nat \ {0}
    BY <2>2 DEF Sized, Clean
  <2> QED BY <2>1, <2>2, <2>3 DEF Work
<1> DEFINE r == At(w.k)
           onward == [w EXCEPT !.k = @ + 1]
           v == [w EXCEPT !.qq = <<r[2]>>, !.rq[r[4]] = r[2], !.tq[r[2]] = r[4]]
<1>2. \/ w' = w /\ step' = "final"
      \/ w' = onward /\ step' = "pair"
      \/ w.k < w.np /\ w' = Begin(v) /\ step' = "gather"
  BY DEF NextRow, To
<1>3. CASE w' = w /\ step' = "final"
  <2>1. InStep(w, "final")
    BY <1>1 DEF InStep
  <2> QED BY <1>1, <1>3, <2>1, Carried
<1>4. CASE w' = onward /\ step' = "pair"
  <2>1. w.k + 1 \in Nat \ {0}
    BY <1>1
  <2>2. /\ onward \in Work /\ Frame([onward EXCEPT !.k = w.k], w) /\ Marks(onward, w) /\ Queue(onward, w)
        /\ Pairs(onward, w) /\ onward.groups = w.groups /\ onward.k \in Nat \ {0} /\ onward.np = w.np
        /\ onward.dw = w.dw /\ onward.turn = w.turn
    BY <1>1, <2>1 DEF Work, Frame, Marks, Queue, Pairs
  <2> HIDE DEF onward
  <2>3. Sized(onward)
    BY <1>1, <2>2 DEF Sized, Marks, Queue
  <2>4. Mutual(onward) /\ Clean(onward)
    BY <1>1, <2>2 DEF Mutual, Clean, Queue, Pairs
  <2>5. InStep(onward, "pair")
    BY <2>3, <2>4 DEF InStep
  <2> QED BY <1>1, <1>4, <2>2, <2>5, Carried
<1>5. CASE w.k < w.np /\ w' = Begin(v) /\ step' = "gather"
  <2>1. w.k \in DOMAIN colp /\ w.k \in 1 .. w.np - 1
    BY <1>1, <1>5
  <2>2. r \in Rows
    BY <1>1, <2>1, RowRead
  <2>3. r[2] \in Points /\ r[4] \in Points /\ r[2] # 0 /\ r[4] # 0
    BY <2>2, PointsArePositive DEF Rows
  <2> HIDE DEF r
  <2> DEFINE a == r[2]
             c == r[4]
             rq == [w.rq EXCEPT ![c] = a]
             tq == [w.tq EXCEPT ![a] = c]
             v1 == [w EXCEPT !.qq = <<a>>]
             v2 == [v1 EXCEPT !.rq = rq]
             v3 == [v2 EXCEPT !.tq = tq]
  <2>4. <<a>> \in Seq(Points) /\ <<a>> # <<>> /\ <<a>>[1] = a /\ Len(<<a>>) = 1
    BY <2>3
  <2>5. w.rq \in [Points -> Partners] /\ w.tq \in [Points -> Partners]
    BY <1>1 DEF Work
  <2>6. rq \in [Points -> Partners] /\ tq \in [Points -> Partners]
    BY <2>3, <2>5 DEF Partners
  <2>7. /\ tq[a] = c /\ rq[c] = a
        /\ \A p \in Points : (p # a => tq[p] = 0) /\ (p # c => rq[p] = 0)
    BY <1>1, <2>3, <2>5 DEF Clean, NoPairs
  <2> HIDE DEF rq, tq
  <2> DEFINE Same(q) == /\ q.np = w.np /\ q.k = w.k /\ q.dw = w.dw /\ q.turn = w.turn /\ Marks(q, w)
                        /\ q.groups = w.groups /\ q.queued = w.queued /\ q.qq = <<a>>
  <2>8. v1 \in Work /\ Same(v1) /\ v1.rq = w.rq /\ v1.tq = w.tq
    BY <1>1, <2>4 DEF Work, Marks
  <2>9. v = v3
    BY <1>1, <2>8 DEF Work, rq, tq
  <2> HIDE DEF v1
  <2>10. v2 \in Work /\ Same(v2) /\ v2.rq = rq
    BY <2>6, <2>8 DEF Work, Marks
  <2> HIDE DEF v2
  <2>11. v3 \in Work /\ Same(v3) /\ v3.rq = rq /\ v3.tq = tq
    BY <2>6, <2>10 DEF Work, Marks
  <2> HIDE DEF v3, v
  <2>12. Sized(v)
    <3>1. Len(v.qq) <= QQ_SIZE
      BY <2>4, <2>9, <2>11, JobsAssumption
    <3> QED BY <1>1, <2>9, <2>11, <3>1 DEF Sized, Marks
  <2>13. Mutual(v)
    <3>1. \A p, q \in Points : tq[p] = q <=> rq[q] = p
      BY <2>3, <2>7, PointsArePositive
    <3> QED BY <2>9, <2>11, <3>1 DEF Mutual
  <2>14. v.qq # <<>> /\ v.k \in 1 .. v.np - 1 /\ v.queued = {} /\ v.np = w.np
    BY <1>1, <2>1, <2>4, <2>9, <2>11 DEF Clean
  <2>15. \A p \in Points : v.tq[p] # 0 => p = v.qq[1]
    BY <2>4, <2>7, <2>9, <2>11
  <2>16. InStep(Begin(v), "gather") /\ Begin(v).np = w.np
    BY <1>1, <2>12, <2>13, <2>14, <2>15, PathBegins
  <2> QED BY <1>1, <1>5, <2>16, Carried
<1> QED BY <1>2, <1>3, <1>4, <1>5

LEMMA ReleaseRowKeeps ==
  ASSUME Traversed, Tables, ReleaseRow
  PROVE  Traversed' /\ w'.np = w.np
<1>1. /\ Sized(w) /\ Mutual(w) /\ Undone(w) /\ w.turn = 0 /\ w \in Work /\ colp' = colp
      /\ step' = "pair" /\ w' = [Release(w, {w.qq[1]}) EXCEPT !.k = @ + 1, !.groups = <<>>, !.dw = 0]
      /\ w.qq \in Seq(Points) /\ w.k \in Nat \ {0}
  <2>1. /\ step = "release" /\ colp' = colp /\ step' = "pair"
        /\ w' = [Release(w, {w.qq[1]}) EXCEPT !.k = @ + 1, !.groups = <<>>, !.dw = 0]
    BY DEF ReleaseRow, Traverse, Rest, To
  <2>2. Sized(w) /\ Mutual(w) /\ Undone(w) /\ w.turn = 0
    BY <2>1 DEF Traversed, InStep
  <2>3. w \in Work /\ w.k \in 1 .. w.np - 1
    BY <2>2 DEF Sized, Undone
  <2>4. w.np \in Nat /\ w.qq \in Seq(Points)
    BY <2>3 DEF Work
  <2> QED BY <2>1, <2>2, <2>3, <2>4
<1> DEFINE r == Release(w, {w.qq[1]})
           v1 == [r EXCEPT !.k = @ + 1]
           v2 == [v1 EXCEPT !.groups = <<>>]
           v3 == [v2 EXCEPT !.dw = 0]
<1>2. w' = v3
  BY <1>1
<1>3. w.qq[1] \in Points
  BY <1>1 DEF Undone
<1>4. /\ r \in Work /\ Frame(r, w) /\ Marks(r, w) /\ Queue(r, w) /\ Mutual(r)
      /\ \A p \in Points : r.tq[p] = IF p = w.qq[1] THEN 0 ELSE w.tq[p]
  <2>1. {w.qq[1]} \in SUBSET Points
    BY <1>3
  <2> QED BY <1>1, <2>1, ReleaseKeeps
<1> HIDE DEF r
<1> DEFINE Same(q) == q.np = w.np /\ q.turn = w.turn /\ Marks(q, w) /\ Queue(q, w) /\ Pairs(q, r)
<1>5. v1 \in Work /\ Same(v1) /\ v1.k = w.k + 1
  <2>1. r.k = w.k /\ w.k + 1 \in Nat
    BY <1>1, <1>4 DEF Frame
  <2> QED BY <1>4, <2>1 DEF Work, Frame, Marks, Queue, Pairs
<1> HIDE DEF v1
<1>6. v2 \in Work /\ Same(v2) /\ v2.k = w.k + 1 /\ v2.groups = <<>>
  <2>1. <<>> \in Seq(Groups)
    OBVIOUS
  <2> QED BY <1>5, <2>1 DEF Work, Marks, Queue, Pairs
<1> HIDE DEF v2
<1>7. v3 \in Work /\ Same(v3) /\ v3.k = w.k + 1 /\ v3.groups = <<>> /\ v3.dw = 0
  BY <1>6 DEF Work, Marks, Queue, Pairs
<1> HIDE DEF v3
<1>8. \A p \in Points : v3.tq[p] = 0 /\ v3.rq[p] = 0
  <2>1. \A p \in Points : v3.tq[p] = 0
    BY <1>1, <1>4, <1>7 DEF Undone, Pairs
  <2>2. ASSUME NEW q \in Points PROVE v3.rq[q] = 0
    <3>1. r.rq[q] \in Partners
      BY <1>4 DEF Work
    <3>2. r.rq[q] \in Points => r.tq[r.rq[q]] = q
      BY <1>4 DEF Mutual
    <3> QED BY <1>7, <2>1, <3>1, <3>2, PointsArePositive DEF Pairs, Partners
  <2> QED BY <2>1, <2>2
<1>9. v3.tq = NoPairs /\ v3.rq = NoPairs
  <2>1. v3.tq \in [Points -> Partners] /\ v3.rq \in [Points -> Partners]
    BY <1>7 DEF Work
  <2> QED BY <1>8, <2>1 DEF NoPairs
<1>10. Clean(v3)
  <2>1. w.k + 1 \in Nat \ {0}
    BY <1>1
  <2> QED BY <1>1, <1>7, <1>9, <2>1 DEF Clean, Queue, Undone
<1>11. Sized(v3)
  <2>1. Len(v3.groups) = 0 /\ DOMAIN v3.groups = {}
    BY <1>7
  <2>2. Len(v3.groups) <= WWIM + 1 /\ v3.dw <= Len(v3.groups) /\ v3.turn <= Len(v3.groups)
    BY <1>1, <1>7, <2>1, JobsAssumption
  <2> QED BY <1>1, <1>7, <2>1, <2>2 DEF Sized, Marks, Queue
<1>12. Mutual(v3)
  BY <1>8, PointsArePositive DEF Mutual
<1>13. InStep(v3, "pair")
  BY <1>10, <1>11, <1>12 DEF InStep
<1> QED BY <1>1, <1>2, <1>7, <1>13, Carried

\* A path in the making, and what its steps may do besides sifting: move the cursors.
Path(v) == Sized(v) /\ Mutual(v) /\ Reached(v) /\ Joint(v)

Still(q, v) ==
    /\ q.np = v.np /\ q.k = v.k /\ q.dw = v.dw /\ q.turn = v.turn /\ Marks(q, v) /\ Queue(q, v) /\ Pairs(q, v)
    /\ q.groups = v.groups

LEMMA StillPath ==
  ASSUME NEW v, Path(v), NEW q \in Work, Still(q, v)
  PROVE  Path(q) /\ q.np = v.np /\ q.y = v.y /\ q.tq = v.tq
<1>1. Sized(q) /\ Mutual(q)
  BY DEF Still, Path, Sized, Mutual, Marks, Queue, Pairs
<1>2. Reached(q)
  BY DEF Still, Path, Reached, InQueue, WasChosen, Queue, Pairs
<1>3. Joint(q)
  BY DEF Still, Path, Joint, Marks, Pairs
<1> QED BY <1>1, <1>2, <1>3 DEF Still, Path, Marks, Pairs

LEMMA RowMoves ==
  ASSUME NEW v, Path(v), NEW kx \in Nat
  PROVE  LET a == [v EXCEPT !.kx = kx]
         IN Path(a) /\ a.np = v.np /\ a.kx = kx /\ a.y = v.y /\ a.tq = v.tq
<1> DEFINE a == [v EXCEPT !.kx = kx]
<1>1. v \in Work
  BY DEF Path, Sized
<1>2. a \in Work /\ Still(a, v) /\ a.kx = kx
  BY <1>1 DEF Work, Still, Marks, Queue, Pairs
<1> HIDE DEF a
<1>3. Path(a) /\ a.np = v.np /\ a.kx = kx /\ a.y = v.y /\ a.tq = v.tq
  BY <1>2, StillPath
<1> QED BY <1>3 DEF a

LEMMA QueueStarts ==
  ASSUME NEW v, Path(v), NEW kq \in Nat, NEW j \in Nat
  PROVE  LET b == [v EXCEPT !.kq = kq, !.j = j] IN Path(b) /\ b.np = v.np /\ b.j = j
<1> DEFINE b1 == [v EXCEPT !.kq = kq]
           b == [b1 EXCEPT !.j = j]
<1>1. v \in Work
  BY DEF Path, Sized
<1>2. b1 \in Work /\ Still(b1, v)
  BY <1>1 DEF Work, Still, Marks, Queue, Pairs
<1> HIDE DEF b1
<1>3. b \in Work /\ Still(b, v) /\ b.j = j
  BY <1>2 DEF Work, Still, Marks, Queue, Pairs
<1> HIDE DEF b
<1>4. Path(b) /\ b.np = v.np /\ b.j = j
  BY <1>3, StillPath
<1> QED BY <1>4 DEF b, b1

LEMMA QueueMoves ==
  ASSUME NEW v, Path(v), v.j \in Nat \ {0}
  PROVE  Path(NextEnd(v)) /\ NextEnd(v).np = v.np /\ NextEnd(v).j \in Nat \ {0}
<1> DEFINE c1 == [v EXCEPT !.j = v.j + 1]
           c == [c1 EXCEPT !.kx = v.kq]
<1>1. v \in Work
  BY DEF Path, Sized
<1>2. v.j + 1 \in Nat \ {0} /\ v.kq \in Nat
  BY <1>1 DEF Work
<1>3. c1 \in Work /\ Still(c1, v) /\ c1.j = v.j + 1
  BY <1>1, <1>2 DEF Work, Still, Marks, Queue, Pairs
<1>4. NextEnd(v) = c
  BY DEF NextEnd
<1> HIDE DEF c1
<1>5. c \in Work /\ Still(c, v) /\ c.j = v.j + 1
  BY <1>2, <1>3 DEF Work, Still, Marks, Queue, Pairs
<1> HIDE DEF c
<1> QED BY <1>2, <1>4, <1>5, StillPath

\* A row whose end is paired, or is paired by the sift, keeps the path joint.
LEMMA SiftKeepsPath ==
  ASSUME NEW v, Path(v), NEW r \in DOMAIN colp, NEW kz \in Points, NEW l \in Points, colp \in Seq(Rows),
         (kz = At(r)[3] /\ l = At(r)[5]) \/ v.tq[At(r)[3]] = At(r)[5]
  PROVE  LET q == bz_sift(v, r, kz, l)
         IN /\ Sized(q) /\ Mutual(q) /\ Reached(q) /\ Frame(q, v)
            /\ ~q.over => Path(q)
<1> DEFINE q == bz_sift(v, r, kz, l)
<1>1. Sifted(q, v, r, kz, l)
  BY Sift DEF Path
<1> HIDE DEF q
<1>2. ASSUME ~q.over PROVE Joint(q)
  <2>1. \A i \in DOMAIN colp : At(i)[3] \in Points /\ At(i)[5] \in Points /\ At(i)[5] # 0
    BY RowRead, PointsArePositive DEF Rows
  <2>2. \A i \in DOMAIN v.y : v.y[i] \in DOMAIN colp /\ q.tq[At(v.y[i])[3]] = At(v.y[i])[5]
    <3> SUFFICES ASSUME NEW i \in DOMAIN v.y
                 PROVE  v.y[i] \in DOMAIN colp /\ q.tq[At(v.y[i])[3]] = At(v.y[i])[5]
      OBVIOUS
    <3>1. v.y[i] \in DOMAIN colp
      BY DEF Path, Sized
    <3>2. v.tq[At(v.y[i])[3]] = At(v.y[i])[5]
      BY DEF Path, Joint
    <3> QED BY <1>1, <2>1, <3>1, <3>2 DEF Sifted
  <2>3. CASE q.y = v.y
    BY <2>2, <2>3 DEF Joint
  <2>4. CASE q.y = Append(v.y, r) /\ q.tq[kz] = l
    <3>1. q.tq[At(r)[3]] = At(r)[5]
      BY <1>1, <2>1, <2>4 DEF Sifted
    <3>2. v.y \in Seq(Nat)
      BY DEF Path, Sized, Work
    <3>3. r \in Nat
      OBVIOUS
    <3>4. \A i \in DOMAIN q.y : q.y[i] = r \/ (i \in DOMAIN v.y /\ q.y[i] = v.y[i])
      BY <2>4, <3>2, <3>3
    <3> QED BY <2>2, <3>1, <3>4 DEF Joint
  <2> QED BY <1>1, <1>2, <2>3, <2>4 DEF Sifted
<1> QED BY <1>1, <1>2 DEF Sifted, Path, q

LEMMA EndsSifted ==
  ASSUME NEW v, Path(v), v.kx \in DOMAIN colp, colp \in Seq(Rows)
  PROVE  LET q == SiftEnds(v)
         IN /\ Sized(q) /\ Mutual(q) /\ Reached(q) /\ Frame(q, v)
            /\ ~q.over => Path(q)
<1>1. At(v.kx) \in Rows
  BY RowRead
<1>2. At(v.kx)[3] \in Points /\ At(v.kx)[5] \in Points
  BY <1>1 DEF Rows
<1> QED BY <1>2, SiftKeepsPath DEF SiftEnds

LEMMA GatherRowKeeps ==
  ASSUME Traversed, Tables, GatherRow
  PROVE  Traversed' /\ w'.np = w.np
<1> DEFINE v == SiftEnds(w)
           a == [v EXCEPT !.kx = @ + 1]
           b == [v EXCEPT !.kq = w.kx, !.j = 2]
<1>1. /\ Path(w) /\ w.kx \in DOMAIN colp /\ colp \in Seq(Rows) /\ colp' = colp
      /\ w.kx \in Nat /\ w.k \in DOMAIN colp
  <2>1. step = "gather" /\ colp' = colp /\ colp \in Seq(Rows)
    BY DEF GatherRow, Traverse, Rest, Tables
  <2>2. Path(w) /\ w.kx \in DOMAIN colp
    BY <2>1 DEF Traversed, InStep, Path
  <2>3. w \in Work /\ w.np <= Len(colp) /\ w.k \in 1 .. w.np - 1
    BY <2>2 DEF Path, Sized, Reached
  <2>4. w.np \in Nat
    BY <2>3 DEF Work
  <2>5. w.k \in DOMAIN colp
    BY <2>1, <2>3, <2>4
  <2> QED BY <2>1, <2>2, <2>5
<1>2. /\ Sized(v) /\ Mutual(v) /\ Reached(v) /\ v.np = w.np /\ v.kx = w.kx
      /\ ~v.over => Path(v)
  BY <1>1, EndsSifted DEF Frame
<1>3. \/ w' = v /\ step' = "end"
      \/ ~v.over /\ SameStart(w.kx + 1, w.k) /\ w' = a /\ step' = "gather"
      \/ ~v.over /\ w' = b /\ step' = "back"
  BY DEF GatherRow, To
<1> HIDE DEF v
<1>4. CASE w' = v /\ step' = "end"
  <2>1. InStep(v, "end")
    BY <1>2 DEF InStep
  <2> QED BY <1>1, <1>2, <1>4, <2>1, Carried
<1>5. CASE ~v.over /\ SameStart(w.kx + 1, w.k) /\ w' = a /\ step' = "gather"
  <2>1. w.kx + 1 \in DOMAIN colp /\ w.kx + 1 \in Nat
    BY <1>1, <1>5, RowRead
  <2>2. a = [v EXCEPT !.kx = w.kx + 1]
    BY <1>2
  <2>3. Path(a) /\ a.np = w.np /\ a.kx = w.kx + 1
    BY <1>2, <1>5, <2>1, <2>2, RowMoves
  <2>4. InStep(a, "gather")
    BY <2>1, <2>3 DEF InStep, Path
  <2> QED BY <1>1, <1>5, <2>3, <2>4, Carried
<1>6. CASE ~v.over /\ w' = b /\ step' = "back"
  <2>1. Path(b) /\ b.np = w.np /\ b.j = 2
    <3>1. \A kq, j \in Nat : LET q == [v EXCEPT !.kq = kq, !.j = j] IN Path(q) /\ q.np = v.np /\ q.j = j
      BY <1>2, <1>6, QueueStarts
    <3>2. w.kx \in Nat /\ 2 \in Nat
      BY <1>1
    <3> QED BY <1>2, <3>1, <3>2
  <2>2. InStep(b, "back")
    BY <2>1 DEF InStep, Path
  <2> QED BY <1>1, <1>6, <2>1, <2>2, Carried
<1> QED BY <1>3, <1>4, <1>5, <1>6

LEMMA FollowRunKeeps ==
  ASSUME Traversed, Tables, FollowRun
  PROVE  Traversed' /\ w'.np = w.np
<1> DEFINE v == SiftEnds(w)
           a == [v EXCEPT !.kx = @ + 1]
<1>1. Path(w) /\ w.kx \in DOMAIN colp /\ colp \in Seq(Rows) /\ colp' = colp /\ w.j \in Nat \ {0}
  <2>1. step = "run" /\ colp' = colp /\ colp \in Seq(Rows)
    BY DEF FollowRun, Traverse, Rest, Tables
  <2> QED BY <2>1 DEF Traversed, InStep, Path
<1>2. /\ Sized(v) /\ Mutual(v) /\ Reached(v) /\ v.np = w.np /\ v.kx = w.kx /\ v.j = w.j
      /\ ~v.over => Path(v)
  BY <1>1, EndsSifted DEF Frame
<1>3. \/ w' = v /\ step' = "end"
      \/ ~v.over /\ SameStart(w.kx + 1, w.kx) /\ w' = a /\ step' = "run"
      \/ ~v.over /\ w' = NextEnd(v) /\ step' = "back"
  BY DEF FollowRun, To
<1> HIDE DEF v
<1>4. CASE w' = v /\ step' = "end"
  <2>1. InStep(v, "end")
    BY <1>2 DEF InStep
  <2> QED BY <1>1, <1>2, <1>4, <2>1, Carried
<1>5. CASE ~v.over /\ SameStart(w.kx + 1, w.kx) /\ w' = a /\ step' = "run"
  <2>1. w.kx + 1 \in DOMAIN colp /\ w.kx + 1 \in Nat
    BY <1>1, <1>5, RowRead
  <2>2. a = [v EXCEPT !.kx = w.kx + 1]
    BY <1>2
  <2>3. Path(a) /\ a.np = w.np /\ a.kx = w.kx + 1
    BY <1>2, <1>5, <2>1, <2>2, RowMoves
  <2>4. a.j = w.j
    BY <1>2, <2>2 DEF Sized, Work
  <2>5. InStep(a, "run")
    <3> HIDE DEF a
    <3> QED BY <1>1, <2>1, <2>3, <2>4 DEF InStep, Path
  <2> QED BY <1>1, <1>5, <2>3, <2>5, Carried
<1>6. CASE ~v.over /\ w' = NextEnd(v) /\ step' = "back"
  <2>1. Path(NextEnd(v)) /\ NextEnd(v).np = w.np /\ NextEnd(v).j \in Nat \ {0}
    BY <1>1, <1>2, <1>6, QueueMoves
  <2>2. InStep(NextEnd(v), "back")
    BY <2>1 DEF InStep, Path
  <2> QED BY <1>1, <1>6, <2>1, <2>2, Carried
<1> QED BY <1>3, <1>4, <1>5, <1>6

LEMMA QueueRead ==
  ASSUME Traversed, Tables, step = "back"
  PROVE  /\ Path(w) /\ w.j \in Nat \ {0} /\ w.np \in Nat /\ w.np <= Len(colp) /\ w.kx \in Nat /\ w.kq \in Nat
         /\ colp \in Seq(Rows) /\ 1 .. w.np \subseteq DOMAIN colp
         /\ w.j <= Len(w.qq) => w.qq[w.j] \in Points
<1>1. Path(w) /\ w.j \in Nat \ {0} /\ colp \in Seq(Rows)
  BY DEF Traversed, InStep, Path, Tables
<1>2. w \in Work /\ w.np <= Len(colp)
  BY <1>1 DEF Path, Sized
<1>3. w.np \in Nat /\ w.kx \in Nat /\ w.kq \in Nat /\ w.qq \in Seq(Points)
  BY <1>2 DEF Work
<1> QED BY <1>1, <1>2, <1>3

LEMMA FollowBackKeeps ==
  ASSUME Traversed, Tables, FollowBack
  PROVE  Traversed' /\ w'.np = w.np
<1>1. PICK i \in First(Backward) : w' = SiftStarts(w, i)
  BY DEF FollowBack
<1>2. step = "back" /\ w.j <= Len(w.qq) /\ step' = (IF w'.over THEN "end" ELSE "back") /\ colp' = colp
  BY DEF FollowBack, Traverse, Rest, To
<1>3. /\ Path(w) /\ w.j \in Nat \ {0} /\ w.np \in Nat /\ w.kx \in Nat
      /\ colp \in Seq(Rows) /\ 1 .. w.np \subseteq DOMAIN colp /\ w.qq[w.j] \in Points
  BY <1>2, QueueRead
<1>4. i \in DOMAIN colp /\ i \in Nat /\ w.tq[At(i)[3]] = At(i)[5]
  <2>1. i \in w.kx + 1 .. w.np /\ At(i)[3] = w.qq[w.j] /\ At(i)[5] = w.tq[w.qq[w.j]]
    BY <1>1 DEF First, Backward
  <2>2. i \in 1 .. w.np
    BY <1>3, <2>1
  <2> QED BY <1>3, <2>1, <2>2
<1> DEFINE v == [w EXCEPT !.kx = i]
           q == bz_sift(v, i, At(i)[2], At(i)[4])
<1>5. Path(v) /\ v.np = w.np /\ v.tq = w.tq /\ v.j = w.j
  <2>1. Path(v) /\ v.np = w.np /\ v.tq = w.tq
    BY <1>3, <1>4, RowMoves
  <2>2. w \in Work
    BY <1>3 DEF Path, Sized
  <2> QED BY <2>1, <2>2 DEF Work
<1> HIDE DEF v
<1>6. At(i)[2] \in Points /\ At(i)[4] \in Points
  <2>1. At(i) \in Rows
    BY <1>3, <1>4, RowRead
  <2> QED BY <2>1 DEF Rows
<1>7. /\ Sized(q) /\ Mutual(q) /\ Reached(q) /\ q.np = w.np /\ q.j = w.j
      /\ ~q.over => Path(q)
  BY <1>3, <1>4, <1>5, <1>6, SiftKeepsPath DEF Frame
<1>8. w' = q
  BY <1>1 DEF SiftStarts, v
<1> HIDE DEF q
<1>9. CASE q.over
  <2>1. InStep(q, "end") /\ step' = "end"
    BY <1>2, <1>7, <1>8, <1>9 DEF InStep
  <2> QED BY <1>2, <1>7, <1>8, <2>1, Carried
<1>10. CASE ~q.over
  <2>1. InStep(q, "back") /\ step' = "back"
    BY <1>2, <1>3, <1>7, <1>8, <1>10 DEF InStep, Path
  <2> QED BY <1>2, <1>7, <1>8, <2>1, Carried
<1> QED BY <1>9, <1>10

LEMMA FindRunKeeps ==
  ASSUME Traversed, Tables, FindRun
  PROVE  Traversed' /\ w'.np = w.np
<1>1. step = "back" /\ w.j <= Len(w.qq) /\ colp' = colp
  BY DEF FindRun, Traverse, Rest
<1>2. /\ Path(w) /\ w.j \in Nat \ {0} /\ w.np \in Nat /\ colp \in Seq(Rows) /\ 1 .. w.np \subseteq DOMAIN colp
  BY <1>1, QueueRead
<1>3. CASE step' = "back" /\ w' = NextEnd(w)
  <2>1. Path(NextEnd(w)) /\ NextEnd(w).np = w.np /\ NextEnd(w).j \in Nat \ {0}
    BY <1>2, QueueMoves
  <2>2. InStep(NextEnd(w), "back")
    BY <2>1 DEF InStep, Path
  <2> QED BY <1>1, <1>3, <2>1, <2>2, Carried
<1>4. ASSUME step' = "run", NEW i \in First(Onward), w' = [w EXCEPT !.kx = i]
      PROVE  Traversed' /\ w'.np = w.np
  <2>1. i \in 1 .. w.np
    BY DEF First, Onward
  <2>2. i \in DOMAIN colp /\ i \in Nat
    BY <1>2, <2>1
  <2> DEFINE a == [w EXCEPT !.kx = i]
  <2>3. Path(a) /\ a.np = w.np /\ a.kx = i /\ a.j = w.j
    <3>1. w \in Work
      BY <1>2 DEF Path, Sized
    <3> QED BY <1>2, <2>2, <3>1, RowMoves DEF Work
  <2>4. w' = a
    BY <1>4
  <2> HIDE DEF a
  <2>5. InStep(a, "run")
    BY <1>2, <2>2, <2>3 DEF InStep, Path
  <2> QED BY <1>1, <1>4, <2>3, <2>4, <2>5, Carried
<1> QED BY <1>3, <1>4 DEF FindRun, To

LEMMA RowsFreed ==
  ASSUME NEW v, Path(v), NEW K, colp \in Seq(Rows)
  PROVE  Path(FreeRows(v, K)) /\ FreeRows(v, K).np = v.np
<1> DEFINE sc == [r \in DOMAIN v.sc |-> IF \A i \in K : v.y[i] # r THEN v.sc[r]
                                        ELSE IF v.rk[r] = 0 THEN -1 ELSE v.rk[r]]
           v1 == [v EXCEPT !.ftt = @ - 1]
           v2 == [v1 EXCEPT !.sc = sc]
           Same(q) == /\ q.np = v.np /\ q.k = v.k /\ q.dw = v.dw /\ q.turn = v.turn /\ Queue(q, v) /\ Pairs(q, v)
                      /\ q.groups = v.groups /\ q.rk = v.rk /\ q.y = v.y
<1>1. v \in Work /\ Len(v.rk) = Len(colp) /\ Len(v.sc) = Len(colp)
  BY DEF Path, Sized
<1>2. v.ftt \in Int /\ v.sc \in Seq(Int) /\ v.rk \in Seq(Int)
  BY <1>1 DEF Work
<1>3. sc \in Seq(Int) /\ Len(sc) = Len(v.sc)
  <2>1. DOMAIN v.sc = 1 .. Len(v.sc) /\ DOMAIN v.rk = 1 .. Len(v.sc) /\ Len(v.sc) \in Nat
    BY <1>1, <1>2
  <2>2. \A r \in 1 .. Len(v.sc) : v.sc[r] \in Int /\ v.rk[r] \in Int
    BY <1>2, <2>1
  <2>3. -1 \in Int
    OBVIOUS
  <2>4. sc \in [1 .. Len(v.sc) -> Int]
    BY <2>1, <2>2, <2>3
  <2> HIDE DEF sc
  <2> QED BY <2>1, <2>4
<1>4. v1 \in Work /\ Same(v1) /\ v1.sc = v.sc
  <2>1. v.ftt - 1 \in Int
    BY <1>2
  <2> QED BY <1>1, <2>1 DEF Work, Queue, Pairs
<1>5. FreeRows(v, K) = v2
  BY <1>4 DEF FreeRows
<1> HIDE DEF sc, v1
<1>6. v2 \in Work /\ Same(v2) /\ v2.sc = sc
  BY <1>3, <1>4 DEF Work, Queue, Pairs
<1> HIDE DEF v2
<1>7. Sized(v2) /\ Mutual(v2)
  BY <1>1, <1>3, <1>6 DEF Path, Sized, Mutual, Queue, Pairs
<1>8. Reached(v2)
  BY <1>6 DEF Path, Reached, InQueue, WasChosen, Queue, Pairs
<1>9. Joint(v2)
  BY <1>6 DEF Path, Joint, Pairs
<1> QED BY <1>5, <1>6, <1>7, <1>8, <1>9 DEF Path

LEMMA JudgePathKeeps ==
  ASSUME Traversed, Tables, JudgePath
  PROVE  Traversed' /\ w'.np = w.np
<1>1. step = "back" /\ step' = "undo" /\ colp' = colp
  BY DEF JudgePath, Rest, To
<1>2. Path(w) /\ colp \in Seq(Rows)
  BY <1>1, QueueRead
<1>3. PICK K : w' = w \/ w' = FreeRows(w, K)
  BY DEF JudgePath
<1>4. ASSUME NEW v, Path(v), v.np = w.np, w' = v PROVE Traversed' /\ w'.np = w.np
  <2>1. InStep(v, "undo")
    BY <1>4 DEF InStep, Path
  <2> QED BY <1>1, <1>4, <2>1, Carried
<1>5. CASE w' = w
  BY <1>2, <1>4, <1>5
<1>6. CASE w' = FreeRows(w, K)
  BY <1>2, <1>4, <1>6, RowsFreed
<1> QED BY <1>3, <1>5, <1>6

LEMMA UndoPathKeeps ==
  ASSUME Traversed, Tables, UndoPath
  PROVE  Traversed' /\ w'.np = w.np
<1>1. step = "undo" /\ step' = "turn" /\ w' = Undo(w) /\ colp' = colp
  BY DEF UndoPath, Traverse, Rest, To
<1>2. Sized(w) /\ Mutual(w) /\ Reached(w)
  BY <1>1 DEF Traversed, InStep
<1>3. InStep(Undo(w), "turn") /\ Undo(w).np = w.np
  BY <1>2, UndoneByUndo
<1> QED BY <1>1, <1>3, Carried

\* The steps outside the traversal leave it as it is.
LEMMA OtherStepsKeep ==
  ASSUME Traversed, w' = w, colp' = colp, step' \in {"comp", "match", "final", "end"}
  PROVE  Traversed' /\ w'.np = w.np
<1>1. InStep(w, step')
  BY DEF Traversed, InStep
<1> QED BY <1>1, Carried

LEMMA FreshTyped ==
  ASSUME NEW np \in Nat, NEW size \in Nat, np <= size
  PROVE  LET v == Fresh(np, size)
         IN /\ v \in Work /\ Mutual(v) /\ Clean(v) /\ v.np <= size /\ Len(v.sc) = size /\ Len(v.rk) = size
            /\ v.y = <<>> /\ Len(v.qq) <= QQ_SIZE /\ Len(v.groups) <= WWIM + 1 /\ v.dw <= Len(v.groups)
            /\ v.turn <= Len(v.groups) /\ v.groups = <<>>
<1> DEFINE v == Fresh(np, size)
           zeros == [r \in 1 .. size |-> 0]
<1>1. zeros \in Seq(Int) /\ Len(zeros) = size
  <2>1. zeros \in [1 .. size -> Int]
    OBVIOUS
  <2> HIDE DEF zeros
  <2>2. zeros \in Seq(Int)
    BY <2>1
  <2> QED BY <2>1, <2>2
<1>2. NoPairs \in [Points -> Partners] /\ \A p, q \in Points : NoPairs[p] # q
  BY PointsArePositive DEF NoPairs, Partners
<1>3. <<>> \in Seq(Nat) /\ <<>> \in Seq(Points) /\ <<>> \in Seq(Groups) /\ Len(<<>>) = 0
  OBVIOUS
<1>4. /\ v.np = np /\ v.k = 1 /\ v.turn = 0 /\ v.dw = 0 /\ v.sc = zeros /\ v.rk = zeros /\ v.y = <<>>
      /\ v.qq = <<>> /\ v.queued = {} /\ v.tq = NoPairs /\ v.rq = NoPairs /\ v.groups = <<>>
  BY DEF Fresh
<1>5. v \in Work
  <2>1. {} \in SUBSET Points /\ FALSE \in BOOLEAN /\ 0 \in Nat /\ 1 \in Nat /\ 0 \in Int
    OBVIOUS
  <2> HIDE DEF zeros
  <2> QED BY <1>1, <1>2, <1>3, <2>1 DEF Fresh, Work, zeros
<1> HIDE DEF v, zeros
<1>6. Mutual(v) /\ Clean(v)
  BY <1>2, <1>4 DEF Mutual, Clean
<1>7. /\ v.np <= size /\ Len(v.sc) = size /\ Len(v.rk) = size /\ v.y = <<>>
      /\ Len(v.qq) <= QQ_SIZE /\ Len(v.groups) <= WWIM + 1 /\ v.dw <= Len(v.groups)
      /\ v.turn <= Len(v.groups) /\ v.groups = <<>>
  BY <1>1, <1>3, <1>4, JobsAssumption
<1> QED BY <1>5, <1>6, <1>7 DEF v

LEMMA FreshIsClean ==
  ASSUME NEW np \in Nat, NEW rows \in Seq(Rows), np <= Len(rows), Len(rows) \in Nat,
         colp' = rows, w' = Fresh(np, Len(rows)), step' \in {"pair", "end"}
  PROVE  Traversed'
<1>1. PICK v : v = Fresh(np, Len(rows))
  OBVIOUS
<1>2. /\ v \in Work /\ Mutual(v) /\ Clean(v) /\ v.np <= Len(rows) /\ Len(v.sc) = Len(rows)
      /\ Len(v.rk) = Len(rows) /\ v.y = <<>> /\ Len(v.qq) <= QQ_SIZE /\ Len(v.groups) <= WWIM + 1
      /\ v.dw <= Len(v.groups) /\ v.turn <= Len(v.groups) /\ v.groups = <<>>
  BY <1>1, FreshTyped
<1>3. w' = v
  BY <1>1
<1> QED BY <1>2, <1>3 DEF Traversed, InStep, Sized, Mutual, Clean

-----------------------------------------------------------------------------
(***************************************************************************)
(* The steps that build the tables                                         *)
(***************************************************************************)
\* What bz_match() has found so far, and what it need not look at again.
Searching ==
    /\ pairing.k \in Nat \ {0} /\ pairing.st \in 1 .. Len(web[2]) + 1
    /\ pairing.k = 1 \/ pairing.k <= Len(web[1])
    /\ pairing.pairs = Agreed(pairing.k - 1)
    /\ \A h \in pairing.k .. Len(web[1]), j \in 1 .. pairing.st - 1 : Passed(h, j)
Complete ==
    LET all == Agreed(Len(web[1]) - 1) IN Cardinality(all) <= MaxRows => Tabled(SubSeq(colp, 1, w.np), all)
Built ==
    /\ Tables
    /\ todo \in Seq(Template \X Template) /\ (step # "comp" => todo # <<>>)
    /\ step = "match" => Searching
    /\ step \notin {"comp", "match"} => Complete
    /\ step \in {"comp", "match", "pair", "gather", "back", "run", "undo", "turn", "release", "final", "end"}

LEMMA OverKeepsTable ==
  ASSUME NEW rows \in Seq(Rows), colp \in Seq(Rows)
  PROVE  /\ Over(rows) \in Seq(Rows) /\ Len(rows) <= Len(Over(rows)) /\ Len(Over(rows)) \in Nat
         /\ SubSeq(Over(rows), 1, Len(rows)) = rows
<1> DEFINE rest == SubSeq(colp, Len(rows) + 1, Len(colp))
           over == rows \o rest
<1>1. Len(rows) \in Nat /\ Len(colp) \in Nat
  OBVIOUS
<1>2. rest \in Seq(Rows)
  <2>1. Len(rows) + 1 \in Int /\ Len(colp) \in Int /\ \A i \in Len(rows) + 1 .. Len(colp) : colp[i] \in Rows
    BY <1>1
  <2> QED BY <2>1, SubSeqProperties
<1> HIDE DEF rest
<1>3. /\ over \in Seq(Rows) /\ Len(over) = Len(rows) + Len(rest)
      /\ \A i \in 1 .. Len(rows) : over[i] = rows[i]
  BY <1>2
<1>4. Len(rest) \in Nat
  BY <1>2
<1> HIDE DEF over
<1> DEFINE first == SubSeq(over, 1, Len(rows))
<1>5. first \in Seq(Rows) /\ Len(first) = Len(rows) /\ \A i \in 1 .. Len(rows) : first[i] = over[i]
  BY <1>1, <1>3, <1>4
<1> HIDE DEF first
<1>6. first = rows
  <2>1. \A i \in 1 .. Len(first) : first[i] = rows[i]
    BY <1>3, <1>5
  <2> QED BY <1>5, <2>1, SeqEqual
<1>7. Over(rows) = over
  BY DEF Over, over, rest
<1> QED BY <1>1, <1>3, <1>4, <1>6, <1>7 DEF first

LEMMA CompareBuilds ==
  ASSUME Built, Compare
  PROVE  Built'
<1>1. /\ todo # <<>> /\ todo' = todo /\ colp' = colp /\ step' = "match"
      /\ web' = <<bz_find(bz_comp(Probe)), bz_find(bz_comp(Gallery))>>
      /\ pairing' = [k |-> 1, st |-> 1, pairs |-> {}]
  BY DEF Compare, To
<1>2. todo \in Seq(Template \X Template) /\ colp \in Seq(Rows)
  BY DEF Built, Tables
<1>3. Probe \in Template /\ Gallery \in Template
  <2>1. todo[1] \in Template \X Template
    BY <1>1, <1>2
  <2> QED BY <2>1 DEF Probe, Gallery
<1>4. IsWeb(web'[1]) /\ IsWeb(web'[2]) /\ web' = <<web'[1], web'[2]>>
  BY <1>1, <1>3, WebBuilt
<1>5. Webs'
  BY <1>4 DEF Webs, IsWeb
<1>6. Searching'
  <2>1. web'[2] \in Seq(Edges)
    BY <1>4 DEF IsWeb
  <2>2. Len(web'[2]) \in Nat
    BY <2>1
  <2>3. pairing'.k = 1 /\ pairing'.st = 1 /\ pairing'.pairs = {}
    BY <1>1
  <2>4. 1 \in Nat \ {0} /\ 1 \in 1 .. Len(web'[2]) + 1 /\ 1 .. 1 - 1 = {}
    BY <2>2
  <2>5. Agreed(1 - 1)' = {}
    BY <2>4 DEF Agreed
  <2> QED BY <2>3, <2>4, <2>5 DEF Searching, Agreed
<1> QED BY <1>1, <1>2, <1>5, <1>6 DEF Built, Tables

LEMMA MatchEdgeBuilds ==
  ASSUME Built, MatchEdge
  PROVE  Built'
<1>0. PICK k, st : k = pairing.k /\ st = pairing.st
  OBVIOUS
<1>1. /\ step = "match" /\ k < Len(web[1]) /\ web' = web /\ colp' = colp /\ todo' = todo /\ step' = step
  BY <1>0 DEF MatchEdge
<1>2. PICK next \in st .. Len(web[2]) + 1 :
        /\ next = st \/ next - 1 \in Short(k, st)
        /\ pairing' = [k |-> k + 1, st |-> next, pairs |-> pairing.pairs \cup Fitting(k, st)]
  BY <1>0 DEF MatchEdge
<1>3. Searching /\ Webs
  BY <1>1 DEF Built, Tables
<1>4. /\ k \in Nat \ {0} /\ st \in 1 .. Len(web[2]) + 1 /\ pairing.pairs = Agreed(k - 1)
      /\ \A h \in k .. Len(web[1]), j \in 1 .. st - 1 : Passed(h, j)
  BY <1>0, <1>3 DEF Searching
<1>5. Len(web[1]) \in Nat /\ Len(web[2]) \in Nat
  BY <1>3 DEF Webs, IsWeb
<1>6. k \in 1 .. Len(web[1]) /\ k \in k .. Len(web[1])
  BY <1>1, <1>4, <1>5
<1>7. \A j \in 1 .. st - 1 : Passed(k, j)
  BY <1>4, <1>6
<1>8. /\ Fitting(k, st) = {c \in {k} \X (1 .. Len(web[2])) : Agree(c)}
      /\ \A h \in k .. Len(web[1]), j \in 1 .. next - 1 : Passed(h, j)
  BY <1>2, <1>3, <1>4, <1>6, <1>7, Searched
<1>9. Agreed(k - 1) \cup Fitting(k, st) = Agreed(k)
  <2>1. 1 .. k = (1 .. k - 1) \cup {k}
    BY <1>4
  <2> QED BY <1>8, <2>1 DEF Agreed
<1>10. next \in 1 .. Len(web[2]) + 1 /\ k + 1 \in Nat \ {0} /\ k + 1 <= Len(web[1]) /\ k + 1 - 1 = k
  BY <1>1, <1>4, <1>5
<1>11. \A h \in k + 1 .. Len(web[1]) : h \in k .. Len(web[1])
  BY <1>4, <1>5
<1>12. pairing'.k = k + 1 /\ pairing'.st = next /\ pairing'.pairs = Agreed(k)
  BY <1>0, <1>2, <1>4, <1>9
<1>13. Agreed(pairing.k - 1)' = Agreed(k)
  <2>1. pairing'.k - 1 = k
    <3>1. pairing'.k = k + 1
      BY <1>12
    <3>2. k \in Int
      BY <1>4
    <3> QED BY <3>1, <3>2
  <2> QED BY <1>1, <2>1 DEF Agreed, Agree, SameAngles
<1>14. \A h \in k + 1 .. Len(web[1]), j \in 1 .. next - 1 : Passed(h, j)'
  <2>1. \A h \in k + 1 .. Len(web[1]), j \in 1 .. next - 1 : Passed(h, j)
    BY <1>8, <1>11
  <2> QED BY <1>1, <2>1 DEF Passed
<1>15. Searching'
  <2>1. pairing'.k \in Nat \ {0} /\ pairing'.k <= Len(web'[1]) /\ pairing'.st \in 1 .. Len(web'[2]) + 1
    BY <1>1, <1>10, <1>12
  <2>2. \A h \in pairing'.k .. Len(web'[1]), j \in 1 .. pairing'.st - 1 : Passed(h, j)'
    BY <1>1, <1>12, <1>14
  <2>3. pairing'.pairs = Agreed(pairing.k - 1)'
    BY <1>12, <1>13
  <2> QED BY <2>1, <2>2, <2>3 DEF Searching
<1>16. Tables'
  BY <1>1 DEF Built, Tables, Webs, IsWeb
<1> QED BY <1>1, <1>15, <1>16 DEF Built

LEMMA MatchBuilds ==
  ASSUME Built, Match
  PROVE  Built' /\ Traversed'
<1>1. /\ step = "match" /\ pairing.k >= Len(web[1]) /\ web' = web /\ todo' = todo
      /\ step' \in {"end", "pair"} /\ colp' = Over(Table(pairing.pairs))
      /\ w' = Fresh(Len(Table(pairing.pairs)), Len(Over(Table(pairing.pairs))))
  BY DEF Match, To
<1>2. Searching /\ Webs /\ colp \in Seq(Rows)
  BY <1>1 DEF Built, Tables
<1>3. Len(web[1]) \in Nat /\ Len(web[2]) \in Nat
  BY <1>2 DEF Webs, IsWeb
<1>0. PICK all, rows : all = Agreed(Len(web[1]) - 1) /\ rows = Table(all)
  OBVIOUS
<1>4. pairing.pairs = all
  <2>1. /\ pairing.k \in Nat \ {0} /\ (pairing.k = 1 \/ pairing.k <= Len(web[1]))
        /\ pairing.pairs = Agreed(pairing.k - 1)
    BY <1>2 DEF Searching
  <2>2. CASE pairing.k = Len(web[1])
    BY <1>0, <2>1, <2>2
  <2>3. CASE pairing.k # Len(web[1])
    <3>1. pairing.k - 1 = 0 /\ Len(web[1]) - 1 < 1
      BY <1>1, <1>3, <2>1, <2>3
    <3>2. 1 .. pairing.k - 1 = {} /\ 1 .. Len(web[1]) - 1 = {}
      BY <1>3, <3>1
    <3> QED BY <1>0, <2>1, <3>2 DEF Agreed
  <2> QED BY <1>0, <2>2, <2>3
<1>5. all \in SUBSET Candidates
  BY <1>0, <1>3 DEF Agreed, Candidates
<1>6. rows \in Seq(Rows) /\ (Cardinality(all) <= MaxRows => Tabled(rows, all))
  BY <1>0, <1>2, <1>5, TableBuilt
<1>7. colp' = Over(rows) /\ w' = Fresh(Len(rows), Len(Over(rows)))
  BY <1>0, <1>1, <1>4
<1>8. /\ Over(rows) \in Seq(Rows) /\ Len(rows) <= Len(Over(rows)) /\ Len(Over(rows)) \in Nat
      /\ SubSeq(Over(rows), 1, Len(rows)) = rows /\ Len(rows) \in Nat
  BY <1>2, <1>6, OverKeepsTable
<1>9. Traversed'
  BY <1>1, <1>7, <1>8, FreshIsClean
<1>10. Agreed(Len(web[1]) - 1)' = all
  BY <1>0, <1>1 DEF Agreed, Agree, SameAngles
<1>11. SubSeq(colp, 1, w.np)' = rows
  BY <1>7, <1>8 DEF Fresh
<1>12. Cardinality(all) <= MaxRows => Tabled(rows, all)'
  BY <1>1, <1>6 DEF Tabled, RowOf
<1>13. Complete'
  BY <1>10, <1>11, <1>12 DEF Complete, Tabled
<1>14. Tables'
  BY <1>1, <1>2, <1>7, <1>8 DEF Tables, Webs, IsWeb
<1> QED BY <1>1, <1>9, <1>13, <1>14 DEF Built

LEMMA ReportBuilds ==
  ASSUME Built, Traversed, Report
  PROVE  Built' /\ Traversed'
<1>1. /\ step = "end" /\ step' = "comp" /\ todo' = Tail(todo)
      /\ web' = web /\ pairing' = pairing /\ colp' = colp /\ w' = w
  BY DEF Report, To, traversal
<1>2. todo \in Seq(Template \X Template) /\ todo # <<>>
  BY <1>1 DEF Built
<1>3. Tail(todo) \in Seq(Template \X Template)
  BY <1>2
<1>4. Traversed'
  BY <1>1, OtherStepsKeep
<1>5. Tables'
  BY <1>1 DEF Built, Tables, Webs, IsWeb
<1> QED BY <1>1, <1>3, <1>4, <1>5 DEF Built

LEMMA TableStays == web' = web /\ colp' = colp /\ w'.np = w.np /\ Complete => Complete'
<1>1. PICK all, rows : all = Agreed(Len(web[1]) - 1) /\ rows = SubSeq(colp, 1, w.np)
  OBVIOUS
<1>2. Complete => (Cardinality(all) <= MaxRows => Tabled(rows, all))
  BY <1>1 DEF Complete
<1>3. ASSUME web' = web, Tabled(rows, all)
      PROVE  Tabled(rows, all)'
  BY <1>3 DEF Tabled, RowOf
<1>4. web' = web => Agreed(Len(web[1]) - 1)' = all
  BY <1>1 DEF Agreed, Agree, SameAngles
<1>5. colp' = colp /\ w'.np = w.np => SubSeq(colp, 1, w.np)' = rows
  BY <1>1
<1>6. ASSUME Agreed(Len(web[1]) - 1)' = all, SubSeq(colp, 1, w.np)' = rows,
             Cardinality(all) <= MaxRows => Tabled(rows, all)'
      PROVE  Complete'
  BY <1>6 DEF Complete, Tabled
<1> QED BY <1>2, <1>3, <1>4, <1>5, <1>6

\* The tables stay as they are while they are traversed.
LEMMA TraversalKeepsTables ==
  ASSUME Built, Rest, step \notin {"comp", "match"}, w'.np = w.np,
         step' \in {"pair", "gather", "back", "run", "undo", "turn", "release", "final", "end"}
  PROVE  Built'
<1>1. web' = web /\ colp' = colp /\ todo' = todo /\ pairing' = pairing
  BY DEF Rest
<1>2. Tables' /\ todo \in Seq(Template \X Template) /\ todo # <<>>
  BY <1>1 DEF Built, Tables, Webs, IsWeb
<1>3. Complete
  BY DEF Built
<1>4. Complete'
  BY <1>1, <1>3, TableStays
<1> QED BY <1>1, <1>2, <1>4 DEF Built

-----------------------------------------------------------------------------
(***************************************************************************)
(* The invariants                                                          *)
(***************************************************************************)
LEMMA Beginning ==
  ASSUME Init
  PROVE  Built /\ Traversed
<1>1. /\ todo \in Jobs /\ web = <<<<>>, <<>>>> /\ colp = <<>> /\ step = "comp" /\ w = Fresh(0, 0)
  BY DEF Init
<1>2. todo \in Seq(Template \X Template)
  BY <1>1, JobsAssumption DEF Template
<1>3. Webs
  <2>1. IsWeb(<<>>)
    BY DEF IsWeb
  <2> QED BY <1>1, <2>1 DEF Webs
<1>4. Built
  BY <1>1, <1>2, <1>3 DEF Built, Tables
<1>5. Traversed
  <2>1. colp \in Seq(Rows) /\ Len(colp) = 0 /\ 0 \in Nat
    BY <1>1
  <2>2. /\ w \in Work /\ Mutual(w) /\ Clean(w) /\ w.np <= 0 /\ Len(w.sc) = 0 /\ Len(w.rk) = 0
        /\ w.y = <<>> /\ Len(w.qq) <= QQ_SIZE /\ Len(w.groups) <= WWIM + 1 /\ w.dw <= Len(w.groups)
        /\ w.turn <= Len(w.groups) /\ w.groups = <<>>
    BY <1>1, <2>1, FreshTyped
  <2> QED BY <1>1, <2>1, <2>2 DEF Traversed, InStep, Sized
<1> QED BY <1>4, <1>5

LEMMA StepKeeps ==
  ASSUME Built, Traversed, [Next]_vars
  PROVE  Built' /\ Traversed'
<1>0. Tables
  BY DEF Built
<1>1. CASE Compare
  <2>1. Built'
    BY <1>1, CompareBuilds
  <2>2. w' = w /\ colp' = colp /\ step' = "match"
    BY <1>1 DEF Compare, To, traversal
  <2> QED BY <2>1, <2>2, OtherStepsKeep
<1>2. CASE MatchEdge
  <2>1. Built'
    BY <1>2, MatchEdgeBuilds
  <2>2. w' = w /\ colp' = colp /\ step' = "match"
    BY <1>2 DEF MatchEdge, traversal
  <2> QED BY <2>1, <2>2, OtherStepsKeep
<1>3. CASE Match
  BY <1>3, MatchBuilds
<1>4. CASE NextRow
  <2>1. Rest /\ step = "pair" /\ step' \in {"final", "pair", "gather"}
    BY <1>4 DEF NextRow, To, Traverse
  <2> QED BY <1>0, <1>4, <2>1, NextRowKeeps, TraversalKeepsTables
<1>5. CASE GatherRow
  <2>1. Rest /\ step = "gather" /\ step' \in {"end", "gather", "back"}
    BY <1>5 DEF GatherRow, To, Traverse
  <2> QED BY <1>0, <1>5, <2>1, GatherRowKeeps, TraversalKeepsTables
<1>6. CASE FollowBack
  <2>1. Rest /\ step = "back" /\ step' \in {"end", "back"}
    BY <1>6 DEF FollowBack, To, Traverse
  <2> QED BY <1>0, <1>6, <2>1, FollowBackKeeps, TraversalKeepsTables
<1>7. CASE FindRun
  <2>1. Rest /\ step = "back" /\ step' \in {"run", "back"}
    BY <1>7 DEF FindRun, To, Traverse
  <2> QED BY <1>0, <1>7, <2>1, FindRunKeeps, TraversalKeepsTables
<1>8. CASE FollowRun
  <2>1. Rest /\ step = "run" /\ step' \in {"end", "run", "back"}
    BY <1>8 DEF FollowRun, To, Traverse
  <2> QED BY <1>0, <1>8, <2>1, FollowRunKeeps, TraversalKeepsTables
<1>9. CASE JudgePath
  <2>1. Rest /\ step = "back" /\ step' = "undo"
    BY <1>9 DEF JudgePath, To
  <2> QED BY <1>0, <1>9, <2>1, JudgePathKeeps, TraversalKeepsTables
<1>10. CASE UndoPath
  <2>1. Rest /\ step = "undo" /\ step' = "turn"
    BY <1>10 DEF UndoPath, To, Traverse
  <2> QED BY <1>0, <1>10, <2>1, UndoPathKeeps, TraversalKeepsTables
<1>11. CASE Turn
  <2>1. Rest /\ step = "turn" /\ step' \in {"final", "release", "turn", "gather"}
    BY <1>11 DEF Turn, To, Traverse
  <2> QED BY <1>0, <1>11, <2>1, TurnKeeps, TraversalKeepsTables
<1>12. CASE ReleaseRow
  <2>1. Rest /\ step = "release" /\ step' = "pair"
    BY <1>12 DEF ReleaseRow, To, Traverse
  <2> QED BY <1>0, <1>12, <2>1, ReleaseRowKeeps, TraversalKeepsTables
<1>13. CASE FinalLoop
  <2>1. Rest /\ step = "final" /\ step' = "end" /\ w' = w /\ colp' = colp
    BY <1>13 DEF FinalLoop, To, Rest
  <2>2. Traversed' /\ w'.np = w.np
    BY <2>1, OtherStepsKeep
  <2> QED BY <2>1, <2>2, TraversalKeepsTables
<1>14. CASE Report
  BY <1>14, ReportBuilds
<1>15. CASE UNCHANGED vars
  <2>1. /\ web' = web /\ colp' = colp /\ todo' = todo /\ pairing' = pairing /\ w' = w /\ step' = step
    BY <1>15 DEF vars
  <2>2. Tables'
    BY <1>0, <2>1 DEF Tables, Webs, IsWeb
  <2>3. step = "match" => Searching'
    BY <2>1 DEF Built, Searching, Agreed, Agree, SameAngles, Passed
  <2>4. step \notin {"comp", "match"} => Complete'
    BY <2>1, TableStays DEF Built
  <2>5. Built'
    BY <2>1, <2>2, <2>3, <2>4 DEF Built
  <2>6. InStep(w, step')
    BY <2>1 DEF Traversed
  <2>7. Traversed'
    BY <2>1, <2>6, Carried
  <2> QED BY <2>5, <2>7
<1> QED
  BY <1>1, <1>2, <1>3, <1>4, <1>5, <1>6, <1>7, <1>8, <1>9, <1>10, <1>11, <1>12, <1>13, <1>14, <1>15
  DEF Next

\* The invariant of a comparison: what bz_match() has found and need not look at again, and
\* the pairs, queue and choices of the traversal in each of its steps.
THEOREM Inductive == Spec => [](Built /\ Traversed)
<1>1. Init => Built /\ Traversed
  BY Beginning
<1>2. Built /\ Traversed /\ [Next]_vars => (Built /\ Traversed)'
  BY StepKeeps
<1> QED BY <1>1, <1>2, PTL DEF Spec

\* bz_match() leaves out no pair of edges that agree and takes none twice, in the order
\* that the searches of bz_match_score() need, although it never goes back to the edges it
\* skipped: whatever the templates are, if the table can hold the pairs.
THEOREM TableComplete == Spec => []PairsComplete
<1>1. Built => PairsComplete
  <2> SUFFICES ASSUME Built, step = "pair" PROVE PairsComplete
    BY DEF PairsComplete
  <2>1. Complete
    BY DEF Built
  <2> QED BY <2>1 DEF Complete, Agreed, Tabled, PairsComplete
<1> QED BY <1>1, Inductive, PTL

\* tq and rq pair the minutiae of the two templates one to one through every sift, every
\* path undone and every choice abandoned, and the rows of a path end at such pairs.
THEOREM OneToOneKept == Spec => []OneToOne
<1>1. Traversed => OneToOne
  BY DEF Traversed, InStep, Mutual, Joint, OneToOne
<1> QED BY <1>1, Inductive, PTL

\* The three places that undo pairs, queue and alternatives leave nothing of a row's paths
\* to the next row's.
THEOREM PathsCleaned == Spec => []PathsCleanedUp
<1>1. Traversed => PathsCleanedUp
  BY DEF Traversed, InStep, Clean, PathsCleanedUp
<1> QED BY <1>1, Inductive, PTL

\* No queue, group of alternatives, choice, mark or row leaves the table that holds it,
\* whatever the limits are; WWIM is exceeded by one group at most.
THEOREM TablesBound == Spec => []WithinTables
<1>1. Built /\ Traversed => WithinTables
  <2> SUFFICES ASSUME Built, Traversed PROVE WithinTables
    OBVIOUS
  <2>1. Sized(w)
    BY DEF Traversed, InStep
  <2>2. /\ w.tq \in [Points -> Partners] /\ w.rq \in [Points -> Partners] /\ w.qq \in Seq(Points)
        /\ w.groups \in Seq(Groups) /\ w.turn \in Nat /\ w.dw \in Nat /\ w.sc \in Seq(Int) /\ w.y \in Seq(Nat)
    BY <2>1 DEF Sized, Work
  <2>3. Range(w.qq) \subseteq Points
    BY <2>2 DEF Range
  <2>4. Range(w.y) \subseteq DOMAIN w.sc /\ w.np <= Len(w.sc)
    <3>1. colp \in Seq(Rows)
      BY DEF Built, Tables
    <3>2. DOMAIN w.sc = DOMAIN colp /\ w.np <= Len(w.sc)
      BY <2>1, <2>2, <3>1 DEF Sized
    <3> QED BY <2>1, <3>2 DEF Sized, Range
  <2>5. w.turn \in 0 .. Len(w.groups) /\ w.dw \in 0 .. Len(w.groups)
    BY <2>1, <2>2 DEF Sized
  <2> QED BY <2>1, <2>2, <2>3, <2>4, <2>5 DEF Sized, WithinTables, Partners
<1> QED BY <1>1, Inductive, PTL
-----------------------------------------------------------------------------
(***************************************************************************)
(* Sums                                                                    *)
(***************************************************************************)

\* The partial sums of the entries of s at the places K.
IsSum(f, s, K) ==
    /\ f \in [0 .. Len(s) -> Int] /\ f[0] = 0
    /\ \A n \in 1 .. Len(s) : f[n] = f[n - 1] + (IF n \in K THEN s[n] ELSE 0)

LEMMA Summed ==
  ASSUME NEW s \in Seq(Int), NEW K
  PROVE  \E f : IsSum(f, s, K) /\ Total(s, K) = f[Len(s)]
<1> DEFINE L == Len(s)
           E(f, n) == IF n = 0 THEN 0 ELSE f[n - 1] + (IF n \in K THEN s[n] ELSE 0)
           Good(f, m) == \A n \in 0 .. L : n < m => f[n] = E(f, n)
           T == {m \in Nat : \E f \in [0 .. L -> Int] : Good(f, m)}
<1>0. L \in Nat /\ \A n \in 1 .. L : s[n] \in Int
  OBVIOUS
<1> HIDE DEF L
<1>1. 0 \in T
  <2> DEFINE f == [n \in 0 .. L |-> 0]
  <2>1. f \in [0 .. L -> Int] /\ Good(f, 0)
    OBVIOUS
  <2> HIDE DEF f
  <2> QED BY <2>1
<1>2. ASSUME NEW m \in Nat, m \in T PROVE m + 1 \in T
  <2>1. PICK f \in [0 .. L -> Int] : Good(f, m)
    BY <1>2
  <2> DEFINE g == [n \in 0 .. L |-> E(f, n)]
  <2>2. \A n \in 0 .. L : E(f, n) \in Int
    BY <1>0
  <2>3. g \in [0 .. L -> Int]
    BY <2>2
  <2>4. ASSUME NEW n \in 0 .. L, n < m + 1 PROVE g[n] = E(g, n)
    <3>1. CASE n = 0
      BY <3>1
    <3>2. CASE n # 0
      <4>1. n - 1 \in 0 .. L /\ n - 1 < m
        BY <1>0, <2>4, <3>2
      <4>2. g[n - 1] = f[n - 1]
        BY <2>1, <4>1
      <4> QED BY <4>2
    <3> QED BY <3>1, <3>2
  <2> HIDE DEF g
  <2>5. Good(g, m + 1)
    BY <2>4
  <2> HIDE DEF Good
  <2> QED BY <2>3, <2>5
<1>3. Nat \subseteq T
  <2> HIDE DEF T
  <2> QED BY <1>1, <1>2, Induct
<1>4. L + 1 \in T
  BY <1>0, <1>3
<1>5. PICK f \in [0 .. L -> Int] : Good(f, L + 1)
  BY <1>4
<1>6. f = [n \in 0 .. L |-> E(f, n)]
  BY <1>0, <1>5
<1> DEFINE h == CHOOSE h : h = [n \in 0 .. L |-> E(h, n)]
<1>7. h = [n \in 0 .. L |-> E(h, n)]
  BY <1>6
<1>8. Total(s, K) = h[L]
  BY DEF Total, L
<1> HIDE DEF h
<1>9. DOMAIN h = 0 .. L /\ \A n \in 0 .. L : h[n] = E(h, n)
  BY <1>7
<1> DEFINE U == {n \in Nat : n <= L => h[n] \in Int}
<1>10. Nat \subseteq U
  <2>1. 0 \in U
    BY <1>0, <1>9
  <2>2. ASSUME NEW n \in Nat, n \in U PROVE n + 1 \in U
    <3>1. CASE n + 1 <= L
      <4>1. n + 1 \in 0 .. L /\ n + 1 \in 1 .. L /\ n + 1 - 1 = n /\ n <= L
        BY <1>0, <3>1
      <4>2. h[n] \in Int /\ s[n + 1] \in Int
        BY <1>0, <2>2, <4>1
      <4>3. h[n + 1] = h[n] + (IF n + 1 \in K THEN s[n + 1] ELSE 0)
        BY <1>9, <4>1
      <4> QED BY <4>2, <4>3
    <3> QED BY <3>1
  <2> HIDE DEF U
  <2> QED BY <2>1, <2>2, Induct
<1>11. \A n \in 0 .. L : h[n] \in Int
  BY <1>0, <1>10
<1>12. h \in [0 .. L -> Int] /\ h[0] = 0
  BY <1>0, <1>7, <1>9, <1>11
<1>13. \A n \in 1 .. L : h[n] = h[n - 1] + (IF n \in K THEN s[n] ELSE 0)
  BY <1>0, <1>9
<1> QED BY <1>8, <1>12, <1>13 DEF IsSum, L

LEMMA TotalTyped ==
  ASSUME NEW s \in Seq(Int), NEW K
  PROVE  Total(s, K) \in Int
<1>1. PICK f : IsSum(f, s, K) /\ Total(s, K) = f[Len(s)]
  BY Summed
<1>2. Len(s) \in 0 .. Len(s) /\ f \in [0 .. Len(s) -> Int]
  BY <1>1 DEF IsSum
<1> QED BY <1>1, <1>2

\* No entry of one counts for more than that of the other.
LEMMA TotalBelow ==
  ASSUME NEW s \in Seq(Int), NEW K, NEW J,
         \A n \in 1 .. Len(s) : (IF n \in K THEN s[n] ELSE 0) <= (IF n \in J THEN s[n] ELSE 0)
  PROVE  Total(s, K) <= Total(s, J)
<1>1. PICK f : IsSum(f, s, K) /\ Total(s, K) = f[Len(s)]
  BY Summed
<1>2. PICK g : IsSum(g, s, J) /\ Total(s, J) = g[Len(s)]
  BY Summed
<1> DEFINE L == Len(s)
           T == {n \in Nat : n <= L => f[n] <= g[n]}
<1>3. L \in Nat /\ \A n \in 0 .. L : f[n] \in Int /\ g[n] \in Int
  <2>1. f \in [0 .. L -> Int] /\ g \in [0 .. L -> Int]
    BY <1>1, <1>2 DEF IsSum
  <2> QED BY <2>1
<1>4. 0 \in T
  BY <1>1, <1>2 DEF IsSum
<1>5. ASSUME NEW n \in Nat, n \in T PROVE n + 1 \in T
  <2> SUFFICES ASSUME n + 1 <= L PROVE f[n + 1] <= g[n + 1]
    OBVIOUS
  <2>1. n \in 0 .. L /\ n + 1 \in 1 .. L /\ n + 1 - 1 = n /\ n <= L
    BY <1>3
  <2>2. f[n] <= g[n]
    BY <1>5, <2>1
  <2> DEFINE a == IF n + 1 \in K THEN s[n + 1] ELSE 0
             b == IF n + 1 \in J THEN s[n + 1] ELSE 0
  <2>3. f[n + 1] = f[n] + a /\ g[n + 1] = g[n] + b
    BY <1>1, <1>2, <2>1 DEF IsSum
  <2>4. a <= b
    BY <2>1
  <2>5. a \in Int /\ b \in Int
    BY <2>1
  <2> HIDE DEF a, b
  <2> QED BY <1>3, <2>1, <2>2, <2>3, <2>4, <2>5
<1>6. Nat \subseteq T
  <2> HIDE DEF T
  <2> QED BY <1>4, <1>5, Induct
<1> QED BY <1>1, <1>2, <1>3, <1>6

LEMMA TotalEmpty ==
  ASSUME NEW s \in Seq(Int)
  PROVE  Total(s, {}) = 0
<1>1. PICK f : IsSum(f, s, {}) /\ Total(s, {}) = f[Len(s)]
  BY Summed
<1> DEFINE T == {n \in Nat : n <= Len(s) => f[n] = 0}
<1>2. 0 \in T
  BY <1>1 DEF IsSum
<1>3. ASSUME NEW n \in Nat, n \in T PROVE n + 1 \in T
  <2> SUFFICES ASSUME n + 1 <= Len(s) PROVE f[n + 1] = 0
    OBVIOUS
  <2>1. n + 1 \in 1 .. Len(s) /\ n + 1 - 1 = n /\ n <= Len(s)
    OBVIOUS
  <2>2. f[n] = 0
    BY <1>3, <2>1
  <2> QED BY <1>1, <2>1, <2>2 DEF IsSum
<1>4. Nat \subseteq T
  <2> HIDE DEF T
  <2> QED BY <1>2, <1>3, Induct
<1> QED BY <1>1, <1>4

LEMMA TotalAdd ==
  ASSUME NEW s \in Seq(Int), NEW K, NEW j \in 1 .. Len(s), j \notin K
  PROVE  Total(s, K \cup {j}) = s[j] + Total(s, K)
<1>1. PICK f : IsSum(f, s, K) /\ Total(s, K) = f[Len(s)]
  BY Summed
<1>2. PICK g : IsSum(g, s, K \cup {j}) /\ Total(s, K \cup {j}) = g[Len(s)]
  BY Summed
<1> DEFINE L == Len(s)
           x == s[j]
           T == {n \in Nat : n <= L => g[n] = f[n] + (IF j <= n THEN x ELSE 0)}
<1>3. L \in Nat /\ j \in 1 .. L /\ x \in Int /\ \A n \in 0 .. L : f[n] \in Int /\ g[n] \in Int
  <2>1. f \in [0 .. L -> Int] /\ g \in [0 .. L -> Int]
    BY <1>1, <1>2 DEF IsSum
  <2> QED BY <2>1
<1>4. 0 \in T
  BY <1>1, <1>2, <1>3 DEF IsSum
<1>5. ASSUME NEW n \in Nat, n \in T PROVE n + 1 \in T
  <2> SUFFICES ASSUME n + 1 <= L PROVE g[n + 1] = f[n + 1] + (IF j <= n + 1 THEN x ELSE 0)
    OBVIOUS
  <2>1. n \in 0 .. L /\ n + 1 \in 1 .. L /\ n + 1 - 1 = n /\ n <= L
    BY <1>3
  <2>2. g[n] = f[n] + (IF j <= n THEN x ELSE 0)
    BY <1>5, <2>1
  <2> DEFINE a == IF n + 1 \in K THEN s[n + 1] ELSE 0
             b == IF n + 1 \in K \cup {j} THEN s[n + 1] ELSE 0
  <2>3. f[n + 1] = f[n] + a /\ g[n + 1] = g[n] + b
    BY <1>1, <1>2, <2>1 DEF IsSum
  <2>4. a \in Int /\ b \in Int /\ f[n] \in Int /\ f[n + 1] \in Int
    BY <1>3, <2>1
  <2>5. CASE n + 1 = j
    <3>1. a = 0 /\ b = x /\ ~(j <= n) /\ j <= n + 1
      BY <1>3, <2>5
    <3> HIDE DEF a, b, x
    <3> QED BY <1>3, <2>2, <2>3, <2>4, <3>1
  <2>6. CASE n + 1 # j
    <3>1. a = b /\ (j <= n <=> j <= n + 1)
      BY <1>3, <2>6
    <3> HIDE DEF a, b, x
    <3> QED BY <1>3, <2>2, <2>3, <2>4, <3>1
  <2> QED BY <2>5, <2>6
<1>6. Nat \subseteq T
  <2> HIDE DEF T
  <2> QED BY <1>4, <1>5, Induct
<1>7. g[L] = f[L] + x
  BY <1>3, <1>6
<1> QED BY <1>1, <1>2, <1>3, <1>7

LEMMA TotalAppend ==
  ASSUME NEW s \in Seq(Int), NEW x \in Int, NEW K, K \subseteq 1 .. Len(s)
  PROVE  Total(Append(s, x), K) = Total(s, K)
<1> DEFINE t == Append(s, x)
           L == Len(s)
<1>1. PICK f : IsSum(f, s, K) /\ Total(s, K) = f[Len(s)]
  BY Summed
<1>2. t \in Seq(Int) /\ Len(t) = L + 1 /\ L \in Nat /\ \A n \in 1 .. L : t[n] = s[n]
  OBVIOUS
<1>3. PICK g : IsSum(g, t, K) /\ Total(t, K) = g[L + 1]
  <2> HIDE DEF t
  <2> QED BY <1>2, Summed
<1> HIDE DEF t
<1> DEFINE T == {n \in Nat : n <= L => g[n] = f[n]}
<1>4. \A n \in 1 .. L : g[n] = g[n - 1] + (IF n \in K THEN s[n] ELSE 0)
  BY <1>2, <1>3 DEF IsSum
<1>5. 0 \in T
  BY <1>1, <1>3 DEF IsSum
<1>6. ASSUME NEW n \in Nat, n \in T PROVE n + 1 \in T
  <2> SUFFICES ASSUME n + 1 <= L PROVE g[n + 1] = f[n + 1]
    OBVIOUS
  <2>1. n + 1 \in 1 .. L /\ n + 1 - 1 = n /\ n <= L
    BY <1>2
  <2>2. g[n] = f[n]
    BY <1>6, <2>1
  <2> QED BY <1>1, <1>4, <2>1, <2>2 DEF IsSum
<1>7. Nat \subseteq T
  <2> HIDE DEF T
  <2> QED BY <1>5, <1>6, Induct
<1>8. g[L] = f[L] /\ g[L] \in Int
  BY <1>2, <1>3, <1>7 DEF IsSum
<1>9. L + 1 \notin K /\ L + 1 \in 1 .. L + 1 /\ L + 1 - 1 = L
  BY <1>2
<1>10. g[L + 1] = g[L]
  <2>1. g[L + 1] = g[L + 1 - 1] + (IF L + 1 \in K THEN t[L + 1] ELSE 0)
    BY <1>2, <1>3, <1>9 DEF IsSum
  <2>2. g[L + 1] = g[L] + 0
    BY <1>9, <2>1
  <2> QED BY <1>8, <2>2
<1> QED BY <1>1, <1>3, <1>8, <1>10 DEF t

\* A sum of angles.
LEMMA TotalBound ==
  ASSUME NEW a \in Seq(Degrees), NEW K, K \subseteq 1 .. Len(a)
  PROVE  /\ IsFiniteSet(K) /\ Cardinality(K) \in Nat /\ Total(a, K) \in Int
         /\ -180 * Cardinality(K) <= Total(a, K) /\ Total(a, K) <= 180 * Cardinality(K)
<1> DEFINE L == Len(a)
           C(n) == Cardinality(K \cap 1 .. n)
<1>1. L \in Nat /\ a \in Seq(Int) /\ \A n \in 1 .. L : a[n] \in Int /\ -180 <= a[n] /\ a[n] <= 180
  <2>1. \A d \in Degrees : d \in Int /\ -180 <= d /\ d <= 180
    BY DEF Degrees
  <2>2. L \in Nat /\ a \in [1 .. L -> Degrees]
    OBVIOUS
  <2>3. a \in [1 .. L -> Int]
    BY <2>1, <2>2
  <2> QED BY <2>1, <2>2, <2>3
<1>2. PICK f : IsSum(f, a, K) /\ Total(a, K) = f[L]
  BY <1>1, Summed
<1>3. \A n \in 0 .. L : f[n] \in Int
  BY <1>2 DEF IsSum
<1> DEFINE T == {n \in Nat : n <= L => -180 * C(n) <= f[n] /\ f[n] <= 180 * C(n)}
<1>4. ASSUME NEW n \in Nat PROVE IsFiniteSet(K \cap 1 .. n) /\ C(n) \in Nat
  <2>1. IsFiniteSet(1 .. n)
    BY FS_Interval
  <2>2. IsFiniteSet(K \cap 1 .. n)
    BY <2>1, FS_Intersection
  <2> QED BY <2>2, FS_CardinalityType
<1>5. 0 \in T
  <2>1. K \cap 1 .. 0 = {}
    OBVIOUS
  <2>2. C(0) = 0
    BY <2>1, FS_EmptySet
  <2>3. f[0] = 0
    BY <1>2 DEF IsSum
  <2> HIDE DEF C
  <2> QED BY <2>2, <2>3
<1>6. ASSUME NEW n \in Nat, n \in T PROVE n + 1 \in T
  <2> SUFFICES ASSUME n + 1 <= L PROVE -180 * C(n + 1) <= f[n + 1] /\ f[n + 1] <= 180 * C(n + 1)
    OBVIOUS
  <2>1. n \in 0 .. L /\ n + 1 \in 1 .. L /\ n + 1 - 1 = n /\ n <= L
    BY <1>1
  <2>2. f[n + 1] = f[n] + (IF n + 1 \in K THEN a[n + 1] ELSE 0)
    BY <1>2, <2>1 DEF IsSum
  <2>3. C(n) \in Nat /\ f[n] \in Int /\ a[n + 1] \in Int /\ -180 <= a[n + 1] /\ a[n + 1] <= 180
    BY <1>1, <1>3, <1>4, <2>1
  <2>4. -180 * C(n) <= f[n] /\ f[n] <= 180 * C(n)
    BY <1>6, <2>1
  <2>5. CASE n + 1 \in K
    <3>1. K \cap 1 .. n + 1 = (K \cap 1 .. n) \cup {n + 1} /\ n + 1 \notin K \cap 1 .. n
      BY <2>5
    <3>2. C(n + 1) = C(n) + 1
      BY <1>4, <3>1, FS_AddElement
    <3> HIDE DEF C
    <3> QED BY <2>2, <2>3, <2>4, <2>5, <3>2
  <2>6. CASE n + 1 \notin K
    <3>1. K \cap 1 .. n + 1 = K \cap 1 .. n
      BY <2>6
    <3>2. C(n + 1) = C(n)
      BY <3>1
    <3> HIDE DEF C
    <3> QED BY <2>2, <2>3, <2>4, <2>6, <3>2
  <2> QED BY <2>5, <2>6
<1>7. Nat \subseteq T
  <2> HIDE DEF T
  <2> QED BY <1>5, <1>6, Induct
<1>8. K \cap 1 .. L = K
  OBVIOUS
<1>9. -180 * C(L) <= f[L] /\ f[L] <= 180 * C(L)
  BY <1>1, <1>7
<1>10. IsFiniteSet(K) /\ C(L) = Cardinality(K) /\ Cardinality(K) \in Nat
  BY <1>1, <1>4, <1>8
<1>11. f[L] \in Int
  BY <1>1, <1>3
<1> HIDE DEF C
<1> QED BY <1>2, <1>9, <1>10, <1>11

LEMMA Quotient ==
  ASSUME NEW x \in Nat, NEW m \in Nat \ {0}, x <= 361 * m
  PROVE  x \div (2 * m) \in 0 .. 180
<1> DEFINE r == x \div (2 * m)
<1>1. 2 * m \in Nat \ {0}
  OBVIOUS
<1>2. r \in Int /\ (2 * m) * r <= x /\ x < (2 * m) * r + 2 * m
  <2> DEFINE d == 2 * m
  <2>1. d \in Nat \ {0}
    BY <1>1
  <2> HIDE DEF d
  <2>2. x \div d \in Int /\ d * (x \div d) <= x /\ x < d * (x \div d) + d
    BY <2>1
  <2> QED BY <2>2 DEF d
<1> HIDE DEF r
<1>3. 0 <= r
  <2> SUFFICES ASSUME r <= -1 PROVE FALSE
    BY <1>2
  <2>1. (2 * m) * r <= (2 * m) * (-1)
    BY <1>1, <1>2
  <2> QED BY <1>2, <2>1
<1>4. r <= 180
  <2> SUFFICES ASSUME r >= 181 PROVE FALSE
    BY <1>2
  <2>1. (2 * m) * r >= (2 * m) * 181
    BY <1>1, <1>2
  <2> QED BY <1>2, <2>1
<1> QED BY <1>2, <1>3, <1>4 DEF r

\* The mean of angles is one.
LEMMA MeanTyped ==
  ASSUME NEW a \in Seq(Degrees), NEW K, K \subseteq 1 .. Len(a), K # {}
  PROVE  MeanAngle(a, K) \in Degrees
<1> DEFINE neg == {i \in K : a[i] < 0}
           pos == K \ neg
           n == IF neg = {} THEN 1 ELSE Cardinality(neg)
           l == IF neg # {} /\ pos = {} THEN 1 ELSE Cardinality(pos)
           m == Cardinality(K)
           t == Total(a, K)
           turned == t + 360 * n
           wide == Total(a, pos) * n - Total(a, neg) * l > 180 * l * n
           num == IF wide THEN (IF turned > 180 * m THEN turned - 360 * m ELSE turned) ELSE t
           r == (2 * Absolute(num) + m) \div (2 * m)
<1>1. MeanAngle(a, K) = IANGLE180(IF num < 0 THEN -r ELSE r)
  BY DEF MeanAngle
<1>2. /\ IsFiniteSet(K) /\ m \in Nat /\ t \in Int
      /\ -180 * m <= t /\ t <= 180 * m
  BY TotalBound
<1>3. m # 0
  BY <1>2, FS_EmptySet
<1>4. n \in Nat /\ 1 <= n /\ n <= m
  <2>1. neg \in SUBSET K
    OBVIOUS
  <2> HIDE DEF neg
  <2>2. IsFiniteSet(neg) /\ Cardinality(neg) <= m
    BY <1>2, <2>1, FS_Subset
  <2>3. Cardinality(neg) \in Nat /\ (Cardinality(neg) = 0 => neg = {})
    BY <2>2, FS_CardinalityType, FS_EmptySet
  <2> QED BY <1>2, <1>3, <2>2, <2>3
<1> HIDE DEF n, m, t, wide
<1>5. num \in Int /\ -180 * m <= num /\ num <= 180 * m
  BY <1>2, <1>3, <1>4
<1> HIDE DEF num
<1>6. 2 * Absolute(num) + m \in Nat /\ 2 * Absolute(num) + m <= 361 * m
  BY <1>2, <1>5 DEF Absolute
<1>7. r \in 0 .. 180
  <2> DEFINE x == 2 * Absolute(num) + m
  <2>1. x \in Nat /\ x <= 361 * m /\ m \in Nat \ {0}
    BY <1>2, <1>3, <1>6
  <2> HIDE DEF x
  <2>2. x \div (2 * m) \in 0 .. 180
    BY <2>1, Quotient
  <2> QED BY <2>2 DEF x
<1> HIDE DEF r
<1> QED BY <1>1, <1>7 DEF IANGLE180, Degrees

-----------------------------------------------------------------------------
(***************************************************************************)
(* The best set of clusters                                                *)
(***************************************************************************)
ClusterRows ==
    [size : Nat, total : Int, with : SUBSET Nat, angle : Degrees, px : Int, py : Int, gx : Int, gy : Int,
     ends : [{2, 4} -> SUBSET Points]]
Linked(cs) ==
    /\ cs \in Seq(ClusterRows)
    /\ \A i \in DOMAIN cs :
          /\ cs[i].with \subseteq i + 1 .. Len(cs)
          /\ cs[i].total = cs[i].size + Total(Sizes(cs), cs[i].with)

\* The total of no clusters, of one more, of fewer.
LEMMA Weights ==
  ASSUME NEW cs, Linked(cs)
  PROVE  /\ Total(Sizes(cs), {}) = 0
         /\ \A T \in SUBSET DOMAIN cs : Total(Sizes(cs), T) \in Int
         /\ \A T \in SUBSET DOMAIN cs, j \in DOMAIN cs :
               j \notin T => Total(Sizes(cs), T \cup {j}) = cs[j].size + Total(Sizes(cs), T)
         /\ \A T, U \in SUBSET DOMAIN cs : T \subseteq U => Total(Sizes(cs), T) <= Total(Sizes(cs), U)
<1> DEFINE s == Sizes(cs)
           L == Len(cs)
<1>1. L \in Nat /\ DOMAIN cs = 1 .. L /\ \A i \in 1 .. L : cs[i].size \in Nat
  <2>1. L \in Nat /\ DOMAIN cs = 1 .. L /\ \A i \in 1 .. L : cs[i] \in ClusterRows
    BY DEF Linked
  <2> QED BY <2>1 DEF ClusterRows
<1>2. /\ s \in Seq(Int) /\ Len(s) = L
      /\ \A i \in 1 .. L : s[i] = cs[i].size
  <2>1. s \in [1 .. L -> Int]
    BY <1>1 DEF Sizes
  <2> HIDE DEF L
  <2> QED BY <1>1, <2>1 DEF Sizes
<1> HIDE DEF s, L
<1>3. ASSUME NEW T \in SUBSET DOMAIN cs, NEW j \in DOMAIN cs, j \notin T
      PROVE  Total(s, T \cup {j}) = cs[j].size + Total(s, T)
  BY <1>1, <1>2, <1>3, TotalAdd
<1>4. ASSUME NEW T \in SUBSET DOMAIN cs, NEW U \in SUBSET DOMAIN cs, T \subseteq U
      PROVE  Total(s, T) <= Total(s, U)
  <2>1. \A n \in 1 .. Len(s) : (IF n \in T THEN s[n] ELSE 0) <= (IF n \in U THEN s[n] ELSE 0)
    BY <1>1, <1>2, <1>4
  <2> QED BY <1>2, <2>1, TotalBelow
<1> QED BY <1>2, <1>3, <1>4, TotalEmpty, TotalTyped DEF s

\* What BestOf() is defined by.
Options(cs) == (DOMAIN cs) \X SUBSET DOMAIN cs
Left(cs, c, j) == <<j, c[2] \cap cs[j].with>>
Best(cs, f, c) == cs[c[1]].size + Max({0} \cup {f[Left(cs, c, j)] : j \in c[2]})

\* A choice leaves only later clusters.
LEMMA LeftOver ==
  ASSUME NEW cs, Linked(cs), NEW m \in Nat, NEW c \in Options(cs), c[2] \subseteq Len(cs) - m + 1 .. Len(cs),
         NEW j \in c[2]
  PROVE  /\ m # 0 /\ Left(cs, c, j) \in Options(cs) /\ j \in DOMAIN cs
         /\ Left(cs, c, j)[2] \subseteq Len(cs) - m + 2 .. Len(cs)
<1>1. Len(cs) \in Nat /\ DOMAIN cs = 1 .. Len(cs)
  BY DEF Linked
<1>2. j \in Len(cs) - m + 1 .. Len(cs) /\ j \in DOMAIN cs /\ c[2] \subseteq DOMAIN cs
  BY DEF Options
<1>3. cs[j].with \subseteq j + 1 .. Len(cs)
  BY <1>2 DEF Linked
<1>4. m # 0
  BY <1>1, <1>2
<1>5. c[2] \cap cs[j].with \subseteq Len(cs) - m + 2 .. Len(cs)
  BY <1>1, <1>2, <1>3
<1> QED BY <1>2, <1>4, <1>5 DEF Left, Options

LEMMA BestDefined ==
  ASSUME NEW cs, Linked(cs)
  PROVE  \E f : /\ \A c \in Options(cs) : f[c] = Best(cs, f, c)
                /\ \A i \in DOMAIN cs : BestOf(cs, i) = f[<<i, cs[i].with>>]
<1> DEFINE L == Len(cs)
           D == Options(cs)
           Small(c, m) == m # 0 /\ c[2] \subseteq L - m + 2 .. L
           IsFun(f) == f = [c \in D |-> f[c]]
           Good(f, m) == \A c \in D : Small(c, m) => f[c] = Best(cs, f, c)
           T == {m \in Nat : \E f : IsFun(f) /\ Good(f, m)}
<1>0. L \in Nat /\ DOMAIN cs = 1 .. L
  BY DEF Linked
<1>1. 0 \in T
  <2> DEFINE f == [c \in D |-> 0]
  <2>1. IsFun(f) /\ Good(f, 0)
    OBVIOUS
  <2> HIDE DEF f, IsFun, Good
  <2> QED BY <2>1
<1>2. ASSUME NEW m \in Nat, m \in T PROVE m + 1 \in T
  <2>1. PICK f : IsFun(f) /\ Good(f, m)
    BY <1>2
  <2> DEFINE g == [c \in D |-> Best(cs, f, c)]
  <2>2. IsFun(g) /\ \A c \in D : g[c] = Best(cs, f, c)
    OBVIOUS
  <2> HIDE DEF g
  <2>3. ASSUME NEW c \in D, Small(c, m + 1) PROVE g[c] = Best(cs, g, c)
    <3>1. c[2] \subseteq L - m + 1 .. L
      <4>1. L - (m + 1) + 2 = L - m + 1
        BY <1>0
      <4> QED BY <2>3, <4>1
    <3>2. ASSUME NEW j \in c[2] PROVE g[Left(cs, c, j)] = f[Left(cs, c, j)]
      <4>1. Left(cs, c, j) \in D /\ Small(Left(cs, c, j), m)
        BY <3>1, LeftOver
      <4> HIDE DEF Small
      <4> QED BY <2>1, <2>2, <4>1
    <3>3. {g[Left(cs, c, j)] : j \in c[2]} = {f[Left(cs, c, j)] : j \in c[2]}
      BY <3>2
    <3> QED BY <2>2, <3>3 DEF Best
  <2>4. Good(g, m + 1)
    <3> HIDE DEF Small
    <3> QED BY <2>3
  <2> HIDE DEF IsFun, Good
  <2> QED BY <2>2, <2>4
<1>3. Nat \subseteq T
  <2> HIDE DEF T
  <2> QED BY <1>1, <1>2, Induct
<1>4. L + 1 \in T
  BY <1>0, <1>3
<1>5. PICK f : IsFun(f) /\ Good(f, L + 1)
  BY <1>4
<1>6. \A c \in D : Small(c, L + 1)
  <2>1. L - (L + 1) + 2 = 1 /\ L + 1 # 0
    BY <1>0
  <2> QED BY <1>0, <2>1 DEF Options
<1>7. f = [c \in D |-> Best(cs, f, c)]
  <2> HIDE DEF Small
  <2>1. \A c \in D : f[c] = Best(cs, f, c)
    BY <1>5, <1>6
  <2> QED BY <1>5, <2>1
<1> DEFINE h == CHOOSE h : h = [c \in D |-> Best(cs, h, c)]
<1>8. h = [c \in D |-> Best(cs, h, c)]
  BY <1>7
<1>9. ASSUME NEW i \in DOMAIN cs PROVE BestOf(cs, i) = h[<<i, cs[i].with>>]
  BY DEF BestOf, Best, Left, Options
<1> HIDE DEF h
<1>10. \A c \in D : h[c] = Best(cs, h, c)
  BY <1>8
<1> QED BY <1>9, <1>10

\* The next cluster of a set is the first of it: the others are left.
LEMMA FirstTaken ==
  ASSUME NEW cs, Linked(cs), NEW T \in SUBSET DOMAIN cs, T # {}, Together(cs, T)
  PROVE  \E j \in T : /\ T \ {j} \subseteq cs[j].with /\ Together(cs, T \ {j})
                      /\ \A h \in T : j <= h
                      /\ Total(Sizes(cs), T) = cs[j].size + Total(Sizes(cs), T \ {j})
<1>1. DOMAIN cs = 1 .. Len(cs) /\ Len(cs) \in Nat
  BY DEF Linked
<1>2. T \in SUBSET Nat
  BY <1>1
<1>3. PICK j \in T : \A h \in T : j <= h
  BY <1>2, LeastOf
<1>4. \A h \in T \ {j} : h \in cs[j].with
  <2>1. \A h \in T \ {j} : j < h
    BY <1>2, <1>3
  <2> QED BY <2>1 DEF Together
<1>5. Together(cs, T \ {j})
  BY DEF Together
<1>6. Total(Sizes(cs), (T \ {j}) \cup {j}) = cs[j].size + Total(Sizes(cs), T \ {j})
  BY Weights
<1>7. (T \ {j}) \cup {j} = T
  OBVIOUS
<1> QED BY <1>3, <1>4, <1>5, <1>6, <1>7

\* A cluster joins later ones that are together and it is compatible with.
LEMMA JoinsLater ==
  ASSUME NEW cs, Linked(cs), NEW j \in DOMAIN cs, NEW T \in SUBSET cs[j].with, Together(cs, T)
  PROVE  /\ Together(cs, T \cup {j}) /\ T \cup {j} \in SUBSET DOMAIN cs
         /\ Total(Sizes(cs), T \cup {j}) = cs[j].size + Total(Sizes(cs), T)
<1>1. DOMAIN cs = 1 .. Len(cs) /\ Len(cs) \in Nat /\ cs[j].with \subseteq j + 1 .. Len(cs)
  BY DEF Linked
<1>2. T \in SUBSET DOMAIN cs /\ j \notin T /\ \A h \in T : h \in Int /\ ~(h < j)
  BY <1>1
<1>3. Together(cs, T \cup {j})
  BY <1>1, <1>2 DEF Together
<1>4. Total(Sizes(cs), T \cup {j}) = cs[j].size + Total(Sizes(cs), T)
  BY <1>2, Weights
<1> QED BY <1>2, <1>3, <1>4

\* The total is that of a set with the first cluster and some of those left, and no other
\* such set has more.
BestBy(cs, v, c) ==
    /\ v \in Int
    /\ \E T \in SUBSET c[2] : Together(cs, T) /\ v = cs[c[1]].size + Total(Sizes(cs), T)
    /\ \A T \in SUBSET c[2] : Together(cs, T) => cs[c[1]].size + Total(Sizes(cs), T) <= v

LEMMA BestRight ==
  ASSUME NEW cs, Linked(cs), NEW f, \A c \in Options(cs) : f[c] = Best(cs, f, c), NEW c \in Options(cs)
  PROVE  BestBy(cs, f[c], c)
<1> DEFINE L == Len(cs)
           D == Options(cs)
           W(S) == Total(Sizes(cs), S)
           Small(d, m) == m # 0 /\ d[2] \subseteq L - m + 2 .. L
           T == {m \in Nat : \A d \in D : Small(d, m) => BestBy(cs, f[d], d)}
<1>0. L \in Nat /\ DOMAIN cs = 1 .. L /\ \A i \in 1 .. L : cs[i].size \in Nat
  <2>1. L \in Nat /\ DOMAIN cs = 1 .. L /\ \A i \in 1 .. L : cs[i] \in ClusterRows
    BY DEF Linked
  <2> QED BY <2>1 DEF ClusterRows
<1>1. 0 \in T
  OBVIOUS
<1>2. ASSUME NEW m \in Nat, m \in T PROVE m + 1 \in T
  <2> SUFFICES ASSUME NEW d \in D, Small(d, m + 1) PROVE BestBy(cs, f[d], d)
    OBVIOUS
  <2>1. d[2] \subseteq L - m + 1 .. L
    <3>1. L - (m + 1) + 2 = L - m + 1
      BY <1>0
    <3> QED BY <3>1
  <2>2. d[1] \in DOMAIN cs /\ d[2] \in SUBSET DOMAIN cs
    BY DEF Options
  <2>3. ASSUME NEW j \in d[2]
        PROVE  /\ BestBy(cs, f[Left(cs, d, j)], Left(cs, d, j)) /\ j \in DOMAIN cs
               /\ f[Left(cs, d, j)] \in Int
    <3>1. Left(cs, d, j) \in D /\ Small(Left(cs, d, j), m) /\ j \in DOMAIN cs
      BY <2>1, LeftOver
    <3>2. BestBy(cs, f[Left(cs, d, j)], Left(cs, d, j))
      <4> HIDE DEF Small
      <4> QED BY <1>2, <3>1
    <3> QED BY <3>1, <3>2 DEF BestBy
  <2> HIDE DEF Small, T
  <2> DEFINE g == [j \in d[2] |-> f[Left(cs, d, j)]]
             I == {g[j] : j \in d[2]}
             B == {0} \cup I
  <2>4. f[d] = cs[d[1]].size + Max(B)
    <3>1. f[d] = Best(cs, f, d)
      OBVIOUS
    <3>2. {g[j] : j \in d[2]} = {f[Left(cs, d, j)] : j \in d[2]}
      OBVIOUS
    <3> HIDE DEF g
    <3> QED BY <3>1, <3>2 DEF Best
  <2>5. IsFiniteSet(B) /\ B \in SUBSET Int /\ B # {}
    <3>1. IsFiniteSet(1 .. L)
      BY <1>0, FS_Interval
    <3>2. IsFiniteSet(d[2])
      BY <1>0, <2>2, <3>1, FS_Subset
    <3>3. \A j \in d[2] : g[j] \in Int
      BY <2>3
    <3> HIDE DEF g
    <3>4. IsFiniteSet({g[j] : j \in d[2]})
      BY <3>2, ImageFinite
    <3>5. I \in SUBSET Int
      BY <3>3
    <3> HIDE DEF I
    <3>6. IsFiniteSet({0} \cup I)
      <4>1. IsFiniteSet({0}) /\ IsFiniteSet(I)
        BY <3>4, FS_Singleton DEF I
      <4> QED BY <4>1, FS_Union
    <3> QED BY <3>5, <3>6
  <2>6. \A j \in d[2] : g[j] = f[Left(cs, d, j)]
    OBVIOUS
  <2>7. Max(B) \in B /\ \A x \in B : x <= Max(B)
    <3> HIDE DEF B
    <3> QED BY <2>5, MaxOf
  <2> HIDE DEF g
  <2>8. Max(B) \in Int /\ cs[d[1]].size \in Nat /\ f[d] \in Int
    <3>1. Max(B) \in Int /\ cs[d[1]].size \in Nat
      <4> HIDE DEF B
      <4> QED BY <1>0, <2>2, <2>5, <2>7
    <3> QED BY <2>4, <3>1
  <2>9. \E S \in SUBSET d[2] : Together(cs, S) /\ Max(B) = W(S)
    <3>1. CASE Max(B) = 0
      <4>1. Together(cs, {}) /\ W({}) = 0
        BY Weights DEF Together
      <4> QED BY <3>1, <4>1
    <3>2. CASE Max(B) # 0
      <4>1. PICK j \in d[2] : Max(B) = f[Left(cs, d, j)]
        BY <2>6, <2>7, <3>2
      <4>2. PICK S \in SUBSET Left(cs, d, j)[2] :
              Together(cs, S) /\ Max(B) = cs[Left(cs, d, j)[1]].size + W(S)
        BY <2>3, <4>1 DEF BestBy
      <4>3. S \subseteq d[2] /\ S \subseteq cs[j].with /\ Left(cs, d, j)[1] = j
        BY DEF Left
      <4>4. Together(cs, S \cup {j}) /\ W(S \cup {j}) = cs[j].size + W(S)
        BY <2>3, <4>2, <4>3, JoinsLater
      <4>5. S \cup {j} \in SUBSET d[2] /\ Max(B) = W(S \cup {j})
        BY <4>2, <4>3, <4>4
      <4> QED BY <4>4, <4>5
    <3> QED BY <3>1, <3>2
  <2>10. ASSUME NEW S \in SUBSET d[2], Together(cs, S) PROVE W(S) <= Max(B)
    <3>1. CASE S = {}
      <4>1. W(S) = 0
        BY <3>1, Weights
      <4> QED BY <2>7, <4>1
    <3>2. CASE S # {}
      <4>1. PICK j \in S : /\ S \ {j} \subseteq cs[j].with /\ Together(cs, S \ {j})
                           /\ W(S) = cs[j].size + W(S \ {j})
        <5>1. S \in SUBSET DOMAIN cs
          BY <2>2
        <5> QED BY <2>10, <3>2, <5>1, FirstTaken
      <4>2. Left(cs, d, j)[1] = j /\ S \ {j} \in SUBSET Left(cs, d, j)[2]
        BY <4>1 DEF Left
      <4>3. W(S) <= f[Left(cs, d, j)]
        BY <2>3, <4>1, <4>2 DEF BestBy
      <4>4. f[Left(cs, d, j)] \in B
        BY <2>6
      <4>5. f[Left(cs, d, j)] <= Max(B) /\ f[Left(cs, d, j)] \in Int /\ W(S) \in Int
        <5>1. W(S) \in Int
          BY <2>2, Weights
        <5> QED BY <2>3, <2>7, <4>4, <5>1
      <4> HIDE DEF B, W
      <4> QED BY <2>8, <4>3, <4>5
    <3> QED BY <3>1, <3>2
  <2>11. \A S \in SUBSET d[2] : W(S) \in Int
    BY <2>2, Weights
  <2>12. \E S \in SUBSET d[2] : Together(cs, S) /\ f[d] = cs[d[1]].size + W(S)
    <3> HIDE DEF B, W
    <3> QED BY <2>4, <2>9
  <2>13. \A S \in SUBSET d[2] : Together(cs, S) => cs[d[1]].size + W(S) <= f[d]
    <3> HIDE DEF B, W
    <3> QED BY <2>4, <2>8, <2>10, <2>11
  <2> QED BY <2>8, <2>12, <2>13 DEF BestBy
<1>3. Nat \subseteq T
  <2> HIDE DEF T
  <2> QED BY <1>1, <1>2, Induct
<1>4. L + 1 \in T
  BY <1>0, <1>3
<1>5. Small(c, L + 1)
  <2>1. L - (L + 1) + 2 = 1 /\ L + 1 # 0
    BY <1>0
  <2> QED BY <1>0, <2>1 DEF Options
<1> QED BY <1>4, <1>5

LEMMA BestOfCluster ==
  ASSUME NEW cs, Linked(cs), NEW i \in DOMAIN cs
  PROVE  BestBy(cs, BestOf(cs, i), <<i, cs[i].with>>)
<1>1. PICK f : /\ \A c \in Options(cs) : f[c] = Best(cs, f, c)
               /\ \A h \in DOMAIN cs : BestOf(cs, h) = f[<<h, cs[h].with>>]
  BY BestDefined
<1>2. <<i, cs[i].with>> \in Options(cs)
  <2>1. DOMAIN cs = 1 .. Len(cs) /\ Len(cs) \in Nat /\ cs[i].with \subseteq i + 1 .. Len(cs)
    BY DEF Linked
  <2>2. cs[i].with \subseteq DOMAIN cs
    BY <2>1
  <2> QED BY <2>2 DEF Options
<1> QED BY <1>1, <1>2, BestRight

\* What bz_final_loop() is defined by.
Beaten(cs, b, n) == IF b >= cs[n].total THEN b ELSE Max({b, BestOf(cs, n)})

LEMMA LoopDefined ==
  ASSUME NEW cs, Linked(cs)
  PROVE  \E h : /\ h[0] = 0 /\ bz_final_loop(cs) = h[Len(cs)]
                /\ \A n \in 1 .. Len(cs) : h[n] = Beaten(cs, h[n - 1], n)
<1> DEFINE L == Len(cs)
           E(f, n) == IF n = 0 THEN 0 ELSE Beaten(cs, f[n - 1], n)
           IsFun(f) == f = [n \in 0 .. L |-> f[n]]
           Good(f, m) == \A n \in 0 .. L : n < m => f[n] = E(f, n)
           T == {m \in Nat : \E f : IsFun(f) /\ Good(f, m)}
<1>0. L \in Nat
  BY DEF Linked
<1> HIDE DEF L
<1>1. 0 \in T
  <2> DEFINE f == [n \in 0 .. L |-> 0]
  <2>1. IsFun(f) /\ Good(f, 0)
    OBVIOUS
  <2> HIDE DEF f, IsFun, Good
  <2> QED BY <2>1
<1>2. ASSUME NEW m \in Nat, m \in T PROVE m + 1 \in T
  <2>1. PICK f : IsFun(f) /\ Good(f, m)
    BY <1>2
  <2> DEFINE g == [n \in 0 .. L |-> E(f, n)]
  <2>2. IsFun(g) /\ \A n \in 0 .. L : g[n] = E(f, n)
    OBVIOUS
  <2> HIDE DEF g
  <2>3. ASSUME NEW n \in 0 .. L, n < m + 1 PROVE g[n] = E(g, n)
    <3>1. CASE n = 0
      BY <2>2, <3>1
    <3>2. CASE n # 0
      <4>1. n - 1 \in 0 .. L /\ n - 1 < m
        BY <1>0, <2>3, <3>2
      <4>2. g[n - 1] = f[n - 1]
        BY <2>1, <2>2, <4>1
      <4> QED BY <2>2, <4>2
    <3> QED BY <3>1, <3>2
  <2>4. Good(g, m + 1)
    BY <2>3
  <2> HIDE DEF IsFun, Good
  <2> QED BY <2>2, <2>4
<1>3. Nat \subseteq T
  <2> HIDE DEF T
  <2> QED BY <1>1, <1>2, Induct
<1>4. L + 1 \in T
  BY <1>0, <1>3
<1>5. PICK f : IsFun(f) /\ Good(f, L + 1)
  BY <1>4
<1>6. f = [n \in 0 .. L |-> E(f, n)]
  <2> HIDE DEF E
  <2>1. ASSUME NEW n \in 0 .. L PROVE f[n] = E(f, n)
    <3>1. n < L + 1
      BY <1>0
    <3> QED BY <1>5, <3>1
  <2> QED BY <1>5, <2>1
<1> DEFINE h == CHOOSE h : h = [n \in 0 .. L |-> E(h, n)]
<1>7. h = [n \in 0 .. L |-> E(h, n)]
  BY <1>6
<1>8. bz_final_loop(cs) = h[L]
  BY DEF bz_final_loop, Beaten, L
<1> HIDE DEF h
<1>9. \A n \in 0 .. L : h[n] = E(h, n)
  BY <1>7
<1>10. h[0] = 0 /\ \A n \in 1 .. L : h[n] = Beaten(cs, h[n - 1], n)
  BY <1>0, <1>9
<1> QED BY <1>8, <1>10 DEF L

Cliques(cs) == {T \in SUBSET DOMAIN cs : Together(cs, T)}

\* The total is that of a set of clusters that are together, and no other such set that
\* begins with one of the first n has more.
BestUpTo(cs, v, n) ==
    /\ v \in Int
    /\ \E T \in Cliques(cs) : v = Total(Sizes(cs), T)
    /\ \A T \in Cliques(cs) : T = {} \/ (\E i \in T : i <= n) => Total(Sizes(cs), T) <= v

\* A cluster that is skipped could not have beaten the total.
LEMMA OneMore ==
  ASSUME NEW cs, Linked(cs), NEW n \in Nat, n + 1 \in DOMAIN cs, NEW b, BestUpTo(cs, b, n)
  PROVE  BestUpTo(cs, Beaten(cs, b, n + 1), n + 1)
<1> DEFINE W(T) == Total(Sizes(cs), T)
           c == cs[n + 1]
           v == BestOf(cs, n + 1)
           x == Beaten(cs, b, n + 1)
<1>1. BestBy(cs, v, <<n + 1, c.with>>)
  BY BestOfCluster
<1>2. /\ b \in Int /\ v \in Int /\ \A T \in SUBSET DOMAIN cs : W(T) \in Int
      /\ \E T \in Cliques(cs) : b = W(T)
  BY <1>1, Weights DEF BestUpTo, BestBy
<1>3. c.total = c.size + W(c.with) /\ c.with \subseteq DOMAIN cs /\ n + 1 \notin c.with /\ c.size \in Nat
  <2>1. /\ DOMAIN cs = 1 .. Len(cs) /\ Len(cs) \in Nat /\ c.with \subseteq n + 1 + 1 .. Len(cs)
        /\ c \in ClusterRows /\ c.total = c.size + W(c.with)
    BY DEF Linked
  <2>2. c.size \in Nat
    BY <2>1 DEF ClusterRows
  <2>3. c.with \subseteq DOMAIN cs /\ n + 1 \notin c.with
    BY <2>1
  <2> QED BY <2>1, <2>2, <2>3
<1>4. \E T \in Cliques(cs) : v = W(T)
  <2>1. PICK T \in SUBSET c.with : Together(cs, T) /\ v = c.size + W(T)
    BY <1>1 DEF BestBy
  <2>2. Together(cs, T \cup {n + 1}) /\ T \cup {n + 1} \in SUBSET DOMAIN cs /\ W(T \cup {n + 1}) = c.size + W(T)
    BY <2>1, JoinsLater
  <2> QED BY <2>1, <2>2 DEF Cliques
<1>5. ASSUME NEW T \in Cliques(cs), T # {}, \A i \in T : ~(i <= n), \E i \in T : i <= n + 1
      PROVE  W(T) <= v /\ W(T) <= c.total
  <2>1. T \in SUBSET DOMAIN cs /\ Together(cs, T)
    BY DEF Cliques
  <2>2. PICK j \in T : /\ T \ {j} \subseteq cs[j].with /\ Together(cs, T \ {j}) /\ \A h \in T : j <= h
                       /\ W(T) = cs[j].size + W(T \ {j})
    BY <1>5, <2>1, FirstTaken
  <2>3. j = n + 1
    <3>1. DOMAIN cs = 1 .. Len(cs)
      BY DEF Linked
    <3>2. PICK i \in T : i <= n + 1
      BY <1>5
    <3>3. j <= i /\ ~(j <= n) /\ j \in Int /\ i \in Int
      BY <1>5, <2>1, <2>2, <3>1
    <3> QED BY <3>2, <3>3
  <2>4. T \ {j} \in SUBSET c.with /\ Together(cs, T \ {j}) /\ W(T) = c.size + W(T \ {j})
    BY <2>2, <2>3
  <2>5. W(T) <= v
    BY <1>1, <2>4 DEF BestBy
  <2>6. W(T \ {j}) <= W(c.with)
    BY <1>3, <2>1, <2>4, Weights
  <2>7. W(T \ {j}) \in Int /\ W(c.with) \in Int
    BY <1>2, <1>3, <2>1
  <2> HIDE DEF W
  <2> QED BY <1>3, <2>4, <2>5, <2>6, <2>7
<1>6. x \in Int /\ b <= x /\ (x = b \/ x = v) /\ (v <= x \/ c.total <= x)
  <2>1. CASE b >= c.total
    BY <1>2, <2>1 DEF Beaten
  <2>2. CASE ~(b >= c.total)
    <3>1. x = Max({b, v})
      BY <2>2 DEF Beaten
    <3>2. IsFiniteSet({b, v}) /\ {b, v} \in SUBSET Int /\ {b, v} # {}
      <4>1. IsFiniteSet({b}) /\ IsFiniteSet({v})
        BY FS_Singleton
      <4>2. IsFiniteSet({b} \cup {v})
        BY <4>1, FS_Union
      <4>3. {b} \cup {v} = {b, v}
        OBVIOUS
      <4> QED BY <1>2, <4>2, <4>3
    <3>3. Max({b, v}) \in {b, v} /\ \A y \in {b, v} : y <= Max({b, v})
      BY <3>2, MaxOf
    <3> HIDE DEF v, x
    <3> QED BY <1>2, <3>1, <3>3
  <2> QED BY <2>1, <2>2
<1> HIDE DEF v, x
<1>7. c.total \in Int
  BY <1>2, <1>3
<1>8. ASSUME NEW T \in Cliques(cs), T = {} \/ \E i \in T : i <= n + 1 PROVE W(T) <= x
  <2>1. T \in SUBSET DOMAIN cs /\ W(T) \in Int
    BY <1>2 DEF Cliques
  <2>2. CASE T = {} \/ \E i \in T : i <= n
    <3>1. W(T) <= b
      BY <2>2 DEF BestUpTo
    <3> HIDE DEF W
    <3> QED BY <1>2, <1>6, <2>1, <3>1
  <2>3. CASE T # {} /\ \A i \in T : ~(i <= n)
    <3>1. W(T) <= v /\ W(T) <= c.total
      BY <1>5, <1>8, <2>3
    <3> HIDE DEF W
    <3> QED BY <1>2, <1>6, <1>7, <2>1, <3>1
  <2> QED BY <2>2, <2>3
<1>9. \E T \in Cliques(cs) : x = W(T)
  BY <1>2, <1>4, <1>6
<1>10. BestUpTo(cs, x, n + 1)
  BY <1>6, <1>8, <1>9 DEF BestUpTo
<1> QED BY <1>10 DEF x

LEMMA LoopRight ==
  ASSUME NEW cs, Linked(cs)
  PROVE  /\ bz_final_loop(cs) \in Int
         /\ bz_final_loop(cs) = Max({Total(Sizes(cs), s) : s \in Cliques(cs)})
<1> DEFINE L == Len(cs)
           W(T) == Total(Sizes(cs), T)
<1>1. L \in Nat /\ DOMAIN cs = 1 .. L
  BY DEF Linked
<1>2. PICK h : /\ h[0] = 0 /\ bz_final_loop(cs) = h[L]
               /\ \A n \in 1 .. L : h[n] = Beaten(cs, h[n - 1], n)
  BY LoopDefined
<1> DEFINE U == {n \in Nat : n <= L => BestUpTo(cs, h[n], n)}
<1>3. 0 \in U
  <2>1. {} \in Cliques(cs) /\ W({}) = 0
    BY Weights DEF Cliques, Together
  <2>2. \A T \in Cliques(cs) : \A i \in T : ~(i <= 0)
    BY <1>1 DEF Cliques
  <2>3. BestUpTo(cs, 0, 0)
    BY <2>1, <2>2 DEF BestUpTo
  <2> QED BY <1>2, <2>3
<1>4. ASSUME NEW n \in Nat, n \in U PROVE n + 1 \in U
  <2> SUFFICES ASSUME n + 1 <= L PROVE BestUpTo(cs, h[n + 1], n + 1)
    OBVIOUS
  <2>1. n + 1 \in DOMAIN cs /\ n + 1 \in 1 .. L /\ n + 1 - 1 = n /\ n <= L
    BY <1>1
  <2>2. BestUpTo(cs, h[n], n) /\ h[n + 1] = Beaten(cs, h[n], n + 1)
    BY <1>2, <1>4, <2>1
  <2> QED BY <2>1, <2>2, OneMore
<1>5. Nat \subseteq U
  <2> HIDE DEF U
  <2> QED BY <1>3, <1>4, Induct
<1>6. BestUpTo(cs, h[L], L)
  BY <1>1, <1>5
<1> DEFINE x == h[L]
           totals == {W(T) : T \in Cliques(cs)}
<1>7. ASSUME NEW T \in Cliques(cs) PROVE W(T) \in Int /\ W(T) <= x
  <2>1. T \in SUBSET DOMAIN cs
    BY DEF Cliques
  <2>2. T = {} \/ \E i \in T : i <= L
    BY <1>1, <2>1
  <2> QED BY <1>6, <2>1, <2>2, Weights DEF BestUpTo
<1>8. x \in totals /\ \A y \in totals : x >= y
  BY <1>6, <1>7 DEF BestUpTo
<1>9. x \in Int /\ totals \in SUBSET Int
  BY <1>6, <1>7 DEF BestUpTo
<1> HIDE DEF x, totals
<1>10. ASSUME NEW z \in totals, \A y \in totals : z >= y PROVE z = x
  <2>1. z >= x /\ x >= z /\ z \in Int
    BY <1>8, <1>9, <1>10
  <2> QED BY <1>9, <2>1
<1>11. Max(totals) = x
  BY <1>8, <1>10 DEF Max
<1> QED BY <1>2, <1>9, <1>11 DEF x, totals

\* Clusters as JudgePath leaves them, ...
Clustered == Linked(clusters) /\ LongClusters /\ score \in Int

\* ... a new one ...
IsNew(c) == c \in ClusterRows /\ c.size >= MSTR /\ c.total = c.size /\ c.with = {}

LEMMA MeansTyped ==
  ASSUME NEW s \in Seq(Int), NEW K, NEW m \in Nat \ {0}
  PROVE  Total(s, K) \div m \in Int
<1>1. Total(s, K) \in Int
  BY TotalTyped
<1> QED BY <1>1

LEMMA ClusterTyped ==
  ASSUME Built, Traversed, step = "back", Cardinality(Agreeing) >= MSTR
  PROVE  IsNew(Cluster(Agreeing, Probe, Gallery))
<1>1. PICK K, probe, gallery : K = Agreeing /\ probe = Probe /\ gallery = Gallery
  OBVIOUS
<1> DEFINE n == Len(w.y)
           m == Cardinality(K)
           Of(s) == Total(s, K) \div m
           px == [i \in DOMAIN w.y |-> probe.p[At(w.y[i])[2]][1]]
           py == [i \in DOMAIN w.y |-> probe.p[At(w.y[i])[2]][2]]
           gx == [i \in DOMAIN w.y |-> gallery.p[At(w.y[i])[4]][1]]
           gy == [i \in DOMAIN w.y |-> gallery.p[At(w.y[i])[4]][2]]
           ends == [s \in {2, 4} |-> UNION {{At(w.y[i])[s], At(w.y[i])[s + 1]} : i \in K}]
           c == Cluster(K, probe, gallery)
<1>2. /\ n \in Nat /\ DOMAIN w.y = 1 .. n /\ colp \in Seq(Rows)
      /\ \A i \in 1 .. n : w.y[i] \in DOMAIN colp
  <2>1. Path(w) /\ colp \in Seq(Rows)
    BY QueueRead DEF Built
  <2>2. Sized(w) /\ w.y \in Seq(Nat)
    BY <2>1 DEF Path, Sized, Work
  <2> QED BY <2>1, <2>2 DEF Sized
<1>3. ASSUME NEW i \in 1 .. n PROVE At(w.y[i]) \in Rows
  BY <1>2, RowRead
<1>4. probe \in Template /\ gallery \in Template
  <2>1. todo \in Seq(Template \X Template) /\ todo # <<>>
    BY DEF Built
  <2>2. todo[1] \in Template \X Template
    BY <2>1
  <2> QED BY <1>1, <2>2 DEF Probe, Gallery
<1>5. K \in SUBSET (1 .. n)
  BY <1>1, <1>2 DEF Agreeing
<1>6. IsFiniteSet(K) /\ m \in Nat \ {0} /\ m >= MSTR /\ K # {}
  <2>1. IsFiniteSet(1 .. n)
    BY <1>2, FS_Interval
  <2>2. IsFiniteSet(K) /\ m \in Nat
    BY <1>5, <2>1, FS_Subset, FS_CardinalityType
  <2>3. m >= MSTR
    BY <1>1
  <2>4. m # 0
    BY <2>2, <2>3, JobsAssumption
  <2> QED BY <2>2, <2>3, <2>4, FS_EmptySet
<1>7. c.angle \in Degrees
  <2>1. Directions \in [1 .. n -> Degrees]
    BY <1>2, <1>3 DEF Directions, Rows
  <2>2. Directions \in Seq(Degrees) /\ Len(Directions) = n
    BY <1>2, <2>1
  <2>3. MeanAngle(Directions, K) \in Degrees
    BY <1>5, <1>6, <2>2, MeanTyped
  <2> QED BY <2>3 DEF Cluster
<1>8. px \in Seq(Int) /\ py \in Seq(Int) /\ gx \in Seq(Int) /\ gy \in Seq(Int)
  <2>1. ASSUME NEW i \in 1 .. n
        PROVE  /\ probe.p[At(w.y[i])[2]] \in Int \X Int \X Int
               /\ gallery.p[At(w.y[i])[4]] \in Int \X Int \X Int
    <3>1. At(w.y[i])[2] \in Points /\ At(w.y[i])[4] \in Points
      BY <1>3 DEF Rows
    <3> QED BY <1>4, <3>1 DEF Template
  <2>2. /\ px \in [1 .. n -> Int] /\ py \in [1 .. n -> Int]
        /\ gx \in [1 .. n -> Int] /\ gy \in [1 .. n -> Int]
    BY <1>2, <2>1
  <2> HIDE DEF px, py, gx, gy, n
  <2> QED BY <1>2, <2>2
<1>9. ends \in [{2, 4} -> SUBSET Points]
  <2>1. ASSUME NEW i \in K
        PROVE  /\ At(w.y[i])[2] \in Points /\ At(w.y[i])[3] \in Points
               /\ At(w.y[i])[4] \in Points /\ At(w.y[i])[5] \in Points
    BY <1>3, <1>5 DEF Rows
  <2>2. ASSUME NEW s \in {2, 4}, NEW i \in K PROVE {At(w.y[i])[s], At(w.y[i])[s + 1]} \subseteq Points
    BY <2>1
  <2>3. ASSUME NEW s \in {2, 4}
        PROVE  UNION {{At(w.y[i])[s], At(w.y[i])[s + 1]} : i \in K} \subseteq Points
    BY <2>2
  <2> QED BY <2>3
<1>10. Of(px) \in Int /\ Of(py) \in Int /\ Of(gx) \in Int /\ Of(gy) \in Int
  <2> HIDE DEF px, py, gx, gy, m
  <2> QED BY <1>6, <1>8, MeansTyped
<1>11. c = [size |-> m, total |-> m, with |-> {}, angle |-> MeanAngle(Directions, K), px |-> Of(px), py |-> Of(py),
            gx |-> Of(gx), gy |-> Of(gy), ends |-> ends]
  BY DEF Cluster
<1>12. c.angle = MeanAngle(Directions, K)
  BY DEF Cluster
<1> HIDE DEF c, ends, Of, m
<1>13. MeanAngle(Directions, K) \in Degrees /\ m \in Nat /\ m \in Int /\ {} \in SUBSET Nat
  BY <1>6, <1>7, <1>12
<1>14. IsNew(c)
  BY <1>6, <1>9, <1>10, <1>11, <1>13 DEF IsNew, ClusterRows
<1> QED BY <1>1, <1>14 DEF c

\* ... that joins the earlier ones.
LEMMA ClusterJoins ==
  ASSUME Clustered, NEW c, IsNew(c), clusters' = Append(Joined(c), c),
         score' = Max({score, c.size} \cup {Joined(c)[i].total : i \in DOMAIN clusters})
  PROVE  Clustered'
<1> DEFINE L == Len(clusters)
           joined == Joined(c)
           all == Append(joined, c)
<1>1. /\ L \in Nat /\ DOMAIN clusters = 1 .. L /\ clusters \in Seq(ClusterRows)
      /\ \A i \in 1 .. L : clusters[i] \in ClusterRows
  BY DEF Clustered, Linked
<1>2. c.size \in Nat /\ c \in ClusterRows
  BY DEF IsNew, ClusterRows
<1>3. ASSUME NEW i \in 1 .. L
      PROVE  /\ joined[i] \in ClusterRows /\ joined[i].size = clusters[i].size
             /\ \/ joined[i].total = clusters[i].total /\ joined[i].with = clusters[i].with
                \/ /\ joined[i].total = clusters[i].total + c.size
                   /\ joined[i].with = clusters[i].with \cup {L + 1}
  <2>1. PICK e : e = clusters[i] /\ e \in ClusterRows
    BY <1>1
  <2>2. e.total \in Int /\ e.with \in SUBSET Nat
    BY <2>1 DEF ClusterRows
  <2>3. e.total + c.size \in Int /\ e.with \cup {L + 1} \in SUBSET Nat
    BY <1>1, <1>2, <2>2
  <2> DEFINE f == [e EXCEPT !.total = @ + c.size, !.with = @ \cup {L + 1}]
  <2>4. /\ f \in ClusterRows /\ f.size = e.size /\ f.total = e.total + c.size
        /\ f.with = e.with \cup {L + 1}
    BY <2>1, <2>3 DEF ClusterRows
  <2>5. joined[i] = f \/ joined[i] = e
    BY <1>1, <2>1 DEF Joined
  <2> HIDE DEF f
  <2> QED BY <2>1, <2>4, <2>5
<1>4. joined \in Seq(ClusterRows) /\ Len(joined) = L
  <2>1. DOMAIN joined = 1 .. L
    BY <1>1 DEF Joined
  <2>2. joined = [i \in 1 .. L |-> joined[i]]
    BY <1>1 DEF Joined
  <2> HIDE DEF joined, L
  <2>3. joined \in [1 .. L -> ClusterRows]
    BY <1>3, <2>1, <2>2
  <2> QED BY <1>1, <2>3
<1> HIDE DEF joined
<1>5. /\ all \in Seq(ClusterRows) /\ Len(all) = L + 1 /\ DOMAIN all = 1 .. L + 1
      /\ \A i \in 1 .. L : all[i] = joined[i]
      /\ all[L + 1] = c
  BY <1>1, <1>2, <1>4
<1>6. clusters' = all
  BY DEF joined
<1> HIDE DEF all
<1>7. Sizes(all) = Append(Sizes(clusters), c.size) /\ Sizes(clusters) \in Seq(Int) /\ Len(Sizes(clusters)) = L
  <2>1. Sizes(clusters) \in [1 .. L -> Int]
    <3>1. \A i \in 1 .. L : clusters[i].size \in Int
      BY <1>1 DEF ClusterRows
    <3> QED BY <1>1, <3>1 DEF Sizes
  <2>2. Sizes(clusters) \in Seq(Int) /\ Len(Sizes(clusters)) = L
    <3> HIDE DEF L
    <3> QED BY <1>1, <2>1
  <2>3. Sizes(all) = [i \in 1 .. L + 1 |-> all[i].size]
    BY <1>5 DEF Sizes
  <2> DEFINE b == Append(Sizes(clusters), c.size)
  <2>4. b = [i \in 1 .. L + 1 |-> b[i]]
    BY <1>1, <1>2, <2>2
  <2>5. ASSUME NEW i \in 1 .. L + 1 PROVE all[i].size = b[i]
    <3>1. CASE i \in 1 .. L
      <4>1. b[i] = Sizes(clusters)[i]
        BY <1>2, <2>2, <3>1
      <4> QED BY <1>1, <1>3, <1>5, <3>1, <4>1 DEF Sizes
    <3>2. CASE i = L + 1
      <4>1. b[i] = c.size
        BY <1>2, <2>2, <3>2
      <4> QED BY <1>5, <3>2, <4>1
    <3>3. i \in 1 .. L \/ i = L + 1
      <4> HIDE DEF L
      <4> QED BY <1>1
    <3> QED BY <3>1, <3>2, <3>3
  <2> HIDE DEF b
  <2>6. Sizes(all) = b
    BY <2>3, <2>4, <2>5
  <2>7. Sizes(all) = Append(Sizes(clusters), c.size)
    BY <2>6 DEF b
  <2> QED BY <2>2, <2>7
<1> HIDE DEF L
<1>8. ASSUME NEW K \in SUBSET (1 .. L) PROVE Total(Sizes(all), K) = Total(Sizes(clusters), K)
  <2>1. c.size \in Int /\ K \subseteq 1 .. Len(Sizes(clusters))
    BY <1>2, <1>7
  <2>2. Total(Append(Sizes(clusters), c.size), K) = Total(Sizes(clusters), K)
    BY <1>7, <2>1, TotalAppend
  <2> QED BY <1>7, <2>2
<1>9. /\ Sizes(all) \in Seq(Int) /\ Len(Sizes(all)) = L + 1 /\ Sizes(all)[L + 1] = c.size
  <2>1. c.size \in Int
    BY <1>2
  <2> QED BY <1>1, <1>7, <2>1
<1>10. ASSUME NEW i \in 1 .. L
       PROVE  /\ all[i].with \subseteq i + 1 .. L + 1
              /\ all[i].total = all[i].size + Total(Sizes(all), all[i].with)
  <2>1. PICK K : K = clusters[i].with
    OBVIOUS
  <2>2. K \subseteq i + 1 .. L /\ clusters[i].total = clusters[i].size + Total(Sizes(clusters), K)
    BY <1>1, <2>1 DEF Clustered, Linked
  <2>3. K \in SUBSET (1 .. L) /\ L + 1 \notin K
    BY <1>1, <2>2
  <2>4. Total(Sizes(all), K) = Total(Sizes(clusters), K)
    BY <1>8, <2>3
  <2>5. CASE all[i].total = clusters[i].total /\ all[i].with = K
    <3>1. K \subseteq i + 1 .. L + 1
      BY <1>1, <2>2
    <3> QED BY <1>3, <1>5, <2>2, <2>4, <2>5, <3>1
  <2>6. CASE all[i].total = clusters[i].total + c.size /\ all[i].with = K \cup {L + 1}
    <3>1. K \cup {L + 1} \subseteq i + 1 .. L + 1
      <4>1. L + 1 \in i + 1 .. L + 1
        BY <1>1
      <4>2. K \subseteq i + 1 .. L + 1
        BY <1>1, <2>2
      <4> QED BY <4>1, <4>2
    <3>2. L + 1 \in 1 .. Len(Sizes(all))
      BY <1>1, <1>9
    <3>3. Total(Sizes(all), K \cup {L + 1}) = c.size + Total(Sizes(all), K)
      BY <1>9, <2>3, <3>2, TotalAdd
    <3>4. clusters[i].size \in Int /\ Total(Sizes(all), K) \in Int /\ c.size \in Int
      <4>1. clusters[i].size \in Int
        BY <1>1 DEF ClusterRows
      <4> QED BY <1>2, <1>9, <4>1, TotalTyped
    <3>5. all[i].size = clusters[i].size
      BY <1>3, <1>5
    <3>6. all[i].total = clusters[i].size + Total(Sizes(all), K) + c.size
      BY <2>2, <2>4, <2>6
    <3>7. Total(Sizes(all), all[i].with) = c.size + Total(Sizes(all), K)
      BY <2>6, <3>3
    <3>8. all[i].total = all[i].size + Total(Sizes(all), all[i].with)
      BY <3>4, <3>5, <3>6, <3>7
    <3> QED BY <2>6, <3>1, <3>8
  <2> QED BY <1>3, <1>5, <2>1, <2>5, <2>6
<1>11. /\ all[L + 1].with \subseteq L + 1 + 1 .. L + 1
       /\ all[L + 1].total = all[L + 1].size + Total(Sizes(all), all[L + 1].with)
  <2>1. Total(Sizes(all), {}) = 0
    BY <1>9, TotalEmpty
  <2>2. all[L + 1].with = {} /\ all[L + 1].total = c.size /\ all[L + 1].size = c.size
    BY <1>5 DEF IsNew
  <2>3. c.size = c.size + 0
    BY <1>2
  <2> QED BY <2>1, <2>2, <2>3
<1>12. Linked(all)
  <2>1. ASSUME NEW i \in DOMAIN all
        PROVE  /\ all[i].with \subseteq i + 1 .. Len(all)
               /\ all[i].total = all[i].size + Total(Sizes(all), all[i].with)
    <3>1. i \in 1 .. L \/ i = L + 1
      BY <1>1, <1>5
    <3> QED BY <1>5, <1>10, <1>11, <3>1
  <2> QED BY <1>5, <2>1 DEF Linked
<1>13. \A i \in DOMAIN all : all[i].size >= MSTR
  <2>1. ASSUME NEW i \in DOMAIN all PROVE all[i].size >= MSTR
    <3>1. i \in 1 .. L \/ i = L + 1
      BY <1>1, <1>5
    <3>2. i \in 1 .. L => clusters[i].size >= MSTR
      BY <1>1 DEF Clustered, LongClusters
    <3> QED BY <1>3, <1>5, <3>1, <3>2 DEF IsNew
  <2> QED BY <2>1
<1>14. score' \in Int
  <2> DEFINE g == [i \in 1 .. L |-> joined[i].total]
             I == {g[i] : i \in 1 .. L}
             U == {score} \cup {c.size} \cup I
  <2>1. IsFiniteSet(I)
    <3>1. IsFiniteSet(1 .. L)
      BY <1>1, FS_Interval
    <3> HIDE DEF g
    <3> QED BY <3>1, ImageFinite
  <2>2. I \in SUBSET Int /\ I = {joined[i].total : i \in DOMAIN clusters}
    <3>1. \A i \in 1 .. L : joined[i].total \in Int
      BY <1>3 DEF ClusterRows
    <3> QED BY <1>1, <3>1
  <2>3. score' = Max(U)
    <3>1. {score, c.size} \cup I = U
      OBVIOUS
    <3> HIDE DEF I, U
    <3> QED BY <2>2, <3>1 DEF joined
  <2> HIDE DEF I
  <2>4. IsFiniteSet(U) /\ U \in SUBSET Int /\ U # {}
    <3>1. IsFiniteSet({score}) /\ IsFiniteSet({c.size})
      BY FS_Singleton
    <3>2. IsFiniteSet({score} \cup {c.size})
      BY <3>1, FS_Union
    <3>3. IsFiniteSet(U)
      BY <2>1, <3>2, FS_Union
    <3> QED BY <1>2, <2>2, <3>3 DEF Clustered
  <2>5. Max(U) \in U
    <3> HIDE DEF U
    <3> QED BY <2>4, MaxOf
  <2> QED BY <2>3, <2>4, <2>5
<1> QED BY <1>6, <1>12, <1>13, <1>14 DEF Clustered, LongClusters

LEMMA StepsCluster ==
  ASSUME Built, Traversed, Clustered, [Next]_vars
  PROVE  Clustered'
<1>1. CASE clusters' = clusters /\ score' \in Int
  BY <1>1 DEF Clustered, Linked, LongClusters
<1>2. CASE clusters' = <<>> /\ score' = 0
  <2>1. DOMAIN clusters' = {} /\ clusters' \in Seq(ClusterRows)
    BY <1>2
  <2> QED BY <1>2, <2>1 DEF Clustered, Linked, LongClusters
<1>3. CASE clusters' = clusters /\ score' = score
  BY <1>1, <1>3 DEF Clustered
<1>4. CASE JudgePath
  <2>1. step = "back"
    BY <1>4 DEF JudgePath
  <2>2. CASE Cardinality(Agreeing) < MSTR /\ UNCHANGED <<clusters, score>>
    BY <1>3, <2>2
  <2>3. ASSUME NEW c, c = Cluster(Agreeing, Probe, Gallery), Cardinality(Agreeing) >= MSTR,
               clusters' = Append(Joined(c), c),
               score' = Max({score, c.size} \cup {Joined(c)[i].total : i \in DOMAIN clusters})
        PROVE  Clustered'
    <3>1. IsNew(c)
      BY <2>1, <2>3, ClusterTyped
    <3> QED BY <2>3, <3>1, ClusterJoins
  <2> QED BY <1>4, <2>2, <2>3 DEF JudgePath
<1>5. CASE FinalLoop
  <2>1. clusters' = clusters /\ (score' = score \/ score' = bz_final_loop(clusters))
    BY <1>5 DEF FinalLoop
  <2>2. bz_final_loop(clusters) \in Int
    BY LoopRight DEF Clustered
  <2> QED BY <1>1, <2>1, <2>2 DEF Clustered
<1>6. \/ clusters' = clusters /\ score' = score
      \/ clusters' = <<>> /\ score' = 0
      \/ JudgePath \/ FinalLoop
  BY DEF Next, vars, Compare, MatchEdge, Match, NextRow, GatherRow, FollowBack, FindRun, FollowRun,
         UndoPath, Turn, ReleaseRow, Report, Traverse, traversal
<1> QED BY <1>2, <1>3, <1>4, <1>5, <1>6

\* The score that is reported is the best: FinalLoop leaves it so, and bz_match() for
\* templates that are too small.
LEMMA StepsScore ==
  ASSUME Clustered, BestClusters, [Next]_vars
  PROVE  BestClusters'
<1> SUFFICES ASSUME step' = "end", ~w'.over, (score >= MMSTR)'
             PROVE  (score = Max({Total(Sizes(clusters), s) : s \in Cliques(clusters)}))'
  BY DEF BestClusters, Cliques
<1>1. CASE Match
  <2>1. clusters' = <<>> /\ score' = 0
    BY <1>1 DEF Match
  <2>2. PICK cs : cs = clusters' /\ cs = <<>>
    BY <2>1
  <2>3. Linked(cs)
    <3>1. cs \in Seq(ClusterRows) /\ DOMAIN cs = {}
      BY <2>2
    <3> QED BY <3>1 DEF Linked
  <2>4. Cliques(cs) = {{}}
    BY <2>2 DEF Cliques, Together
  <2>5. {Total(Sizes(cs), s) : s \in Cliques(cs)} = {0}
    BY <2>3, <2>4, Weights
  <2>6. Max({0}) = 0
    BY DEF Max
  <2> QED BY <2>1, <2>2, <2>5, <2>6
<1>2. CASE FinalLoop
  <2>1. clusters' = clusters /\ ((score' = score /\ score < MMSTR) \/ score' = bz_final_loop(clusters))
    BY <1>2 DEF FinalLoop
  <2>2. PICK cs : cs = clusters /\ cs = clusters'
    BY <2>1
  <2>3. bz_final_loop(cs) = Max({Total(Sizes(cs), s) : s \in Cliques(cs)})
    BY <2>2, LoopRight DEF Clustered
  <2>4. ~(score' = score /\ score < MMSTR)
    <3>1. score \in Int /\ MMSTR \in Int
      BY JobsAssumption DEF Clustered
    <3> QED BY <3>1
  <2>5. score' = bz_final_loop(cs)
    BY <2>1, <2>2, <2>4
  <2> QED BY <2>2, <2>3, <2>5
<1>3. CASE UNCHANGED vars
  BY <1>3 DEF vars, BestClusters, Cliques
<1>4. Match \/ FinalLoop \/ UNCHANGED vars
  BY DEF Next, Compare, MatchEdge, NextRow, GatherRow, FollowBack, FindRun, FollowRun, JudgePath,
         UndoPath, Turn, ReleaseRow, Report, To
<1> QED BY <1>1, <1>2, <1>3, <1>4

\* The clusters as JudgePath leaves them: each is joined to later ones only, and its total is
\* their sizes and its own, which bz_final_loop() relies on when it skips a cluster.
THEOREM ClustersKept == Spec => [](Clustered /\ BestClusters)
<1>1. Init => Clustered /\ BestClusters
  <2> SUFFICES ASSUME Init PROVE Clustered /\ BestClusters
    OBVIOUS
  <2>1. clusters = <<>> /\ step = "comp" /\ score = 0
    BY DEF Init
  <2>2. clusters \in Seq(ClusterRows) /\ DOMAIN clusters = {}
    BY <2>1
  <2> QED BY <2>1, <2>2 DEF Clustered, Linked, LongClusters, BestClusters
<1>2. Built /\ Traversed /\ Clustered /\ BestClusters /\ [Next]_vars => (Clustered /\ BestClusters)'
  BY StepsCluster, StepsScore
<1> QED BY <1>1, <1>2, Inductive, PTL DEF Spec

\* A path of fewer than MSTR rows never becomes a cluster, no cluster loses rows when a
\* later one joins it, each lies in a direction that IANGLE180() may return, and no queue,
\* group, choice, mark or row leaves its table.
THEOREM TypeCorrect == Spec => []TypeOK
<1>1. Clustered => LongClusters /\ \A i \in DOMAIN clusters : clusters[i].angle \in Degrees
  <2> SUFFICES ASSUME Clustered PROVE LongClusters /\ \A i \in DOMAIN clusters : clusters[i].angle \in Degrees
    OBVIOUS
  <2>1. \A i \in DOMAIN clusters : clusters[i] \in ClusterRows
    BY DEF Clustered, Linked
  <2> QED BY <2>1 DEF Clustered, ClusterRows
<1>2. WithinTables /\ Clustered => TypeOK
  BY <1>1 DEF TypeOK
<1> QED BY <1>2, TablesBound, ClustersKept, PTL

\* bz_final_loop(), which builds sets of compatible clusters one by one and skips clusters
\* whose total cannot win, finds the best set, whatever the clusters are.
THEOREM BestFound == Spec => []BestClusters
BY ClustersKept, PTL
=============================================================================
