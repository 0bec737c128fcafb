--------------------------- MODULE BozorthSafety ---------------------------
(***************************************************************************)
(* What the scoring of a swipe promises.                                   *)
(***************************************************************************)
EXTENDS Bozorth

\* The work stays inside its tables: the queue and the groups of alternatives within their
\* limits (one row can add two groups), choices among the alternatives noted, marks and rows
\* within the table and what an earlier comparison left behind it, clusters of MSTR rows, in
\* a direction that IANGLE180() may return.
WithinTables ==
    /\ w.tq \in [Points -> {0} \cup Points] /\ w.rq \in [Points -> {0} \cup Points]
    /\ Len(w.qq) <= QQ_SIZE /\ Range(w.qq) \subseteq Points
    /\ Len(w.groups) <= WWIM + 1 /\ w.turn \in 0 .. Len(w.groups) /\ w.dw \in 0 .. Len(w.groups)
    /\ \A i \in DOMAIN w.groups : w.groups[i].pick \in DOMAIN w.groups[i].alts
    /\ Range(w.y) \subseteq DOMAIN w.sc /\ w.np <= Len(w.sc)
Degrees == -179 .. 180
LongClusters == \A i \in DOMAIN clusters : clusters[i].size >= MSTR
TypeOK ==
    /\ WithinTables /\ LongClusters
    /\ \A i \in DOMAIN clusters : clusters[i].angle \in Degrees

\* bz_match() skips gallery edges that were too short for an earlier probe edge and stops
\* at the first that is too long, which is right only because bz_comp() leaves both webs
\* sorted: unless there are too many, the table holds every pair of edges that agree in
\* length and angles, once for each such pair, and in the order the traversal's search
\* needs.
Agree(c) ==
    /\ ~TooFar(web[1][c[1]][1], web[2][c[2]][1])
    /\ SameAngles(web[1][c[1]], web[2][c[2]])
PairsComplete ==
    (step = "pair" /\ w.k = 1) =>
        LET all == {c \in (1 .. Len(web[1]) - 1) \X (1 .. Len(web[2])) : Agree(c)}
            rows == SubSeq(colp, 1, w.np)
        IN Cardinality(all) <= MaxRows =>
               /\ \A r \in Range(rows) \cup {RowOf(c[1], c[2]) : c \in all} :
                      Cardinality({i \in DOMAIN rows : rows[i] = r})
                          = Cardinality({c \in all : RowOf(c[1], c[2]) = r})
               /\ \A i \in 1 .. Len(rows) - 1 : ~Before(RowKey(rows[i + 1]), RowKey(rows[i]))

\* Minutiae are paired one to one: tq and rq stay inverse to each other through every
\* sift, every undone path and every abandoned choice of alternatives, and each row of a
\* path ends at minutiae that are paired with each other at that moment, whatever was
\* paired, undone and chosen anew before.
OneToOne ==
    /\ \A p, q \in Points : (w.tq[p] = q) <=> (w.rq[q] = p)
    /\ step \in {"gather", "back", "run"} => \A i \in DOMAIN w.y : w.tq[At(w.y[i])[3]] = At(w.y[i])[5]

\* Nothing of a row's paths is left when the next row begins its own: no pair, no place in
\* the queue, no alternative, although clean-up is spread over three places of the loop.
PathsCleanedUp ==
    step = "pair" => w.tq = NoPairs /\ w.rq = NoPairs /\ w.queued = {} /\ w.groups = <<>>

\* The combined score is that of the best set of clusters that are compatible with each
\* other two by two: the search that skips clusters whose total cannot win finds it.
Sizes(cs) == [i \in DOMAIN cs |-> cs[i].size]
Together(cs, s) == \A a, b \in s : a < b => b \in cs[a].with
BestClusters ==
    (step = "end" /\ ~w.over /\ score >= MMSTR) =>
        LET sets == {s \in SUBSET DOMAIN clusters : Together(clusters, s)}
        IN score = Max({Total(Sizes(clusters), s) : s \in sets})

\* bozorth3.c:76: the score is accumulated from "match table entries" of the table it is
\* given: a path holds no row beyond this comparison's table.
RowsOfThisTable == \A i \in DOMAIN w.y : w.y[i] <= w.np
=============================================================================
