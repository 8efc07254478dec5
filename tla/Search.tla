-------------------------------- MODULE Search --------------------------------
(***************************************************************************)
(* The searches of the engine: the k most similar locations to a query     *)
(* (heather_db/src/read.rs), the same from a scan in single precision      *)
(* (scan.rs), and each location's nearest other one (nearest.rs), by       *)
(* comparing all pairs or through a k-d tree over a projection.            *)
(*                                                                         *)
(* Similarities are integers, in a unit far below any difference that      *)
(* matters; locations are indices from 0.  What the code leaves open (the  *)
(* entry a heap evicts among equals, the order inside a heap, which equal  *)
(* elements a selection puts left of a median) is a set of outcomes.       *)
(***************************************************************************)
EXTENDS Ranking, FiniteSetsExt

CONSTANTS
    LeafSize,     \* LEAF: points of a tree's leaf (8 in the code)
    Projected     \* MAX_K: directions a point is projected on (16)

ASSUME SearchAssumption == LeafSize \in Nat \ {0} /\ Projected \in Nat \ {0}

NoPoint == -1     \* usize::MAX

Numbered(n) == [i \in 1 .. n |-> i - 1]

-----------------------------------------------------------------------------
(* read.rs                                                                 *)

(* One more location i for a heap that keeps the k best; an index beyond   *)
(* the locations is passed over.                                           *)
offered(heap, sims, k, i) ==
    LET lowest == {e \in heap : \A f \in heap : sims[e] <= sims[f]}
    IN IF i \notin DOMAIN sims THEN {heap}
       ELSE IF Cardinality(heap) < k THEN {heap \cup {i}}
       ELSE IF \E e \in lowest : sims[i] > sims[e]
            THEN {(heap \ {e}) \cup {i} : e \in lowest}
            ELSE {heap}

(* The heaps that first may have become when every index was offered.      *)
heaps(first, sims, indices, k) ==
    FoldLeft(LAMBDA hs, i : UNION {offered(h, sims, k, i) : h \in hs},
             {first}, indices)

(* The heap drained and sorted by descending similarity.                   *)
drained(heap, sims) ==
    {s \in SetToSeqs(heap) :
        \A m, n \in DOMAIN s : m < n => sims[s[m]] >= sims[s[n]]}

top_k(sims, indices, k) ==
    UNION {drained(h, sims) : h \in heaps({}, sims, indices, k)}

(* activate, and activate_soa over the address matrix.                     *)
activate(sims, n, k) == top_k(sims, Numbered(n), k)

(* activate_subset: only the allowed indices compete.                      *)
activate_subset(sims, allowed, k) == top_k(sims, allowed, k)

(* select_landmarks: the locations written most, the first among equals.   *)
select_landmarks(writes, n, count) ==
    LET before(i, j) == writes[i] > writes[j] \/ (writes[i] = writes[j] /\ i < j)
    IN IF n <= count THEN Numbered(n)
       ELSE SubSeq(ranked(0 .. n - 1, before), 1, count)

(* build_id_lookup: the last location of an id; the other ids have none.   *)
build_id_lookup(ids) ==
    [id \in ToSet(ids) |-> Max({i \in DOMAIN ids : ids[i] = id}) - 1]

first_best(sims, indices) ==
    indices[Min({m \in DOMAIN indices :
                   \A o \in DOMAIN indices : sims[indices[o]] <= sims[indices[m]]})]

(* The neighbours not visited yet of a list of ids, some of which may name *)
(* locations that are gone.                                                *)
unvisited(ids, lookup, visited) ==
    FoldLeft(LAMBDA s, id :
                IF id \in DOMAIN lookup /\ lookup[id] \notin visited \cup ToSet(s)
                THEN Append(s, lookup[id]) ELSE s,
             <<>>, ids)

(* graph_activate's loop.  A walk is at a location, has visited some, and  *)
(* holds the best of those in its heap; it ends where no neighbour is new, *)
(* or where the best new one cannot enter the full heap.                   *)
hop(walk, sims, k, neighbors, lookup) ==
    LET reached == unvisited(neighbors[walk.at], lookup, walk.visited)
        next == first_best(sims, reached)
        full(h) == Cardinality(h) >= k /\ \A e \in h : sims[next] < sims[e]
    IN IF walk.ends THEN {walk}
       ELSE IF reached = <<>> THEN {[walk EXCEPT !.ends = TRUE]}
       ELSE {[at |-> next, visited |-> walk.visited \cup ToSet(reached),
              heap |-> h, ends |-> full(h)] :
                 h \in heaps(walk.heap, sims, reached, k)}

(* Every hop that does not end a walk visits a location more, so that n of *)
(* them end it.                                                            *)
walks(entry, sims, n, k, neighbors, lookup) ==
    LET after[m \in 0 .. n] ==
            IF m = 0
            THEN {[at |-> entry, visited |-> {entry}, heap |-> {entry}, ends |-> FALSE]}
            ELSE UNION {hop(w, sims, k, neighbors, lookup) : w \in after[m - 1]}
    IN after[n]

graph_activate(sims, n, k, landmarks, neighbors, lookup) ==
    LET entry == first_best(sims, landmarks)
    IN IF landmarks = <<>> \/ n = 0 THEN activate(sims, n, k)
       ELSE UNION {drained(w.heap, sims) :
                     w \in walks(entry, sims, n, k, neighbors, lookup)}

-----------------------------------------------------------------------------
(* scan.rs: sims are the exact similarities, approx those in f32, which    *)
(* differ by at most err.                                                  *)

(* select_nth_unstable: fewer than k scores are greater, and k are as great.*)
kth_best(scores, k) ==
    LET atLeast(x) == {i \in DOMAIN scores : scores[i] >= x}
        greater(x) == {i \in DOMAIN scores : scores[i] > x}
    IN CHOOSE x \in {scores[i] : i \in DOMAIN scores} :
          Cardinality(greater(x)) < k /\ k <= Cardinality(atLeast(x))

floor_one_error(scores, k, err) == kth_best(scores, k) - err

floor(scores, k, err) == kth_best(scores, k) - 2 * err

(* The candidates the f32 scores cannot rule out, ranked by the exact ones;*)
(* the plain scan when there is no matrix to go by.                        *)
nearest(sims, approx, n, k, err, matrix) ==
    LET candidates == {i \in 0 .. n - 1 : approx[i] >= floor(approx, k, err)}
        before(i, j) == sims[i] > sims[j] \/ (sims[i] = sims[j] /\ i < j)
    IN IF k > 0 /\ k <= n /\ matrix
       THEN {SubSeq(ranked(candidates, before), 1, k)}
       ELSE activate(sims, n, k)

-----------------------------------------------------------------------------
(* nearest.rs.  Points are tuples of integers; the similarity of two       *)
(* addresses falls as their distance on the sphere grows; the projection   *)
(* keeps the first coordinates.  Points outside of valid are zero          *)
(* addresses, which are nobody's neighbour.                                *)

dist2(p, q, k) == FoldLeft(LAMBDA s, c : s + (p[c] - q[c]) * (p[c] - q[c]),
                           0, [c \in 1 .. k |-> c])

sim(points, i, j) == -dist2(points[i], points[j], Len(points[i]))

(* A scan in increasing order that keeps the first of the best.            *)
best_of(points, i, candidates) ==
    LET closer(a, b) == sim(points, i, a) > sim(points, i, b)
        best == {c \in candidates : \A d \in candidates : ~closer(d, c)}
    IN IF candidates = {} THEN NoPoint ELSE Min(best)

(* brute, brute_one: every other usable location compared.                 *)
brute_one(points, valid, i) ==
    IF i \in valid THEN best_of(points, i, valid \ {i}) ELSE NoPoint

coord(points, p, axis) == points[p][axis]

spread(points, S, axis) ==
    Max({coord(points, p, axis) : p \in S}) - Min({coord(points, p, axis) : p \in S})

(* The widest dimension, the last among equals.                            *)
widest(points, S) ==
    Max({axis \in 1 .. Projected :
           \A e \in 1 .. Projected : spread(points, S, e) <= spread(points, S, axis)})

(* A node of a tree is a range <<start, end>> of the order of its points.  *)
Ranges(order) == {r \in (0 .. Len(order)) \X (0 .. Len(order)) : r[1] <= r[2]}
Root(order) == <<0, Len(order)>>

is_leaf(r) == r[2] - r[1] <= LeafSize

middle(r) == r[1] + (r[2] - r[1]) \div 2
left_half(r)   == <<r[1], middle(r)>>
right_half(r)  == <<middle(r), r[2]>>

within_range(order, r) == {order[n] : n \in r[1] + 1 .. r[2]}

dim_of(points, order, r) == widest(points, within_range(order, r))

(* The median's coordinate, the least of the right half.                   *)
value(points, order, r) ==
    Min({coord(points, p, dim_of(points, order, r)) : p \in within_range(order, right_half(r))})

(* The points of a range are cut at the median of their widest dimension.  *)
cut_at_median(points, order, r) ==
    LET axis == dim_of(points, order, r)
    IN \A p \in within_range(order, left_half(r)), q \in within_range(order, right_half(r)) :
           coord(points, p, axis) <= coord(points, q, axis)

(* The nodes of a tree, from its root down.                                *)
nodes(order) ==
    LET below[r \in Ranges(order)] ==
            {r} \cup IF is_leaf(r) THEN {} ELSE below[left_half(r)] \cup below[right_half(r)]
    IN below[Root(order)]

(* build: the order that splitting leaves the points in.                   *)
build(points, valid) ==
    {order \in SetToSeqs(valid) :
        \A r \in nodes(order) : is_leaf(r) \/ cut_at_median(points, order, r)}

diff(points, order, r, q) == q[dim_of(points, order, r)] - value(points, order, r)

near(points, order, r, q) == IF diff(points, order, r, q) < 0 THEN left_half(r) ELSE right_half(r)
far(points, order, r, q)  == IF diff(points, order, r, q) < 0 THEN right_half(r) ELSE left_half(r)

diff2(points, order, r, q) == diff(points, order, r, q) * diff(points, order, r, q)

distance(points, q, p) == dist2(points[p], q, Projected)

(* A leaf's points in order; the first of the closest is held.             *)
leaf_nearest(points, order, r, q, skip, best) ==
    FoldLeft(LAMBDA b, p :
                IF p # skip /\ (b = NoPoint \/ distance(points, q, p) < distance(points, q, b))
                THEN p ELSE b,
             best, SubSeq(order, r[1] + 1, r[2]))

(* nearest_in: the closest point but skip that the search comes by, which  *)
(* looks at the other side of a cut only when it may hold a closer one.    *)
nearest_excluding(points, order, q, skip) ==
    LET Held == ToSet(order) \cup {NoPoint}
        nearest_in[r \in Ranges(order)] ==
            IF is_leaf(r)
            THEN [b \in Held |-> leaf_nearest(points, order, r, q, skip, b)]
            ELSE LET nearer == nearest_in[near(points, order, r, q)]
                     farther == nearest_in[far(points, order, r, q)]
                     crosses(c) == \/ c = NoPoint
                                   \/ diff2(points, order, r, q) < distance(points, q, c)
                 IN [b \in Held |-> IF crosses(nearer[b]) THEN farther[nearer[b]]
                                                          ELSE nearer[b]]
    IN nearest_in[Root(order)][NoPoint]

(* within_in: every point of the tree within squared distance r2 of q.     *)
within(points, order, q, r2) ==
    LET within_in[r \in Ranges(order)] ==
            IF is_leaf(r)
            THEN {p \in within_range(order, r) : distance(points, q, p) <= r2}
            ELSE within_in[near(points, order, r, q)]
                 \cup IF diff2(points, order, r, q) <= r2
                      THEN within_in[far(points, order, r, q)] ELSE {}
    IN within_in[Root(order)]

radius2_in_projection(points, i, c) == distance(points, points[i], c)

(* How far i's nearest can be, given some neighbour c.  SLACK, which covers*)
(* rounding, is far below the spacing of integers.                         *)
radius2(points, i, c) == -sim(points, i, c)

(* projected, for location i: some neighbour c bounds how far the nearest  *)
(* can be, in full and so in projection; what the tree holds within that   *)
(* radius is compared in full.                                             *)
projected(points, valid, order, i) ==
    LET c == nearest_excluding(points, order, points[i], i)
        candidates == within(points, order, points[i], radius2(points, i, c))
        best == best_of(points, i, candidates \ {i})
    IN IF c = NoPoint \/ best = NoPoint \/ sim(points, i, best) < sim(points, i, c)
       THEN brute_one(points, valid, i)
       ELSE best
===============================================================================
