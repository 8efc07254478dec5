------------------------------ MODULE Snapshots ------------------------------
(***************************************************************************)
(* The algebra on snapshots (heather_algebra/src/ops.rs, bind.rs,          *)
(* consolidate.rs, merge.rs of heather_db): what add, sub, scale, negate,  *)
(* intersect, bind and unbind make of the locations of their operands.     *)
(*                                                                         *)
(* A snapshot is a sequence of locations, numbered by their ids; a vector  *)
(* is a function from the coordinates 0 .. d-1 to integers.  Vectors are   *)
(* kept without dividing by their length: a direction stands for the unit  *)
(* vector, and cosines are compared exactly, as fractions of squares.      *)
(***************************************************************************)
EXTENDS Ranking, FiniteSetsExt

NoLocations == <<>>

-----------------------------------------------------------------------------
(* Vectors.                                                                *)

(* The values of a function, added up.                                     *)
total(f) == FoldFunction(+, 0, f)

dot(a, b) == total([i \in DOMAIN a |-> a[i] * b[i]])

norm2(a) == dot(a, a)

plus(a, b) == [i \in DOMAIN a |-> a[i] + b[i]]

times(s, a) == [i \in DOMAIN a |-> s * a[i]]

Zero(d) == [i \in 0 .. d - 1 |-> 0]

(* The square of the cosine with the cosine's sign, 0 for a zero vector.   *)
cosine(a, b) ==
    LET c == dot(a, b)
    IN IF norm2(a) = 0 \/ norm2(b) = 0 THEN [num |-> 0, den |-> 1]
       ELSE [num |-> IF c < 0 THEN -c * c ELSE c * c, den |-> norm2(a) * norm2(b)]

above(x, y) == x.num * y.den > y.num * x.den

(* circular_convolve, and involve.                                         *)
circular_convolve(a, b) ==
    LET d == Cardinality(DOMAIN a)
    IN [k \in DOMAIN a |-> total([i \in DOMAIN a |-> a[i] * b[(k - i) % d]])]

involve_mirrored(a) ==
    LET d == Cardinality(DOMAIN a) IN [i \in DOMAIN a |-> a[d - 1 - i]]

involve(a) ==
    LET d == Cardinality(DOMAIN a)
    IN [i \in DOMAIN a |-> IF i = 0 THEN a[0] ELSE a[d - i]]

unbind_vec(c, a) == circular_convolve(c, involve(a))

(* unbind_by of vec_ops.rs: the same, once more, for scoring by role.      *)
unbind_by(bound, role) ==
    LET d == Cardinality(DOMAIN bound)
    IN [k \in DOMAIN bound |->
          total([i \in DOMAIN bound |-> bound[i] * role[(i - k) % d]])]

(* bundle_vec: the weighted sum of the vectors.                            *)
bundle_vec(vectors, weights) ==
    [i \in DOMAIN vectors[1] |->
        total([n \in DOMAIN vectors |-> weights[n] * vectors[n][i]])]

-----------------------------------------------------------------------------
(* Locations.                                                              *)

(* normalized_pattern: the counter over the write count, which divides it. *)
normalized_pattern(l) ==
    IF l.writes = 0 THEN times(0, l.counter)
    ELSE [i \in DOMAIN l.counter |-> l.counter[i] \div l.writes]

(* reindex: ids are 0, 1, ... in the order of the locations.               *)
reindex(locations) ==
    [n \in DOMAIN locations |-> [locations[n] EXCEPT !.id = n - 1]]

(* One location made by an operation: the address is the pattern's.        *)
Made(pattern) ==
    [address |-> pattern, counter |-> pattern, writes |-> 1, id |-> 0]

-----------------------------------------------------------------------------
(* merge.rs, consolidate.rs                                                *)

(* The pairs of knn_merge: every location with its nearest other one, the  *)
(* first among equals, if it is closer than tau; the closest pairs first.  *)
merge_pairs(locations, tau) ==
    LET usable == {i \in DOMAIN locations : norm2(locations[i].address) > 0}
        pair(i, j) == [i |-> i, j |-> j,
                       sim |-> cosine(locations[i].address, locations[j].address)]
        pairs == {pair(p[1], p[2]) : p \in {p \in usable \X usable : p[1] # p[2]}}
        before(p, q) ==
            \/ above(p.sim, q.sim)
            \/ ~above(q.sim, p.sim) /\ (p.i < q.i \/ (p.i = q.i /\ p.j < q.j))
        nn == {p \in pairs : \A q \in pairs : before(q, p) => q.i # p.i}
    IN ranked({p \in nn : above(p.sim, tau)}, before)

absorbing_again(st, i, j) == st.merged[j]

(* Neither of a pair may have been merged into another location before.    *)
absorbing(st, i, j) == st.merged[i] \/ st.merged[j]

(* j's counter and writes are added to i's, and j goes.                    *)
absorb(st, pair) ==
    LET i == pair.i
        j == pair.j
    IN IF absorbing(st, i, j) THEN st
       ELSE [locs |-> [st.locs EXCEPT ![i].counter = plus(@, st.locs[j].counter),
                                      ![i].writes = @ + st.locs[j].writes],
             merged |-> [st.merged EXCEPT ![j] = TRUE]]

survivors(st) == subsequence(st.locs, {i \in DOMAIN st.locs : ~st.merged[i]})

(* knn_merge: pair by pair; what absorbed a location may go later, as the  *)
(* other location of a pair.  Its address becomes the weighted mean of two *)
(* unit vectors; at a tau close enough to 1 that only parallel addresses   *)
(* merge, that is the direction it had.                                    *)
knn_merge(locations, tau) ==
    LET start == [locs |-> locations,
                  merged |-> [i \in DOMAIN locations |-> FALSE]]
    IN survivors(FoldLeft(absorb, start, merge_pairs(locations, tau)))

consolidate(locations, tau) == reindex(knn_merge(locations, tau))

-----------------------------------------------------------------------------
(* ops.rs, bind.rs: a and b are the locations of the operands, k is        *)
(* max_cross_k, tau the threshold of the consolidation.                    *)

(* estimated_cross_locations of the server's limits.                       *)
estimated_cross_locations(n_a, n_b, k) ==
    IF k = 0 \/ k >= n_b THEN n_a * n_b ELSE n_a * k

(* The k most similar, the most similar first, the first among equals.     *)
most_similar(sims, k) ==
    LET before(i, j) == \/ above(sims[i], sims[j])
                        \/ ~above(sims[j], sims[i]) /\ i < j
    IN SubSeq(ranked(DOMAIN sims, before), 1, k)

(* The locations of b that one of a is combined with: all of them, or k.   *)
partners(l, b, k) ==
    IF k = 0 \/ k >= Len(b) THEN [j \in DOMAIN b |-> j]
    ELSE most_similar([j \in DOMAIN b |-> cosine(l.address, b[j].address)], k)

(* The pairs of patterns to combine, row by row.                           *)
crossed(a, b, k) ==
    LET row(i) == LET js == partners(a[i], b, k)
                  IN [n \in DOMAIN js |-> <<normalized_pattern(a[i]),
                                           normalized_pattern(b[js[n]])>>]
    IN FoldLeft(LAMBDA pairs, i : pairs \o row(i), <<>>, [i \in DOMAIN a |-> i])

(* A location for each combination that did not cancel.                    *)
combined(vectors) ==
    LET kept == subsequence(vectors, {n \in DOMAIN vectors : norm2(vectors[n]) > 0})
    IN [n \in DOMAIN kept |-> Made(kept[n])]

sums(pairs, sign) ==
    [n \in DOMAIN pairs |-> plus(pairs[n][1], times(sign, pairs[n][2]))]

products(pairs) ==
    [n \in DOMAIN pairs |-> circular_convolve(pairs[n][1], pairs[n][2])]

pairwise_combine(a, b, sign, k) == combined(sums(crossed(a, b, k), sign))

pairwise_bind(a, b, k) == combined(products(crossed(a, b, k)))

add_with_limit(a, b, k, tau) ==
    IF a = NoLocations THEN b
    ELSE IF b = NoLocations THEN a
    ELSE consolidate(pairwise_combine(a, b, 1, k), tau)

(* scale: the counters only; a factor of zero is refused.                  *)
scale(a, alpha) ==
    [n \in DOMAIN a |-> [a[n] EXCEPT !.counter = times(alpha, @)]]

negate(a) == scale(a, -1)

sub_with_limit(a, b, k, tau) ==
    IF a = NoLocations THEN negate(b)
    ELSE IF b = NoLocations THEN a
    ELSE consolidate(pairwise_combine(a, b, -1, k), tau)

(* bind: each product is divided by its length, which is not done here: it *)
(* is 1 where the patterns are unit vectors and those of b shifts.         *)
bind_with_limit(a, b, k, tau) ==
    IF a = NoLocations \/ b = NoLocations THEN NoLocations
    ELSE consolidate(pairwise_bind(a, b, k), tau)

(* unbind, by the only location of key; ids stay the positions in c.       *)
unbind(c, key) ==
    LET recovered(l) == unbind_vec(normalized_pattern(l), normalized_pattern(key[1]))
        made == [n \in DOMAIN c |-> [Made(recovered(c[n])) EXCEPT !.id = n - 1]]
    IN subsequence(made, {n \in DOMAIN made : norm2(made[n].counter) > 0})

(* intersect: the locations of a that some location of b is closer to than *)
(* the threshold.                                                          *)
intersect(a, b, threshold) ==
    reindex(subsequence(a, {i \in DOMAIN a :
        \E j \in DOMAIN b : above(cosine(a[i].address, b[j].address), threshold)}))
===============================================================================
