------------------------------ MODULE Algorithms ------------------------------
(***************************************************************************)
(* One call of each algorithm of the engine on every small input: coordi-  *)
(* nate permutations, the searches, the algebra on vectors and snapshots.  *)
(* A behaviour is one call, whose result the properties compare with a     *)
(* reference definition, or with what other calls make of the same input.  *)
(***************************************************************************)
EXTENDS Permutations, Search, Snapshots

CONSTANTS
    Dim,        \* coordinates of a permuted vector
    MaxPower,   \* bound on powers of a permutation
    MaxSize,    \* locations of a search
    MaxSim,     \* bound on similarities, in units of the f32 error
    MaxPoints   \* points of a neighbour search

ASSUME AlgorithmsAssumption ==
    /\ Dim \in Nat /\ MaxPower \in Nat
    /\ MaxSize \in Nat /\ MaxSim \in Nat /\ MaxPoints \in Nat
    /\ Projected <= 3    \* the modelled points have three coordinates

VARIABLES op, input, result

calls == <<op, input, result>>

NoCall == op = "none" /\ input = <<>> /\ result = <<>>

Call(name, in, out) ==
    /\ op' = name
    /\ input' = in
    /\ result' = out

-----------------------------------------------------------------------------
(* The inputs.                                                             *)

Powers == -MaxPower .. MaxPower

\* All entries differ, so that a vector tells where each of them went.
Marked == [i \in 0 .. Dim - 1 |-> i + 1]

\* Three coordinates, of which the projection keeps the first ones: points
\* alike in projection and not in full, and at equal distances of each other.
Points == [1 .. MaxPoints -> {<<0, 0, 0>>, <<1, 0, 0>>, <<2, 0, 0>>,
                              <<0, 1, 0>>, <<0, 0, 2>>, <<1, 1, 1>>}]

\* The ids of three locations, in the order of the locations.
Ids == <<7, 3, 5>>
Gone == 4
Edges == {f \in [0 .. 2 -> SUBSET (0 .. 2)] : \A i \in 0 .. 2 : i \notin f[i]}

\* Parallel, opposite, orthogonal and oblique ones, none of them zero.
Patterns == {p \in [0 .. 1 -> -1 .. 1] : p[0] + p[1] >= 0} \ {Zero(2)}

Locations == [address : Patterns, writes : 1 .. 2]

Stored(ls) == [n \in DOMAIN ls |->
                 [address |-> ls[n].address,
                  counter |-> times(ls[n].writes, ls[n].address),
                  writes  |-> ls[n].writes,
                  id      |-> n - 1]]

Operands == {Stored(ls) : ls \in UNION {[1 .. n -> Locations] : n \in 0 .. 2}}

SingleWrites == {a \in Operands : \A n \in DOMAIN a : a[n].writes = 1}

\* So close to 1 that only parallel vectors of these sizes are closer.
Tau == [num |-> 99, den |-> 100]

Vectors == [0 .. 2 -> -1 .. 1]

\* Shifts of either sign: convolving with them loses nothing.
Keys(d) == {[i \in 0 .. d - 1 |-> IF i = s THEN sign ELSE 0] :
               s \in 0 .. d - 1, sign \in {-1, 1}}

-----------------------------------------------------------------------------
(* The calls.                                                              *)

Permute ==
    /\ op = "none"
    /\ \E rho \in from_seed(Dim), k \in Powers :
           Call("permute", [rho |-> rho, k |-> k], apply_pow(rho, Marked, k))

Rotate ==
    /\ op = "none"
    /\ \E rho \in from_seed(Dim), t \in Powers :
           Call("rotate", [rho |-> rho, k |-> t], apply_rotate(rho, Marked, t))

PermuteSnapshot ==
    /\ op = "none"
    /\ \E rho \in from_seed(2), k \in Powers, a \in Operands :
           Call("permute_snapshot", [rho |-> rho, k |-> k, a |-> a],
                permute_snapshot(a, rho, k))

Activate ==
    /\ op = "none"
    /\ \E n \in 0 .. MaxSize : \E sims \in [0 .. n - 1 -> 0 .. MaxSim], k \in 0 .. n + 1 :
           \E r \in activate(sims, n, k) :
               Call("activate", [sims |-> sims, n |-> n, k |-> k,
                                 allowed |-> 0 .. n - 1], r)

ActivateSubset ==
    /\ op = "none"
    /\ \E n \in 0 .. MaxSize - 1 :
       \E sims \in [0 .. n - 1 -> 0 .. MaxSim], k \in 0 .. n + 1, A \in SUBSET (0 .. n) :
           \E r \in activate_subset(sims, SetToSeq(A), k) :
               Call("activate", [sims |-> sims, n |-> n, k |-> k,
                                 allowed |-> A \cap 0 .. n - 1], r)

\* Any neighbour lists over three locations, which may still hold the id of a
\* location that is gone.
GraphActivate ==
    /\ op = "none"
    /\ \E sims \in [0 .. 2 -> 0 .. MaxSim - 1], k \in 1 .. 3, count \in 1 .. 2,
          edges \in Edges, gone \in SUBSET {Gone} :
           LET neighbors == [i \in 0 .. 2 |->
                   SetToSeq({Ids[j + 1] : j \in edges[i]} \cup gone)]
               landmarks == select_landmarks([i \in 0 .. 2 |-> i % 2], 3, count)
           IN \E r \in graph_activate(sims, 3, k, landmarks, neighbors, build_id_lookup(Ids)) :
                 Call("graph", [sims |-> sims, k |-> k, edges |-> edges,
                                entry |-> first_best(sims, landmarks),
                                allowed |-> 0 .. 2], r)

\* The f32 similarities are off by at most one unit, either way.
ScanNearest ==
    /\ op = "none"
    /\ \E n \in 1 .. MaxSize - 1 :
       \E sims \in [0 .. n - 1 -> 0 .. MaxSim], off \in [0 .. n - 1 -> -1 .. 1], k \in 1 .. n :
           \E r \in nearest(sims, [i \in 0 .. n - 1 |-> sims[i] + off[i]], n, k, 1, TRUE) :
               Call("scan", [sims |-> sims, n |-> n, k |-> k,
                             allowed |-> 0 .. n - 1], r)

Neighbour ==
    /\ op = "none"
    /\ \E points \in Points, zero \in SUBSET {MaxPoints} :
           LET valid == (1 .. MaxPoints) \ zero
           IN \E order \in build(points, valid), i \in valid :
                 Call("neighbour", [points |-> points, valid |-> valid, i |-> i],
                      projected(points, valid, order, i))

Add ==
    /\ op = "none"
    /\ \E a \in Operands, b \in SingleWrites, k \in 0 .. 1 :
           Call("add", [a |-> a, b |-> b, k |-> k], add_with_limit(a, b, k, Tau))

Sub ==
    /\ op = "none"
    /\ \E a \in Operands, b \in SingleWrites, k \in 0 .. 1 :
           Call("sub", [a |-> a, b |-> b, k |-> k], sub_with_limit(a, b, k, Tau))

Bind ==
    /\ op = "none"
    /\ \E a \in {a \in SingleWrites : \A n \in DOMAIN a : norm2(a[n].counter) = 1},
          b \in {Stored(<<[address |-> key, writes |-> 1]>>) : key \in Keys(2)} :
           Call("bind", [a |-> a, b |-> b, k |-> 0], bind_with_limit(a, b, 0, Tau))

Intersect ==
    /\ op = "none"
    /\ \E a \in Operands, b \in SingleWrites :
           Call("intersect", [a |-> a, b |-> b], intersect(a, b, Tau))

Bundle ==
    /\ op = "none"
    /\ \E p, q \in Vectors, w \in -1 .. 2 :
           Call("bundle", [p |-> p, q |-> q, w |-> w], bundle_vec(<<p, q>>, <<1, w>>))

OneCall ==
        \/ Permute \/ Rotate \/ PermuteSnapshot
        \/ ScanNearest \/ Bind \/ Add \/ Neighbour
        \/ Bundle \/ Intersect \/ Sub
        \/ Activate \/ ActivateSubset \/ GraphActivate

CallSpec == NoCall /\ [][OneCall]_calls

-----------------------------------------------------------------------------
(* Properties.                                                             *)

\* The vector after n single steps of rho, forward or back.
Stepped(rho, v, k) ==
    LET after[n \in 0 .. magnitude(k)] ==
            IF n = 0 THEN v
            ELSE IF k > 0 THEN apply(rho, after[n - 1]) ELSE apply_inv(rho, after[n - 1])
    IN after[magnitude(k)]

\* permute.rs: a power is that many single permutations, whatever its sign;
\* a rotation by whole steps is that power (permute.rs:238), which takes the
\* cycles, in move order, to be exactly the coordinates' orbits; powers add
\* up, and a permuted snapshot is restored by the opposite power.
PowersCompose ==
    /\ op \in {"permute", "rotate"} =>
          /\ result = Stepped(input.rho, Marked, input.k)
          /\ \A k \in Powers : apply_pow(input.rho, result, k)
                                  = apply_pow(input.rho, Marked, input.k + k)
    /\ op = "permute_snapshot" =>
          permute_snapshot(result, input.rho, -input.k) = input.a

\* The locations the graph leads to from its entry, by whatever hops.
Reachable ==
    {i \in 0 .. 2 :
        \A S \in SUBSET (0 .. 2) :
            input.entry \in S /\ (\A j \in S : input.edges[j] \subseteq S) => i \in S}

\* The answer r to a search among A for the k most similar: in order, without
\* repetition, and the best of A; of the graph search, only if every location
\* of A is linked to all of them.
ExactAnswer(name, sims, A, edges, k, r) ==
    /\ ToSet(r) \subseteq A
    /\ IsInjective(r)
    /\ \A m, n \in DOMAIN r :
          m < n => \/ sims[r[m]] > sims[r[n]]
                   \/ sims[r[m]] = sims[r[n]] /\ (name = "scan" => r[m] < r[n])
    /\ (name = "graph" => \A i \in A : A \ {i} \subseteq edges[i]) =>
          /\ Len(r) = Min({k, Cardinality(A)})
          /\ \A i \in A \ ToSet(r), m \in DOMAIN r :
                \/ sims[i] < sims[r[m]]
                \/ sims[i] = sims[r[m]] /\ (name = "scan" => i > r[m])

\* read.rs, scan.rs: a search returns min(k, candidates) different candidates,
\* best first, and leaves out none that is more similar than one it returns;
\* the single-precision scan returns exactly those an exact one would, equal
\* ones by index, however the rounding of its scores falls.  The search along
\* the neighbour graph, which is approximate (read.rs:191), returns what an
\* exact one would of the locations the graph leads to, if every location
\* has all of those as neighbours.
SearchIsExact ==
    op \in {"activate", "scan", "graph"} =>
        ExactAnswer(op, input.sims,
                    IF op = "graph" THEN Reachable ELSE input.allowed,
                    input.edges, input.k, result)

\* nearest.rs: the projected search finds the neighbour that comparing every
\* pair finds, the lowest index among equals included, whichever tree the
\* medians gave.
NeighboursAreExact ==
    op = "neighbour" => result = brute_one(input.points, input.valid, input.i)

Counters(ls) == [c \in 0 .. 1 |-> total([n \in DOMAIN ls |-> ls[n].counter[c]])]

Writes(ls) == total([n \in DOMAIN ls |-> ls[n].writes])

\* The combinations of a and b that an operation consolidates.
Combinations(a, b, k) ==
    CASE op = "add"  -> pairwise_combine(a, b, 1, k)
      [] op = "sub"  -> pairwise_combine(a, b, -1, k)
      [] op = "bind" -> pairwise_bind(a, b, k)

\* The combinations are within the limit, the locations they were merged into
\* are numbered without gaps, and merging moved counters and writes together.
MergedFrom(locations, made, limit) ==
    /\ Len(made) <= limit
    /\ Len(locations) <= Len(made)
    /\ \A n \in DOMAIN locations : locations[n].id = n - 1
    /\ Counters(locations) = Counters(made)
    /\ Writes(locations) = Writes(made)

\* ops.rs, bind.rs, merge.rs: what an operation makes of two snapshots fits
\* what the server's limit was checked against, is numbered without gaps, and
\* holds every combination once, whichever locations were merged.
ResultsFit ==
    op \in {"add", "sub", "bind"} /\ input.a # NoLocations /\ input.b # NoLocations =>
        MergedFrom(result, Combinations(input.a, input.b, input.k),
                   estimated_cross_locations(Len(input.a), Len(input.b), input.k))

PatternsOf(ls) == {normalized_pattern(ls[n]) : n \in DOMAIN ls}

\* ops.rs, bind.rs: subtracting adds the negation, with an empty operand too;
\* unbinding by the key of a binding restores what was bound; an intersection
\* holds locations of the first operand, loses nothing of it against itself,
\* and is then its own; binding commutes and distributes over bundling
\* (bind.rs:15), and the two definitions of unbinding agree (vec_ops.rs:217).
AlgebraLaws ==
    /\ op = "sub" => result = add_with_limit(input.a, negate(input.b), input.k, Tau)
    /\ op = "bind" => PatternsOf(unbind(result, input.b)) = PatternsOf(input.a)
    /\ op = "intersect" =>
          /\ PatternsOf(result) \subseteq PatternsOf(input.a)
          /\ intersect(result, input.b, Tau) = result
          /\ intersect(input.a, input.a, Tau) = input.a
    /\ op = "bundle" =>
          \A key \in Keys(3) :
              /\ circular_convolve(result, key)
                    = bundle_vec(<<circular_convolve(input.p, key),
                                   circular_convolve(input.q, key)>>, <<1, input.w>>)
              /\ circular_convolve(input.p, input.q) = circular_convolve(input.q, input.p)
              /\ unbind_vec(circular_convolve(result, key), key) = result
              /\ unbind_by(input.p, input.q) = unbind_vec(input.p, input.q)
===============================================================================
