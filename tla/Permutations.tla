----------------------------- MODULE Permutations -----------------------------
(***************************************************************************)
(* Permutations of coordinates (heather_algebra/src/permute.rs): built from*)
(* an index map or a shuffle, applied, raised to an integer power, taken   *)
(* apart into cycles, and turned along them.  Coordinates are 0 .. d-1; a  *)
(* vector is a function on them.  The turn by a fraction of a step, which  *)
(* interpolates through a Fourier transform, is left out: at an integer t  *)
(* that transform is the cyclic shift below.                               *)
(***************************************************************************)
EXTENDS Integers, Sequences, FiniteSets, SequencesExt

(* gather: out[i] = v[map[i]].                                             *)
gather(v, map) == [i \in DOMAIN map |-> v[map[i]]]

inverted(perm) == [x \in DOMAIN perm |-> CHOOSE i \in DOMAIN perm : perm[i] = x]

(* from_indices: the permutation of an index map, none when an index is    *)
(* out of range or comes twice.                                            *)
from_indices(perm) ==
    IF \A i, j \in DOMAIN perm :
          perm[i] \in DOMAIN perm /\ (perm[i] = perm[j] => i = j)
    THEN {[perm |-> perm, inv |-> inverted(perm)]}
    ELSE {}

(* from_seed, from_name: a shuffle of 0 .. d-1 may give any permutation.   *)
from_seed(d) == UNION {from_indices(p) : p \in [0 .. d - 1 -> 0 .. d - 1]}

dim(rho) == Cardinality(DOMAIN rho.perm)

apply(rho, v) == gather(v, rho.perm)

apply_inv(rho, v) == gather(v, rho.inv)

magnitude(k) == IF k < 0 THEN -k ELSE k

(* pow_indices: the index map of rho^k, composed once.                     *)
pow_indices(rho, k) ==
    LET step == IF k > 0 THEN rho.perm ELSE rho.inv
        cur[n \in 1 .. magnitude(k)] ==
            IF n = 1 THEN step ELSE [i \in DOMAIN step |-> step[cur[n - 1][i]]]
    IN IF k = 0 THEN [i \in DOMAIN step |-> i] ELSE cur[magnitude(k)]

apply_pow(rho, v, k) == gather(v, pow_indices(rho, k))

(* The coordinates from start on, each the next of the one before.         *)
orbit(next, start) ==
    LET at[n \in 0 .. Cardinality(DOMAIN next)] ==
            IF n = 0 THEN start ELSE next[at[n - 1]]
        length == CHOOSE n \in 1 .. Cardinality(DOMAIN next) :
                     at[n] = start /\ \A m \in 1 .. n - 1 : at[m] # start
    IN [n \in 1 .. length |-> at[n - 1]]

cycle_against(rho, start) == orbit(rho.perm, start)

(* A cycle in move order: the value at coordinate c moves to inv[c].       *)
cycle_of(rho, start) == orbit(rho.inv, start)

(* cycles: each from its lowest coordinate.  Their order matters to no      *)
(* caller and is left out.                                                  *)
cycles(rho) ==
    LET lowest == {s \in DOMAIN rho.perm :
                      \A c \in ToSet(cycle_of(rho, s)) : s <= c}
    IN {cycle_of(rho, s) : s \in lowest}

(* rotate_cyclic_shift: at an integer t, y[m] = x[(m - t) mod L].          *)
rotate_cyclic_shift(x, t) ==
    [m \in 1 .. Len(x) |-> x[1 + ((m - 1 - t) % Len(x))]]

(* apply_rotate: every cycle turned by t steps, each in its own place.     *)
apply_rotate(rho, v, t) ==
    LET turned(cyc) == rotate_cyclic_shift([k \in DOMAIN cyc |-> v[cyc[k]]], t)
    IN IF t = 0 THEN v
       ELSE [i \in DOMAIN v |->
               LET cyc == CHOOSE cyc \in cycles(rho) : i \in ToSet(cyc)
                   k == CHOOSE k \in DOMAIN cyc : cyc[k] = i
               IN turned(cyc)[k]]

(* permute_snapshot: every location's counter and address by one map.      *)
permute_snapshot(locations, rho, k) ==
    LET map == pow_indices(rho, k)
    IN [l \in DOMAIN locations |->
          [locations[l] EXCEPT !.counter = gather(@, map),
                               !.address = gather(@, map)]]
===============================================================================
