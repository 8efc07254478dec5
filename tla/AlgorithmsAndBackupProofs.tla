---------------------- MODULE AlgorithmsAndBackupProofs ----------------------
(***************************************************************************)
(* Theorems about Algorithms and about Backup, which share nothing.        *)
(*                                                                         *)
(* Algorithms: the permutations, the searches and what the algebra makes   *)
(* of snapshots are as their reference definitions say, for any number of  *)
(* coordinates, locations and points, any snapshots and, in the laws of    *)
(* binding, any dimension.  What a recursive function of the model         *)
(* computes is proved by induction, from the counting of finite sets.      *)
(*                                                                         *)
(* Backup: types; an accepted snapshot is whole, however the engine runs   *)
(* beside the command; and a restore that says it succeeded put back what  *)
(* was saved (if no engine starts while files are copied).                 *)
(***************************************************************************)
EXTENDS Algorithms, Backup, FiniteSetTheorems, TLAPS

-----------------------------------------------------------------------------
(* Induction, over numbers and over finite sets, and the existence of folds: *)
(* the facts that let a proof unfold a recursive definition of the model.  *)

\* A set of naturals with 0 and every successor of its members has all of them.
LEMMA Induction ==
  ASSUME NEW T, 0 \in T, \A n \in Nat : n \in T => n + 1 \in T, NEW N \in Nat
  PROVE  N \in T
  <1>. DEFINE Up == {n \in 0 .. N : n \in T}
  <1>. DEFINE f == [n \in Up |-> n + 1]
  <1>. SUFFICES ASSUME N \notin T PROVE FALSE
    OBVIOUS
  <1>1. f \in [Up -> Up \ {0}] /\ 0 \in Up /\ \A x, y \in Up : f[x] = f[y] => x = y
    OBVIOUS
  <1>2. IsFiniteSet(0 .. N)
    BY FS_Interval
  <1>3. Up \in SUBSET (0 .. N)
    OBVIOUS
  <1>. HIDE DEF f, Up
  <1>4. IsFiniteSet(Up)
    BY <1>2, <1>3, FS_Subset
  <1>5. IsFiniteSet(Up \ {0}) /\ Cardinality(Up \ {0}) = Cardinality(Up) - 1
    BY <1>1, <1>4, FS_RemoveElement
  <1>6. Cardinality(Up) \in Nat
    BY <1>4, FS_CardinalityType
  <1>7. Cardinality(Up \ {0}) < Cardinality(Up)
    BY <1>5, <1>6
  <1>8. \E x, y \in Up : x # y /\ f[x] = f[y]
    BY <1>1, <1>4, <1>5, <1>7, FS_PigeonHole
  <1>. QED  BY <1>1, <1>8

\* The subsets of a finite set, and how a member less counts.
LEMMA Subsets ==
  ASSUME NEW S, IsFiniteSet(S), NEW U \in SUBSET S
  PROVE  /\ IsFiniteSet(U) /\ Cardinality(U) \in Nat
         /\ Cardinality(U) <= Cardinality(S)
         /\ Cardinality(U) = 0 <=> U = {}
         /\ \A x \in U : Cardinality(U \ {x}) = Cardinality(U) - 1
  <1>1. IsFiniteSet(U) /\ Cardinality(U) <= Cardinality(S)
    BY FS_Subset
  <1>2. Cardinality(U) \in Nat
    BY <1>1, FS_CardinalityType
  <1>3. Cardinality(U) = 0 <=> U = {}
    BY <1>1, FS_EmptySet
  <1>4. ASSUME NEW x \in U PROVE Cardinality(U \ {x}) = Cardinality(U) - 1
    BY <1>1, FS_RemoveElement
  <1>. QED  BY <1>1, <1>2, <1>3, <1>4

\* A family with the empty set, and each set that has a member without which it
\* is in the family, has the whole of a finite set.
LEMMA SetInduction ==
  ASSUME NEW S, IsFiniteSet(S), NEW G, {} \in G,
         \A U \in SUBSET S : U # {} => \E x \in U : (U \ {x} \in G => U \in G)
  PROVE  S \in G
  <1>. DEFINE T == {n \in Nat : \A U \in SUBSET S : Cardinality(U) = n => U \in G}
  <1>2. 0 \in T
    BY Subsets
  <1>3. ASSUME NEW n \in Nat, n \in T PROVE n + 1 \in T
    <2>. SUFFICES ASSUME NEW U \in SUBSET S, Cardinality(U) = n + 1 PROVE U \in G
      OBVIOUS
    <2>1. U # {}
      BY Subsets
    <2>2. PICK x \in U : U \ {x} \in G => U \in G
      BY <2>1
    <2>3. Cardinality(U \ {x}) = Cardinality(U) - 1
      BY Subsets
    <2>4. Cardinality(U \ {x}) = n /\ U \ {x} \in SUBSET S
      BY <2>3
    <2>. QED  BY <1>3, <2>2, <2>4
  <1>4. S \in SUBSET S
    OBVIOUS
  <1>5. Cardinality(S) \in Nat
    BY Subsets, <1>4
  <1>. HIDE DEF T
  <1>6. Cardinality(S) \in T
    BY <1>2, <1>3, <1>5, Induction
  <1>. QED  BY <1>4, <1>6 DEF T

\* A fold over the subsets of a finite set, with a choice of the member to
\* take next, exists.
Picks(pick, S) == \A U \in SUBSET S : U # {} => pick[U] \in U

\* A step of a fold over S that keeps its values in V.
Keeps(step, S, V) == \A x \in S, v \in V : step[<<x, v>>] \in V

\* g is such a fold: of the empty set the base, of any other a step by the
\* member picked.
FoldsBy(g, S, base, pick, step) ==
    \A U \in SUBSET S :
        g[U] = IF U = {} THEN base ELSE step[<<pick[U], g[U \ {pick[U]}]>>]

\* Where picks and steps are defined, so is the fold.
LEMMA FoldExists ==
  ASSUME NEW S, IsFiniteSet(S), NEW V, NEW base \in V,
         NEW pick, Picks(pick, S), NEW step, Keeps(step, S, V)
  PROVE  \E g \in [SUBSET S -> V] : FoldsBy(g, S, base, pick, step)
  <1>. USE DEF Picks, Keeps
  <1>. DEFINE Small(n) == {U \in SUBSET S : Cardinality(U) <= n}
              Unfolds(g, U) == g[U] = IF U = {} THEN base ELSE step[<<pick[U], g[U \ {pick[U]}]>>]
              T == {n \in Nat : \E g \in [Small(n) -> V] : \A U \in Small(n) : Unfolds(g, U)}
  <1>2. 0 \in T
    <2>. DEFINE g == [U \in Small(0) |-> base]
    <2>1. \A U \in Small(0) : U = {}
      <3>. SUFFICES ASSUME NEW U \in SUBSET S, Cardinality(U) <= 0 PROVE U = {}
        OBVIOUS
      <3>1. Cardinality(U) \in Nat /\ (Cardinality(U) = 0 <=> U = {})
        BY Subsets
      <3>. QED  BY <3>1
    <2>2. g \in [Small(0) -> V]
      OBVIOUS
    <2>3. \A U \in Small(0) : Unfolds(g, U)
      BY <2>1
    <2>. QED  BY <2>2, <2>3
  <1>3. ASSUME NEW n \in Nat, n \in T PROVE n + 1 \in T
    <2>1. PICK g \in [Small(n) -> V] : \A U \in Small(n) : Unfolds(g, U)
      BY <1>3
    <2>. DEFINE h == [U \in Small(n + 1) |-> IF U = {} THEN base ELSE step[<<pick[U], g[U \ {pick[U]}]>>]]
    <2>2. ASSUME NEW U \in Small(n + 1), U # {}
          PROVE  /\ pick[U] \in U /\ pick[U] \in S
                 /\ U \ {pick[U]} \in Small(n)
      <3>1. Cardinality(U) \in Nat /\ Cardinality(U \ {pick[U]}) = Cardinality(U) - 1
        BY Subsets, <2>2
      <3>. QED  BY <2>2, <3>1
    <2>. HIDE DEF Small
    <2>3. \A U \in Small(n + 1) : U # {} => g[U \ {pick[U]}] \in V
      BY <2>2
    <2>4. h \in [Small(n + 1) -> V]
      BY <2>2, <2>3
    <2>5. \A U \in Small(n) : U \in Small(n + 1)
      <3>. SUFFICES ASSUME NEW U \in SUBSET S, Cardinality(U) <= n PROVE Cardinality(U) <= n + 1
        BY DEF Small
      <3>1. Cardinality(U) \in Nat
        BY Subsets
      <3>. QED  BY <3>1
    <2>6. \A U \in Small(n) : h[U] = g[U]
      BY <2>1, <2>5
    <2>7. \A U \in Small(n + 1) : Unfolds(h, U)
      BY <2>2, <2>6
    <2>. HIDE DEF h, Unfolds
    <2>. QED  BY <2>4, <2>7
  <1>4. S \in SUBSET S
    OBVIOUS
  <1>5. Cardinality(S) \in Nat
    BY Subsets, <1>4
  <1>. HIDE DEF T
  <1>6. Cardinality(S) \in T
    BY <1>2, <1>3, <1>5, Induction
  <1>7. Small(Cardinality(S)) = SUBSET S
    <2>. SUFFICES ASSUME NEW U \in SUBSET S PROVE Cardinality(U) <= Cardinality(S)
      OBVIOUS
    <2>. QED  BY Subsets
  <1>. QED  BY <1>6, <1>7 DEF T, FoldsBy

-----------------------------------------------------------------------------
(* Permutations (permute.rs).  Powers are paths: where so many steps lead. *)

\* The places that n steps of f lead to from i, and the last one.
IsPath(h, f, i, n) == h[0] = i /\ \A m \in 1 .. n : h[m] = f[h[m - 1]]

after(f, i, n) == (CHOOSE h \in [0 .. n -> DOMAIN f] : IsPath(h, f, i, n))[n]

\* A function can be followed for any number of steps.
LEMMA PathExists ==
  ASSUME NEW V, NEW f \in [V -> V], NEW i \in V, NEW N \in Nat
  PROVE  \E h \in [0 .. N -> V] : IsPath(h, f, i, N)
  <1>. DEFINE Path(h, n) == IsPath(h, f, i, n)
              T == {n \in Nat : \E h \in [0 .. n -> V] : Path(h, n)}
  <1>1. 0 \in T
    <2>1. [m \in 0 .. 0 |-> i] \in [0 .. 0 -> V] /\ Path([m \in 0 .. 0 |-> i], 0)
      BY DEF IsPath
    <2>. QED  BY <2>1
  <1>2. ASSUME NEW n \in Nat, n \in T PROVE n + 1 \in T
    <2>1. PICK h \in [0 .. n -> V] : Path(h, n)
      BY <1>2
    <2>. DEFINE g == [m \in 0 .. n + 1 |-> IF m = n + 1 THEN f[h[n]] ELSE h[m]]
    <2>2. g \in [0 .. n + 1 -> V]
      OBVIOUS
    <2>3. \A m \in 1 .. n + 1 : g[m] = f[g[m - 1]]
      BY <2>1 DEF IsPath
    <2>4. g[0] = i
      BY <2>1 DEF IsPath
    <2>. HIDE DEF g
    <2>. QED  BY <2>2, <2>3, <2>4 DEF IsPath
  <1>. HIDE DEF T
  <1>3. N \in T
    BY <1>1, <1>2, Induction
  <1>. QED  BY <1>3 DEF T

\* Two paths from the same place are the same.
LEMMA PathsAgree ==
  ASSUME NEW f, NEW N \in Nat, NEW g, NEW h, g[0] = h[0],
         \A m \in 1 .. N : g[m] = f[g[m - 1]] /\ h[m] = f[h[m - 1]]
  PROVE  \A n \in 0 .. N : g[n] = h[n]
  <1>. DEFINE T == {n \in Nat : n <= N => g[n] = h[n]}
  <1>1. 0 \in T
    OBVIOUS
  <1>2. ASSUME NEW n \in Nat, n \in T PROVE n + 1 \in T
    <2>. SUFFICES ASSUME n + 1 <= N PROVE g[n + 1] = h[n + 1]
      OBVIOUS
    <2>1. g[n] = h[n]
      BY <1>2
    <2>2. n + 1 \in 1 .. N /\ (n + 1) - 1 = n
      OBVIOUS
    <2>. QED  BY <2>1, <2>2
  <1>. HIDE DEF T
  <1>3. \A n \in Nat : n \in T
    BY <1>1, <1>2, Induction
  <1>. QED  BY <1>3 DEF T

\* The place after no step, and after one more.
LEMMA AfterLaws ==
  ASSUME NEW V, NEW f \in [V -> V], NEW i \in V
  PROVE  /\ after(f, i, 0) = i
         /\ \A n \in Nat : after(f, i, n) \in V
         /\ \A n \in Nat : after(f, i, n + 1) = f[after(f, i, n)]
  <1>. DEFINE path(n) == CHOOSE h \in [0 .. n -> V] : IsPath(h, f, i, n)
  <1>1. ASSUME NEW n \in Nat
        PROVE  path(n) \in [0 .. n -> V] /\ IsPath(path(n), f, i, n)
    <2>1. \E h \in [0 .. n -> V] : IsPath(h, f, i, n)
      BY PathExists
    <2>. QED  BY <2>1
  <1>2. \A n \in Nat : after(f, i, n) = path(n)[n]
    BY DEF after
  <1>. HIDE DEF path
  <1>3. after(f, i, 0) = i
    BY <1>1, <1>2 DEF IsPath
  <1>4. \A n \in Nat : after(f, i, n) \in V
    BY <1>1, <1>2
  <1>5. ASSUME NEW n \in Nat PROVE after(f, i, n + 1) = f[after(f, i, n)]
    <2>. DEFINE g == path(n + 1)
                h == path(n)
    <2>1. IsPath(g, f, i, n + 1) /\ IsPath(h, f, i, n)
      BY <1>1
    <2>2. \A m \in 1 .. n : g[m] = f[g[m - 1]] /\ h[m] = f[h[m - 1]]
      BY <2>1 DEF IsPath
    <2>3. g[0] = h[0]
      BY <2>1 DEF IsPath
    <2>. HIDE DEF g, h
    <2>4. g[n] = h[n]
      <3>1. \A m \in 0 .. n : g[m] = h[m]
        BY <2>2, <2>3, PathsAgree
      <3>. QED  BY <3>1
    <2>5. n + 1 \in 1 .. n + 1 /\ (n + 1) - 1 = n
      OBVIOUS
    <2>6. g[n + 1] = f[g[n]]
      BY <2>1, <2>5 DEF IsPath
    <2>. QED  BY <1>2, <2>4, <2>6 DEF g, h
  <1>. QED  BY <1>3, <1>4, <1>5

\* Whatever takes the same steps arrives at the same place.
LEMMA AfterIs ==
  ASSUME NEW V, NEW f \in [V -> V], NEW i \in V, NEW N \in Nat,
         NEW g, g[0] = i, \A m \in 1 .. N : g[m] = f[g[m - 1]]
  PROVE  \A n \in 0 .. N : g[n] = after(f, i, n)
  <1>. DEFINE h == [n \in 0 .. N |-> after(f, i, n)]
  <1>1. h[0] = i
    BY AfterLaws
  <1>2. ASSUME NEW m \in 1 .. N PROVE h[m] = f[h[m - 1]]
    <2>1. after(f, i, (m - 1) + 1) = f[after(f, i, m - 1)]
      BY AfterLaws
    <2>2. (m - 1) + 1 = m
      OBVIOUS
    <2>. QED  BY <2>1, <2>2
  <1>. HIDE DEF h
  <1>3. \A n \in 0 .. N : g[n] = h[n]
    BY <1>1, <1>2, PathsAgree
  <1>. QED  BY <1>3 DEF h

\* A step taken first instead of last.
LEMMA AfterFromNext ==
  ASSUME NEW V, NEW f \in [V -> V], NEW i \in V, NEW n \in Nat
  PROVE  after(f, f[i], n) = after(f, i, n + 1)
  <1>. DEFINE g == [m \in 0 .. n |-> after(f, i, m + 1)]
  <1>1. g[0] = f[i]
    BY AfterLaws
  <1>2. ASSUME NEW m \in 1 .. n PROVE g[m] = f[g[m - 1]]
    <2>1. after(f, i, m + 1) = f[after(f, i, m)]
      BY AfterLaws
    <2>2. (m - 1) + 1 = m
      OBVIOUS
    <2>. QED  BY <2>1, <2>2
  <1>3. g[n] = after(f, i, n + 1)
    OBVIOUS
  <1>. DEFINE j == f[i]
  <1>4. j \in V /\ g[0] = j
    BY <1>1
  <1>. HIDE DEF g, j
  <1>5. \A m \in 0 .. n : g[m] = after(f, j, m)
    BY <1>2, <1>4, AfterIs
  <1>6. g[n] = after(f, j, n)
    BY <1>5
  <1>. QED  BY <1>3, <1>6 DEF j

\* A permutation of S with its inverse.
IsPermutation(rho, S) ==
    /\ rho.perm \in [S -> S] /\ rho.inv \in [S -> S]
    /\ \A i \in S : rho.inv[rho.perm[i]] = i /\ rho.perm[rho.inv[i]] = i

\* Where the k-th power takes coordinate i's value from.
power(rho, k, i) ==
    IF k >= 0 THEN after(rho.perm, i, k) ELSE after(rho.inv, i, -k)

\* The neighbouring powers of a permutation, of either sign.
LEMMA PowerSteps ==
  ASSUME NEW rho, NEW S, IsPermutation(rho, S), NEW i \in S, NEW k \in Int
  PROVE  /\ power(rho, 0, i) = i
         /\ power(rho, k, i) \in S
         /\ power(rho, k + 1, i) = rho.perm[power(rho, k, i)]
         /\ power(rho, k - 1, i) = rho.inv[power(rho, k, i)]
  <1>. DEFINE p == rho.perm
              q == rho.inv
  <1>1. /\ p \in [S -> S] /\ q \in [S -> S]
        /\ \A j \in S : q[p[j]] = j /\ p[q[j]] = j
    BY DEF IsPermutation
  <1>. HIDE DEF p, q
  <1>2. /\ after(p, i, 0) = i /\ after(q, i, 0) = i
        /\ \A n \in Nat : after(p, i, n) \in S /\ after(q, i, n) \in S
        /\ \A n \in Nat : /\ after(p, i, n + 1) = p[after(p, i, n)]
                          /\ after(q, i, n + 1) = q[after(q, i, n)]
    BY <1>1, AfterLaws
  <1>3. /\ k >= 0 => power(rho, k, i) = after(p, i, k)
        /\ k < 0 => power(rho, k, i) = after(q, i, -k)
        /\ k >= -1 => power(rho, k + 1, i) = after(p, i, k + 1)
        /\ k < -1 => power(rho, k + 1, i) = after(q, i, -(k + 1))
        /\ k >= 1 => power(rho, k - 1, i) = after(p, i, k - 1)
        /\ k < 1 => power(rho, k - 1, i) = after(q, i, -(k - 1))
        /\ power(rho, 0, i) = after(p, i, 0)
    BY DEF power, p, q
  <1>4. CASE k >= 1
    <2>1. k \in Nat /\ k - 1 \in Nat /\ (k - 1) + 1 = k
      BY <1>4
    <2>2. after(p, i, k) = p[after(p, i, k - 1)]
      BY <1>2, <2>1
    <2>3. after(p, i, k - 1) \in S
      BY <1>2, <2>1
    <2>. QED  BY <1>1, <1>2, <1>3, <1>4, <2>1, <2>2, <2>3 DEF p, q
  <1>5. CASE k <= -1
    <2>1. -k \in Nat /\ -(k + 1) \in Nat /\ -(k + 1) + 1 = -k /\ -(k - 1) = -k + 1
      BY <1>5
    <2>2. after(q, i, -k) = q[after(q, i, -(k + 1))]
      BY <1>2, <2>1
    <2>3. after(q, i, -(k + 1)) \in S
      BY <1>2, <2>1
    <2>4. p[after(q, i, -k)] = after(q, i, -(k + 1))
      BY <1>1, <2>2, <2>3
    <2>5. power(rho, k + 1, i) = after(q, i, -(k + 1))
      <3>1. CASE k = -1
        <4>. QED  BY <1>2, <1>3, <3>1
      <3>. QED  BY <1>3, <1>5, <3>1
    <2>6. power(rho, k - 1, i) = after(q, i, -k + 1)
      BY <1>3, <1>5, <2>1
    <2>. QED  BY <1>1, <1>2, <1>3, <1>5, <2>1, <2>4, <2>5, <2>6 DEF p, q
  <1>6. CASE k = 0
    <2>1. power(rho, k, i) = i
      BY <1>2, <1>3, <1>6
    <2>2. power(rho, k + 1, i) = after(p, i, 0 + 1)
      BY <1>3, <1>6
    <2>3. power(rho, k - 1, i) = after(q, i, 0 + 1)
      BY <1>3, <1>6
    <2>. QED  BY <1>2, <1>3, <2>1, <2>2, <2>3 DEF p, q
  <1>. QED  BY <1>4, <1>5, <1>6

\* PowerSteps, for every power.
LEMMA PowerSucceeds ==
  ASSUME NEW rho, NEW S, IsPermutation(rho, S), NEW i \in S
  PROVE  \A a \in Int : /\ power(rho, a + 1, i) = rho.perm[power(rho, a, i)]
                        /\ power(rho, a - 1, i) = rho.inv[power(rho, a, i)]
  <1>. SUFFICES ASSUME NEW a \in Int
                PROVE  /\ power(rho, a + 1, i) = rho.perm[power(rho, a, i)]
                       /\ power(rho, a - 1, i) = rho.inv[power(rho, a, i)]
    OBVIOUS
  <1>1. power(rho, a + 1, i) = rho.perm[power(rho, a, i)]
    BY PowerSteps
  <1>2. power(rho, a - 1, i) = rho.inv[power(rho, a, i)]
    BY PowerSteps
  <1>. QED  BY <1>1, <1>2

\* One power after another is their sum's.
LEMMA PowersAdd ==
  ASSUME NEW rho, NEW S, IsPermutation(rho, S), NEW i \in S,
         NEW j \in Int, NEW k \in Int
  PROVE  power(rho, j + k, i) = power(rho, j, power(rho, k, i))
  <1>. DEFINE Adds(n) == power(rho, n + k, i) = power(rho, n, power(rho, k, i))
              T == {n \in Nat : Adds(n) /\ Adds(-n)}
  <1>1. power(rho, k, i) \in S
    BY PowerSteps
  <1>2. 0 \in T
    <2>1. power(rho, 0, power(rho, k, i)) = power(rho, k, i)
      BY <1>1, PowerSteps
    <2>. QED  BY <2>1
  <1>3. ASSUME NEW n \in Nat, n \in T PROVE n + 1 \in T
    <2>1. power(rho, (n + k) + 1, i) = rho.perm[power(rho, n + k, i)]
      BY PowerSucceeds
    <2>2. power(rho, n + 1, power(rho, k, i)) = rho.perm[power(rho, n, power(rho, k, i))]
      BY <1>1, PowerSteps
    <2>3. power(rho, (-n + k) - 1, i) = rho.inv[power(rho, -n + k, i)]
      BY PowerSucceeds
    <2>4. power(rho, -n - 1, power(rho, k, i)) = rho.inv[power(rho, -n, power(rho, k, i))]
      BY <1>1, PowerSteps
    <2>5. (n + k) + 1 = (n + 1) + k /\ (-n + k) - 1 = -(n + 1) + k /\ -n - 1 = -(n + 1)
      OBVIOUS
    <2>. QED  BY <1>3, <2>1, <2>2, <2>3, <2>4, <2>5
  <1>4. \A n \in Nat : n \in T
    <2>. HIDE DEF T
    <2>. QED  BY <1>2, <1>3, Induction
  <1>5. CASE j >= 0
    BY <1>4, <1>5
  <1>6. CASE j < 0
    <2>1. -j \in Nat /\ -(-j) = j
      BY <1>6
    <2>2. Adds(-(-j))
      BY <1>4, <2>1
    <2>. QED  BY <2>1, <2>2
  <1>. QED  BY <1>5, <1>6

\* pow_indices composes the index map of that power.
LEMMA PowIndices ==
  ASSUME NEW rho, NEW S, IsPermutation(rho, S), NEW k \in Int
  PROVE  pow_indices(rho, k) = [i \in S |-> power(rho, k, i)]
  <1>. DEFINE step == IF k > 0 THEN rho.perm ELSE rho.inv
              K == magnitude(k)
              Body(cur) == [n \in 1 .. K |->
                              IF n = 1 THEN step ELSE [i \in DOMAIN step |-> step[cur[n - 1][i]]]]
              cur == CHOOSE cur : cur = Body(cur)
  <1>1. step \in [S -> S]
    BY DEF IsPermutation
  <1>2. K \in Nat
    BY DEF magnitude
  <1>3. pow_indices(rho, k) = IF k = 0 THEN [i \in S |-> i] ELSE cur[K]
    BY <1>1 DEF pow_indices
  <1>4. \A i \in S : K > 0 => after(step, i, K) = power(rho, k, i)
    BY DEF power, magnitude
  <1>. DEFINE g == [n \in 1 .. K |-> [i \in S |-> after(step, i, n)]]
  <1>. HIDE DEF step, K
  <1>5. g = Body(g)
    <2>. SUFFICES ASSUME NEW n \in 1 .. K
                  PROVE  g[n] = IF n = 1 THEN step ELSE [i \in DOMAIN step |-> step[g[n - 1][i]]]
      OBVIOUS
    <2>1. CASE n = 1
      <3>1. ASSUME NEW i \in S PROVE after(step, i, 1) = step[i]
        <4>1. after(step, i, 0 + 1) = step[after(step, i, 0)] /\ after(step, i, 0) = i
          BY <1>1, AfterLaws
        <4>. QED  BY <4>1
      <3>2. g[n] = [i \in S |-> step[i]]
        BY <2>1, <3>1
      <3>. QED  BY <1>1, <2>1, <3>2
    <2>2. CASE n # 1
      <3>1. n - 1 \in 1 .. K /\ (n - 1) + 1 = n /\ n - 1 \in Nat
        BY <1>2, <2>2
      <3>2. ASSUME NEW i \in S PROVE after(step, i, n) = step[g[n - 1][i]]
        <4>1. after(step, i, (n - 1) + 1) = step[after(step, i, n - 1)]
          BY <1>1, <3>1, AfterLaws
        <4>. QED  BY <3>1, <4>1
      <3>3. g[n] = [i \in S |-> step[g[n - 1][i]]]
        BY <3>2
      <3>. QED  BY <1>1, <2>2, <3>3
    <2>. QED  BY <2>1, <2>2
  <1>. HIDE DEF g
  <1>6. cur = Body(cur)
    BY <1>5
  <1>. HIDE DEF cur
  <1>. DEFINE T == {n \in Nat : n + 1 <= K => cur[n + 1] = g[n + 1]}
  <1>. DEFINE Then(h) == [i \in DOMAIN step |-> step[h[i]]]
  <1>7. \A n \in 1 .. K : /\ cur[n] = IF n = 1 THEN step ELSE Then(cur[n - 1])
                          /\ g[n] = IF n = 1 THEN step ELSE Then(g[n - 1])
    BY <1>5, <1>6
  <1>. HIDE DEF Then
  <1>8. 0 \in T
    BY <1>7, <1>2
  <1>9. ASSUME NEW n \in Nat, n \in T PROVE n + 1 \in T
    <2>. SUFFICES ASSUME (n + 1) + 1 <= K PROVE cur[(n + 1) + 1] = g[(n + 1) + 1]
      OBVIOUS
    <2>1. cur[n + 1] = g[n + 1]
      BY <1>9, <1>2
    <2>2. (n + 1) + 1 \in 1 .. K /\ ((n + 1) + 1) - 1 = n + 1 /\ (n + 1) + 1 # 1
      BY <1>2
    <2>. QED  BY <1>7, <2>1, <2>2
  <1>10. \A n \in Nat : n \in T
    <2>. HIDE DEF T
    <2>. QED  BY <1>8, <1>9, Induction
  <1>11. CASE k = 0
    <2>1. \A i \in S : power(rho, k, i) = i
      BY <1>11, PowerSteps
    <2>. QED  BY <1>3, <1>11, <2>1
  <1>12. CASE k # 0
    <2>1. K >= 1
      BY <1>12 DEF K, magnitude
    <2>2. K - 1 \in T /\ (K - 1) + 1 = K
      BY <1>2, <1>10, <2>1
    <2>3. cur[K] = g[K]
      BY <1>2, <2>2
    <2>4. g[K] = [i \in S |-> after(step, i, K)]
      BY <1>2, <2>1 DEF g
    <2>5. g[K] = [i \in S |-> power(rho, k, i)]
      BY <1>4, <2>1, <2>4, <1>2
    <2>. QED  BY <1>3, <1>12, <2>3, <2>5
  <1>. QED  BY <1>11, <1>12

\* A nonempty set of naturals has a least member.
LEMMA LeastNat ==
  ASSUME NEW U, U \subseteq Nat, U # {}
  PROVE  \E m \in U : \A n \in U : m <= n
  <1>. SUFFICES ASSUME \A m \in U : \E n \in U : n < m PROVE FALSE
    OBVIOUS
  <1>. DEFINE T == {n \in Nat : \A m \in 0 .. n : m \notin U}
  <1>1. 0 \in T
    BY SMT
  <1>2. ASSUME NEW n \in Nat, n \in T PROVE n + 1 \in T
    BY <1>2
  <1>3. \A n \in Nat : n \in T
    <2>. HIDE DEF T
    <2>. QED  BY <1>1, <1>2, Induction
  <1>4. PICK m \in U : TRUE
    OBVIOUS
  <1>5. m \in T
    BY <1>3, <1>4
  <1>. QED  BY <1>4, <1>5

\* A bijection of a finite set leads back to where it began.
LEMMA PathReturns ==
  ASSUME NEW S, IsFiniteSet(S), NEW f \in [S -> S],
         \A x, y \in S : f[x] = f[y] => x = y, NEW i \in S
  PROVE  \E n \in 1 .. Cardinality(S) : after(f, i, n) = i
  <1>. DEFINE N == Cardinality(S)
              g == [n \in 0 .. N |-> after(f, i, n)]
  <1>1. N \in Nat
    BY FS_CardinalityType
  <1>2. IsFiniteSet(0 .. N) /\ Cardinality(0 .. N) = N + 1
    BY <1>1, FS_Interval
  <1>3. g \in [0 .. N -> S]
    BY AfterLaws
  <1>4. \E x, y \in 0 .. N : x # y /\ g[x] = g[y]
    <2>. HIDE DEF g
    <2>1. Cardinality(S) < Cardinality(0 .. N)
      BY <1>1, <1>2
    <2>. QED  BY <1>2, <1>3, <2>1, FS_PigeonHole
  <1>5. PICK a \in 0 .. N, b \in 0 .. N : a < b /\ after(f, i, a) = after(f, i, b)
    <2>1. PICK x \in 0 .. N, y \in 0 .. N : x # y /\ g[x] = g[y]
      BY <1>4
    <2>2. after(f, i, x) = after(f, i, y)
      BY <2>1
    <2>3. x < y \/ y < x
      BY <2>1, <1>1
    <2>. QED  BY <2>2, <2>3
  <1>. HIDE DEF g
  <1>. DEFINE n == b - a
              T == {m \in Nat : after(f, i, m) = after(f, i, m + n) => i = after(f, i, n)}
  <1>6. n \in 1 .. N /\ a \in Nat /\ a + n = b
    BY <1>1, <1>5
  <1>. HIDE DEF n
  <1>7. 0 \in T
    <2>1. after(f, i, 0) = i
      BY AfterLaws
    <2>. QED  BY <1>6, <2>1
  <1>8. ASSUME NEW m \in Nat, m \in T PROVE m + 1 \in T
    <2>. SUFFICES ASSUME after(f, i, m + 1) = after(f, i, (m + 1) + n)
                  PROVE  after(f, i, m) = after(f, i, m + n)
      BY <1>8
    <2>1. \A c \in Nat : after(f, i, c) \in S /\ after(f, i, c + 1) = f[after(f, i, c)]
      BY AfterLaws
    <2>2. m + n \in Nat /\ (m + n) + 1 = (m + 1) + n
      BY <1>1, <1>6
    <2>3. f[after(f, i, m)] = f[after(f, i, m + n)]
      BY <2>1, <2>2
    <2>. QED  BY <2>1, <2>2, <2>3
  <1>9. a \in T
    <2>. HIDE DEF T
    <2>. QED  BY <1>6, <1>7, <1>8, Induction
  <1>. QED  BY <1>5, <1>6, <1>9

\* An orbit goes along the path and ends where the path is back.
LEMMA OrbitIsPath ==
  ASSUME NEW S, IsFiniteSet(S), NEW f \in [S -> S],
         \A x, y \in S : f[x] = f[y] => x = y, NEW start \in S
  PROVE  \E L \in Nat \ {0} : /\ after(f, start, L) = start
                              /\ orbit(f, start) = [n \in 1 .. L |-> after(f, start, n - 1)]
  <1>. DEFINE N == Cardinality(S)
              Body(at) == [n \in 0 .. N |-> IF n = 0 THEN start ELSE f[at[n - 1]]]
              at == CHOOSE at : at = Body(at)
              g == [n \in 0 .. N |-> after(f, start, n)]
  <1>1. N \in Nat /\ DOMAIN f = S
    BY FS_CardinalityType
  <1>2. g = Body(g)
    <2>. SUFFICES ASSUME NEW n \in 0 .. N PROVE g[n] = IF n = 0 THEN start ELSE f[g[n - 1]]
      OBVIOUS
    <2>1. CASE n = 0
      BY <2>1, AfterLaws
    <2>2. CASE n # 0
      <3>1. n - 1 \in 0 .. N /\ n - 1 \in Nat /\ (n - 1) + 1 = n
        BY <1>1, <2>2
      <3>2. after(f, start, (n - 1) + 1) = f[after(f, start, n - 1)]
        BY <3>1, AfterLaws
      <3>. QED  BY <2>2, <3>1, <3>2
    <2>. QED  BY <2>1, <2>2
  <1>. HIDE DEF g
  <1>3. at = Body(at)
    BY <1>2
  <1>. DEFINE length == CHOOSE n \in 1 .. N : at[n] = start /\ \A m \in 1 .. n - 1 : at[m] # start
  <1>4. orbit(f, start) = [n \in 1 .. length |-> at[n - 1]]
    BY <1>1 DEF orbit
  <1>. HIDE DEF at
  <1>5. at[0] = start /\ \A n \in 1 .. N : at[n] = f[at[n - 1]]
    BY <1>1, <1>3
  <1>6. \A n \in 0 .. N : at[n] = after(f, start, n)
    BY <1>1, <1>5, AfterIs
  <1>. DEFINE U == {n \in 1 .. N : at[n] = start}
  <1>7. U # {} /\ U \subseteq Nat
    BY <1>6, PathReturns
  <1>8. PICK m \in U : \A n \in U : m <= n
    BY <1>7, LeastNat
  <1>9. m \in 1 .. N /\ at[m] = start /\ \A n \in 1 .. m - 1 : at[n] # start
    BY <1>1, <1>8
  <1>10. length \in 1 .. N /\ at[length] = start
    BY <1>9
  <1>. HIDE DEF length
  <1>11. \A n \in 1 .. length : at[n - 1] = after(f, start, n - 1)
    BY <1>1, <1>6, <1>10
  <1>. QED  BY <1>1, <1>4, <1>6, <1>10, <1>11

\* Rust's rem_euclid, as the rotation takes it: within the cycle, and a number
\* of whole turns away.
LEMMA Residue ==
  ASSUME NEW m \in Int, NEW L \in Nat \ {0}
  PROVE  /\ m % L \in 0 .. L - 1
         /\ \E q \in Int : m % L = m - q * L
  <1>1. m % L \in 0 .. L - 1
    OBVIOUS
  <1>2. m \div L \in Int /\ m = L * (m \div L) + (m % L)
    OBVIOUS
  <1>3. m % L = m - (m \div L) * L
    BY <1>1, <1>2
  <1>. QED  BY <1>1, <1>2, <1>3

\* Any number of whole turns of a cycle lead back.
LEMMA WholeTurns ==
  ASSUME NEW rho, NEW S, IsPermutation(rho, S), NEW i \in S,
         NEW L \in Int, power(rho, L, i) = i, NEW q \in Int
  PROVE  power(rho, q * L, i) = i
  <1>. DEFINE T == {n \in Nat : power(rho, n * L, i) = i /\ power(rho, -(n * L), i) = i}
  <1>1. power(rho, 0, i) = i
    BY PowerSteps
  <1>2. power(rho, -L, i) = i
    <2>1. power(rho, -L + L, i) = power(rho, -L, power(rho, L, i))
      BY PowersAdd
    <2>. QED  BY <1>1, <2>1
  <1>3. \A k \in Int : power(rho, k, i) = i =>
                          power(rho, k + L, i) = i /\ power(rho, k - L, i) = i
    <2>. SUFFICES ASSUME NEW k \in Int, power(rho, k, i) = i
                  PROVE  power(rho, k + L, i) = i /\ power(rho, k + (-L), i) = i
      OBVIOUS
    <2>. DEFINE M == -L
    <2>1. M \in Int
      OBVIOUS
    <2>. HIDE DEF M
    <2>2. power(rho, k + M, i) = power(rho, k, power(rho, M, i))
      BY <2>1, PowersAdd
    <2>3. power(rho, k + L, i) = power(rho, k, power(rho, L, i))
      BY PowersAdd
    <2>. QED  BY <1>2, <2>2, <2>3 DEF M
  <1>4. 0 \in T
    BY <1>1
  <1>5. ASSUME NEW n \in Nat, n \in T PROVE n + 1 \in T
    <2>. DEFINE k == n * L
    <2>1. k \in Int /\ (n + 1) * L = k + L /\ -((n + 1) * L) = -k - L
      OBVIOUS
    <2>2. power(rho, k, i) = i /\ power(rho, -k, i) = i
      BY <1>5
    <2>3. -k \in Int
      BY <2>1
    <2>. HIDE DEF k
    <2>4. power(rho, k + L, i) = i /\ power(rho, -k - L, i) = i
      BY <1>3, <2>1, <2>2, <2>3
    <2>. QED  BY <2>1, <2>4
  <1>6. \A n \in Nat : power(rho, n * L, i) = i /\ power(rho, -(n * L), i) = i
    <2>1. \A n \in Nat : n \in T
      <3>. HIDE DEF T
      <3>. QED  BY <1>4, <1>5, Induction
    <2>. QED  BY <2>1
  <1>7. CASE q >= 0
    BY <1>6, <1>7
  <1>8. CASE q < 0
    <2>1. -q \in Nat /\ -((-q) * L) = q * L
      BY <1>8
    <2>2. power(rho, -((-q) * L), i) = i
      BY <1>6, <2>1
    <2>. QED  BY <2>1, <2>2
  <1>. QED  BY <1>7, <1>8

\* Steps along a cycle count modulo its length.
LEMMA TurnsModulo ==
  ASSUME NEW rho, NEW S, IsPermutation(rho, S), NEW i \in S,
         NEW L \in Nat \ {0}, power(rho, L, i) = i, NEW m \in Int
  PROVE  power(rho, -(m % L), i) = power(rho, -m, i)
  <1>1. PICK q \in Int : m % L = m - q * L
    BY Residue
  <1>. DEFINE k == q * L
              j == -m
  <1>2. k \in Int /\ -(m % L) = j + k /\ j \in Int
    BY <1>1
  <1>3. power(rho, k, i) = i
    BY WholeTurns
  <1>. HIDE DEF k, j
  <1>4. power(rho, j + k, i) = power(rho, j, power(rho, k, i))
    BY <1>2, PowersAdd
  <1>. QED  BY <1>2, <1>3, <1>4 DEF j

\* A cycle holds every coordinate its start's powers lead to.
LEMMA CycleIsPath ==
  ASSUME NEW rho, NEW S, IsFiniteSet(S), IsPermutation(rho, S), NEW s \in S
  PROVE  \E L \in Nat \ {0} :
            /\ power(rho, L, s) = s
            /\ cycle_of(rho, s) = [n \in 1 .. L |-> power(rho, -(n - 1), s)]
            /\ ToSet(cycle_of(rho, s)) = {power(rho, z, s) : z \in Int}
  <1>. DEFINE f == rho.inv
  <1>1. f \in [S -> S] /\ \A x, y \in S : f[x] = f[y] => x = y
    BY DEF IsPermutation
  <1>. HIDE DEF f
  <1>2. PICK L \in Nat \ {0} : /\ after(f, s, L) = s
                               /\ orbit(f, s) = [n \in 1 .. L |-> after(f, s, n - 1)]
    BY <1>1, OrbitIsPath
  <1>3. \A n \in Nat : power(rho, -n, s) = after(f, s, n)
    <2>1. \A n \in Nat : n # 0 => power(rho, -n, s) = after(f, s, n)
      BY DEF power, f
    <2>2. after(f, s, 0) = s
      BY <1>1, AfterLaws
    <2>3. power(rho, 0, s) = s
      BY PowerSteps
    <2>4. \A n \in Nat : -n = 0 - n
      OBVIOUS
    <2>5. ASSUME NEW n \in Nat, n = 0 PROVE -n = 0
      <3>1. 0 - n = 0
        BY <2>5
      <3>. HIDE <2>5
      <3>. QED  BY <2>4, <3>1
    <2>. QED  BY <2>1, <2>2, <2>3, <2>5
  <1>4. cycle_of(rho, s) = [n \in 1 .. L |-> power(rho, -(n - 1), s)]
    <2>1. \A n \in 1 .. L : power(rho, -(n - 1), s) = after(f, s, n - 1)
      BY <1>3
    <2>. QED  BY <1>2, <2>1 DEF cycle_of, f
  <1>5. power(rho, L, s) = s
    <2>1. power(rho, -L, s) = s
      BY <1>2, <1>3
    <2>2. power(rho, L + (-L), s) = power(rho, L, power(rho, -L, s))
      BY PowersAdd
    <2>3. L + (-L) = 0
      OBVIOUS
    <2>4. power(rho, 0, s) = s
      BY PowerSteps
    <2>. QED  BY <2>1, <2>2, <2>3, <2>4
  <1>6. ToSet(cycle_of(rho, s)) = {power(rho, -(n - 1), s) : n \in 1 .. L}
    BY <1>4 DEF ToSet
  <1>7. ASSUME NEW z \in Int PROVE \E n \in 1 .. L : power(rho, z, s) = power(rho, -(n - 1), s)
    <2>1. (-z) % L \in 0 .. L - 1
      BY Residue
    <2>2. power(rho, -((-z) % L), s) = power(rho, -(-z), s)
      BY <1>5, TurnsModulo
    <2>3. ((-z) % L) + 1 \in 1 .. L /\ (((-z) % L) + 1) - 1 = (-z) % L /\ -(-z) = z
      BY <2>1
    <2>. QED  BY <2>2, <2>3
  <1>8. \A n \in 1 .. L : -(n - 1) \in Int
    OBVIOUS
  <1>9. ToSet(cycle_of(rho, s)) = {power(rho, z, s) : z \in Int}
    BY <1>6, <1>7, <1>8
  <1>. QED  BY <1>4, <1>5, <1>9

\* Every coordinate is in a cycle.
LEMMA CyclesCover ==
  ASSUME NEW rho, NEW S \in SUBSET Nat, IsFiniteSet(S), IsPermutation(rho, S), NEW i \in S
  PROVE  \E cyc \in cycles(rho) : i \in ToSet(cyc)
  <1>. DEFINE O(s) == {power(rho, z, s) : z \in Int}
  <1>1. \A s \in S : ToSet(cycle_of(rho, s)) = O(s)
    BY CycleIsPath
  <1>2. ASSUME NEW s \in S, NEW z \in Int
        PROVE  power(rho, z, s) \in S /\ O(power(rho, z, s)) \subseteq O(s)
               /\ s \in O(power(rho, z, s))
    <2>1. power(rho, z, s) \in S
      BY PowerSteps
    <2>2. ASSUME NEW y \in Int PROVE power(rho, y, power(rho, z, s)) \in O(s)
      <3>1. power(rho, y + z, s) = power(rho, y, power(rho, z, s))
        BY PowersAdd
      <3>. QED  BY <3>1
    <2>3. power(rho, -z, power(rho, z, s)) = s
      <3>. DEFINE y == -z
      <3>1. y \in Int /\ y + z = 0
        OBVIOUS
      <3>. HIDE DEF y
      <3>2. power(rho, y + z, s) = power(rho, y, power(rho, z, s))
        BY <3>1, PowersAdd
      <3>3. power(rho, 0, s) = s
        BY PowerSteps
      <3>. QED  BY <3>1, <3>2, <3>3 DEF y
    <2>4. -z \in Int
      OBVIOUS
    <2>. QED  BY <2>1, <2>2, <2>3, <2>4
  <1>3. i \in O(i)
    <2>1. power(rho, 0, i) = i
      BY PowerSteps
    <2>. QED  BY <2>1
  <1>4. O(i) \subseteq S /\ O(i) \subseteq Nat
    BY <1>2
  <1>5. PICK s \in O(i) : \A c \in O(i) : s <= c
    <2>. HIDE DEF O
    <2>. QED  BY <1>3, <1>4, LeastNat
  <1>6. s \in S /\ O(s) \subseteq O(i) /\ i \in O(s)
    BY <1>2, <1>5
  <1>7. cycle_of(rho, s) \in cycles(rho)
    <2>1. DOMAIN rho.perm = S
      BY DEF IsPermutation
    <2>2. \A c \in ToSet(cycle_of(rho, s)) : s <= c
      BY <1>1, <1>5, <1>6
    <2>. QED  BY <1>6, <2>1, <2>2 DEF cycles
  <1>. QED  BY <1>1, <1>6, <1>7

\* A value for every coordinate of S.
IsVector(v, S) == v = [i \in S |-> v[i]]

\* permute.rs:238: turning every cycle by t whole steps is taking the t-th power.
THEOREM RotateIsPower ==
  ASSUME NEW rho, NEW S \in SUBSET Nat, IsFiniteSet(S), IsPermutation(rho, S),
         NEW v, IsVector(v, S), NEW t \in Int
  PROVE  apply_rotate(rho, v, t) = [i \in S |-> v[power(rho, t, i)]]
  <1>. DEFINE V == {v[i] : i \in S}
  <1>0. v \in [S -> V] /\ DOMAIN v = S
    BY DEF IsVector
  <1>1. CASE t = 0
    <2>1. \A i \in S : power(rho, t, i) = i
      BY <1>1, PowerSteps
    <2>2. apply_rotate(rho, v, t) = v
      BY <1>1 DEF apply_rotate
    <2>. QED  BY <2>1, <2>2 DEF IsVector
  <1>2. CASE t # 0
    <2>. DEFINE cyc(i) == CHOOSE cyc \in cycles(rho) : i \in ToSet(cyc)
                at(i) == CHOOSE k \in DOMAIN cyc(i) : cyc(i)[k] = i
                turned(c) == rotate_cyclic_shift([k \in DOMAIN c |-> v[c[k]]], t)
    <2>1. apply_rotate(rho, v, t) = [i \in S |-> turned(cyc(i))[at(i)]]
      BY <1>0, <1>2 DEF apply_rotate
    <2>2. ASSUME NEW i \in S PROVE turned(cyc(i))[at(i)] = v[power(rho, t, i)]
      <3>. DEFINE c == cyc(i)
                  k == at(i)
      <3>1. c \in cycles(rho) /\ i \in ToSet(c)
        BY CyclesCover
      <3>2. k \in DOMAIN c /\ c[k] = i
        BY <3>1 DEF ToSet
      <3>. HIDE DEF c, k
      <3>3. PICK s \in S : c = cycle_of(rho, s)
        BY <3>1 DEF cycles, IsPermutation
      <3>4. PICK L \in Nat \ {0} : /\ power(rho, L, s) = s
                                   /\ c = [n \in 1 .. L |-> power(rho, -(n - 1), s)]
        BY <3>3, CycleIsPath
      <3>. DEFINE x == [n \in DOMAIN c |-> v[c[n]]]
                  m == 1 + ((k - 1 - t) % L)
      <3>5. k \in 1 .. L /\ power(rho, -(k - 1), s) = i
        BY <3>2, <3>4
      <3>6. x \in Seq(V) /\ Len(x) = L
        <4>1. \A n \in 1 .. L : power(rho, -(n - 1), s) \in S
          BY PowerSteps
        <4>2. DOMAIN c = 1 .. L /\ \A n \in 1 .. L : c[n] \in S
          BY <3>4, <4>1
        <4>3. x \in [1 .. L -> V] /\ L \in Nat
          BY <1>0, <4>2
        <4>. HIDE DEF x
        <4>. QED  BY <4>3
      <3>7. m \in 1 .. L /\ -(m - 1) = -((k - 1 - t) % L)
        <4>1. (k - 1 - t) % L \in 0 .. L - 1
          BY <3>5, Residue
        <4>. QED  BY <4>1
      <3>8. turned(c)[k] = v[c[m]]
        <4>1. DOMAIN x = 1 .. L
          BY <3>4
        <4>2. turned(c)[k] = x[m]
          BY <3>5, <3>6 DEF rotate_cyclic_shift
        <4>. QED  BY <3>7, <4>1, <4>2
      <3>9. c[m] = power(rho, -(k - 1 - t), s)
        <4>. DEFINE z == k - 1 - t
        <4>1. z \in Int
          BY <3>5
        <4>. HIDE DEF z
        <4>2. power(rho, -(z % L), s) = power(rho, -z, s)
          BY <3>4, <4>1, TurnsModulo
        <4>3. c[m] = power(rho, -(m - 1), s)
          BY <3>4, <3>7
        <4>. QED  BY <3>7, <4>2, <4>3 DEF z
      <3>10. power(rho, -(k - 1 - t), s) = power(rho, t, i)
        <4>. DEFINE y == -(k - 1)
        <4>1. y \in Int /\ -(k - 1 - t) = t + y
          BY <3>5
        <4>. HIDE DEF y
        <4>2. power(rho, t + y, s) = power(rho, t, power(rho, y, s))
          BY <4>1, PowersAdd
        <4>. QED  BY <3>5, <4>1, <4>2 DEF y
      <3>. QED  BY <3>8, <3>9, <3>10 DEF c, k
    <2>. QED  BY <2>1, <2>2
  <1>. QED  BY <1>1, <1>2

\* An injection of a finite set into itself has an inverse.
LEMMA IndicesPermute ==
  ASSUME NEW S, IsFiniteSet(S), NEW p \in [S -> S], NEW rho \in from_indices(p)
  PROVE  IsPermutation(rho, S)
  <1>1. rho = [perm |-> p, inv |-> inverted(p)]
    BY DEF from_indices
  <1>2. \A i, j \in S : p[i] = p[j] => i = j
    BY DEF from_indices
  <1>3. \A x \in S : \E i \in S : p[i] = x
    <2>. SUFFICES ASSUME NEW x \in S, \A i \in S : p[i] # x PROVE FALSE
      OBVIOUS
    <2>1. p \in [S -> S \ {x}]
      OBVIOUS
    <2>2. /\ IsFiniteSet(S \ {x}) /\ Cardinality(S) \in Nat
          /\ Cardinality(S \ {x}) = Cardinality(S) - 1
      BY FS_RemoveElement, FS_CardinalityType
    <2>3. Cardinality(S \ {x}) < Cardinality(S)
      BY <2>2
    <2>4. \E i, j \in S : i # j /\ p[i] = p[j]
      BY <2>1, <2>2, <2>3, FS_PigeonHole
    <2>. QED  BY <1>2, <2>4
  <1>4. \A x \in S : inverted(p)[x] \in S /\ p[inverted(p)[x]] = x
    BY <1>3 DEF inverted
  <1>5. inverted(p) = [x \in S |-> inverted(p)[x]]
    BY DEF inverted
  <1>6. inverted(p) \in [S -> S]
    BY <1>4, <1>5
  <1>. HIDE DEF inverted
  <1>7. \A i \in S : inverted(p)[p[i]] = i
    BY <1>2, <1>4
  <1>. QED  BY <1>1, <1>4, <1>6, <1>7 DEF IsPermutation

\* permute.rs: from_seed makes a permutation of the coordinates.
LEMMA SeedsPermute ==
  ASSUME NEW d \in Nat, NEW rho \in from_seed(d)
  PROVE  IsPermutation(rho, 0 .. d - 1)
  <1>. DEFINE S == 0 .. d - 1
  <1>1. IsFiniteSet(S)
    BY FS_Interval
  <1>2. PICK p \in [S -> S] : rho \in from_indices(p)
    BY DEF from_seed
  <1>. QED  BY <1>1, <1>2, IndicesPermute

\* permute.rs: applying a power moves each coordinate to where that many steps
\* of the permutation take it from.
LEMMA AppliedPower ==
  ASSUME NEW rho, NEW S, IsPermutation(rho, S), NEW v, IsVector(v, S), NEW k \in Int
  PROVE  /\ apply_pow(rho, v, k) = [i \in S |-> v[power(rho, k, i)]]
         /\ IsVector(apply_pow(rho, v, k), S)
  <1>. DEFINE map == pow_indices(rho, k)
  <1>1. map = [i \in S |-> power(rho, k, i)]
    BY PowIndices
  <1>2. \A i \in S : power(rho, k, i) \in S
    BY PowerSteps
  <1>3. apply_pow(rho, v, k) = [i \in S |-> v[map[i]]]
    BY <1>1 DEF apply_pow, gather
  <1>. QED  BY <1>1, <1>2, <1>3 DEF IsVector

\* permute.rs: powers add up, of either sign.
THEOREM PowersOfPowers ==
  ASSUME NEW rho, NEW S, IsPermutation(rho, S), NEW v, IsVector(v, S),
         NEW j \in Int, NEW k \in Int
  PROVE  apply_pow(rho, apply_pow(rho, v, j), k) = apply_pow(rho, v, j + k)
  <1>. DEFINE w == apply_pow(rho, v, j)
              m == j + k
  <1>0. IsVector(w, S)
    BY AppliedPower
  <1>1. w = [i \in S |-> v[power(rho, j, i)]]
    BY AppliedPower
  <1>2. m \in Int
    OBVIOUS
  <1>. HIDE DEF w
  <1>3. apply_pow(rho, w, k) = [i \in S |-> w[power(rho, k, i)]]
    BY <1>0, AppliedPower
  <1>4. ASSUME NEW i \in S PROVE w[power(rho, k, i)] = v[power(rho, m, i)]
    <2>1. power(rho, k, i) \in S
      BY PowerSteps
    <2>2. power(rho, m, i) = power(rho, j, power(rho, k, i))
      BY PowersAdd
    <2>. QED  BY <1>1, <2>1, <2>2
  <1>. HIDE DEF m
  <1>5. apply_pow(rho, v, m) = [i \in S |-> v[power(rho, m, i)]]
    BY <1>2, AppliedPower
  <1>. QED  BY <1>3, <1>4, <1>5 DEF w, m

\* A power is that many single permutations.
LEMMA SteppedIsPower ==
  ASSUME NEW rho, NEW S, IsPermutation(rho, S), NEW v, IsVector(v, S), NEW k \in Int
  PROVE  Stepped(rho, v, k) = apply_pow(rho, v, k)
  <1>. DEFINE step == IF k > 0 THEN rho.perm ELSE rho.inv
              K == magnitude(k)
              Then(w) == IF k > 0 THEN apply(rho, w) ELSE apply_inv(rho, w)
              Body(f) == [n \in 0 .. K |-> IF n = 0 THEN v ELSE Then(f[n - 1])]
              f == CHOOSE f : f = Body(f)
              g == [n \in 0 .. K |-> [i \in S |-> v[after(step, i, n)]]]
  <1>1. step \in [S -> S]
    BY DEF IsPermutation
  <1>2. K \in Nat
    BY DEF magnitude
  <1>3. Stepped(rho, v, k) = f[K]
    BY DEF Stepped
  <1>4. \A i \in S : after(step, i, K) = power(rho, k, i)
    <2>1. CASE k = 0
      <3>1. K = 0
        BY <2>1 DEF magnitude
      <3>2. \A i \in S : after(step, i, 0) = i
        BY <1>1, AfterLaws
      <3>3. \A i \in S : power(rho, 0, i) = i
        BY PowerSteps
      <3>. QED  BY <2>1, <3>1, <3>2, <3>3
    <2>2. CASE k # 0
      BY <2>2 DEF power, magnitude
    <2>. QED  BY <2>1, <2>2
  <1>5. \A w : Then(w) = [i \in S |-> w[step[i]]]
    BY DEF apply, apply_inv, gather, IsPermutation
  <1>. HIDE DEF step, K, Then
  <1>6. g = Body(g)
    <2>. SUFFICES ASSUME NEW n \in 0 .. K PROVE g[n] = IF n = 0 THEN v ELSE Then(g[n - 1])
      OBVIOUS
    <2>1. CASE n = 0
      <3>1. \A i \in S : after(step, i, 0) = i
        BY <1>1, AfterLaws
      <3>2. g[n] = [i \in S |-> v[i]]
        BY <2>1, <3>1
      <3>. QED  BY <2>1, <3>2 DEF IsVector
    <2>2. CASE n # 0
      <3>1. n - 1 \in 0 .. K /\ n - 1 \in Nat /\ (n - 1) + 1 = n
        BY <1>2, <2>2
      <3>2. ASSUME NEW i \in S PROVE after(step, i, n) = after(step, step[i], n - 1)
        BY <1>1, <3>1, AfterFromNext
      <3>3. \A i \in S : step[i] \in S
        BY <1>1
      <3>4. Then(g[n - 1]) = [i \in S |-> v[after(step, step[i], n - 1)]]
        BY <1>5, <3>1, <3>3
      <3>. QED  BY <2>2, <3>2, <3>4
    <2>. QED  BY <2>1, <2>2
  <1>7. f = Body(f)
    <2>. HIDE DEF g
    <2>. QED  BY <1>6
  <1>. HIDE DEF f, g
  <1>. DEFINE T == {n \in Nat : n <= K => f[n] = g[n]}
  <1>8. \A n \in 0 .. K : /\ f[n] = IF n = 0 THEN v ELSE Then(f[n - 1])
                          /\ g[n] = IF n = 0 THEN v ELSE Then(g[n - 1])
    BY <1>6, <1>7
  <1>9. 0 \in T
    BY <1>2, <1>8
  <1>10. ASSUME NEW n \in Nat, n \in T PROVE n + 1 \in T
    <2>. SUFFICES ASSUME n + 1 <= K PROVE f[n + 1] = g[n + 1]
      OBVIOUS
    <2>1. f[n] = g[n]
      BY <1>2, <1>10
    <2>2. n + 1 \in 0 .. K /\ (n + 1) - 1 = n /\ n + 1 # 0
      BY <1>2
    <2>. QED  BY <1>8, <2>1, <2>2
  <1>11. K \in T
    <2>. HIDE DEF T
    <2>. QED  BY <1>2, <1>9, <1>10, Induction
  <1>12. g[K] = [i \in S |-> v[power(rho, k, i)]]
    BY <1>2, <1>4 DEF g
  <1>. QED  BY <1>2, <1>3, <1>11, <1>12, AppliedPower

\* One location of a permuted snapshot.
PermutedBy(r, m) == [r EXCEPT !.counter = gather(@, m), !.address = gather(@, m)]

LEMMA Regathered ==
  ASSUME NEW m, NEW c, NEW e, NEW w, NEW id, NEW r,
         r = [address |-> e, counter |-> c, writes |-> w, id |-> id]
  PROVE  PermutedBy(r, m) = [address |-> gather(e, m), counter |-> gather(c, m),
                             writes |-> w, id |-> id]
  <1>. DEFINE x == gather(r.counter, m)
              y == gather(r.address, m)
  <1>1. x = gather(c, m) /\ y = gather(e, m)
    OBVIOUS
  <1>. HIDE DEF x, y
  <1>2. [r EXCEPT !.counter = x, !.address = y]
           = [address |-> y, counter |-> x, writes |-> w, id |-> id]
    <2>. DEFINE s == [r EXCEPT !.counter = x]
    <2>1. s = [address |-> e, counter |-> x, writes |-> w, id |-> id]
      OBVIOUS
    <2>. HIDE DEF s
    <2>2. [s EXCEPT !.address = y] = [address |-> y, counter |-> x, writes |-> w, id |-> id]
      BY <2>1
    <2>. QED  BY <2>2 DEF s
  <1>. QED  BY <1>1, <1>2 DEF x, y, PermutedBy

\* A snapshot whose vectors are permuted is restored by the opposite power.
LEMMA SnapshotRestored ==
  ASSUME NEW rho, NEW S, IsPermutation(rho, S), NEW k \in Int, NEW a,
         a = [l \in DOMAIN a |-> a[l]],
         \A l \in DOMAIN a : \E c, e, w, id :
            /\ IsVector(c, S) /\ IsVector(e, S)
            /\ a[l] = [address |-> e, counter |-> c, writes |-> w, id |-> id]
  PROVE  permute_snapshot(permute_snapshot(a, rho, k), rho, -k) = a
  <1>. DEFINE m == pow_indices(rho, k)
              n == pow_indices(rho, -k)
              b == permute_snapshot(a, rho, k)
  <1>1. ASSUME NEW c, IsVector(c, S) PROVE gather(gather(c, m), n) = c
    <2>1. apply_pow(rho, apply_pow(rho, c, k), -k) = apply_pow(rho, c, k + (-k))
      <3>. DEFINE j == -k
      <3>1. j \in Int
        OBVIOUS
      <3>. HIDE DEF j
      <3>2. apply_pow(rho, apply_pow(rho, c, k), j) = apply_pow(rho, c, k + j)
        BY <1>1, <3>1, PowersOfPowers
      <3>. QED  BY <3>2 DEF j
    <2>2. k + (-k) = 0
      OBVIOUS
    <2>3. apply_pow(rho, c, 0) = [i \in S |-> c[power(rho, 0, i)]]
      BY <1>1, AppliedPower
    <2>4. \A i \in S : power(rho, 0, i) = i
      BY PowerSteps
    <2>. QED  BY <1>1, <2>1, <2>2, <2>3, <2>4 DEF apply_pow, IsVector
  <1>2. permute_snapshot(b, rho, -k) =
            [l \in DOMAIN b |-> PermutedBy(b[l], n)]
    BY DEF permute_snapshot, PermutedBy
  <1>3. b = [l \in DOMAIN a |-> PermutedBy(a[l], m)]
    BY DEF permute_snapshot, PermutedBy
  <1>. HIDE DEF m, n, b
  <1>4. ASSUME NEW l \in DOMAIN a
        PROVE  PermutedBy(b[l], n) = a[l]
    <2>1. PICK c, e, w, id :
             /\ IsVector(c, S) /\ IsVector(e, S)
             /\ a[l] = [address |-> e, counter |-> c, writes |-> w, id |-> id]
      OBVIOUS
    <2>2. b[l] = [address |-> gather(e, m), counter |-> gather(c, m), writes |-> w, id |-> id]
      <3>1. b[l] = PermutedBy(a[l], m)
        BY <1>3
      <3>. QED  BY <2>1, <3>1, Regathered
    <2>3. PermutedBy(b[l], n)
             = [address |-> gather(gather(e, m), n), counter |-> gather(gather(c, m), n),
                writes |-> w, id |-> id]
      BY <2>2, Regathered
    <2>. QED  BY <1>1, <2>1, <2>3
  <1>5. DOMAIN b = DOMAIN a
    BY <1>3
  <1>6. permute_snapshot(b, rho, -k) = [l \in DOMAIN a |-> a[l]]
    BY <1>2, <1>4, <1>5
  <1>. QED  BY <1>6 DEF b

-----------------------------------------------------------------------------
(* Folds over sequences, and the distances of nearest.rs.                  *)

\* A finite nonempty set has a member with the greatest key, and one with the
\* least.
LEMMA GreatestKey ==
  ASSUME NEW S, IsFiniteSet(S), S # {}, NEW key \in [S -> Int]
  PROVE  \E m \in S : \A x \in S : key[x] <= key[m]
  <1>. DEFINE G == {U \in SUBSET S : U # {} => \E m \in U : \A x \in U : key[x] <= key[m]}
  <1>1. {} \in G
    OBVIOUS
  <1>2. ASSUME NEW U \in SUBSET S, U # {}
        PROVE  \E x \in U : (U \ {x} \in G => U \in G)
    <2>1. PICK x \in U : TRUE
      BY <1>2
    <2>2. ASSUME U \ {x} \in G PROVE \E m \in U : \A y \in U : key[y] <= key[m]
      <3>1. CASE U \ {x} = {}
        BY <2>1, <3>1
      <3>2. CASE U \ {x} # {}
        <4>1. PICK m \in U \ {x} : \A y \in U \ {x} : key[y] <= key[m]
          BY <2>2, <3>2
        <4>2. key[m] \in Int /\ key[x] \in Int /\ \A y \in U : key[y] \in Int
          BY <2>1
        <4>3. CASE key[x] <= key[m]
          BY <4>1, <4>3
        <4>4. CASE key[m] <= key[x]
          <5>1. \A y \in U : key[y] <= key[x]
            BY <4>1, <4>2, <4>4
          <5>. QED  BY <5>1
        <4>. QED  BY <4>2, <4>3, <4>4
      <3>. QED  BY <3>1, <3>2
    <2>. QED  BY <2>1, <2>2
  <1>3. S \in G
    <2>. HIDE DEF G
    <2>. QED  BY <1>1, <1>2, SetInduction
  <1>. QED  BY <1>3

\* The same with the least key.
LEMMA LeastKey ==
  ASSUME NEW S, IsFiniteSet(S), S # {}, NEW key \in [S -> Int]
  PROVE  \E m \in S : \A x \in S : key[m] <= key[x]
  <1>. DEFINE k == [x \in S |-> -key[x]]
  <1>1. k \in [S -> Int]
    OBVIOUS
  <1>2. \A x, y \in S : k[x] <= k[y] => key[y] <= key[x]
    OBVIOUS
  <1>. HIDE DEF k
  <1>3. PICK m \in S : \A x \in S : k[x] <= k[m]
    BY <1>1, GreatestKey
  <1>. QED  BY <1>2, <1>3

\* The extremes of a finite nonempty set of integers are of it and bound it.
LEMMA MinMax ==
  ASSUME NEW U \in SUBSET Int, IsFiniteSet(U), U # {}
  PROVE  /\ Max(U) \in U /\ \A x \in U : x <= Max(U)
         /\ Min(U) \in U /\ \A x \in U : Min(U) <= x
  <1>. DEFINE key == [x \in U |-> x]
  <1>1. key \in [U -> Int] /\ \A x \in U : key[x] = x
    OBVIOUS
  <1>. HIDE DEF key
  <1>2. \E m \in U : \A x \in U : x <= m
    <2>1. PICK m \in U : \A x \in U : key[x] <= key[m]
      BY <1>1, GreatestKey
    <2>. QED  BY <1>1, <2>1
  <1>3. \E m \in U : \A x \in U : m <= x
    <2>1. PICK m \in U : \A x \in U : key[m] <= key[x]
      BY <1>1, LeastKey
    <2>. QED  BY <1>1, <2>1
  <1>. QED  BY <1>2, <1>3 DEF Max, Min

\* A part of an interval has them too.
LEMMA PartOfInterval ==
  ASSUME NEW N \in Nat, NEW U, U \subseteq 1 .. N, U # {}
  PROVE  /\ Max(U) \in U /\ \A x \in U : x <= Max(U)
         /\ Min(U) \in U /\ \A x \in U : Min(U) <= x
  <1>. DEFINE S == 1 .. N
  <1>1. IsFiniteSet(S)
    BY FS_Interval
  <1>2. U \in SUBSET S /\ U \in SUBSET Int
    OBVIOUS
  <1>3. IsFiniteSet(U)
    <2>. HIDE DEF S
    <2>. QED  BY <1>1, <1>2, FS_Subset
  <1>. QED  BY <1>2, <1>3, MinMax

\* g is the recursive function of a fold over the numbers to N.
FoldsTo(g, N, base, step) ==
    \A U \in SUBSET (1 .. N) :
        g[U] = IF U = {} THEN base ELSE step[<<Max(U), g[U \ {Max(U)}]>>]

\* A step of a fold over 1 .. N that keeps its values in V.
Steps(step, N, V, base) ==
    base \in V /\ \A n \in 1 .. N : \A v \in V : step[<<n, v>>] \in V

\* Such a recursive function exists, so that a fold in the model unfolds.
LEMMA FoldUnfolds ==
  ASSUME NEW N \in Nat, NEW V, NEW base, NEW step, Steps(step, N, V, base)
  PROVE  \E g \in [SUBSET (1 .. N) -> V] : FoldsTo(g, N, base, step)
  <1>. DEFINE S == 1 .. N
              pick == [U \in SUBSET S |-> Max(U)]
  <1>1. IsFiniteSet(S)
    BY FS_Interval
  <1>2. \A U \in SUBSET S : pick[U] = Max(U)
    OBVIOUS
  <1>3. \A U \in SUBSET S : U # {} => pick[U] \in U
    BY <1>2, PartOfInterval
  <1>4. base \in V /\ \A n \in S : \A v \in V : step[<<n, v>>] \in V
    BY DEF Steps
  <1>5. Picks(pick, S) /\ Keeps(step, S, V)
    BY <1>3, <1>4 DEF Picks, Keeps
  <1>. HIDE DEF pick, S
  <1>6. \E g \in [SUBSET S -> V] : FoldsBy(g, S, base, pick, step)
    BY <1>1, <1>4, <1>5, FoldExists
  <1>. QED  BY <1>2, <1>6 DEF S, FoldsTo, FoldsBy

\* The values such a function has at 1 .. n come one after the other.
LEMMA FoldPrefixes ==
  ASSUME NEW N \in Nat, NEW n \in 1 .. N
  PROVE  /\ 1 .. n \in SUBSET (1 .. N) /\ 1 .. n # {}
         /\ Max(1 .. n) = n /\ (1 .. n) \ {Max(1 .. n)} = 1 .. n - 1
  <1>2. Max(1 .. n) = n
    <2>. DEFINE U == 1 .. n
                m == Max(U)
    <2>1. U \subseteq 1 .. N /\ U # {}
      OBVIOUS
    <2>. HIDE DEF U
    <2>2. m \in U /\ \A x \in U : x <= m
      BY <2>1, PartOfInterval
    <2>. HIDE DEF m
    <2>3. m = n
      BY <2>2 DEF U
    <2>. QED  BY <2>3 DEF m, U
  <1>. QED  BY <1>2


\* nearest.rs: a squared distance adds up the squared gaps, in order.
LEMMA Dist2IsSum ==
  ASSUME NEW k \in Nat, NEW p, NEW q, \A c \in 1 .. k : p[c] \in Int /\ q[c] \in Int
  PROVE  \E h : /\ h[0] = 0
                /\ \A n \in 1 .. k : h[n] = h[n - 1] + (p[n] - q[n]) * (p[n] - q[n])
                /\ dist2(p, q, k) = h[k]
  <1>. DEFINE taken(s, c) == s + (p[c] - q[c]) * (p[c] - q[c])
              seq == [c \in 1 .. k |-> c]
              Body(it) == [U \in SUBSET (1 .. k) |->
                             IF U = {} THEN 0 ELSE taken(it[U \ {Max(U)}], seq[Max(U)])]
              it == CHOOSE it : it = Body(it)
              step == [x \in (1 .. k) \X Int |-> taken(x[2], seq[x[1]])]
  <1>1. dist2(p, q, k) = it[1 .. k]
    BY DEF dist2, FoldLeft, MapThenFoldSet
  <1>2. \A n \in 1 .. k, v \in Int : step[<<n, v>>] = taken(v, seq[n]) /\ step[<<n, v>>] \in Int
    OBVIOUS
  <1>3. \A n \in 1 .. k : seq[n] = n
    OBVIOUS
  <1>. HIDE DEF taken, seq, step
  <1>4. PICK g \in [SUBSET (1 .. k) -> Int] : FoldsTo(g, k, 0, step)
    <2>1. Steps(step, k, Int, 0)
      BY <1>2 DEF Steps
    <2>. QED  BY <2>1, FoldUnfolds
  <1>5. g = Body(g)
    <2>1. \A U \in SUBSET (1 .. k) : U # {} => Max(U) \in 1 .. k
      BY PartOfInterval
    <2>2. ASSUME NEW U \in SUBSET (1 .. k), U # {}
          PROVE  step[<<Max(U), g[U \ {Max(U)}]>>] = taken(g[U \ {Max(U)}], seq[Max(U)])
      <3>1. g[U \ {Max(U)}] \in Int
        OBVIOUS
      <3>. QED  BY <1>2, <2>1, <2>2, <3>1
    <2>3. \A U \in SUBSET (1 .. k) :
             g[U] = IF U = {} THEN 0 ELSE taken(g[U \ {Max(U)}], seq[Max(U)])
      BY <1>4, <2>2 DEF FoldsTo
    <2>. QED  BY <2>3
  <1>6. it = Body(it)
    <2>. HIDE DEF Body
    <2>. QED  BY <1>5
  <1>. HIDE DEF it
  <1>. DEFINE h == [n \in 0 .. k |-> it[1 .. n]]
  <1>7. \A U \in SUBSET (1 .. k) :
           it[U] = IF U = {} THEN 0 ELSE taken(it[U \ {Max(U)}], seq[Max(U)])
    BY <1>6
  <1>8. h[0] = 0
    <2>1. h[0] = it[{}] /\ {} \in SUBSET (1 .. k)
      OBVIOUS
    <2>. QED  BY <1>7, <2>1
  <1>9. ASSUME NEW n \in 1 .. k PROVE h[n] = taken(h[n - 1], n)
    <2>1. h[n] = it[1 .. n] /\ h[n - 1] = it[1 .. n - 1]
      OBVIOUS
    <2>2. /\ 1 .. n \in SUBSET (1 .. k) /\ 1 .. n # {}
          /\ Max(1 .. n) = n /\ (1 .. n) \ {Max(1 .. n)} = 1 .. n - 1
      BY FoldPrefixes
    <2>. DEFINE U == 1 .. n
    <2>3. U \in SUBSET (1 .. k) /\ U # {} /\ Max(U) = n /\ U \ {Max(U)} = 1 .. n - 1
      BY <2>2
    <2>. HIDE DEF h, U
    <2>4. it[U] = taken(it[1 .. n - 1], seq[n])
      BY <1>7, <2>3
    <2>. QED  BY <1>3, <2>1, <2>4 DEF U
  <1>10. h[k] = it[1 .. k]
    OBVIOUS
  <1>. HIDE DEF h
  <1>. QED  BY <1>1, <1>8, <1>9, <1>10 DEF taken

\* The first k coordinates are integers.
IsPoint(p, k) == \A c \in 1 .. k : p[c] \in Int

\* The squared gap in one coordinate.
gap2(p, q, c) == (p[c] - q[c]) * (p[c] - q[c])

\* A square is no less than 0.
LEMMA SquareIsNat ==
  ASSUME NEW x \in Int
  PROVE  x * x \in Nat
  <1>1. CASE x >= 0
    BY <1>1
  <1>2. CASE x < 0
    <2>1. x * x = (-x) * (-x) /\ -x \in Nat
      BY <1>2
    <2>. QED  BY <2>1
  <1>. QED  BY <1>1, <1>2

\* A coordinate more adds its squared gap.
LEMMA Dist2Steps ==
  ASSUME NEW k \in Nat, NEW p, NEW q, IsPoint(p, k), IsPoint(q, k)
  PROVE  /\ dist2(p, q, 0) = 0
         /\ \A n \in 1 .. k : dist2(p, q, n) = dist2(p, q, n - 1) + gap2(p, q, n)
  <1>. DEFINE Sum(h, n) == h[0] = 0 /\ \A m \in 1 .. n : h[m] = h[m - 1] + gap2(p, q, m)
  <1>1. ASSUME NEW n \in 0 .. k PROVE \E h : Sum(h, n) /\ dist2(p, q, n) = h[n]
    <2>1. \A c \in 1 .. n : p[c] \in Int /\ q[c] \in Int
      BY DEF IsPoint
    <2>2. n \in Nat
      OBVIOUS
    <2>. QED  BY <2>1, <2>2, Dist2IsSum DEF gap2
  <1>2. ASSUME NEW n \in Nat, NEW g, NEW h, Sum(g, n), Sum(h, n) PROVE g[n] = h[n]
    <2>. DEFINE T == {m \in Nat : m <= n => g[m] = h[m]}
    <2>1. 0 \in T
      BY <1>2
    <2>2. ASSUME NEW m \in Nat, m \in T PROVE m + 1 \in T
      <3>. SUFFICES ASSUME m + 1 <= n PROVE g[m + 1] = h[m + 1]
        OBVIOUS
      <3>1. m + 1 \in 1 .. n /\ (m + 1) - 1 = m /\ g[m] = h[m]
        BY <2>2
      <3>. QED  BY <1>2, <3>1
    <2>3. n \in T
      <3>. HIDE DEF T
      <3>. QED  BY <2>1, <2>2, Induction
    <2>. QED  BY <2>3
  <1>3. dist2(p, q, 0) = 0
    <2>1. PICK h : Sum(h, 0) /\ dist2(p, q, 0) = h[0]
      BY <1>1
    <2>. QED  BY <2>1
  <1>4. ASSUME NEW n \in 1 .. k PROVE dist2(p, q, n) = dist2(p, q, n - 1) + gap2(p, q, n)
    <2>1. PICK h : Sum(h, n) /\ dist2(p, q, n) = h[n]
      BY <1>1
    <2>2. n - 1 \in 0 .. k /\ n - 1 \in Nat
      OBVIOUS
    <2>3. PICK g : Sum(g, n - 1) /\ dist2(p, q, n - 1) = g[n - 1]
      BY <1>1, <2>2
    <2>4. Sum(h, n - 1)
      BY <2>1
    <2>5. g[n - 1] = h[n - 1]
      <3>. HIDE DEF Sum
      <3>. QED  BY <1>2, <2>2, <2>3, <2>4
    <2>6. h[n] = h[n - 1] + gap2(p, q, n)
      BY <2>1
    <2>. QED  BY <2>1, <2>3, <2>5, <2>6
  <1>. QED  BY <1>3, <1>4

\* The distance in the first coordinates bounds the gap in each of them, and
\* is bounded by the distance in more of them.
LEMMA Dist2Grows ==
  ASSUME NEW k \in Nat, NEW p, NEW q, IsPoint(p, k), IsPoint(q, k)
  PROVE  /\ dist2(p, q, k) \in Nat
         /\ \A n \in 0 .. k : dist2(p, q, n) \in Nat /\ dist2(p, q, n) <= dist2(p, q, k)
         /\ \A c \in 1 .. k : gap2(p, q, c) \in Nat /\ gap2(p, q, c) <= dist2(p, q, k)
  <1>. DEFINE d(n) == dist2(p, q, n)
              T == {n \in Nat : n <= k =>
                      /\ d(n) \in Nat
                      /\ \A m \in 0 .. n : d(m) \in Nat /\ d(m) <= d(n)
                      /\ \A c \in 1 .. n : gap2(p, q, c) <= d(n)}
  <1>1. \A c \in 1 .. k : gap2(p, q, c) \in Nat
    <2>. SUFFICES ASSUME NEW c \in 1 .. k PROVE gap2(p, q, c) \in Nat
      OBVIOUS
    <2>1. p[c] - q[c] \in Int
      BY DEF IsPoint
    <2>. QED  BY <2>1, SquareIsNat DEF gap2
  <1>2. d(0) = 0 /\ \A n \in 1 .. k : d(n) = d(n - 1) + gap2(p, q, n)
    BY Dist2Steps
  <1>. HIDE DEF d
  <1>3. 0 \in T
    BY <1>2
  <1>4. ASSUME NEW n \in Nat, n \in T PROVE n + 1 \in T
    <2>. SUFFICES ASSUME n + 1 <= k
                  PROVE  /\ d(n + 1) \in Nat
                         /\ \A m \in 0 .. n + 1 : d(m) \in Nat /\ d(m) <= d(n + 1)
                         /\ \A c \in 1 .. n + 1 : gap2(p, q, c) <= d(n + 1)
      OBVIOUS
    <2>1. /\ d(n) \in Nat
          /\ \A m \in 0 .. n : d(m) \in Nat /\ d(m) <= d(n)
          /\ \A c \in 1 .. n : gap2(p, q, c) <= d(n)
      BY <1>4
    <2>2. n + 1 \in 1 .. k /\ (n + 1) - 1 = n
      OBVIOUS
    <2>3. d(n + 1) = d(n) + gap2(p, q, n + 1) /\ gap2(p, q, n + 1) \in Nat
      BY <1>1, <1>2, <2>2
    <2>4. d(n + 1) \in Nat /\ d(n) <= d(n + 1) /\ gap2(p, q, n + 1) <= d(n + 1)
      BY <2>1, <2>3
    <2>5. ASSUME NEW m \in 0 .. n + 1 PROVE d(m) \in Nat /\ d(m) <= d(n + 1)
      <3>1. CASE m = n + 1
        BY <2>4, <3>1
      <3>2. CASE m \in 0 .. n
        BY <2>1, <2>4, <3>2
      <3>. QED  BY <3>1, <3>2
    <2>6. ASSUME NEW c \in 1 .. n + 1 PROVE gap2(p, q, c) <= d(n + 1)
      <3>1. CASE c = n + 1
        BY <2>4, <3>1
      <3>2. CASE c \in 1 .. n
        <4>1. gap2(p, q, c) \in Nat /\ gap2(p, q, c) <= d(n)
          BY <1>1, <2>1, <2>2, <3>2
        <4>. QED  BY <2>1, <2>4, <4>1
      <3>. QED  BY <3>1, <3>2
    <2>. QED  BY <2>4, <2>5, <2>6
  <1>5. k \in T
    <2>. HIDE DEF T
    <2>. QED  BY <1>3, <1>4, Induction
  <1>. QED  BY <1>1, <1>5 DEF d

-----------------------------------------------------------------------------
(* The k-d tree of nearest.rs: ranges of an order, halved down to leaves.  *)

\* The ranges of N points.
Spans(N) == {r \in (0 .. N) \X (0 .. N) : r[1] <= r[2]}

\* How many points a range has.
width(r) == r[2] - r[1]

\* nearest.rs: a node's halves are ranges, narrower than it and not the same.
LEMMA HalvesAre ==
  ASSUME NEW N \in Nat, NEW r \in Spans(N)
  PROVE  /\ width(r) \in 0 .. N
         /\ ~is_leaf(r) =>
              /\ left_half(r) \in Spans(N) /\ right_half(r) \in Spans(N)
              /\ left_half(r) # right_half(r)
              /\ width(left_half(r)) < width(r) /\ width(right_half(r)) < width(r)
              /\ middle(r) \in r[1] + 1 .. r[2] - 1
              /\ left_half(r)[1] = r[1] /\ left_half(r)[2] = middle(r)
              /\ right_half(r)[1] = middle(r) /\ right_half(r)[2] = r[2]
  <1>1. r[1] \in 0 .. N /\ r[2] \in 0 .. N /\ r[1] <= r[2]
    BY DEF Spans
  <1>2. width(r) \in 0 .. N
    BY <1>1 DEF width
  <1>3. ASSUME ~is_leaf(r) PROVE middle(r) \in r[1] + 1 .. r[2] - 1
    <2>1. r[2] - r[1] >= 2
      BY <1>1, <1>3, SearchAssumption DEF is_leaf
    <2>. QED  BY <1>1, <2>1 DEF middle
  <1>4. ASSUME ~is_leaf(r)
        PROVE  left_half(r) \in Spans(N) /\ right_half(r) \in Spans(N)
    BY <1>1, <1>3, <1>4 DEF left_half, right_half, Spans
  <1>5. /\ left_half(r)[1] = r[1] /\ left_half(r)[2] = middle(r)
        /\ right_half(r)[1] = middle(r) /\ right_half(r)[2] = r[2]
    BY DEF left_half, right_half
  <1>6. ASSUME ~is_leaf(r)
        PROVE  /\ width(left_half(r)) < width(r) /\ width(right_half(r)) < width(r)
               /\ left_half(r) # right_half(r)
    BY <1>1, <1>3, <1>5, <1>6 DEF width
  <1>. QED  BY <1>2, <1>3, <1>4, <1>5, <1>6

\* What holds of the leaves, and of a range if of its halves, holds of all.
LEMMA RangeInduction ==
  ASSUME NEW N \in Nat, NEW G,
         \A r \in Spans(N) : is_leaf(r) => r \in G,
         \A r \in Spans(N) : ~is_leaf(r) /\ left_half(r) \in G /\ right_half(r) \in G => r \in G
  PROVE  Spans(N) \subseteq G
  <1>. DEFINE T == {n \in Nat : \A r \in Spans(N) : width(r) <= n => r \in G}
  <1>1. ASSUME NEW r \in Spans(N), \A s \in Spans(N) : width(s) < width(r) => s \in G
        PROVE  r \in G
    BY <1>1, HalvesAre
  <1>2. 0 \in T
    <2>. SUFFICES ASSUME NEW r \in Spans(N), width(r) <= 0 PROVE r \in G
      OBVIOUS
    <2>1. \A s \in Spans(N) : width(s) \in 0 .. N
      BY HalvesAre
    <2>2. \A s \in Spans(N) : ~(width(s) < width(r))
      BY <2>1
    <2>. QED  BY <1>1, <2>2
  <1>3. ASSUME NEW n \in Nat, n \in T PROVE n + 1 \in T
    <2>. SUFFICES ASSUME NEW r \in Spans(N), width(r) <= n + 1 PROVE r \in G
      OBVIOUS
    <2>1. \A s \in Spans(N) : width(s) \in 0 .. N
      BY HalvesAre
    <2>2. \A s \in Spans(N) : width(s) < width(r) => width(s) <= n
      BY <2>1
    <2>3. \A s \in Spans(N) : width(s) < width(r) => s \in G
      BY <1>3, <2>2
    <2>. QED  BY <1>1, <2>3
  <1>4. N \in T
    <2>. HIDE DEF T
    <2>. QED  BY <1>2, <1>3, Induction
  <1>5. \A r \in Spans(N) : width(r) \in 0 .. N
    BY HalvesAre
  <1>. QED  BY <1>4, <1>5

\* A recursive function over ranges exists.
Branches(g, N, leaf, node) ==
    \A r \in Spans(N) :
        g[r] = IF is_leaf(r) THEN leaf[r]
               ELSE node[<<r, g[left_half(r)], g[right_half(r)]>>]

\* Leaves have values in V, and a node makes one of those of its halves.
Grows(N, V, leaf, node) ==
    \A r \in Spans(N) : leaf[r] \in V /\ \A a, b \in V : node[<<r, a, b>>] \in V

\* So a search down a tree is defined for every range.
LEMMA RangesUnfold ==
  ASSUME NEW N \in Nat, NEW V, NEW leaf, NEW node, Grows(N, V, leaf, node)
  PROVE  \E g \in [Spans(N) -> V] : Branches(g, N, leaf, node)
  <1>. DEFINE Small(n) == {r \in Spans(N) : width(r) <= n}
              Unfolds(g, r) == g[r] = IF is_leaf(r) THEN leaf[r]
                                      ELSE node[<<r, g[left_half(r)], g[right_half(r)]>>]
              T == {n \in Nat : \E g \in [Small(n) -> V] : \A r \in Small(n) : Unfolds(g, r)}
  <1>0. \A r \in Spans(N) : width(r) \in 0 .. N
    BY HalvesAre
  <1>1. \A r \in Spans(N) : width(r) <= 0 => is_leaf(r)
    <2>. SUFFICES ASSUME NEW r \in Spans(N), width(r) <= 0, ~is_leaf(r) PROVE FALSE
      OBVIOUS
    <2>1. left_half(r) \in Spans(N) /\ width(left_half(r)) < width(r)
      BY HalvesAre
    <2>. QED  BY <1>0, <2>1
  <1>2. 0 \in T
    <2>. DEFINE g == [r \in Small(0) |-> leaf[r]]
    <2>1. g \in [Small(0) -> V]
      BY DEF Grows
    <2>2. \A r \in Small(0) : Unfolds(g, r)
      BY <1>1
    <2>. QED  BY <2>1, <2>2
  <1>3. ASSUME NEW n \in Nat, n \in T PROVE n + 1 \in T
    <2>1. PICK g \in [Small(n) -> V] : \A r \in Small(n) : Unfolds(g, r)
      BY <1>3
    <2>. DEFINE h == [r \in Small(n + 1) |-> IF is_leaf(r) THEN leaf[r]
                        ELSE node[<<r, g[left_half(r)], g[right_half(r)]>>]]
    <2>2. ASSUME NEW r \in Small(n + 1), ~is_leaf(r)
          PROVE  left_half(r) \in Small(n) /\ right_half(r) \in Small(n)
      <3>1. /\ left_half(r) \in Spans(N) /\ right_half(r) \in Spans(N)
            /\ width(left_half(r)) < width(r) /\ width(right_half(r)) < width(r)
        BY <2>2, HalvesAre
      <3>. QED  BY <1>0, <3>1
    <2>3. \A r \in Small(n) : r \in Small(n + 1)
      BY <1>0
    <2>4. \A r \in Small(n + 1) : r \in Spans(N)
      OBVIOUS
    <2>. HIDE DEF Small
    <2>5. h \in [Small(n + 1) -> V]
      BY <2>2, <2>4 DEF Grows
    <2>6. \A r \in Small(n) : h[r] = g[r]
      BY <2>1, <2>3
    <2>7. \A r \in Small(n + 1) : Unfolds(h, r)
      BY <2>2, <2>6
    <2>. HIDE DEF h, Unfolds
    <2>. QED  BY <2>5, <2>7
  <1>4. N \in T
    <2>. HIDE DEF T
    <2>. QED  BY <1>2, <1>3, Induction
  <1>5. Small(N) = Spans(N)
    BY <1>0
  <1>6. PICK g \in [Spans(N) -> V] : \A r \in Spans(N) : Unfolds(g, r)
    <2>. HIDE DEF Unfolds
    <2>. QED  BY <1>4, <1>5
  <1>. QED  BY <1>6 DEF Branches

\* The sequences of a finite set: every member, once.
LEMMA SeqsOf ==
  ASSUME NEW S, IsFiniteSet(S), NEW order \in SetToSeqs(S)
  PROVE  /\ Len(order) \in Nat /\ Len(order) = Cardinality(S)
         /\ order \in [1 .. Len(order) -> S]
         /\ \A m, n \in 1 .. Len(order) : m # n => order[m] # order[n]
         /\ \A x \in S : \E n \in 1 .. Len(order) : order[n] = x
         /\ ToSet(order) = S
  <1>. DEFINE N == Cardinality(S)
  <1>1. N \in Nat
    BY FS_CardinalityType
  <1>2. order \in [1 .. N -> S] /\ \A m, n \in 1 .. N : m # n => order[m] # order[n]
    BY DEF SetToSeqs
  <1>3. Len(order) = N
    BY <1>1, <1>2
  <1>4. \A x \in S : \E n \in 1 .. N : order[n] = x
    <2>. SUFFICES ASSUME NEW x \in S, \A n \in 1 .. N : order[n] # x PROVE FALSE
      OBVIOUS
    <2>1. IsFiniteSet(1 .. N) /\ Cardinality(1 .. N) = N
      BY <1>1, FS_Interval
    <2>2. order \in [1 .. N -> S \ {x}]
      BY <1>2
    <2>3. IsFiniteSet(S \ {x}) /\ Cardinality(S \ {x}) = N - 1
      BY FS_RemoveElement
    <2>4. Cardinality(S \ {x}) < Cardinality(1 .. N)
      BY <1>1, <2>1, <2>3
    <2>. DEFINE D == 1 .. N
                T == S \ {x}
    <2>5. \E m, n \in D : m # n /\ order[m] = order[n]
      <3>1. IsFiniteSet(D) /\ IsFiniteSet(T) /\ Cardinality(T) < Cardinality(D) /\ order \in [D -> T]
        BY <2>1, <2>2, <2>3, <2>4
      <3>. HIDE DEF D, T
      <3>. QED  BY <3>1, FS_PigeonHole
    <2>. QED  BY <1>2, <2>5
  <1>5. ToSet(order) = S
    BY <1>2, <1>4 DEF ToSet
  <1>. QED  BY <1>1, <1>2, <1>3, <1>4, <1>5

\* The points of S, in a sequence.
Orders(order, S) ==
    /\ Len(order) \in Nat
    /\ \A n \in 1 .. Len(order) : order[n] \in S
    /\ \A x \in S : \E n \in 1 .. Len(order) : order[n] = x

\* A range's points are those of its halves, neither of which is empty.
LEMMA HalvesHold ==
  ASSUME NEW order, NEW S, Orders(order, S), NEW r \in Spans(Len(order))
  PROVE  /\ within_range(order, r) \subseteq S
         /\ ~is_leaf(r) =>
              /\ within_range(order, r) = within_range(order, left_half(r))
                                          \cup within_range(order, right_half(r))
              /\ within_range(order, left_half(r)) # {}
              /\ within_range(order, right_half(r)) # {}
  <1>. DEFINE N == Len(order)
  <1>1. N \in Nat /\ r[1] \in 0 .. N /\ r[2] \in 0 .. N /\ r[1] <= r[2]
    BY DEF Spans, Orders
  <1>2. r[1] + 1 .. r[2] \subseteq 1 .. N
    BY <1>1
  <1>3. within_range(order, r) \subseteq S
    BY <1>2 DEF within_range, Orders
  <1>4. ASSUME ~is_leaf(r)
        PROVE  /\ within_range(order, r) = within_range(order, left_half(r))
                                          \cup within_range(order, right_half(r))
               /\ within_range(order, left_half(r)) # {}
               /\ within_range(order, right_half(r)) # {}
    <2>1. /\ middle(r) \in r[1] + 1 .. r[2] - 1
          /\ left_half(r)[1] = r[1] /\ left_half(r)[2] = middle(r)
          /\ right_half(r)[1] = middle(r) /\ right_half(r)[2] = r[2]
      BY <1>1, <1>4, HalvesAre
    <2>. DEFINE m == middle(r)
    <2>2. /\ r[1] + 1 .. r[2] = (r[1] + 1 .. m) \cup (m + 1 .. r[2])
          /\ m \in r[1] + 1 .. m /\ r[2] \in m + 1 .. r[2]
      BY <1>1, <2>1
    <2>3. /\ within_range(order, left_half(r)) = {order[n] : n \in r[1] + 1 .. m}
          /\ within_range(order, right_half(r)) = {order[n] : n \in m + 1 .. r[2]}
          /\ within_range(order, r) = {order[n] : n \in r[1] + 1 .. r[2]}
      BY <2>1 DEF within_range
    <2>. HIDE DEF m
    <2>. QED  BY <2>2, <2>3
  <1>. QED  BY <1>3, <1>4

\* The root's range is all of them.
LEMMA RootHolds ==
  ASSUME NEW order, NEW S, Orders(order, S)
  PROVE  /\ Root(order) \in Spans(Len(order))
         /\ within_range(order, Root(order)) = S
  <1>1. Root(order)[1] = 0 /\ Root(order)[2] = Len(order) /\ Root(order) = <<0, Len(order)>>
    BY DEF Root
  <1>2. within_range(order, Root(order)) = {order[n] : n \in 1 .. Len(order)}
    BY <1>1 DEF within_range
  <1>3. Root(order) \in Spans(Len(order))
    BY <1>1 DEF Spans, Orders
  <1>. QED  BY <1>2, <1>3 DEF Orders

\* A node's halves are nodes.
LEMMA NodesDown ==
  ASSUME NEW order, Len(order) \in Nat
  PROVE  /\ nodes(order) \subseteq Spans(Len(order))
         /\ Root(order) \in nodes(order)
         /\ \A r \in nodes(order) :
              ~is_leaf(r) => left_half(r) \in nodes(order) /\ right_half(r) \in nodes(order)
  <1>. DEFINE N == Len(order)
              Sp == Spans(N)
              Body(f) == [r \in Sp |-> {r} \cup IF is_leaf(r) THEN {}
                                                ELSE f[left_half(r)] \cup f[right_half(r)]]
              f == CHOOSE f : f = Body(f)
              leaf == [r \in Sp |-> {r}]
              node == [x \in Sp \X (SUBSET Sp) \X (SUBSET Sp) |-> {x[1]} \cup x[2] \cup x[3]]
  <1>1. nodes(order) = f[Root(order)]
    BY DEF nodes, Ranges, Spans
  <1>2. /\ \A r \in Sp : leaf[r] = {r}
        /\ \A r \in Sp, a, b \in SUBSET Sp : node[<<r, a, b>>] = {r} \cup a \cup b
    OBVIOUS
  <1>. HIDE DEF leaf, node
  <1>3. Grows(N, SUBSET Sp, leaf, node)
    BY <1>2 DEF Grows
  <1>4. PICK g \in [Sp -> SUBSET Sp] : Branches(g, N, leaf, node)
    BY <1>3, RangesUnfold
  <1>5. g = Body(g)
    <2>. SUFFICES ASSUME NEW r \in Sp
                  PROVE  g[r] = {r} \cup IF is_leaf(r) THEN {} ELSE g[left_half(r)] \cup g[right_half(r)]
      OBVIOUS
    <2>1. CASE is_leaf(r)
      BY <1>2, <1>4, <2>1 DEF Branches
    <2>2. CASE ~is_leaf(r)
      <3>1. left_half(r) \in Sp /\ right_half(r) \in Sp
        BY <2>2, HalvesAre
      <3>2. g[r] = node[<<r, g[left_half(r)], g[right_half(r)]>>]
        BY <1>4, <2>2 DEF Branches
      <3>3. g[left_half(r)] \in SUBSET Sp /\ g[right_half(r)] \in SUBSET Sp
        BY <3>1
      <3>. QED  BY <1>2, <2>2, <3>2, <3>3
    <2>. QED  BY <2>1, <2>2
  <1>6. f = Body(f)
    <2>. HIDE DEF Body
    <2>. QED  BY <1>5
  <1>. HIDE DEF f
  <1>7. \A r \in Sp : f[r] = {r} \cup IF is_leaf(r) THEN {} ELSE f[left_half(r)] \cup f[right_half(r)]
    BY <1>6
  <1>. DEFINE G == {r \in Sp : /\ r \in f[r] /\ f[r] \subseteq Sp
                               /\ \A s \in f[r] : ~is_leaf(s) => left_half(s) \in f[r] /\ right_half(s) \in f[r]}
  <1>8. \A r \in Sp : is_leaf(r) => r \in G
    BY <1>7
  <1>9. ASSUME NEW r \in Sp, ~is_leaf(r), left_half(r) \in G, right_half(r) \in G PROVE r \in G
    <2>1. f[r] = {r} \cup f[left_half(r)] \cup f[right_half(r)]
      BY <1>7, <1>9
    <2>. QED  BY <1>9, <2>1
  <1>10. Sp \subseteq G
    <2>. HIDE DEF G
    <2>. QED  BY <1>8, <1>9, RangeInduction
  <1>11. Root(order) \in Sp
    BY DEF Root, Spans
  <1>. QED  BY <1>1, <1>10, <1>11

\* Of two numbers on the same side of 0, the farther has the greater square.
LEMMA SquaresGrow ==
  ASSUME NEW a \in Int, NEW b \in Int, (0 <= a /\ a <= b) \/ (b <= a /\ a <= 0)
  PROVE  a * a <= b * b
  <1>1. ASSUME NEW x \in Nat, NEW y \in Nat, x <= y PROVE x * x <= y * y
    <2>. DEFINE d == y - x
    <2>1. d \in Nat /\ y = x + d
      BY <1>1
    <2>2. y * y = x * x + 2 * (x * d) + d * d
      BY <2>1
    <2>3. x * d \in Nat /\ d * d \in Nat /\ x * x \in Nat
      BY <2>1
    <2>. QED  BY <2>2, <2>3
  <1>2. CASE 0 <= a /\ a <= b
    BY <1>1, <1>2
  <1>3. CASE b <= a /\ a <= 0
    <2>. DEFINE x == 0 - a
                y == 0 - b
    <2>1. x \in Nat /\ y \in Nat /\ x <= y
      BY <1>3
    <2>2. x * x = a * a /\ y * y = b * b
      OBVIOUS
    <2>. QED  BY <1>1, <2>1, <2>2
  <1>. QED  BY <1>2, <1>3

\* Indexed points with integer coordinates.
ArePoints(points, S, k) ==
    /\ S \subseteq Nat /\ IsFiniteSet(S)
    /\ k \in Nat /\ Projected <= k
    /\ \A p \in S : IsPoint(points[p], k) /\ Len(points[p]) = k

\* The coordinates along an axis of some points, and their spread.
LEMMA Coordinates ==
  ASSUME NEW points, NEW S, NEW k, ArePoints(points, S, k),
         NEW U \in SUBSET S, U # {}, NEW axis \in 1 .. Projected
  PROVE  /\ {coord(points, p, axis) : p \in U} \in SUBSET Int
         /\ IsFiniteSet({coord(points, p, axis) : p \in U})
         /\ {coord(points, p, axis) : p \in U} # {}
         /\ \A p \in U : coord(points, p, axis) \in Int
         /\ spread(points, U, axis) \in Int
  <1>. DEFINE C == {coord(points, p, axis) : p \in U}
              c == [p \in U |-> coord(points, p, axis)]
  <1>0. axis \in 1 .. k
    BY SearchAssumption DEF ArePoints
  <1>1. \A p \in U : coord(points, p, axis) \in Int
    BY <1>0 DEF ArePoints, IsPoint, coord
  <1>2. IsFiniteSet(U)
    BY Subsets DEF ArePoints
  <1>3. IsFiniteSet(C)
    <2>1. IsFiniteSet({c[p] : p \in U})
      <3>1. c \in [U -> C] /\ \A x \in C : \E p \in U : c[p] = x
        OBVIOUS
      <3>2. c \in Surjection(U, C)
        BY <3>1 DEF Surjection
      <3>. HIDE DEF c, C
      <3>3. IsFiniteSet(C)
        BY <1>2, <3>2, FS_Surjection
      <3>. QED  BY <3>3 DEF c, C
    <2>. QED  BY <2>1
  <1>4. C \in SUBSET Int /\ C # {}
    BY <1>1
  <1>5. Max(C) \in Int /\ Min(C) \in Int
    <2>. HIDE DEF C
    <2>. QED  BY <1>3, <1>4, MinMax
  <1>6. spread(points, U, axis) \in Int
    BY <1>5 DEF spread
  <1>. QED  BY <1>1, <1>3, <1>4, <1>6

\* nearest.rs: a widest dimension is one of those projected on.
LEMMA WidestIsAxis ==
  ASSUME NEW points, NEW S, NEW k, ArePoints(points, S, k),
         NEW U \in SUBSET S, U # {}
  PROVE  widest(points, U) \in 1 .. Projected
  <1>. DEFINE A == 1 .. Projected
              key == [axis \in A |-> spread(points, U, axis)]
              W == {axis \in A : \A e \in A : spread(points, U, e) <= spread(points, U, axis)}
  <1>1. A # {} /\ Projected \in Nat
    BY SearchAssumption
  <1>2. IsFiniteSet(A)
    BY <1>1, FS_Interval
  <1>3. key \in [A -> Int] /\ \A axis \in A : key[axis] = spread(points, U, axis)
    BY Coordinates
  <1>4. W # {}
    <2>. HIDE DEF key, A
    <2>1. PICK m \in A : \A x \in A : key[x] <= key[m]
      BY <1>1, <1>2, <1>3, GreatestKey
    <2>2. \A x \in A : spread(points, U, x) <= spread(points, U, m)
      BY <1>3, <2>1
    <2>. QED  BY <2>2
  <1>5. W \subseteq 1 .. Projected
    OBVIOUS
  <1>6. widest(points, U) = Max(W)
    BY DEF widest
  <1>. HIDE DEF W
  <1>. QED  BY <1>1, <1>4, <1>5, <1>6, PartOfInterval

\* A sequence of the points, cut at the median at every node.
IsTree(points, order, S, k) ==
    /\ ArePoints(points, S, k)
    /\ Orders(order, S)
    /\ \A r \in nodes(order) : is_leaf(r) \/ cut_at_median(points, order, r)

\* nearest.rs: build makes such a tree.
LEMMA BuiltIsTree ==
  ASSUME NEW points, NEW S, NEW k, ArePoints(points, S, k), NEW order \in build(points, S)
  PROVE  IsTree(points, order, S, k) /\ ToSet(order) = S /\ order \in [1 .. Len(order) -> S]
  <1>1. order \in SetToSeqs(S) /\ \A r \in nodes(order) : is_leaf(r) \/ cut_at_median(points, order, r)
    BY DEF build
  <1>2. IsFiniteSet(S)
    BY DEF ArePoints
  <1>3. /\ Len(order) \in Nat
        /\ order \in [1 .. Len(order) -> S]
        /\ \A x \in S : \E n \in 1 .. Len(order) : order[n] = x
        /\ ToSet(order) = S
    BY <1>1, <1>2, SeqsOf
  <1>. QED  BY <1>1, <1>3 DEF IsTree, Orders

\* The median's coordinate divides a node's points.
LEMMA MedianDivides ==
  ASSUME NEW points, NEW order, NEW S, NEW k, IsTree(points, order, S, k),
         NEW r \in nodes(order), ~is_leaf(r)
  PROVE  LET d == dim_of(points, order, r)
             v == value(points, order, r)
         IN /\ d \in 1 .. Projected
            /\ v \in Int
            /\ \A p \in within_range(order, left_half(r)) :
                  coord(points, p, d) \in Int /\ coord(points, p, d) <= v
            /\ \A p \in within_range(order, right_half(r)) :
                  coord(points, p, d) \in Int /\ v <= coord(points, p, d)
  <1>. DEFINE d == dim_of(points, order, r)
              v == value(points, order, r)
              L == within_range(order, left_half(r))
              R == within_range(order, right_half(r))
              W == within_range(order, r)
              C == {coord(points, p, d) : p \in R}
  <1>0. Orders(order, S) /\ ArePoints(points, S, k) /\ Len(order) \in Nat
    BY DEF IsTree, Orders
  <1>1. r \in Spans(Len(order))
    BY <1>0, NodesDown
  <1>2. W \in SUBSET S /\ W = L \cup R /\ L # {} /\ R # {}
    BY <1>0, <1>1, HalvesHold
  <1>3. d \in 1 .. Projected
    <2>1. W \in SUBSET S /\ W # {} /\ d = widest(points, W)
      BY <1>2 DEF dim_of
    <2>. HIDE DEF W, d
    <2>. QED  BY <1>0, <2>1, WidestIsAxis
  <1>4. \A p \in L, q \in R : coord(points, p, d) <= coord(points, q, d)
    BY DEF IsTree, cut_at_median
  <1>5. v = Min(C)
    BY DEF value
  <1>6. L \in SUBSET S /\ R \in SUBSET S
    BY <1>2
  <1>. HIDE DEF d, L, R, W, v
  <1>7. C \in SUBSET Int /\ IsFiniteSet(C) /\ C # {}
    <2>1. R \in SUBSET S /\ R # {}
      BY <1>2, <1>6
    <2>2. /\ {coord(points, p, d) : p \in R} \in SUBSET Int
          /\ IsFiniteSet({coord(points, p, d) : p \in R})
          /\ {coord(points, p, d) : p \in R} # {}
      BY <1>0, <1>3, <2>1, Coordinates
    <2>. QED  BY <2>2
  <1>8. \A p \in L : coord(points, p, d) \in Int
    BY <1>0, <1>2, <1>3, <1>6, Coordinates
  <1>9. \A p \in R : coord(points, p, d) \in Int
    BY <1>0, <1>2, <1>3, <1>6, Coordinates
  <1>10. Min(C) \in C /\ \A x \in C : Min(C) <= x
    <2>. HIDE DEF C
    <2>. QED  BY <1>7, MinMax
  <1>11. \A p \in R : v <= coord(points, p, d)
    BY <1>5, <1>10
  <1>12. \A p \in L : coord(points, p, d) <= v
    BY <1>4, <1>5, <1>10
  <1>13. v \in Int
    BY <1>5, <1>7, <1>10
  <1>. QED  BY <1>3, <1>8, <1>9, <1>11, <1>12, <1>13 DEF d, L, R, v

\* No point on the far side of a cut is closer than the cut.
LEMMA FarIsFar ==
  ASSUME NEW points, NEW order, NEW S, NEW k, IsTree(points, order, S, k),
         NEW r \in nodes(order), ~is_leaf(r), NEW q, IsPoint(q, Projected)
  PROVE  /\ diff2(points, order, r, q) \in Int
         /\ \A p \in within_range(order, far(points, order, r, q)) :
               diff2(points, order, r, q) <= distance(points, q, p)
  <1>. DEFINE d == dim_of(points, order, r)
              v == value(points, order, r)
              L == within_range(order, left_half(r))
              R == within_range(order, right_half(r))
              t == diff(points, order, r, q)
  <1>0. Orders(order, S) /\ ArePoints(points, S, k) /\ Len(order) \in Nat
    BY DEF IsTree, Orders
  <1>1. /\ d \in 1 .. Projected
        /\ v \in Int
        /\ \A p \in L : coord(points, p, d) \in Int /\ coord(points, p, d) <= v
        /\ \A p \in R : coord(points, p, d) \in Int /\ v <= coord(points, p, d)
    BY MedianDivides
  <1>2. r \in Spans(Len(order))
    BY <1>0, NodesDown
  <1>3. L \subseteq S /\ R \subseteq S
    BY <1>0, <1>2, HalvesHold
  <1>4. t = q[d] - v /\ q[d] \in Int /\ t \in Int
    BY <1>1 DEF diff, IsPoint
  <1>5. diff2(points, order, r, q) = t * t
    BY DEF diff2
  <1>6. /\ t < 0 => within_range(order, far(points, order, r, q)) = R
        /\ ~(t < 0) => within_range(order, far(points, order, r, q)) = L
    BY DEF far
  <1>. HIDE DEF d, v, L, R, t
  <1>7. ASSUME NEW p \in S, coord(points, p, d) \in Int,
               \/ t < 0 /\ v <= coord(points, p, d)
               \/ ~(t < 0) /\ coord(points, p, d) <= v
        PROVE  t * t <= distance(points, q, p)
    <2>. DEFINE u == q[d] - coord(points, p, d)
                w == coord(points, p, d) - q[d]
    <2>1. \/ 0 <= t /\ t <= u
          \/ u <= t /\ t <= 0
      BY <1>1, <1>4, <1>7
    <2>2. u \in Int /\ w \in Int /\ w * w = u * u
      BY <1>4, <1>7
    <2>3. t * t <= w * w
      <3>. HIDE DEF u, w
      <3>1. t * t <= u * u
        BY <1>4, <2>1, <2>2, SquaresGrow
      <3>. QED  BY <2>2, <3>1
    <2>4. w * w = gap2(points[p], q, d)
      BY DEF gap2, coord
    <2>5. Projected \in Nat /\ IsPoint(points[p], Projected)
      BY <1>0, SearchAssumption DEF ArePoints, IsPoint
    <2>6. /\ gap2(points[p], q, d) \in Nat /\ gap2(points[p], q, d) <= dist2(points[p], q, Projected)
          /\ dist2(points[p], q, Projected) \in Nat
      BY <1>1, <2>5, Dist2Grows
    <2>7. t * t \in Int /\ t * t <= gap2(points[p], q, d)
      BY <1>4, <2>3, <2>4
    <2>. QED  BY <2>6, <2>7 DEF distance
  <1>8. t * t \in Int
    BY <1>4
  <1>. QED  BY <1>1, <1>3, <1>5, <1>6, <1>7, <1>8

\* nearest.rs: the points of a tree within a radius are found, and no others,
\* however the medians cut it.
THEOREM WithinIsExact ==
  ASSUME NEW points, NEW order, NEW S, NEW k, IsTree(points, order, S, k),
         NEW q, IsPoint(q, Projected), NEW r2 \in Int
  PROVE  within(points, order, q, r2) = {p \in S : distance(points, q, p) <= r2}
  <1>. DEFINE N == Len(order)
              Sp == Spans(N)
              Close(r) == {p \in within_range(order, r) : distance(points, q, p) <= r2}
              Near(r) == near(points, order, r, q)
              Far(r) == far(points, order, r, q)
              Crosses(r) == diff2(points, order, r, q) <= r2
              Left(r) == diff(points, order, r, q) < 0
              Body(f) == [r \in Sp |-> IF is_leaf(r) THEN Close(r)
                                       ELSE f[Near(r)] \cup IF Crosses(r) THEN f[Far(r)] ELSE {}]
              f == CHOOSE f : f = Body(f)
              leaf == [r \in Sp |-> Close(r)]
              node == [x \in Sp \X (SUBSET S) \X (SUBSET S) |->
                         IF Left(x[1]) THEN x[2] \cup IF Crosses(x[1]) THEN x[3] ELSE {}
                                       ELSE x[3] \cup IF Crosses(x[1]) THEN x[2] ELSE {}]
  <1>0. Orders(order, S) /\ ArePoints(points, S, k) /\ N \in Nat
    BY DEF IsTree, Orders
  <1>1. within(points, order, q, r2) = f[Root(order)]
    BY DEF within, Ranges, Spans
  <1>2. \A r \in Sp : Close(r) \in SUBSET S
    BY <1>0, HalvesHold
  <1>3. /\ \A r : Left(r) => Near(r) = left_half(r) /\ Far(r) = right_half(r)
        /\ \A r : ~Left(r) => Near(r) = right_half(r) /\ Far(r) = left_half(r)
    BY DEF near, far
  <1>. HIDE DEF Close, Near, Far, Crosses, Left
  <1>4. /\ \A r \in Sp : leaf[r] = Close(r)
        /\ \A r \in Sp, a, b \in SUBSET S :
              node[<<r, a, b>>] = IF Left(r) THEN a \cup IF Crosses(r) THEN b ELSE {}
                                            ELSE b \cup IF Crosses(r) THEN a ELSE {}
    OBVIOUS
  <1>. HIDE DEF leaf, node
  <1>5. Grows(N, SUBSET S, leaf, node)
    <2>1. \A r \in Sp : leaf[r] \in SUBSET S
      BY <1>2, <1>4
    <2>2. ASSUME NEW r \in Sp, NEW a \in SUBSET S, NEW b \in SUBSET S
          PROVE  node[<<r, a, b>>] \in SUBSET S
      <3>1. node[<<r, a, b>>] = IF Left(r) THEN a \cup IF Crosses(r) THEN b ELSE {}
                                           ELSE b \cup IF Crosses(r) THEN a ELSE {}
        BY <1>4
      <3>. QED  BY <3>1
    <2>. QED  BY <2>1, <2>2 DEF Grows
  <1>6. PICK g \in [Sp -> SUBSET S] : Branches(g, N, leaf, node)
    BY <1>0, <1>5, RangesUnfold
  <1>7. g = Body(g)
    <2>. SUFFICES ASSUME NEW r \in Sp
                  PROVE  g[r] = IF is_leaf(r) THEN Close(r)
                                ELSE g[Near(r)] \cup IF Crosses(r) THEN g[Far(r)] ELSE {}
      OBVIOUS
    <2>1. CASE is_leaf(r)
      BY <1>4, <1>6, <2>1 DEF Branches
    <2>2. CASE ~is_leaf(r)
      <3>1. left_half(r) \in Sp /\ right_half(r) \in Sp
        BY <1>0, <2>2, HalvesAre
      <3>2. g[r] = node[<<r, g[left_half(r)], g[right_half(r)]>>]
        BY <1>6, <2>2 DEF Branches
      <3>3. g[left_half(r)] \in SUBSET S /\ g[right_half(r)] \in SUBSET S
        BY <3>1
      <3>. DEFINE a == g[left_half(r)]
                  b == g[right_half(r)]
      <3>6. g[r] = IF Left(r) THEN a \cup IF Crosses(r) THEN b ELSE {}
                              ELSE b \cup IF Crosses(r) THEN a ELSE {}
        <4>1. a \in SUBSET S /\ b \in SUBSET S /\ g[r] = node[<<r, a, b>>]
          BY <3>2, <3>3
        <4>. HIDE DEF a, b
        <4>2. node[<<r, a, b>>] = IF Left(r) THEN a \cup IF Crosses(r) THEN b ELSE {}
                                             ELSE b \cup IF Crosses(r) THEN a ELSE {}
          BY <1>4, <4>1
        <4>. QED  BY <4>1, <4>2
      <3>4. CASE Left(r)
        BY <1>3, <2>2, <3>4, <3>6
      <3>5. CASE ~Left(r)
        BY <1>3, <2>2, <3>5, <3>6
      <3>. QED  BY <3>4, <3>5
    <2>. QED  BY <2>1, <2>2
  <1>8. f = Body(f)
    <2>. HIDE DEF Body
    <2>. QED  BY <1>7
  <1>. HIDE DEF f
  <1>9. \A r \in Sp : f[r] = IF is_leaf(r) THEN Close(r)
                             ELSE f[Near(r)] \cup IF Crosses(r) THEN f[Far(r)] ELSE {}
    BY <1>8
  <1>. DEFINE G == {r \in Sp : r \in nodes(order) => f[r] = Close(r)}
  <1>10. \A r \in Sp : is_leaf(r) => r \in G
    BY <1>9
  <1>11. ASSUME NEW r \in Sp, ~is_leaf(r), left_half(r) \in G, right_half(r) \in G PROVE r \in G
    <2>. SUFFICES ASSUME r \in nodes(order) PROVE f[r] = Close(r)
      OBVIOUS
    <2>1. left_half(r) \in nodes(order) /\ right_half(r) \in nodes(order)
      BY <1>0, <1>11, NodesDown
    <2>2. f[left_half(r)] = Close(left_half(r)) /\ f[right_half(r)] = Close(right_half(r))
      BY <1>11, <2>1
    <2>3. Close(r) = Close(left_half(r)) \cup Close(right_half(r))
      BY <1>0, <1>11, HalvesHold DEF Close
    <2>4. f[r] = Close(Near(r)) \cup IF Crosses(r) THEN Close(Far(r)) ELSE {}
      BY <1>3, <1>9, <1>11, <2>2
    <2>5. ~Crosses(r) => Close(Far(r)) = {}
      <3>. SUFFICES ASSUME ~Crosses(r), NEW p \in Close(Far(r)) PROVE FALSE
        OBVIOUS
      <3>1. p \in within_range(order, far(points, order, r, q)) /\ distance(points, q, p) <= r2
        BY DEF Close, Far
      <3>2. diff2(points, order, r, q) \in Int /\ diff2(points, order, r, q) <= distance(points, q, p)
        BY <1>11, <3>1, FarIsFar
      <3>3. p \in S
        <4>1. Far(r) \in Sp
          BY <1>0, <1>3, <1>11, HalvesAre
        <4>. QED  BY <1>2, <4>1
      <3>4. distance(points, q, p) \in Int
        <4>1. Projected \in Nat /\ IsPoint(points[p], Projected)
          BY <1>0, <3>3, SearchAssumption DEF ArePoints, IsPoint
        <4>2. dist2(points[p], q, Projected) \in Nat
          BY <4>1, Dist2Grows
        <4>. QED  BY <4>2 DEF distance
      <3>. QED  BY <3>1, <3>2, <3>4 DEF Crosses
    <2>6. CASE Left(r)
      BY <1>3, <2>3, <2>4, <2>5, <2>6
    <2>7. CASE ~Left(r)
      BY <1>3, <2>3, <2>4, <2>5, <2>7
    <2>. QED  BY <2>6, <2>7
  <1>12. Sp \subseteq G
    <2>. HIDE DEF G
    <2>. QED  BY <1>0, <1>10, <1>11, RangeInduction
  <1>13. Root(order) \in nodes(order) /\ Root(order) \in Sp
    BY <1>0, NodesDown
  <1>14. f[Root(order)] = Close(Root(order))
    BY <1>12, <1>13
  <1>15. within_range(order, Root(order)) = S
    BY <1>0, RootHolds
  <1>. QED  BY <1>1, <1>14, <1>15 DEF Close

\* What a search for a neighbour may hold: a point, or none yet.
Held(S) == S \cup {NoPoint}

\* A part of a sequence, by its places in the whole.
LEMMA PartAt ==
  ASSUME NEW S, NEW s \in Seq(S), NEW m \in Nat, NEW n \in Nat, n <= Len(s), NEW i \in 1 .. (n - m)
  PROVE  SubSeq(s, m + 1, n)[i] = s[m + i]
  <1>1. i \in 1 .. (n - (m + 1) + 1) /\ (m + 1) + i - 1 = m + i
    OBVIOUS
  <1>. QED  BY <1>1

\* nearest.rs: a leaf's loop goes on holding one of the tree's points, or none.
LEMMA LeafHolds ==
  ASSUME NEW points, NEW order, NEW S, Orders(order, S), order \in Seq(S),
         NEW r \in Spans(Len(order)), NEW q, NEW skip, NEW b \in Held(S)
  PROVE  leaf_nearest(points, order, r, q, skip, b) \in Held(S)
  <1>. DEFINE taken(c, p) == IF p # skip /\ (c = NoPoint \/ distance(points, q, p) < distance(points, q, c))
                          THEN p ELSE c
              seq == SubSeq(order, r[1] + 1, r[2])
              k == r[2] - r[1]
              V == Held(S)
              Body(it) == [U \in SUBSET (1 .. k) |->
                             IF U = {} THEN b ELSE taken(it[U \ {Max(U)}], seq[Max(U)])]
              it == CHOOSE it : it = Body(it)
              step == [x \in (1 .. k) \X V |-> taken(x[2], seq[x[1]])]
  <1>0. r[1] \in Nat /\ r[2] \in Nat /\ r[1] <= r[2] /\ r[2] <= Len(order) /\ Len(order) \in Nat
    BY DEF Spans, Orders
  <1>a. DOMAIN seq = 1 .. k /\ k \in Nat
    BY <1>0
  <1>b. \A n \in 1 .. k : seq[n] \in S
    <2>. SUFFICES ASSUME NEW n \in 1 .. k PROVE seq[n] \in S
      OBVIOUS
    <2>1. seq[n] = order[r[1] + n]
      <3>1. r[1] \in Nat /\ r[2] \in Nat /\ r[2] <= Len(order) /\ n \in 1 .. (r[2] - r[1])
        BY <1>0
      <3>. QED  BY <3>1, PartAt
    <2>2. r[1] + n \in 1 .. Len(order)
      BY <1>0
    <2>. QED  BY <2>1, <2>2 DEF Orders
  <1>1. leaf_nearest(points, order, r, q, skip, b) = it[1 .. k]
    BY <1>a DEF leaf_nearest, FoldLeft, MapThenFoldSet
  <1>2. \A n \in 1 .. k, v \in V : step[<<n, v>>] = taken(v, seq[n]) /\ step[<<n, v>>] \in V
    BY <1>b DEF Held
  <1>. HIDE DEF taken, seq, step, V
  <1>4. PICK g \in [SUBSET (1 .. k) -> V] : FoldsTo(g, k, b, step)
    <2>1. Steps(step, k, V, b)
      BY <1>2 DEF Steps, V
    <2>. QED  BY <1>a, <2>1, FoldUnfolds
  <1>5. g = Body(g)
    <2>1. \A U \in SUBSET (1 .. k) : U # {} => Max(U) \in 1 .. k
      BY <1>a, PartOfInterval
    <2>2. ASSUME NEW U \in SUBSET (1 .. k), U # {}
          PROVE  step[<<Max(U), g[U \ {Max(U)}]>>] = taken(g[U \ {Max(U)}], seq[Max(U)])
      <3>1. g[U \ {Max(U)}] \in V
        OBVIOUS
      <3>. QED  BY <1>2, <2>1, <2>2, <3>1
    <2>3. \A U \in SUBSET (1 .. k) :
             g[U] = IF U = {} THEN b ELSE taken(g[U \ {Max(U)}], seq[Max(U)])
      BY <1>4, <2>2 DEF FoldsTo
    <2>. QED  BY <2>3
  <1>6. it = Body(it)
    <2>. HIDE DEF Body
    <2>. QED  BY <1>5
  <1>. HIDE DEF it
  <1>. DEFINE h == [n \in 0 .. k |-> it[1 .. n]]
  <1>7. \A U \in SUBSET (1 .. k) :
           it[U] = IF U = {} THEN b ELSE taken(it[U \ {Max(U)}], seq[Max(U)])
    BY <1>6
  <1>8. h[0] = b
    <2>1. h[0] = it[{}] /\ {} \in SUBSET (1 .. k)
      BY <1>a
    <2>. QED  BY <1>7, <2>1
  <1>9. ASSUME NEW n \in 1 .. k PROVE h[n] = taken(h[n - 1], seq[n])
    <2>1. h[n] = it[1 .. n] /\ h[n - 1] = it[1 .. n - 1]
      BY <1>a
    <2>. DEFINE U == 1 .. n
    <2>3. U \in SUBSET (1 .. k) /\ U # {} /\ Max(U) = n /\ U \ {Max(U)} = 1 .. n - 1
      BY <1>a, FoldPrefixes
    <2>. HIDE DEF h, U
    <2>4. it[U] = taken(it[1 .. n - 1], seq[n])
      BY <1>7, <2>3
    <2>. QED  BY <2>1, <2>4 DEF U
  <1>10. h[k] = it[1 .. k]
    BY <1>a
  <1>. HIDE DEF h
  <1>. DEFINE T == {n \in Nat : n <= k => h[n] \in V}
  <1>11. 0 \in T
    BY <1>8 DEF V
  <1>12. ASSUME NEW n \in Nat, n \in T PROVE n + 1 \in T
    <2>. SUFFICES ASSUME n + 1 <= k PROVE h[n + 1] \in V
      OBVIOUS
    <2>1. n + 1 \in 1 .. k /\ (n + 1) - 1 = n /\ h[n] \in V
      BY <1>a, <1>12
    <2>2. h[n + 1] = taken(h[n], seq[n + 1])
      BY <1>9, <2>1
    <2>. QED  BY <1>2, <2>1, <2>2
  <1>13. k \in T
    <2>. HIDE DEF T
    <2>. QED  BY <1>a, <1>11, <1>12, Induction
  <1>. QED  BY <1>1, <1>10, <1>13 DEF V

\* The search for some neighbour comes by a point of the tree, or by none.
LEMMA NearestHolds ==
  ASSUME NEW points, NEW order, NEW S, Orders(order, S), ToSet(order) = S, order \in Seq(S),
         NEW q, NEW skip
  PROVE  nearest_excluding(points, order, q, skip) \in Held(S)
  <1>. DEFINE N == Len(order)
              Sp == Spans(N)
              H == Held(S)
              V == [H -> H]
              Leaf(r) == [b \in H |-> leaf_nearest(points, order, r, q, skip, b)]
              Near(r) == near(points, order, r, q)
              Far(r) == far(points, order, r, q)
              Left(r) == diff(points, order, r, q) < 0
              crosses(r, c) == \/ c = NoPoint
                               \/ diff2(points, order, r, q) < distance(points, q, c)
              Node(r, a, b) == [h \in H |-> IF crosses(r, a[h]) THEN b[a[h]] ELSE a[h]]
              Body(f) == [r \in Sp |-> IF is_leaf(r) THEN Leaf(r) ELSE Node(r, f[Near(r)], f[Far(r)])]
              f == CHOOSE f : f = Body(f)
              leaf == [r \in Sp |-> Leaf(r)]
              node == [x \in Sp \X V \X V |-> IF Left(x[1]) THEN Node(x[1], x[2], x[3])
                                                            ELSE Node(x[1], x[3], x[2])]
  <1>0. N \in Nat
    BY DEF Orders
  <1>1. nearest_excluding(points, order, q, skip) = f[Root(order)][NoPoint]
    BY DEF nearest_excluding, Ranges, Spans, Held
  <1>2. \A r \in Sp : Leaf(r) \in V
    BY LeafHolds
  <1>3. /\ \A r : Left(r) => Near(r) = left_half(r) /\ Far(r) = right_half(r)
        /\ \A r : ~Left(r) => Near(r) = right_half(r) /\ Far(r) = left_half(r)
    BY DEF near, far
  <1>4. \A r \in Sp, a, b \in V : Node(r, a, b) \in V
    OBVIOUS
  <1>. HIDE DEF Leaf, Near, Far, Left, Node, V, H
  <1>5. /\ \A r \in Sp : leaf[r] = Leaf(r)
        /\ \A r \in Sp, a, b \in V :
              node[<<r, a, b>>] = IF Left(r) THEN Node(r, a, b) ELSE Node(r, b, a)
    OBVIOUS
  <1>. HIDE DEF leaf, node
  <1>6. Grows(N, V, leaf, node)
    BY <1>2, <1>4, <1>5 DEF Grows
  <1>7. PICK g \in [Sp -> V] : Branches(g, N, leaf, node)
    BY <1>0, <1>6, RangesUnfold
  <1>8. g = Body(g)
    <2>. SUFFICES ASSUME NEW r \in Sp
                  PROVE  g[r] = IF is_leaf(r) THEN Leaf(r) ELSE Node(r, g[Near(r)], g[Far(r)])
      OBVIOUS
    <2>1. CASE is_leaf(r)
      BY <1>5, <1>7, <2>1 DEF Branches
    <2>2. CASE ~is_leaf(r)
      <3>1. left_half(r) \in Sp /\ right_half(r) \in Sp
        BY <1>0, <2>2, HalvesAre
      <3>. DEFINE a == g[left_half(r)]
                  b == g[right_half(r)]
      <3>2. a \in V /\ b \in V
        BY <3>1
      <3>3. g[r] = node[<<r, a, b>>]
        BY <1>7, <2>2 DEF Branches
      <3>4. node[<<r, a, b>>] = IF Left(r) THEN Node(r, a, b) ELSE Node(r, b, a)
        <4>. HIDE DEF a, b
        <4>. QED  BY <1>5, <3>2
      <3>5. CASE Left(r)
        <4>1. g[Near(r)] = a /\ g[Far(r)] = b
          BY <1>3, <3>5
        <4>. HIDE DEF a, b
        <4>. QED  BY <2>2, <3>3, <3>4, <3>5, <4>1
      <3>6. CASE ~Left(r)
        <4>1. g[Near(r)] = b /\ g[Far(r)] = a
          BY <1>3, <3>6
        <4>. HIDE DEF a, b
        <4>. QED  BY <2>2, <3>3, <3>4, <3>6, <4>1
      <3>. QED  BY <3>5, <3>6
    <2>. QED  BY <2>1, <2>2
  <1>9. f = Body(f)
    <2>. HIDE DEF Body
    <2>. QED  BY <1>8
  <1>. HIDE DEF f
  <1>10. \A r \in Sp : f[r] = IF is_leaf(r) THEN Leaf(r) ELSE Node(r, f[Near(r)], f[Far(r)])
    BY <1>9
  <1>. DEFINE G == {r \in Sp : f[r] \in V}
  <1>11. \A r \in Sp : is_leaf(r) => r \in G
    BY <1>2, <1>10
  <1>12. ASSUME NEW r \in Sp, ~is_leaf(r), left_half(r) \in G, right_half(r) \in G PROVE r \in G
    <2>1. f[Near(r)] \in V /\ f[Far(r)] \in V
      BY <1>3, <1>12
    <2>2. f[r] = Node(r, f[Near(r)], f[Far(r)])
      BY <1>10, <1>12
    <2>. DEFINE a == f[Near(r)]
                b == f[Far(r)]
    <2>. HIDE DEF a, b
    <2>3. a \in V /\ b \in V /\ f[r] = Node(r, a, b)
      BY <2>1, <2>2 DEF a, b
    <2>. QED  BY <1>4, <2>3
  <1>13. Sp \subseteq G
    <2>. HIDE DEF G
    <2>. QED  BY <1>0, <1>11, <1>12, RangeInduction
  <1>14. Root(order) \in Sp
    BY RootHolds
  <1>15. f[Root(order)] \in [H -> H] /\ NoPoint \in H
    BY <1>13, <1>14 DEF V, H, Held
  <1>. QED  BY <1>1, <1>15 DEF H

\* A distance is the same either way.
LEMMA Dist2Symmetric ==
  ASSUME NEW k \in Nat, NEW p, NEW q, IsPoint(p, k), IsPoint(q, k)
  PROVE  dist2(p, q, k) = dist2(q, p, k)
  <1>. DEFINE d(n) == dist2(p, q, n)
              e(n) == dist2(q, p, n)
              T == {n \in Nat : n <= k => d(n) = e(n)}
  <1>1. \A c \in 1 .. k : gap2(p, q, c) = gap2(q, p, c)
    BY DEF IsPoint, gap2
  <1>2. /\ d(0) = 0 /\ \A n \in 1 .. k : d(n) = d(n - 1) + gap2(p, q, n)
        /\ e(0) = 0 /\ \A n \in 1 .. k : e(n) = e(n - 1) + gap2(q, p, n)
    BY Dist2Steps
  <1>. HIDE DEF d, e
  <1>3. 0 \in T
    BY <1>2
  <1>4. ASSUME NEW n \in Nat, n \in T PROVE n + 1 \in T
    <2>. SUFFICES ASSUME n + 1 <= k PROVE d(n + 1) = e(n + 1)
      OBVIOUS
    <2>1. n + 1 \in 1 .. k /\ (n + 1) - 1 = n /\ d(n) = e(n)
      BY <1>4
    <2>. QED  BY <1>1, <1>2, <2>1
  <1>5. k \in T
    <2>. HIDE DEF T
    <2>. QED  BY <1>3, <1>4, Induction
  <1>. QED  BY <1>5 DEF d, e

\* A similarity is the distance's negation, and bounds that in projection.
LEMMA SimBounds ==
  ASSUME NEW points, NEW S, NEW k, ArePoints(points, S, k), NEW i \in S, NEW p \in S
  PROVE  /\ sim(points, i, p) \in Int
         /\ distance(points, points[i], p) \in Int
         /\ distance(points, points[i], p) <= -sim(points, i, p)
  <1>. DEFINE d == dist2(points[p], points[i], k)
              e == dist2(points[p], points[i], Projected)
  <1>1. /\ IsPoint(points[p], k) /\ IsPoint(points[i], k) /\ k \in Nat
        /\ Len(points[i]) = k /\ Projected \in 0 .. k
    BY SearchAssumption DEF ArePoints
  <1>2. d \in Nat /\ e \in Nat /\ e <= d
    BY <1>1, Dist2Grows
  <1>3. sim(points, i, p) = -d
    BY <1>1, Dist2Symmetric DEF sim
  <1>4. distance(points, points[i], p) = e
    BY DEF distance
  <1>. HIDE DEF d, e
  <1>. QED  BY <1>2, <1>3, <1>4

\* The first of the most similar, which is but one.
Leads(points, i, C, b) ==
    b \in C /\ \A c \in C : /\ sim(points, i, c) <= sim(points, i, b)
                            /\ sim(points, i, c) = sim(points, i, b) => b <= c

\* nearest.rs: best_of returns it, and nothing when there is nobody to compare.
LEMMA BestLeads ==
  ASSUME NEW points, NEW S, NEW k, ArePoints(points, S, k), NEW i \in S,
         NEW C \in SUBSET S
  PROVE  /\ C = {} => best_of(points, i, C) = NoPoint
         /\ C # {} => Leads(points, i, C, best_of(points, i, C))
         /\ \A b : Leads(points, i, C, b) => b = best_of(points, i, C)
  <1>. DEFINE B == {c \in C : \A d \in C : ~(sim(points, i, d) > sim(points, i, c))}
              s(c) == sim(points, i, c)
              key == [c \in C |-> s(c)]
  <1>1. best_of(points, i, C) = IF C = {} THEN NoPoint ELSE Min(B)
    BY DEF best_of
  <1>2. \A c \in C : s(c) \in Int
    BY SimBounds
  <1>3. IsFiniteSet(C) /\ IsFiniteSet(B) /\ B \in SUBSET Int /\ C \in SUBSET Int
    <2>1. IsFiniteSet(S) /\ S \in SUBSET Nat
      BY DEF ArePoints
    <2>2. B \in SUBSET S
      OBVIOUS
    <2>. HIDE DEF B
    <2>3. IsFiniteSet(B)
      BY <2>1, <2>2, FS_Subset
    <2>4. IsFiniteSet(C)
      BY <2>1, FS_Subset
    <2>5. C \subseteq Int /\ B \subseteq Int
      BY <2>1, <2>2
    <2>. QED  BY <2>3, <2>4, <2>5
  <1>. HIDE DEF s
  <1>4. B = {c \in C : \A d \in C : s(d) <= s(c)}
    <2>1. \A c, d \in C : ~(s(d) > s(c)) <=> s(d) <= s(c)
      BY <1>2
    <2>. QED  BY <2>1 DEF s
  <1>5. ASSUME C # {} PROVE B # {}
    <2>1. key \in [C -> Int] /\ \A c \in C : key[c] = s(c)
      BY <1>2
    <2>. HIDE DEF key
    <2>2. PICK m \in C : \A x \in C : key[x] <= key[m]
      BY <1>3, <1>5, <2>1, GreatestKey
    <2>3. \A x \in C : s(x) <= s(m)
      BY <2>1, <2>2
    <2>. QED  BY <1>4, <2>3
  <1>. DEFINE b == Min(B)
  <1>6. ASSUME C # {} PROVE b \in B /\ \A c \in B : b <= c
    <2>1. B # {}
      BY <1>5, <1>6
    <2>. HIDE DEF B
    <2>. QED  BY <1>3, <2>1, MinMax
  <1>. HIDE DEF B, b
  <1>7. ASSUME C # {} PROVE Leads(points, i, C, b)
    <2>1. b \in C /\ \A c \in C : s(c) <= s(b)
      BY <1>4, <1>6, <1>7
    <2>2. \A c \in C : s(c) = s(b) => c \in B
      BY <1>4, <2>1
    <2>. QED  BY <1>6, <1>7, <2>1, <2>2 DEF Leads, s
  <1>8. ASSUME NEW a, Leads(points, i, C, a) PROVE a = b
    <2>1. a \in C /\ \A c \in C : s(c) <= s(a) /\ (s(c) = s(a) => a <= c)
      BY <1>8 DEF Leads, s
    <2>2. b \in C /\ \A c \in C : s(c) <= s(b) /\ (s(c) = s(b) => b <= c)
      BY <1>7, <2>1 DEF Leads, s
    <2>3. s(a) = s(b)
      BY <1>2, <2>1, <2>2
    <2>. QED  BY <1>3, <2>1, <2>2, <2>3
  <1>9. ASSUME C # {} PROVE best_of(points, i, C) = b
    BY <1>1, <1>9 DEF b
  <1>10. ASSUME NEW a, Leads(points, i, C, a) PROVE a = best_of(points, i, C)
    <2>1. C # {}
      BY <1>10 DEF Leads
    <2>. QED  BY <1>8, <1>9, <1>10, <2>1
  <1>. QED  BY <1>1, <1>7, <1>9, <1>10

\* nearest.rs: what the projected search returns is what comparing every pair
\* does.
THEOREM ProjectedIsExact ==
  ASSUME NEW points, NEW S, NEW k, ArePoints(points, S, k), NEW i \in S,
         NEW order \in build(points, S)
  PROVE  projected(points, S, order, i) = brute_one(points, S, i)
  <1>. DEFINE c == nearest_excluding(points, order, points[i], i)
              R == radius2(points, i, c)
              candidates == within(points, order, points[i], R)
              best == best_of(points, i, candidates \ {i})
              Falls == c = NoPoint \/ best = NoPoint \/ sim(points, i, best) < sim(points, i, c)
  <1>1. projected(points, S, order, i) = IF Falls THEN brute_one(points, S, i) ELSE best
    BY DEF projected
  <1>2. brute_one(points, S, i) = best_of(points, i, S \ {i})
    BY DEF brute_one
  <1>3. IsTree(points, order, S, k) /\ ToSet(order) = S /\ order \in [1 .. Len(order) -> S]
    BY BuiltIsTree
  <1>4. Orders(order, S) /\ order \in Seq(S)
    BY <1>3 DEF IsTree, Orders
  <1>5. c \in Held(S)
    BY <1>3, <1>4, NearestHolds
  <1>6. IsPoint(points[i], Projected)
    BY SearchAssumption DEF ArePoints, IsPoint
  <1>7. ASSUME ~Falls PROVE best = best_of(points, i, S \ {i})
    <2>1. c \in S
      BY <1>5, <1>7 DEF Held
    <2>2. R = -sim(points, i, c) /\ sim(points, i, c) \in Int /\ R \in Int
      BY <2>1, SimBounds DEF radius2
    <2>. HIDE DEF R, c
    <2>3. candidates = {p \in S : distance(points, points[i], p) <= R}
      BY <1>3, <1>6, <2>2, WithinIsExact
    <2>. DEFINE C == candidates \ {i}
                A == S \ {i}
    <2>4. C \in SUBSET S /\ A \in SUBSET S /\ C \subseteq A
      BY <2>3
    <2>5. best = best_of(points, i, C) /\ best # NoPoint
      BY <1>7
    <2>6. ~(sim(points, i, best) < sim(points, i, c))
      BY <1>7
    <2>. HIDE DEF C, best, A, candidates
    <2>7. C # {} /\ Leads(points, i, C, best)
      BY <2>4, <2>5, BestLeads
    <2>8. best \in S /\ sim(points, i, best) \in Int /\ sim(points, i, c) <= sim(points, i, best)
      BY <2>2, <2>4, <2>6, <2>7, SimBounds DEF Leads
    <2>9. ASSUME NEW p \in A, sim(points, i, best) <= sim(points, i, p) PROVE p \in C
      <3>1. /\ p \in S /\ p # i /\ sim(points, i, p) \in Int
            /\ distance(points, points[i], p) \in Int
            /\ distance(points, points[i], p) <= -sim(points, i, p)
        BY SimBounds DEF A
      <3>2. distance(points, points[i], p) <= R
        BY <2>2, <2>8, <2>9, <3>1
      <3>. QED  BY <2>3, <3>1, <3>2 DEF C
    <2>10. Leads(points, i, A, best)
      <3>1. best \in A
        BY <2>4, <2>7 DEF Leads
      <3>2. \A p \in A : sim(points, i, p) \in Int
        BY <2>4, SimBounds
      <3>3. ASSUME NEW p \in A
            PROVE  /\ sim(points, i, p) <= sim(points, i, best)
                   /\ sim(points, i, p) = sim(points, i, best) => best <= p
        <4>1. CASE p \in C
          BY <2>7, <4>1 DEF Leads
        <4>2. CASE p \notin C
          <5>1. ~(sim(points, i, best) <= sim(points, i, p))
            BY <2>9, <4>2
          <5>. QED  BY <2>8, <3>2, <5>1
        <4>. QED  BY <4>1, <4>2
      <3>. QED  BY <3>1, <3>3 DEF Leads
    <2>11. best = best_of(points, i, A)
      BY <2>4, <2>10, BestLeads
    <2>. QED  BY <2>11 DEF A
  <1>. QED  BY <1>1, <1>2, <1>7

-----------------------------------------------------------------------------
(* Searches by similarity (read.rs, scan.rs).                              *)

\* h holds k members of W, or all if they are fewer, and the rest of W is no
\* more similar than any of h.
HoldsBest(h, sims, W, k) ==
    /\ h \subseteq W
    /\ Cardinality(h) = IF Cardinality(W) <= k THEN Cardinality(W) ELSE k
    /\ \A e \in h : \A i \in W : i \in h \/ sims[i] <= sims[e]

\* Finitely many locations, with similarities.
AreSims(sims, W) == IsFiniteSet(W) /\ W \subseteq Int /\ \A i \in W : i \in DOMAIN sims /\ sims[i] \in Int

\* read.rs: a heap of the best, offered one more location, holds the best of
\* them all, whichever of its least members is evicted.
LEMMA HeapOffered ==
  ASSUME NEW sims, NEW W, NEW i, AreSims(sims, W), AreSims(sims, W \cup {i}), i \notin W,
         NEW k \in Nat, NEW h, HoldsBest(h, sims, W, k),
         NEW g \in offered(h, sims, k, i)
  PROVE  HoldsBest(g, sims, W \cup {i}, k)
  <1>. DEFINE low == {e \in h : \A f \in h : sims[e] <= sims[f]}
              c == Cardinality(h)
              w == Cardinality(W)
  <1>0. /\ IsFiniteSet(W) /\ W \subseteq Int /\ \A j \in W : sims[j] \in Int
        /\ i \in Int /\ i \in DOMAIN sims /\ sims[i] \in Int
    BY DEF AreSims
  <1>1. /\ h \subseteq W
        /\ c = IF w <= k THEN w ELSE k
        /\ \A e \in h, j \in W : j \in h \/ sims[j] <= sims[e]
    BY DEF HoldsBest
  <1>2. IsFiniteSet(h) /\ c \in Nat /\ w \in Nat /\ c <= w /\ i \notin h
    <2>1. h \in SUBSET W /\ W \in SUBSET W
      BY <1>1
    <2>. QED  BY <1>0, <2>1, Subsets
  <1>3. Cardinality(W \cup {i}) = w + 1
    BY <1>0, FS_AddElement
  <1>4. \/ c < k /\ g = h \cup {i}
        \/ ~(c < k) /\ \E e \in low : sims[i] > sims[e] /\ g = (h \ {e}) \cup {i}
        \/ ~(c < k) /\ (\A e \in low : ~(sims[i] > sims[e])) /\ g = h
    <2>1. offered(h, sims, k, i) =
            IF c < k THEN {h \cup {i}}
            ELSE IF \E e \in low : sims[i] > sims[e] THEN {(h \ {e}) \cup {i} : e \in low}
            ELSE {h}
      BY <1>0 DEF offered
    <2>. HIDE DEF c
    <2>2. \A e, f \in low : sims[e] = sims[f]
      BY <1>0, <1>1
    <2>. HIDE DEF low
    <2>. QED  BY <2>1, <2>2
  <1>. HIDE DEF c, w
  <1>5. CASE c < k /\ g = h \cup {i}
    <2>1. c = w
      BY <1>1, <1>2, <1>5
    <2>2. h = W
      BY <1>0, <1>1, <2>1, FS_Subset DEF c, w
    <2>. QED  BY <1>2, <1>3, <1>5, <2>1, <2>2 DEF HoldsBest
  <1>6. ASSUME ~(c < k), NEW e \in low, sims[i] > sims[e], g = (h \ {e}) \cup {i}
        PROVE  HoldsBest(g, sims, W \cup {i}, k)
    <2>1. c = k /\ Cardinality(g) = k
      <3>1. c = k
        BY <1>1, <1>2, <1>6
      <3>2. e \in h /\ IsFiniteSet(h \ {e}) /\ Cardinality(h \ {e}) = c - 1
        BY <1>2, FS_RemoveElement DEF c
      <3>3. Cardinality((h \ {e}) \cup {i}) = (c - 1) + 1
        BY <1>2, <3>2, FS_AddElement
      <3>. QED  BY <1>2, <1>6, <3>1, <3>3
    <2>2. ASSUME NEW x \in g, NEW y \in W \cup {i}, y \notin g PROVE sims[y] <= sims[x]
      <3>1. e \in h /\ sims[e] \in Int /\ \A f \in h : sims[f] \in Int /\ sims[e] <= sims[f]
        BY <1>0, <1>1
      <3>2. y \in W /\ sims[y] \in Int /\ (y \in h => y = e)
        BY <1>0, <1>6, <2>2
      <3>3. sims[y] <= sims[e]
        BY <1>1, <3>1, <3>2
      <3>4. sims[x] \in Int /\ sims[e] <= sims[x]
        BY <1>0, <1>6, <3>1
      <3>. QED  BY <3>1, <3>2, <3>3, <3>4
    <2>3. g \subseteq W \cup {i}
      BY <1>1, <1>6
    <2>. QED  BY <1>1, <1>2, <1>3, <2>1, <2>2, <2>3 DEF HoldsBest
  <1>7. CASE ~(c < k) /\ (\A e \in low : ~(sims[i] > sims[e])) /\ g = h
    <2>1. c = k
      BY <1>1, <1>2, <1>7
    <2>2. ASSUME NEW x \in h PROVE sims[i] <= sims[x]
      <3>. DEFINE key == [e \in h |-> sims[e]]
      <3>1. key \in [h -> Int] /\ \A e \in h : key[e] = sims[e]
        BY <1>0, <1>1
      <3>. HIDE DEF key
      <3>2. PICK e \in h : \A f \in h : key[e] <= key[f]
        BY <1>2, <3>1, LeastKey
      <3>3. e \in low
        BY <3>1, <3>2
      <3>4. sims[i] <= sims[e] /\ sims[e] <= sims[x]
        <4>1. sims[e] \in Int
          BY <1>0, <1>1
        <4>. QED  BY <1>0, <1>7, <3>3, <4>1
      <3>. QED  BY <1>0, <1>1, <3>4
    <2>. QED  BY <1>1, <1>2, <1>3, <1>7, <2>1, <2>2 DEF HoldsBest, c
  <1>. QED  BY <1>4, <1>5, <1>6, <1>7

\* A heap of members of D is offered indices of D.
OffersOf(first, indices, N, D) ==
    /\ first \in SUBSET D
    /\ N \in Nat /\ DOMAIN indices = 1 .. N
    /\ \A n \in 1 .. N : indices[n] \in D

\* h has what the heaps may be after each of the offers.
HeapsGrow(h, first, sims, indices, k, N) ==
    /\ h[0] = {first}
    /\ \A n \in 1 .. N : h[n] = UNION {offered(x, sims, k, indices[n]) : x \in h[n - 1]}

\* The fold by which the model offers indices to a heap, one by one.
LEMMA HeapsUnfold ==
  ASSUME NEW sims, NEW k, NEW first, NEW indices, NEW N, NEW D, OffersOf(first, indices, N, D)
  PROVE  \E h : /\ HeapsGrow(h, first, sims, indices, k, N)
                /\ heaps(first, sims, indices, k) = h[N]
  <1>. DEFINE taken(hs, i) == UNION {offered(x, sims, k, i) : x \in hs}
              base == {first}
              V == SUBSET (SUBSET D)
              Body(it) == [U \in SUBSET (1 .. N) |->
                             IF U = {} THEN base ELSE taken(it[U \ {Max(U)}], indices[Max(U)])]
              it == CHOOSE it : it = Body(it)
              step == [x \in (1 .. N) \X V |-> taken(x[2], indices[x[1]])]
  <1>. USE DEF OffersOf
  <1>1. heaps(first, sims, indices, k) = it[1 .. N]
    BY DEF heaps, FoldLeft, MapThenFoldSet
  <1>2. ASSUME NEW n \in 1 .. N, NEW v \in V
        PROVE  step[<<n, v>>] = taken(v, indices[n]) /\ step[<<n, v>>] \in V
    <2>1. step[<<n, v>>] = taken(v, indices[n])
      OBVIOUS
    <2>2. ASSUME NEW x \in v, NEW g \in offered(x, sims, k, indices[n]) PROVE g \in SUBSET D
      <3>1. indices[n] \in D /\ x \in SUBSET D
        OBVIOUS
      <3>. QED  BY <3>1 DEF offered
    <2>. QED  BY <2>1, <2>2
  <1>3. base \in V
    OBVIOUS
  <1>. HIDE DEF taken, step, V, base
  <1>4. PICK g \in [SUBSET (1 .. N) -> V] : FoldsTo(g, N, base, step)
    <2>1. Steps(step, N, V, base)
      BY <1>2, <1>3 DEF Steps
    <2>. QED  BY <2>1, FoldUnfolds
  <1>5. g = Body(g)
    <2>1. \A U \in SUBSET (1 .. N) : U # {} => Max(U) \in 1 .. N
      BY PartOfInterval
    <2>2. ASSUME NEW U \in SUBSET (1 .. N), U # {}
          PROVE  step[<<Max(U), g[U \ {Max(U)}]>>] = taken(g[U \ {Max(U)}], indices[Max(U)])
      <3>1. g[U \ {Max(U)}] \in V
        OBVIOUS
      <3>. QED  BY <1>2, <2>1, <2>2, <3>1
    <2>3. \A U \in SUBSET (1 .. N) :
             g[U] = IF U = {} THEN base ELSE taken(g[U \ {Max(U)}], indices[Max(U)])
      BY <1>4, <2>2 DEF FoldsTo
    <2>. QED  BY <2>3
  <1>6. it = Body(it)
    <2>. HIDE DEF Body
    <2>. QED  BY <1>5
  <1>. HIDE DEF it
  <1>. DEFINE h == [n \in 0 .. N |-> it[1 .. n]]
  <1>7. \A U \in SUBSET (1 .. N) :
           it[U] = IF U = {} THEN base ELSE taken(it[U \ {Max(U)}], indices[Max(U)])
    BY <1>6
  <1>8. h[0] = base
    <2>1. h[0] = it[{}] /\ {} \in SUBSET (1 .. N)
      OBVIOUS
    <2>. QED  BY <1>7, <2>1
  <1>9. ASSUME NEW n \in 1 .. N PROVE h[n] = taken(h[n - 1], indices[n])
    <2>1. h[n] = it[1 .. n] /\ h[n - 1] = it[1 .. n - 1]
      OBVIOUS
    <2>. DEFINE U == 1 .. n
    <2>3. U \in SUBSET (1 .. N) /\ U # {} /\ Max(U) = n /\ U \ {Max(U)} = 1 .. n - 1
      BY FoldPrefixes
    <2>. HIDE DEF h, U
    <2>4. it[U] = taken(it[1 .. n - 1], indices[n])
      BY <1>7, <2>3
    <2>. QED  BY <2>1, <2>4 DEF U
  <1>10. h[N] = it[1 .. N]
    OBVIOUS
  <1>. HIDE DEF h
  <1>. QED  BY <1>1, <1>8, <1>9, <1>10 DEF taken, base, HeapsGrow

\* What a heap holds after different new locations were offered.
LEMMA HeapsHoldBest ==
  ASSUME NEW sims, NEW k \in Nat, NEW W, AreSims(sims, W),
         NEW first, HoldsBest(first, sims, W, k),
         NEW indices, NEW N \in Nat, DOMAIN indices = 1 .. N,
         NEW allowed, AreSims(sims, allowed),
         \A n \in 1 .. N : /\ indices[n] \notin W
                           /\ indices[n] \in allowed <=> indices[n] \in DOMAIN sims
                           /\ \A m \in 1 .. N : m # n => indices[m] # indices[n],
         \A i \in allowed : \E n \in 1 .. N : indices[n] = i,
         NEW g \in heaps(first, sims, indices, k)
  PROVE  HoldsBest(g, sims, W \cup allowed, k)
  <1>. DEFINE D == W \cup {indices[n] : n \in 1 .. N}
              Seen(n) == W \cup {i \in allowed : \E m \in 1 .. n : indices[m] = i}
  <1>1. OffersOf(first, indices, N, D)
    BY DEF HoldsBest, OffersOf
  <1>a. PICK h : HeapsGrow(h, first, sims, indices, k, N) /\ heaps(first, sims, indices, k) = h[N]
    <2>. HIDE DEF D
    <2>. QED  BY <1>1, HeapsUnfold
  <1>2. /\ h[0] = {first}
        /\ \A n \in 1 .. N : h[n] = UNION {offered(x, sims, k, indices[n]) : x \in h[n - 1]}
        /\ g \in h[N]
    BY <1>a DEF HeapsGrow
  <1>. DEFINE T == {n \in Nat : n <= N => \A x \in h[n] : HoldsBest(x, sims, Seen(n), k)}
  <1>3. 0 \in T
    <2>1. Seen(0) = W
      OBVIOUS
    <2>. QED  BY <1>2, <2>1
  <1>4. ASSUME NEW n \in Nat, n \in T PROVE n + 1 \in T
    <2>. SUFFICES ASSUME n + 1 <= N, NEW x \in h[n + 1] PROVE HoldsBest(x, sims, Seen(n + 1), k)
      OBVIOUS
    <2>. DEFINE i == indices[n + 1]
    <2>1. n + 1 \in 1 .. N /\ (n + 1) - 1 = n
      OBVIOUS
    <2>2. PICK y \in h[n] : x \in offered(y, sims, k, i)
      BY <1>2, <2>1
    <2>3. HoldsBest(y, sims, Seen(n), k)
      BY <1>4
    <2>4. \A m \in 1 .. n + 1 : m \in 1 .. n \/ m = n + 1
      OBVIOUS
    <2>5. i \notin W /\ (i \in allowed <=> i \in DOMAIN sims) /\ \A m \in 1 .. n : indices[m] # i
      BY <2>1
    <2>6. AreSims(sims, Seen(n))
      <3>1. Seen(n) \in SUBSET (W \cup allowed)
        OBVIOUS
      <3>2. IsFiniteSet(W \cup allowed)
        BY FS_Union DEF AreSims
      <3>. HIDE DEF Seen
      <3>3. IsFiniteSet(Seen(n))
        BY <3>1, <3>2, FS_Subset
      <3>. QED  BY <3>1, <3>3 DEF AreSims
    <2>7. CASE i \in allowed
      <3>1. Seen(n + 1) = Seen(n) \cup {i} /\ i \notin Seen(n)
        <4>1. \A j : (\E m \in 1 .. n + 1 : indices[m] = j) <=> (\E m \in 1 .. n : indices[m] = j) \/ j = i
          BY <2>1, <2>4
        <4>. HIDE DEF i
        <4>2. i \notin Seen(n)
          BY <2>5
        <4>3. \A j : j \in Seen(n + 1) <=> j \in Seen(n) \/ j = i
          BY <2>7, <4>1
        <4>. HIDE DEF Seen
        <4>. QED  BY <4>2, <4>3
      <3>2. AreSims(sims, Seen(n) \cup {i})
        <4>1. i \in Int /\ i \in DOMAIN sims /\ sims[i] \in Int
          BY <2>7 DEF AreSims
        <4>. HIDE DEF i, Seen
        <4>2. IsFiniteSet(Seen(n) \cup {i})
          BY <2>6, FS_AddElement DEF AreSims
        <4>. QED  BY <2>6, <4>1, <4>2 DEF AreSims
      <3>. HIDE DEF i, Seen
      <3>. QED  BY <2>2, <2>3, <2>6, <3>1, <3>2, HeapOffered
    <2>8. CASE i \notin allowed
      <3>1. Seen(n + 1) = Seen(n)
        <4>1. \A j : (\E m \in 1 .. n + 1 : indices[m] = j) <=> (\E m \in 1 .. n : indices[m] = j) \/ j = i
          BY <2>1, <2>4
        <4>. HIDE DEF i
        <4>2. \A j : j \in Seen(n + 1) <=> j \in Seen(n)
          BY <2>8, <4>1
        <4>. HIDE DEF Seen
        <4>. QED  BY <4>2
      <3>2. x = y
        BY <2>2, <2>5, <2>8 DEF offered
      <3>. QED  BY <2>3, <3>1, <3>2
    <2>. QED  BY <2>7, <2>8
  <1>5. N \in T
    <2>. HIDE DEF T
    <2>. QED  BY <1>3, <1>4, Induction
  <1>6. Seen(N) = W \cup allowed
    OBVIOUS
  <1>7. \A x \in h[N] : HoldsBest(x, sims, Seen(N), k)
    <2>. HIDE DEF Seen
    <2>. QED  BY <1>5
  <1>. HIDE DEF Seen
  <1>8. HoldsBest(g, sims, Seen(N), k)
    BY <1>2, <1>7
  <1>. QED  BY <1>6, <1>8

\* A heap drained holds its members best first.
SortedDown(r, sims, S) ==
    /\ ToSet(r) = S /\ IsInjective(r) /\ Len(r) = Cardinality(S)
    /\ DOMAIN r = 1 .. Len(r)
    /\ \A m, n \in DOMAIN r : m < n => sims[r[m]] >= sims[r[n]]

\* read.rs: the heap is sorted as it is drained.
LEMMA DrainedSorts ==
  ASSUME NEW sims, NEW heap, IsFiniteSet(heap), NEW r \in drained(heap, sims)
  PROVE  SortedDown(r, sims, heap)
  <1>1. r \in SetToSeqs(heap) /\ \A m, n \in DOMAIN r : m < n => sims[r[m]] >= sims[r[n]]
    BY DEF drained
  <1>2. /\ Len(r) = Cardinality(heap)
        /\ r \in [1 .. Len(r) -> heap]
        /\ \A m, n \in 1 .. Len(r) : m # n => r[m] # r[n]
        /\ ToSet(r) = heap
    BY <1>1, SeqsOf
  <1>. QED  BY <1>1, <1>2 DEF SortedDown, IsInjective

\* read.rs: the k most similar of the indices.
THEOREM TopIsBest ==
  ASSUME NEW sims, NEW k \in Nat,
         NEW indices, NEW N \in Nat, DOMAIN indices = 1 .. N,
         NEW allowed, AreSims(sims, allowed),
         \A n \in 1 .. N : /\ indices[n] \in allowed <=> indices[n] \in DOMAIN sims
                           /\ \A m \in 1 .. N : m # n => indices[m] # indices[n],
         \A i \in allowed : \E n \in 1 .. N : indices[n] = i,
         NEW r \in top_k(sims, indices, k)
  PROVE  \E h : HoldsBest(h, sims, allowed, k) /\ SortedDown(r, sims, h)
  <1>1. PICK h \in heaps({}, sims, indices, k) : r \in drained(h, sims)
    BY DEF top_k
  <1>2. AreSims(sims, {}) /\ HoldsBest({}, sims, {}, k)
    BY FS_EmptySet DEF AreSims, HoldsBest
  <1>3. HoldsBest(h, sims, {} \cup allowed, k)
    BY <1>1, <1>2, HeapsHoldBest
  <1>4. {} \cup allowed = allowed
    OBVIOUS
  <1>5. HoldsBest(h, sims, allowed, k)
    BY <1>3, <1>4
  <1>6. IsFiniteSet(h)
    <2>1. h \in SUBSET allowed /\ IsFiniteSet(allowed)
      BY <1>5 DEF HoldsBest, AreSims
    <2>. QED  BY <2>1, FS_Subset
  <1>. QED  BY <1>1, <1>5, <1>6, DrainedSorts

\* s has the members of S by descending key, equal ones by index.
Precedes(key, i, j) == key[i] > key[j] \/ (key[i] = key[j] /\ i < j)

\* s is S sorted so.
Ranks(s, key, S) ==
    /\ s \in SetToSeqs(S)
    /\ \A m, n \in DOMAIN s : m < n => Precedes(key, s[m], s[n])

\* R puts the members of S in an order.
Ordering(R, S) ==
    /\ \A x, y \in S : x # y => <<x, y>> \in R \/ <<y, x>> \in R
    /\ \A x, y, z \in S : <<x, y>> \in R /\ <<y, z>> \in R => <<x, z>> \in R

\* s is S in that order.
Sorts(s, R, S) ==
    /\ s \in SetToSeqs(S)
    /\ \A m, n \in DOMAIN s : m < n => <<s[m], s[n]>> \in R

\* One of finitely many comes last.
LEMMA LastExists ==
  ASSUME NEW S, IsFiniteSet(S), S # {}, NEW R, Ordering(R, S)
  PROVE  \E x \in S : \A y \in S : y # x => <<y, x>> \in R
  <1>. DEFINE HasLast(U) == \E x \in U : \A y \in U : y # x => <<y, x>> \in R
              G == {U \in SUBSET S : U = {} \/ HasLast(U)}
  <1>1. {} \in G
    OBVIOUS
  <1>2. ASSUME NEW U \in SUBSET S, U # {} PROVE \E x \in U : (U \ {x} \in G => U \in G)
    <2>1. PICK x \in U : TRUE
      BY <1>2
    <2>. SUFFICES ASSUME U \ {x} \in G PROVE HasLast(U)
      BY <2>1
    <2>2. CASE U \ {x} = {}
      BY <2>1, <2>2
    <2>3. CASE U \ {x} # {}
      <3>1. PICK z \in U \ {x} : \A y \in U \ {x} : y # z => <<y, z>> \in R
        BY <2>3
      <3>2. CASE <<x, z>> \in R
        BY <2>1, <3>1, <3>2
      <3>3. CASE <<z, x>> \in R
        <4>1. \A y \in U : y # x => <<y, x>> \in R
          BY <2>1, <3>1, <3>3 DEF Ordering
        <4>. QED  BY <2>1, <4>1
      <3>. QED  BY <2>1, <3>1, <3>2, <3>3 DEF Ordering
    <2>. QED  BY <2>2, <2>3
  <1>. HIDE DEF G
  <1>3. S \in G
    BY <1>1, <1>2, SetInduction
  <1>. QED  BY <1>3 DEF G

\* So there is a sequence of all of them in order.
LEMMA SortedExists ==
  ASSUME NEW S, IsFiniteSet(S), NEW R, Ordering(R, S)
  PROVE  \E s : Sorts(s, R, S)
  <1>. DEFINE G == {U \in SUBSET S : \E s : Sorts(s, R, U)}
  <1>1. {} \in G
    <2>. DEFINE s == [n \in 1 .. 0 |-> 0]
    <2>1. Cardinality({}) = 0
      BY FS_EmptySet
    <2>2. Sorts(s, R, {})
      BY <2>1 DEF Sorts, SetToSeqs
    <2>. QED  BY <2>2
  <1>2. ASSUME NEW U \in SUBSET S, U # {} PROVE \E x \in U : (U \ {x} \in G => U \in G)
    <2>1. IsFiniteSet(U) /\ Ordering(R, U)
      BY FS_Subset DEF Ordering
    <2>2. PICK x \in U : \A y \in U : y # x => <<y, x>> \in R
      BY <1>2, <2>1, LastExists
    <2>3. ASSUME NEW s, Sorts(s, R, U \ {x}) PROVE \E t : Sorts(t, R, U)
      <3>. DEFINE V == U \ {x}
                  c == Cardinality(U)
                  t == [n \in 1 .. c |-> IF n = c THEN x ELSE s[n]]
      <3>1. IsFiniteSet(V) /\ Cardinality(V) = c - 1 /\ c \in Nat
        BY <2>1, FS_RemoveElement, FS_CardinalityType
      <3>2. Cardinality(V) \in Nat
        BY <3>1, FS_CardinalityType
      <3>3. /\ Len(s) = c - 1
            /\ s \in [1 .. Len(s) -> V]
            /\ \A m, n \in 1 .. Len(s) : m # n => s[m] # s[n]
            /\ \A m, n \in 1 .. Len(s) : m < n => <<s[m], s[n]>> \in R
        <4>1. s \in SetToSeqs(V) /\ \A m, n \in DOMAIN s : m < n => <<s[m], s[n]>> \in R
          BY <2>3 DEF Sorts
        <4>. HIDE DEF V
        <4>. QED  BY <3>1, <4>1, SeqsOf
      <3>4. \A n \in 1 .. c : n = c \/ n \in 1 .. Len(s)
        BY <3>1, <3>3
      <3>5. \A n \in 1 .. Len(s) : s[n] \in U /\ s[n] # x
        BY <3>3
      <3>. HIDE DEF c, V
      <3>6. t \in [1 .. c -> U]
        BY <3>4, <3>5
      <3>7. \A m, n \in 1 .. c : m # n => t[m] # t[n]
        BY <3>3, <3>4, <3>5
      <3>8. ASSUME NEW m \in 1 .. c, NEW n \in 1 .. c, m < n PROVE <<t[m], t[n]>> \in R
        <4>1. m # c /\ m \in 1 .. Len(s)
          BY <3>1, <3>4, <3>8
        <4>2. CASE n = c
          BY <2>2, <3>5, <4>1, <4>2
        <4>3. CASE n # c
          BY <3>3, <3>4, <3>8, <4>1, <4>3
        <4>. QED  BY <4>2, <4>3
      <3>9. t \in SetToSeqs(U)
        BY <3>6, <3>7 DEF SetToSeqs, c
      <3>10. DOMAIN t = 1 .. c
        OBVIOUS
      <3>. HIDE DEF t
      <3>. QED  BY <3>8, <3>9, <3>10 DEF Sorts
    <2>. QED  BY <2>3
  <1>3. S \in G
    <2>. HIDE DEF G
    <2>. QED  BY <1>1, <1>2, SetInduction
  <1>. QED  BY <1>3

\* The order by descending key, which ranked chooses.
LEMMA RankingExists ==
  ASSUME NEW S, IsFiniteSet(S), S \subseteq Int, NEW key, \A i \in S : key[i] \in Int
  PROVE  \E s : Ranks(s, key, S)
  <1>. DEFINE R == {p \in S \X S : Precedes(key, p[1], p[2])}
  <1>1. \A x, y \in S : <<x, y>> \in R <=> Precedes(key, x, y)
    OBVIOUS
  <1>2. \A x, y \in S : x # y => Precedes(key, x, y) \/ Precedes(key, y, x)
    BY DEF Precedes
  <1>3. \A x, y, z \in S : Precedes(key, x, y) /\ Precedes(key, y, z) => Precedes(key, x, z)
    BY DEF Precedes
  <1>. HIDE DEF R
  <1>4. Ordering(R, S)
    BY <1>1, <1>2, <1>3 DEF Ordering
  <1>5. PICK s : Sorts(s, R, S)
    BY <1>4, SortedExists
  <1>6. \A m \in DOMAIN s : s[m] \in S
    BY <1>5 DEF Sorts, SetToSeqs
  <1>7. Ranks(s, key, S)
    BY <1>1, <1>5, <1>6 DEF Sorts, Ranks
  <1>. QED  BY <1>7

\* Some sequence has a set's members, each once, and SetToSeq is such a one.
LEMMA SetToSeqIs ==
  ASSUME NEW S, IsFiniteSet(S)
  PROVE  SetToSeq(S) \in SetToSeqs(S)
  <1>. DEFINE D == 1 .. Cardinality(S)
  <1>1. \E f \in [D -> S] : IsInjective(f)
    <2>1. PICK n \in Nat : ExistsBijection(1 .. n, S)
      BY FS_NatBijection
    <2>2. n = Cardinality(S)
      BY <2>1, FS_CountingElements
    <2>. HIDE DEF D
    <2>3. PICK f : f \in Bijection(D, S)
      BY <2>1, <2>2 DEF ExistsBijection, D
    <2>. QED  BY <2>3 DEF Bijection, Injection
  <1>2. SetToSeq(S) = CHOOSE f \in [D -> S] : IsInjective(f)
    BY DEF SetToSeq
  <1>. HIDE DEF D
  <1>3. SetToSeq(S) \in [D -> S] /\ IsInjective(SetToSeq(S))
    BY <1>1, <1>2
  <1>. QED  BY <1>3 DEF SetToSeqs, IsInjective, D

\* k scores are at least the k-th best.
LEMMA KthBest ==
  ASSUME NEW scores, NEW C, DOMAIN scores = C, IsFiniteSet(C), \A i \in C : scores[i] \in Int,
         NEW k \in Nat, 0 < k, k <= Cardinality(C)
  PROVE  /\ kth_best(scores, k) \in Int
         /\ k <= Cardinality({i \in C : scores[i] >= kth_best(scores, k)})
  <1>. DEFINE atLeast(x) == {i \in C : scores[i] >= x}
              greater(x) == {i \in C : scores[i] > x}
              X == {scores[i] : i \in C}
              I == {i \in C : Cardinality(greater(scores[i])) < k}
              f == [i \in C |-> scores[i]]
  <1>1. kth_best(scores, k) = CHOOSE x \in X : Cardinality(greater(x)) < k /\ k <= Cardinality(atLeast(x))
    BY DEF kth_best
  <1>2. \A x : /\ IsFiniteSet(atLeast(x)) /\ Cardinality(atLeast(x)) \in Nat
               /\ Cardinality(greater(x)) \in Nat
    <2>. SUFFICES ASSUME NEW x
                  PROVE  /\ IsFiniteSet(atLeast(x)) /\ Cardinality(atLeast(x)) \in Nat
                         /\ Cardinality(greater(x)) \in Nat
      OBVIOUS
    <2>1. atLeast(x) \in SUBSET C /\ greater(x) \in SUBSET C
      OBVIOUS
    <2>. HIDE DEF atLeast, greater
    <2>. QED  BY <2>1, FS_Subset, FS_CardinalityType
  <1>3. f \in [C -> Int] /\ \A i \in C : f[i] = scores[i]
    OBVIOUS
  <1>4. C # {}
    BY FS_EmptySet
  <1>. HIDE DEF f
  <1>5. I # {}
    <2>1. PICK m \in C : \A j \in C : f[j] <= f[m]
      BY <1>3, <1>4, GreatestKey
    <2>2. greater(scores[m]) = {}
      BY <1>3, <2>1
    <2>3. Cardinality(greater(scores[m])) = 0
      BY <2>2, FS_EmptySet
    <2>. HIDE DEF greater
    <2>. QED  BY <2>3
  <1>6. PICK i \in I : \A j \in I : scores[i] <= scores[j]
    <2>. DEFINE g == [j \in I |-> scores[j]]
    <2>1. g \in [I -> Int] /\ \A j \in I : g[j] = scores[j]
      OBVIOUS
    <2>2. IsFiniteSet(I)
      <3>1. I \in SUBSET C
        OBVIOUS
      <3>. HIDE DEF I
      <3>. QED  BY <3>1, FS_Subset
    <2>. HIDE DEF g, I
    <2>3. \E i \in I : \A j \in I : g[i] <= g[j]
      BY <1>5, <2>1, <2>2, LeastKey
    <2>. QED  BY <2>1, <2>3
  <1>7. i \in C /\ Cardinality(greater(scores[i])) < k
    OBVIOUS
  <1>8. k <= Cardinality(atLeast(scores[i]))
    <2>. SUFFICES ASSUME ~(k <= Cardinality(atLeast(scores[i]))) PROVE FALSE
      OBVIOUS
    <2>. DEFINE A == atLeast(scores[i])
                J == C \ A
    <2>0. Cardinality(A) \in Nat /\ Cardinality(C) \in Nat /\ Cardinality(A) < k
      <3>1. Cardinality(A) \in Nat
        <4>. HIDE DEF atLeast, greater
        <4>. QED  BY <1>2
      <3>2. Cardinality(C) \in Nat
        BY FS_CardinalityType
      <3>. HIDE DEF A
      <3>. QED  BY <3>1, <3>2 DEF A
    <2>1. J # {}
      <3>1. A \in SUBSET C
        OBVIOUS
      <3>. HIDE DEF A
      <3>2. J = {} => A = C
        BY <3>1
      <3>. QED  BY <2>0, <3>2
    <2>2. \A j \in J : scores[j] \in Int /\ scores[j] < scores[i]
      BY <1>7
    <2>. DEFINE g == [j \in J |-> scores[j]]
    <2>3. g \in [J -> Int] /\ \A j \in J : g[j] = scores[j]
      OBVIOUS
    <2>4. IsFiniteSet(J)
      <3>1. J \in SUBSET C
        OBVIOUS
      <3>. HIDE DEF J
      <3>. QED  BY <3>1, FS_Subset
    <2>5. PICK j \in J : \A l \in J : scores[l] <= scores[j]
      <3>. HIDE DEF g, J
      <3>1. \E j \in J : \A l \in J : g[l] <= g[j]
        BY <2>1, <2>3, <2>4, GreatestKey
      <3>. QED  BY <2>3, <3>1
    <2>6. greater(scores[j]) = A
      BY <1>7, <2>2, <2>5
    <2>7. Cardinality(greater(scores[j])) < k
      <3>. HIDE DEF A, greater
      <3>. QED  BY <2>0, <2>6
    <2>8. j \in I
      <3>. HIDE DEF A, greater
      <3>. QED  BY <2>7
    <2>. QED  BY <1>6, <1>7, <2>2, <2>8
  <1>9. scores[i] \in X
    OBVIOUS
  <1>. HIDE DEF atLeast, greater, X
  <1>10. /\ kth_best(scores, k) \in X
         /\ k <= Cardinality(atLeast(kth_best(scores, k)))
    BY <1>1, <1>7, <1>8, <1>9
  <1>. QED  BY <1>10 DEF X, atLeast

\* r is the k first of S by descending similarity, equal ones by index.
IsFirstOf(r, sims, S, k) ==
    /\ DOMAIN r = 1 .. k /\ Len(r) = k
    /\ \A m \in 1 .. k : r[m] \in S
    /\ \A m, n \in 1 .. k : m < n => Precedes(sims, r[m], r[n])
    /\ \A i \in S, m \in 1 .. k : (\A n \in 1 .. k : r[n] # i) => Precedes(sims, r[m], i)

\* scan.rs: a scan in single precision, whose scores are off by at most err,
\* finds the same as an exact one.
THEOREM ScanIsExact ==
  ASSUME NEW n \in Nat, NEW k \in Nat, 0 < k, k <= n, NEW err \in Nat,
         NEW sims, NEW approx, DOMAIN approx = 0 .. n - 1,
         \A i \in 0 .. n - 1 : /\ sims[i] \in Int /\ approx[i] \in Int
                               /\ sims[i] <= approx[i] + err /\ approx[i] <= sims[i] + err,
         NEW r \in nearest(sims, approx, n, k, err, TRUE)
  PROVE  IsFirstOf(r, sims, 0 .. n - 1, k)
  <1>. DEFINE S == 0 .. n - 1
              x == kth_best(approx, k)
              A == {i \in S : approx[i] >= x}
              C == {i \in S : approx[i] >= floor(approx, k, err)}
              s == ranked(C, LAMBDA i, j : Precedes(sims, i, j))
  <1>1. IsFiniteSet(S) /\ Cardinality(S) = n
    BY FS_Interval
  <1>2. x \in Int /\ k <= Cardinality(A)
    <2>. HIDE DEF S
    <2>1. DOMAIN approx = S /\ \A i \in S : approx[i] \in Int
      BY DEF S
    <2>. QED  BY <1>1, <2>1, KthBest
  <1>3. floor(approx, k, err) = x - 2 * err
    BY DEF floor
  <1>4. r = SubSeq(s, 1, k)
    BY DEF nearest, ranked, Precedes
  <1>. HIDE DEF x
  <1>5. A \subseteq C /\ C \subseteq S
    BY <1>2, <1>3
  <1>6. IsFiniteSet(C) /\ IsFiniteSet(A) /\ C \subseteq Int /\ \A i \in C : sims[i] \in Int
    <2>1. C \subseteq Int /\ \A i \in C : sims[i] \in Int
      BY <1>5
    <2>. HIDE DEF A, C, S
    <2>2. IsFiniteSet(C)
      BY <1>1, <1>5, FS_Subset
    <2>3. IsFiniteSet(A)
      BY <1>5, <2>2, FS_Subset
    <2>. QED  BY <2>1, <2>2, <2>3
  <1>7. \E t : Ranks(t, sims, C)
    <2>. HIDE DEF C
    <2>. QED  BY <1>6, RankingExists
  <1>8. s \in SetToSeqs(C) /\ \A l, m \in DOMAIN s : l < m => Precedes(sims, s[l], s[m])
    <2>. HIDE DEF C
    <2>. QED  BY <1>7 DEF ranked, Ranks
  <1>. DEFINE c == Len(s)
  <1>9. /\ c \in Nat /\ c = Cardinality(C)
        /\ s \in [1 .. c -> C]
        /\ \A l, m \in 1 .. c : l # m => s[l] # s[m]
        /\ \A i \in C : \E l \in 1 .. c : s[l] = i
    <2>. HIDE DEF C, s
    <2>. QED  BY <1>6, <1>8, SeqsOf
  <1>10. k <= c
    <2>1. Cardinality(A) <= Cardinality(C) /\ Cardinality(A) \in Nat
      <3>. HIDE DEF A, C
      <3>. QED  BY <1>5, <1>6, FS_Subset, FS_CardinalityType
    <2>. HIDE DEF A, C, s
    <2>. QED  BY <1>2, <1>9, <2>1
  <1>. HIDE DEF C, s, A
  <1>11. /\ DOMAIN r = 1 .. k /\ Len(r) = k
         /\ \A m \in 1 .. k : r[m] = s[m] /\ m \in 1 .. c
    <2>1. s \in Seq(C)
      <3>1. c \in Nat /\ s \in [1 .. c -> C]
        BY <1>9
      <3>. HIDE DEF c
      <3>. QED  BY <3>1
    <2>2. k <= Len(s) /\ 1 <= k + 1
      BY <1>10
    <2>3. /\ Len(SubSeq(s, 1, k)) = k /\ DOMAIN SubSeq(s, 1, k) = 1 .. k
          /\ \A m \in 1 .. k : SubSeq(s, 1, k)[m] = s[m]
      BY <2>1, <2>2
    <2>4. \A m \in 1 .. k : m \in 1 .. c
      BY <1>9, <1>10
    <2>. HIDE DEF c
    <2>. QED  BY <1>4, <2>3, <2>4
  <1>. HIDE DEF c
  <1>12. \A m \in 1 .. k : r[m] \in S /\ r[m] \in C
    BY <1>5, <1>9, <1>11
  <1>13. \A l, m \in 1 .. c : l < m => Precedes(sims, s[l], s[m])
    BY <1>8, <1>9
  <1>14. \A l, m \in 1 .. k : l < m => Precedes(sims, r[l], r[m])
    BY <1>9, <1>10, <1>11, <1>13
  <1>15. ASSUME NEW i \in S, NEW m \in 1 .. k, \A l \in 1 .. k : r[l] # i
         PROVE  Precedes(sims, r[m], i)
    <2>1. CASE i \in C
      <3>1. PICK l \in 1 .. c : s[l] = i
        BY <1>9, <2>1
      <3>2. m < l /\ m \in 1 .. c
        <4>1. l \notin 1 .. k
          BY <1>11, <1>15, <3>1
        <4>2. m \in 1 .. c
          BY <1>11
        <4>. QED  BY <1>9, <4>1, <4>2
      <3>. QED  BY <1>11, <1>13, <3>1, <3>2
    <2>2. CASE i \notin C
      <3>1. \A a \in A : sims[a] \in Int /\ sims[i] < sims[a]
        <4>. SUFFICES ASSUME NEW a \in A PROVE sims[a] \in Int /\ sims[i] < sims[a]
          OBVIOUS
        <4>1. /\ a \in S /\ approx[a] >= x
              /\ ~(approx[i] >= x - 2 * err)
          BY <1>3, <2>2 DEF A, C
        <4>2. /\ sims[i] \in Int /\ approx[i] \in Int /\ sims[i] <= approx[i] + err
              /\ sims[a] \in Int /\ approx[a] \in Int /\ approx[a] <= sims[a] + err
          BY <4>1
        <4>. QED  BY <1>2, <4>1, <4>2
      <3>2. PICK a \in A : \/ r[m] = a \/ Precedes(sims, r[m], a)
        <4>1. CASE r[m] \in A
          BY <4>1
        <4>2. CASE r[m] \notin A
          <5>. DEFINE F == {r[l] : l \in 1 .. k}
                      M == 1 .. k
          <5>1. \E a \in A : \A l \in 1 .. k : r[l] # a
            <6>. SUFFICES ASSUME \A a \in A : \E l \in 1 .. k : r[l] = a PROVE FALSE
              OBVIOUS
            <6>1. IsFiniteSet(M) /\ Cardinality(M) = k
              BY FS_Interval
            <6>. DEFINE B == M \ {m}
                        g == [a \in A |-> CHOOSE l \in B : r[l] = a]
            <6>2. IsFiniteSet(B) /\ Cardinality(B) = k - 1
              <7>. HIDE DEF M
              <7>1. m \in M
                BY DEF M
              <7>. QED  BY <6>1, <7>1, FS_RemoveElement
            <6>3. \A a \in A : \E l \in B : r[l] = a
              BY <4>2
            <6>4. g \in [A -> B] /\ \A a \in A : r[g[a]] = a
              <7>. HIDE DEF B
              <7>. QED  BY <6>3
            <6>5. Cardinality(B) < Cardinality(A)
              <7>1. Cardinality(A) \in Nat
                BY <1>6, FS_CardinalityType
              <7>. QED  BY <1>2, <6>2, <7>1
            <6>. HIDE DEF B, g
            <6>6. \E a, b \in A : a # b /\ g[a] = g[b]
              <7>1. IsFiniteSet(A) /\ IsFiniteSet(B) /\ Cardinality(B) < Cardinality(A) /\ g \in [A -> B]
                BY <1>6, <6>2, <6>4, <6>5
              <7>. QED  BY <7>1, FS_PigeonHole
            <6>. QED  BY <6>4, <6>6
          <5>2. PICK a \in A : \A l \in 1 .. k : r[l] # a
            BY <5>1
          <5>3. PICK l \in 1 .. c : s[l] = a
            BY <1>5, <1>9
          <5>4. m < l /\ m \in 1 .. c
            <6>1. l \notin 1 .. k
              BY <1>11, <5>2, <5>3
            <6>2. m \in 1 .. c
              BY <1>11
            <6>. QED  BY <1>9, <6>1, <6>2
          <5>5. Precedes(sims, r[m], a)
            BY <1>11, <1>13, <5>3, <5>4
          <5>. QED  BY <5>5
        <4>. QED  BY <4>1, <4>2
      <3>3. sims[r[m]] \in Int /\ sims[i] \in Int /\ sims[a] <= sims[r[m]]
        <4>1. sims[r[m]] \in Int /\ sims[i] \in Int
          BY <1>12
        <4>2. sims[a] \in Int /\ (sims[r[m]] > sims[a] \/ sims[r[m]] = sims[a])
          BY <1>12, <3>1, <3>2 DEF Precedes
        <4>. QED  BY ONLY <4>1, <4>2
      <3>. QED  BY <3>1, <3>3 DEF Precedes
    <2>. QED  BY <2>1, <2>2
  <1>. HIDE DEF S
  <1>16. IsFirstOf(r, sims, S, k)
    BY <1>11, <1>12, <1>14, <1>15 DEF IsFirstOf
  <1>. QED  BY <1>16 DEF S

-----------------------------------------------------------------------------
(* The search along the neighbour graph (read.rs).                         *)

\* What follows the first of a sequence's best is one of the sequence.
LEMMA FirstBestIsOne ==
  ASSUME NEW sims, NEW indices, NEW N \in Nat, 0 < N, DOMAIN indices = 1 .. N,
         \A n \in 1 .. N : sims[indices[n]] \in Int
  PROVE  \E n \in 1 .. N : first_best(sims, indices) = indices[n]
  <1>. DEFINE D == 1 .. N
              key == [n \in D |-> sims[indices[n]]]
              B == {m \in D : \A o \in D : sims[indices[o]] <= sims[indices[m]]}
  <1>1. first_best(sims, indices) = indices[Min(B)]
    BY DEF first_best
  <1>2. IsFiniteSet(D) /\ D # {}
    <2>1. 1 \in D
      OBVIOUS
    <2>2. IsFiniteSet(D)
      BY FS_Interval
    <2>. QED  BY <2>1, <2>2
  <1>3. key \in [D -> Int] /\ \A n \in D : key[n] = sims[indices[n]]
    OBVIOUS
  <1>. HIDE DEF key
  <1>4. B # {} /\ B \subseteq 1 .. N
    <2>1. PICK m \in D : \A o \in D : key[o] <= key[m]
      <3>. HIDE DEF D
      <3>. QED  BY <1>2, <1>3, GreatestKey
    <2>2. m \in B
      BY <1>3, <2>1
    <2>. QED  BY <2>2
  <1>. HIDE DEF B
  <1>5. Min(B) \in B
    BY <1>4, PartOfInterval
  <1>. QED  BY <1>1, <1>4, <1>5

\* s has the locations that the first n ids name and visited has not, once.
AreNew(s, ids, lookup, visited, n) ==
    /\ \A m, l \in 1 .. Len(s) : m # l => s[m] # s[l]
    /\ \A j : (\E l \in 1 .. Len(s) : s[l] = j)
              <=> /\ j \notin visited
                  /\ \E m \in 1 .. n : ids[m] \in DOMAIN lookup /\ lookup[ids[m]] = j

\* A lookup of ids leads to members of R.
IsLookup(lookup, R) == \A id \in DOMAIN lookup : lookup[id] \in R

\* read.rs: one more id of a list adds the location it names if that is new.
LEMMA OneMoreIsNew ==
  ASSUME NEW R, NEW lookup, NEW ids, NEW visited, NEW n \in Nat,
         IsLookup(lookup, R),
         NEW s \in Seq(R), AreNew(s, ids, lookup, visited, n),
         NEW t, t = IF ids[n + 1] \in DOMAIN lookup /\ lookup[ids[n + 1]] \notin visited \cup ToSet(s)
                    THEN Append(s, lookup[ids[n + 1]]) ELSE s
  PROVE  t \in Seq(R) /\ AreNew(t, ids, lookup, visited, n + 1)
  <1>. DEFINE id == ids[n + 1]
              x == lookup[id]
              Named(j, m) == \E l \in 1 .. m : ids[l] \in DOMAIN lookup /\ lookup[ids[l]] = j
  <1>1. \A j : Named(j, n + 1) <=> Named(j, n) \/ (id \in DOMAIN lookup /\ x = j)
    <2>1. \A l \in 1 .. n + 1 : l \in 1 .. n \/ l = n + 1
      OBVIOUS
    <2>2. \A l \in 1 .. n : l \in 1 .. n + 1
      OBVIOUS
    <2>3. n + 1 \in 1 .. n + 1
      OBVIOUS
    <2>. QED  BY <2>1, <2>2, <2>3
  <1>2. /\ \A m, l \in 1 .. Len(s) : m # l => s[m] # s[l]
        /\ \A j : (\E l \in 1 .. Len(s) : s[l] = j) <=> j \notin visited /\ Named(j, n)
    BY DEF AreNew
  <1>3. \A j : j \in ToSet(s) <=> \E l \in 1 .. Len(s) : s[l] = j
    BY DEF ToSet
  <1>4. Len(s) \in Nat
    OBVIOUS
  <1>5. t = IF id \in DOMAIN lookup /\ x \notin visited \cup ToSet(s) THEN Append(s, x) ELSE s
    OBVIOUS
  <1>. HIDE DEF Named
  <1>6. CASE ~(id \in DOMAIN lookup /\ x \notin visited \cup ToSet(s))
    <2>1. t = s
      BY <1>5, <1>6
    <2>2. \A j : (j \notin visited /\ Named(j, n + 1)) <=> (j \notin visited /\ Named(j, n))
      BY <1>1, <1>2, <1>3, <1>6
    <2>3. \A j : (\E l \in 1 .. Len(s) : s[l] = j) <=> j \notin visited /\ Named(j, n + 1)
      BY <1>2, <2>2
    <2>. QED  BY <1>2, <2>1, <2>3 DEF AreNew, Named
  <1>7. CASE id \in DOMAIN lookup /\ x \notin visited \cup ToSet(s)
    <2>. DEFINE u == Append(s, x)
    <2>1. t = u /\ x \in R /\ x \notin visited /\ \A l \in 1 .. Len(s) : s[l] # x
      BY <1>3, <1>5, <1>7 DEF IsLookup
    <2>2. /\ u \in Seq(R) /\ Len(u) = Len(s) + 1
          /\ \A l \in 1 .. Len(s) : u[l] = s[l]
          /\ u[Len(s) + 1] = x
      <3>. HIDE DEF x
      <3>. QED  BY <2>1
    <2>. HIDE DEF u, x
    <2>3. \A l \in 1 .. Len(u) : l \in 1 .. Len(s) \/ l = Len(u)
      BY <1>4, <2>2
    <2>4. Len(u) \in 1 .. Len(u) /\ \A l \in 1 .. Len(s) : l \in 1 .. Len(u)
      BY <1>4, <2>2
    <2>5. u[Len(u)] = x
      BY <2>2
    <2>6. \A m, l \in 1 .. Len(u) : m # l => u[m] # u[l]
      BY <1>2, <2>1, <2>2, <2>3, <2>5
    <2>7. \A j : (\E l \in 1 .. Len(u) : u[l] = j) <=> (\E l \in 1 .. Len(s) : s[l] = j) \/ j = x
      BY <2>2, <2>3, <2>4, <2>5
    <2>8. \A j : (\E l \in 1 .. Len(u) : u[l] = j) <=> j \notin visited /\ Named(j, n + 1)
      BY <1>1, <1>2, <1>7, <2>1, <2>7
    <2>9. AreNew(u, ids, lookup, visited, n + 1)
      BY <2>6, <2>8 DEF AreNew, Named
    <2>. QED  BY <2>1, <2>2, <2>9
  <1>. QED  BY <1>6, <1>7

\* read.rs: so the whole list gives each new location it names, once.
LEMMA UnvisitedIsNew ==
  ASSUME NEW R, NEW lookup, IsLookup(lookup, R),
         NEW ids, NEW N \in Nat, DOMAIN ids = 1 .. N, NEW visited
  PROVE  /\ unvisited(ids, lookup, visited) \in Seq(R)
         /\ AreNew(unvisited(ids, lookup, visited), ids, lookup, visited, N)
  <1>. DEFINE taken(s, id) == IF id \in DOMAIN lookup /\ lookup[id] \notin visited \cup ToSet(s)
                           THEN Append(s, lookup[id]) ELSE s
              base == <<>>
              V == Seq(R)
              Body(it) == [U \in SUBSET (1 .. N) |->
                             IF U = {} THEN base ELSE taken(it[U \ {Max(U)}], ids[Max(U)])]
              it == CHOOSE it : it = Body(it)
              step == [x \in (1 .. N) \X V |-> taken(x[2], ids[x[1]])]
  <1>1. unvisited(ids, lookup, visited) = it[1 .. N]
    BY DEF unvisited, FoldLeft, MapThenFoldSet
  <1>2. ASSUME NEW n \in 1 .. N, NEW v \in V
        PROVE  step[<<n, v>>] = taken(v, ids[n]) /\ step[<<n, v>>] \in V
    <2>1. step[<<n, v>>] = taken(v, ids[n])
      OBVIOUS
    <2>2. taken(v, ids[n]) \in V
      BY DEF IsLookup
    <2>. QED  BY <2>1, <2>2
  <1>3. base \in V
    OBVIOUS
  <1>. HIDE DEF taken, step, V, base
  <1>4. PICK g \in [SUBSET (1 .. N) -> V] : FoldsTo(g, N, base, step)
    <2>1. Steps(step, N, V, base)
      BY <1>2, <1>3 DEF Steps
    <2>. QED  BY <2>1, FoldUnfolds
  <1>5. g = Body(g)
    <2>1. \A U \in SUBSET (1 .. N) : U # {} => Max(U) \in 1 .. N
      BY PartOfInterval
    <2>2. ASSUME NEW U \in SUBSET (1 .. N), U # {}
          PROVE  step[<<Max(U), g[U \ {Max(U)}]>>] = taken(g[U \ {Max(U)}], ids[Max(U)])
      <3>1. g[U \ {Max(U)}] \in V
        OBVIOUS
      <3>. QED  BY <1>2, <2>1, <2>2, <3>1
    <2>3. \A U \in SUBSET (1 .. N) :
             g[U] = IF U = {} THEN base ELSE taken(g[U \ {Max(U)}], ids[Max(U)])
      BY <1>4, <2>2 DEF FoldsTo
    <2>. QED  BY <2>3
  <1>6. it = Body(it)
    <2>. HIDE DEF Body
    <2>. QED  BY <1>5
  <1>. HIDE DEF it
  <1>. DEFINE h == [n \in 0 .. N |-> it[1 .. n]]
  <1>7. \A U \in SUBSET (1 .. N) :
           it[U] = IF U = {} THEN base ELSE taken(it[U \ {Max(U)}], ids[Max(U)])
    BY <1>6
  <1>8. h[0] = base
    <2>1. h[0] = it[{}] /\ {} \in SUBSET (1 .. N)
      OBVIOUS
    <2>. QED  BY <1>7, <2>1
  <1>9. ASSUME NEW n \in 1 .. N PROVE h[n] = taken(h[n - 1], ids[n])
    <2>1. h[n] = it[1 .. n] /\ h[n - 1] = it[1 .. n - 1]
      OBVIOUS
    <2>. DEFINE U == 1 .. n
    <2>3. U \in SUBSET (1 .. N) /\ U # {} /\ Max(U) = n /\ U \ {Max(U)} = 1 .. n - 1
      BY FoldPrefixes
    <2>. HIDE DEF h, U
    <2>4. it[U] = taken(it[1 .. n - 1], ids[n])
      BY <1>7, <2>3
    <2>. QED  BY <2>1, <2>4 DEF U
  <1>10. h[N] = it[1 .. N]
    OBVIOUS
  <1>. HIDE DEF h
  <1>. DEFINE T == {n \in Nat : n <= N => h[n] \in Seq(R) /\ AreNew(h[n], ids, lookup, visited, n)}
  <1>11. 0 \in T
    <2>1. AreNew(<<>>, ids, lookup, visited, 0)
      BY DEF AreNew
    <2>2. h[0] = <<>>
      BY <1>8 DEF base
    <2>3. h[0] \in Seq(R) /\ AreNew(h[0], ids, lookup, visited, 0)
      BY <2>1, <2>2
    <2>. QED  BY <2>3
  <1>12. ASSUME NEW n \in Nat, n \in T PROVE n + 1 \in T
    <2>. SUFFICES ASSUME n + 1 <= N
                  PROVE  h[n + 1] \in Seq(R) /\ AreNew(h[n + 1], ids, lookup, visited, n + 1)
      OBVIOUS
    <2>1. n + 1 \in 1 .. N /\ (n + 1) - 1 = n /\ h[n] \in Seq(R) /\ AreNew(h[n], ids, lookup, visited, n)
      BY <1>12
    <2>2. h[n + 1] = taken(h[n], ids[n + 1])
      BY <1>9, <2>1
    <2>. DEFINE s == h[n]
                t == h[n + 1]
    <2>3. /\ s \in Seq(R) /\ AreNew(s, ids, lookup, visited, n)
          /\ t = IF ids[n + 1] \in DOMAIN lookup /\ lookup[ids[n + 1]] \notin visited \cup ToSet(s)
                 THEN Append(s, lookup[ids[n + 1]]) ELSE s
      BY <2>1, <2>2 DEF taken
    <2>. HIDE DEF s, t
    <2>4. t \in Seq(R) /\ AreNew(t, ids, lookup, visited, n + 1)
      BY <2>3, OneMoreIsNew
    <2>. QED  BY <2>4 DEF t
  <1>13. N \in T
    <2>. HIDE DEF T
    <2>. QED  BY <1>11, <1>12, Induction
  <1>. QED  BY <1>1, <1>10, <1>13

\* h is the recursive function over the numbers to N.
CountsTo(h, N, base, step) ==
    h[0] = base /\ \A n \in 1 .. N : h[n] = step[<<n, h[n - 1]>>]

\* Such a function exists, so that the walk of the model unfolds.
LEMMA CountUnfolds ==
  ASSUME NEW N \in Nat, NEW V, NEW base, NEW step, Steps(step, N, V, base)
  PROVE  \E h \in [0 .. N -> V] : CountsTo(h, N, base, step)
  <1>1. PICK g \in [SUBSET (1 .. N) -> V] : FoldsTo(g, N, base, step)
    BY FoldUnfolds
  <1>. DEFINE h == [n \in 0 .. N |-> g[1 .. n]]
  <1>2. h \in [0 .. N -> V]
    <2>1. \A n \in 0 .. N : 1 .. n \in SUBSET (1 .. N)
      OBVIOUS
    <2>. QED  BY <2>1
  <1>3. h[0] = base
    <2>1. h[0] = g[{}] /\ {} \in SUBSET (1 .. N)
      OBVIOUS
    <2>. QED  BY <1>1, <2>1 DEF FoldsTo
  <1>4. ASSUME NEW n \in 1 .. N PROVE h[n] = step[<<n, h[n - 1]>>]
    <2>1. h[n] = g[1 .. n] /\ h[n - 1] = g[1 .. n - 1]
      OBVIOUS
    <2>. DEFINE U == 1 .. n
    <2>2. U \in SUBSET (1 .. N) /\ U # {} /\ Max(U) = n /\ U \ {Max(U)} = 1 .. n - 1
      BY FoldPrefixes
    <2>. HIDE DEF h, U
    <2>3. g[U] = step[<<Max(U), g[U \ {Max(U)}]>>]
      BY <1>1, <2>2 DEF FoldsTo
    <2>. QED  BY <2>1, <2>2, <2>3 DEF U
  <1>. HIDE DEF h
  <1>5. CountsTo(h, N, base, step)
    BY <1>3, <1>4 DEF CountsTo
  <1>. QED  BY <1>2, <1>5

\* The locations the ids of i's neighbours name.
LinksOf(neighbors, lookup, i) ==
    {j \in {lookup[id] : id \in DOMAIN lookup} :
        \E m \in 1 .. Len(neighbors[i]) :
            neighbors[i][m] \in DOMAIN lookup /\ lookup[neighbors[i][m]] = j}

\* R are locations that the graph leads from only to each other.
IsClosed(sims, R, neighbors, lookup) ==
    /\ AreSims(sims, R)
    /\ \A i \in R : /\ Len(neighbors[i]) \in Nat
                    /\ DOMAIN neighbors[i] = 1 .. Len(neighbors[i])
                    /\ LinksOf(neighbors, lookup, i) \subseteq R

\* Every location of R has all the others as neighbours.
IsComplete(R, neighbors, lookup) == \A i \in R : R \ {i} \subseteq LinksOf(neighbors, lookup, i)

\* A walk within R whose heap holds the best it has visited: all of a complete
\* graph unless it is at its first location.
Walk(w, R) == w \in [at : R, visited : SUBSET R, heap : SUBSET R, ends : BOOLEAN]

\* A walk after a hop.
Walked(w, sims, R, k, neighbors, lookup) ==
    /\ Walk(w, R)
    /\ HoldsBest(w.heap, sims, w.visited, k)
    /\ IsComplete(R, neighbors, lookup) => w.visited = R

\* A walk before one.
Walks(w, sims, R, k, neighbors, lookup) ==
    /\ Walk(w, R)
    /\ HoldsBest(w.heap, sims, w.visited, k)
    /\ IsComplete(R, neighbors, lookup) => \/ w.visited = R
                                           \/ w.visited = {w.at} /\ ~w.ends

\* read.rs: a hop stays among what the graph leads to, its heap the best of what
\* was visited.
LEMMA HopWalks ==
  ASSUME NEW sims, NEW R, NEW neighbors, NEW lookup, IsClosed(sims, R, neighbors, lookup),
         NEW k \in Nat, NEW w, Walks(w, sims, R, k, neighbors, lookup),
         NEW x \in hop(w, sims, k, neighbors, lookup)
  PROVE  Walked(x, sims, R, k, neighbors, lookup)
  <1>. DEFINE i == w.at
              ids == neighbors[i]
              N == Len(ids)
              D == {lookup[id] : id \in DOMAIN lookup}
              u == unvisited(ids, lookup, w.visited)
              next == first_best(sims, u)
              Complete == IsComplete(R, neighbors, lookup)
              Links == LinksOf(neighbors, lookup, i)
  <1>1. /\ i \in R /\ w.visited \in SUBSET R /\ w.heap \in SUBSET R /\ w.ends \in BOOLEAN
        /\ w = [at |-> w.at, visited |-> w.visited, heap |-> w.heap, ends |-> w.ends]
        /\ HoldsBest(w.heap, sims, w.visited, k)
        /\ Complete => w.visited = R \/ (w.visited = {i} /\ ~w.ends)
    BY DEF Walks, Walk
  <1>2. /\ N \in Nat /\ DOMAIN ids = 1 .. N /\ Links \subseteq R
        /\ AreSims(sims, R)
    BY <1>1 DEF IsClosed
  <1>3. u \in Seq(D) /\ AreNew(u, ids, lookup, w.visited, N)
    <2>1. IsLookup(lookup, D)
      BY DEF IsLookup
    <2>. HIDE DEF D, ids, N
    <2>. QED  BY <1>2, <2>1, UnvisitedIsNew
  <1>4. /\ Len(u) \in Nat /\ DOMAIN u = 1 .. Len(u)
        /\ \A m, l \in 1 .. Len(u) : m # l => u[m] # u[l]
        /\ \A j : (\E l \in 1 .. Len(u) : u[l] = j) <=> j \in Links \ w.visited
    <2>1. \A j : j \in Links <=> \E m \in 1 .. N : ids[m] \in DOMAIN lookup /\ lookup[ids[m]] = j
      BY DEF LinksOf
    <2>. HIDE DEF Links, N, ids, u, D
    <2>. QED  BY <1>3, <2>1 DEF AreNew
  <1>5. Complete => R \ {i} \subseteq Links
    BY <1>1 DEF IsComplete
  <1>6. hop(w, sims, k, neighbors, lookup) =
           IF w.ends THEN {w}
           ELSE IF u = <<>> THEN {[w EXCEPT !.ends = TRUE]}
           ELSE {[at |-> next, visited |-> w.visited \cup ToSet(u), heap |-> h,
                  ends |-> (Cardinality(h) >= k /\ \A e \in h : sims[next] < sims[e])] :
                     h \in heaps(w.heap, sims, u, k)}
    BY DEF hop
  <1>. HIDE DEF Complete, Links, u, next, ids, N, D
  <1>7. CASE w.ends
    <2>1. x = w
      BY <1>6, <1>7
    <2>. QED  BY <1>1, <1>7, <2>1 DEF Walked, Walks, Complete
  <1>8. CASE ~w.ends /\ u = <<>>
    <2>1. x = [w EXCEPT !.ends = TRUE]
      BY <1>6, <1>8
    <2>. DEFINE v == w.visited
                h == w.heap
    <2>2. w = [at |-> i, visited |-> v, heap |-> h, ends |-> w.ends]
      BY <1>1
    <2>3. x = [at |-> i, visited |-> v, heap |-> h, ends |-> TRUE]
      <3>. DEFINE r == w
                  e == w.ends
                  y == TRUE
      <3>1. r = [at |-> i, visited |-> v, heap |-> h, ends |-> e]
        BY <2>2
      <3>2. x = [r EXCEPT !.ends = y]
        BY <2>1
      <3>. HIDE DEF i, v, h, r, e, y
      <3>3. [r EXCEPT !.ends = y] = [at |-> i, visited |-> v, heap |-> h, ends |-> y]
        BY <3>1
      <3>. QED  BY <3>2, <3>3 DEF y
    <2>4. Complete => w.visited = R
      <3>. SUFFICES ASSUME Complete, w.visited = {i} PROVE R \subseteq {i}
        BY <1>1
      <3>1. Len(u) = 0
        BY <1>8
      <3>2. \A j : j \notin Links \ w.visited
        BY <1>4, <3>1
      <3>. QED  BY <1>1, <1>5, <3>2
    <2>. QED  BY <1>1, <2>3, <2>4 DEF Walked, Walk, Complete
  <1>9. CASE ~w.ends /\ u # <<>>
    <2>1. PICK h \in heaps(w.heap, sims, u, k) :
             x = [at |-> next, visited |-> w.visited \cup ToSet(u), heap |-> h,
                  ends |-> (Cardinality(h) >= k /\ \A e \in h : sims[next] < sims[e])]
      BY <1>6, <1>9
    <2>. DEFINE A == ToSet(u)
                v == w.visited
    <2>2. \A j : j \in A <=> \E l \in 1 .. Len(u) : u[l] = j
      BY <1>4 DEF ToSet
    <2>3. A = Links \ w.visited
      BY <1>4, <2>2
    <2>. HIDE DEF A, v
    <2>4. A \in SUBSET R /\ v \in SUBSET R
      BY <1>1, <1>2, <2>3 DEF v
    <2>5. AreSims(sims, A) /\ AreSims(sims, v)
      <3>1. IsFiniteSet(A) /\ IsFiniteSet(v)
        BY <1>2, <2>4, FS_Subset DEF AreSims
      <3>. QED  BY <1>2, <2>4, <3>1 DEF AreSims
    <2>6. HoldsBest(w.heap, sims, v, k)
      BY <1>1 DEF v
    <2>7. \A n \in 1 .. Len(u) : /\ u[n] \notin v
                                 /\ u[n] \in A /\ u[n] \in DOMAIN sims
                                 /\ \A m \in 1 .. Len(u) : m # n => u[m] # u[n]
      BY <1>4, <2>2, <2>3, <2>5 DEF AreSims, v
    <2>8. HoldsBest(h, sims, v \cup A, k)
      <3>1. \A n \in 1 .. Len(u) : u[n] \in A <=> u[n] \in DOMAIN sims
        BY <2>7
      <3>. DEFINE n == Len(u)
                  first == w.heap
      <3>2. /\ n \in Nat /\ DOMAIN u = 1 .. n
            /\ \A l \in 1 .. n : /\ u[l] \notin v
                                 /\ u[l] \in A <=> u[l] \in DOMAIN sims
                                 /\ \A m \in 1 .. n : m # l => u[m] # u[l]
            /\ \A j \in A : \E l \in 1 .. n : u[l] = j
            /\ HoldsBest(first, sims, v, k)
            /\ h \in heaps(first, sims, u, k)
        BY <1>4, <2>1, <2>2, <2>6, <2>7, <3>1
      <3>. HIDE DEF n, first
      <3>. QED  BY <2>5, <3>2, HeapsHoldBest
    <2>9. next \in R
      <3>. DEFINE n == Len(u)
      <3>1. 0 < n
        BY <1>3, <1>9
      <3>2. \A l \in 1 .. n : sims[u[l]] \in Int /\ u[l] \in R
        BY <2>4, <2>5, <2>7 DEF AreSims
      <3>3. \E l \in 1 .. n : next = u[l]
        <4>1. n \in Nat /\ DOMAIN u = 1 .. n
          BY <1>4
        <4>. HIDE DEF n
        <4>. QED  BY <3>1, <3>2, <4>1, FirstBestIsOne DEF next
      <3>. QED  BY <3>2, <3>3
    <2>10. h \in SUBSET R
      BY <2>4, <2>8 DEF HoldsBest
    <2>11. Complete => v \cup A = R
      <3>. SUFFICES ASSUME Complete PROVE R \subseteq v \cup A
        BY <2>4
      <3>1. CASE v = R
        BY <3>1
      <3>2. CASE v = {i}
        BY <1>5, <2>3, <3>2 DEF v
      <3>. QED  BY <1>1, <3>1, <3>2 DEF v
    <2>12. x = [at |-> next, visited |-> v \cup A, heap |-> h,
                ends |-> (Cardinality(h) >= k /\ \A e \in h : sims[next] < sims[e])]
      BY <2>1 DEF v, A
    <2>13. Walk(x, R) /\ x.heap = h /\ x.visited = v \cup A
      <3>. DEFINE b == Cardinality(h) >= k /\ \A e \in h : sims[next] < sims[e]
      <3>1. b \in BOOLEAN
        OBVIOUS
      <3>2. x = [at |-> next, visited |-> v \cup A, heap |-> h, ends |-> b]
        BY <2>12
      <3>. HIDE DEF b
      <3>. QED  BY <2>4, <2>9, <2>10, <3>1, <3>2 DEF Walk
    <2>. QED  BY <2>8, <2>11, <2>13 DEF Walked, Complete
  <1>. QED  BY <1>1, <1>7, <1>8, <1>9

\* read.rs: and so does the whole walk, whose last hop ends it.
LEMMA WalksStayClosed ==
  ASSUME NEW sims, NEW R, NEW neighbors, NEW lookup, IsClosed(sims, R, neighbors, lookup),
         NEW k \in Nat, 0 < k, NEW entry \in R, NEW n \in Nat, 0 < n,
         NEW w \in walks(entry, sims, n, k, neighbors, lookup)
  PROVE  Walked(w, sims, R, k, neighbors, lookup)
  <1>. DEFINE first == [at |-> entry, visited |-> {entry}, heap |-> {entry}, ends |-> FALSE]
              base == {first}
              W == [at : R, visited : SUBSET R, heap : SUBSET R, ends : BOOLEAN]
              V == SUBSET {v \in W : Walks(v, sims, R, k, neighbors, lookup)}
              Hops(vs) == UNION {hop(v, sims, k, neighbors, lookup) : v \in vs}
              Body(f) == [m \in 0 .. n |-> IF m = 0 THEN base ELSE Hops(f[m - 1])]
              f == CHOOSE f : f = Body(f)
              step == [y \in (1 .. n) \X V |-> Hops(y[2])]
  <1>1. walks(entry, sims, n, k, neighbors, lookup) = f[n]
    BY DEF walks
  <1>2. base \in V
    <2>1. first \in W /\ first.at = entry /\ first.visited = {entry} /\ first.heap = {entry} /\ ~first.ends
      OBVIOUS
    <2>2. Cardinality({entry}) = 1 /\ IsFiniteSet({entry})
      BY FS_Singleton
    <2>3. HoldsBest({entry}, sims, {entry}, k)
      BY <2>2 DEF HoldsBest
    <2>. HIDE DEF first, W
    <2>4. Walks(first, sims, R, k, neighbors, lookup)
      BY <2>1, <2>3 DEF Walks, Walk, W
    <2>. QED  BY <2>1, <2>4
  <1>3. ASSUME NEW vs \in V, NEW x \in Hops(vs)
        PROVE  x \in W /\ Walked(x, sims, R, k, neighbors, lookup) /\ Walks(x, sims, R, k, neighbors, lookup)
    <2>1. PICK v \in vs : x \in hop(v, sims, k, neighbors, lookup)
      OBVIOUS
    <2>2. Walks(v, sims, R, k, neighbors, lookup)
      <3>1. v \in {u \in W : Walks(u, sims, R, k, neighbors, lookup)}
        OBVIOUS
      <3>. QED  BY <3>1
    <2>3. Walked(x, sims, R, k, neighbors, lookup)
      BY <2>1, <2>2, HopWalks
    <2>. QED  BY <2>3 DEF Walked, Walks, Walk
  <1>4. ASSUME NEW m \in 1 .. n, NEW vs \in V PROVE step[<<m, vs>>] = Hops(vs) /\ step[<<m, vs>>] \in V
    <2>1. step[<<m, vs>>] = Hops(vs)
      OBVIOUS
    <2>2. Hops(vs) \in V
      <3>. HIDE DEF W, Hops
      <3>1. \A x \in Hops(vs) : x \in {u \in W : Walks(u, sims, R, k, neighbors, lookup)}
        BY <1>3
      <3>. QED  BY <3>1
    <2>. QED  BY <2>1, <2>2
  <1>. HIDE DEF base, Hops, V, step
  <1>5. PICK h \in [0 .. n -> V] : CountsTo(h, n, base, step)
    <2>1. Steps(step, n, V, base)
      BY <1>2, <1>4 DEF Steps
    <2>. QED  BY <2>1, CountUnfolds
  <1>6. h = Body(h)
    <2>. SUFFICES ASSUME NEW m \in 0 .. n PROVE h[m] = IF m = 0 THEN base ELSE Hops(h[m - 1])
      OBVIOUS
    <2>1. CASE m = 0
      BY <1>5, <2>1 DEF CountsTo
    <2>2. CASE m # 0
      <3>1. m \in 1 .. n /\ h[m - 1] \in V
        BY <2>2
      <3>2. h[m] = step[<<m, h[m - 1]>>]
        BY <1>5, <3>1 DEF CountsTo
      <3>. QED  BY <1>4, <2>2, <3>1, <3>2
    <2>. QED  BY <2>1, <2>2
  <1>7. f = Body(f)
    <2>. HIDE DEF Body
    <2>. QED  BY <1>6
  <1>. HIDE DEF f
  <1>8. \A m \in 0 .. n : f[m] = IF m = 0 THEN base ELSE Hops(f[m - 1])
    BY <1>7
  <1>. DEFINE T == {m \in Nat : m <= n => f[m] \in V}
  <1>9. 0 \in T
    BY <1>2, <1>8
  <1>10. ASSUME NEW m \in Nat, m \in T PROVE m + 1 \in T
    <2>. SUFFICES ASSUME m + 1 <= n PROVE f[m + 1] \in V
      OBVIOUS
    <2>1. m + 1 \in 1 .. n /\ (m + 1) - 1 = m /\ f[m] \in V
      BY <1>10
    <2>2. f[m + 1] = Hops(f[m])
      BY <1>8, <2>1
    <2>3. Hops(f[m]) \in V
      BY <1>4, <2>1
    <2>. QED  BY <2>2, <2>3
  <1>11. n - 1 \in T
    <2>1. n - 1 \in Nat
      OBVIOUS
    <2>. HIDE DEF T
    <2>. QED  BY <1>9, <1>10, <2>1, Induction
  <1>12. f[n - 1] \in V /\ f[n] = Hops(f[n - 1])
    BY <1>8, <1>11
  <1>13. w \in Hops(f[n - 1])
    BY <1>1, <1>12
  <1>. QED  BY <1>3, <1>12, <1>13

\* read.rs: the search along the graph finds locations it leads to, and of a
\* complete graph the best.
THEOREM GraphFinds ==
  ASSUME NEW sims, NEW R, NEW neighbors, NEW lookup, IsClosed(sims, R, neighbors, lookup),
         NEW k \in Nat, 0 < k, NEW n \in Nat, 0 < n,
         NEW landmarks, landmarks # <<>>, first_best(sims, landmarks) \in R,
         NEW r \in graph_activate(sims, n, k, landmarks, neighbors, lookup)
  PROVE  \E h \in SUBSET R : /\ SortedDown(r, sims, h)
                             /\ IsComplete(R, neighbors, lookup) => HoldsBest(h, sims, R, k)
  <1>. DEFINE entry == first_best(sims, landmarks)
  <1>1. PICK w \in walks(entry, sims, n, k, neighbors, lookup) : r \in drained(w.heap, sims)
    BY DEF graph_activate
  <1>2. Walked(w, sims, R, k, neighbors, lookup)
    <2>. HIDE DEF entry
    <2>1. entry \in R
      BY DEF entry
    <2>. QED  BY <1>1, <2>1, WalksStayClosed
  <1>3. w.heap \in SUBSET R
    BY <1>2 DEF Walked, Walk
  <1>4. IsFiniteSet(w.heap)
    BY <1>3, FS_Subset DEF IsClosed, AreSims
  <1>5. SortedDown(r, sims, w.heap)
    BY <1>1, <1>4, DrainedSorts
  <1>. QED  BY <1>2, <1>3, <1>5 DEF Walked

-----------------------------------------------------------------------------
(* Sums, and what the model selects from a sequence in order.              *)

\* The values of f at the members of U, added up.
over(f, U) == total([x \in U |-> f[x]])

\* f has integers at the members of D.
Ints(f, D) == \A x \in D : f[x] \in Int

\* A member of U, the one the sum of the model takes first.
Some(U) == CHOOSE x \in U : TRUE

\* g is the recursive function of such a sum.
SumsBy(g, f, D) ==
    /\ g[{}] = 0
    /\ \A U \in SUBSET D : U # {} => g[U] = f[Some(U)] + g[U \ {Some(U)}]

\* The fold by which the model adds up values, one by one.
LEMMA OverUnfolds ==
  ASSUME NEW D, IsFiniteSet(D), NEW f, Ints(f, D)
  PROVE  \E g \in [SUBSET D -> Int] : SumsBy(g, f, D) /\ over(f, D) = g[D]
  <1>. DEFINE e == [x \in D |-> f[x]]
              Body(it) == [U \in SUBSET D |->
                             IF U = {} THEN 0 ELSE e[Some(U)] + it[U \ {Some(U)}]]
              it == CHOOSE it : it = Body(it)
              pick == [U \in SUBSET D |-> Some(U)]
              step == [x \in D \X Int |-> f[x[1]] + x[2]]
  <1>1. over(f, D) = it[D]
    BY DEF over, total, FoldFunction, FoldFunctionOnSet, MapThenFoldSet, Some
  <1>2. \A U \in SUBSET D : U # {} => Some(U) \in U /\ Some(U) \in D
    BY DEF Some
  <1>3. Picks(pick, D)
    BY <1>2 DEF Picks
  <1>4. \A x \in D, v \in Int : step[<<x, v>>] = f[x] + v /\ step[<<x, v>>] \in Int
    BY DEF Ints
  <1>5. Keeps(step, D, Int)
    BY <1>4 DEF Keeps
  <1>6. \A U \in SUBSET D : pick[U] = Some(U)
    OBVIOUS
  <1>7. \A x \in D : e[x] = f[x]
    OBVIOUS
  <1>. HIDE DEF pick, step, e
  <1>8. PICK g \in [SUBSET D -> Int] : FoldsBy(g, D, 0, pick, step)
    <2>. HIDE DEF Body, it
    <2>. DEFINE V == Int
    <2>1. 0 \in V /\ Keeps(step, D, V)
      BY <1>5
    <2>. HIDE DEF V
    <2>2. \E g \in [SUBSET D -> V] : FoldsBy(g, D, 0, pick, step)
      BY <1>3, <2>1, FoldExists
    <2>. QED  BY <2>2 DEF V
  <1>9. ASSUME NEW U \in SUBSET D
        PROVE  g[U] = IF U = {} THEN 0 ELSE f[Some(U)] + g[U \ {Some(U)}]
    <2>1. g[U] = IF U = {} THEN 0 ELSE step[<<Some(U), g[U \ {Some(U)}]>>]
      BY <1>6, <1>8 DEF FoldsBy
    <2>2. g[U \ {Some(U)}] \in Int
      OBVIOUS
    <2>. QED  BY <1>2, <1>4, <2>1, <2>2
  <1>10. g = Body(g)
    BY <1>2, <1>7, <1>9
  <1>11. it = Body(it)
    <2>. HIDE DEF Body
    <2>. QED  BY <1>10
  <1>. HIDE DEF it
  <1>12. \A U \in SUBSET D : it[U] = IF U = {} THEN 0 ELSE f[Some(U)] + it[U \ {Some(U)}]
    BY <1>2, <1>7, <1>11
  <1>13. D \in {U \in SUBSET D : it[U] = g[U]}
    <2>. DEFINE G == {U \in SUBSET D : it[U] = g[U]}
    <2>1. {} \in G
      BY <1>9, <1>12
    <2>2. ASSUME NEW U \in SUBSET D, U # {} PROVE \E x \in U : (U \ {x} \in G => U \in G)
      <3>1. it[U] = f[Some(U)] + it[U \ {Some(U)}] /\ g[U] = f[Some(U)] + g[U \ {Some(U)}]
        BY <1>9, <1>12, <2>2
      <3>. QED  BY <1>2, <2>2, <3>1
    <2>. HIDE DEF G
    <2>3. D \in G
      BY <2>1, <2>2, SetInduction
    <2>. QED  BY <2>3 DEF G
  <1>14. g[{}] = 0
    BY <1>9
  <1>. QED  BY <1>1, <1>9, <1>13, <1>14 DEF SumsBy

\* Two such functions agree where they add the same.
LEMMA SumsAgree ==
  ASSUME NEW D, NEW E, IsFiniteSet(E), E \in SUBSET D,
         NEW f, NEW g, NEW h, SumsBy(g, f, D), SumsBy(h, f, E)
  PROVE  g[E] = h[E]
  <1>. DEFINE G == {U \in SUBSET E : g[U] = h[U]}
  <1>1. {} \in G
    BY DEF SumsBy
  <1>2. ASSUME NEW U \in SUBSET E, U # {} PROVE \E x \in U : (U \ {x} \in G => U \in G)
    <2>1. Some(U) \in U
      BY <1>2 DEF Some
    <2>2. g[U] = f[Some(U)] + g[U \ {Some(U)}]
      BY <1>2 DEF SumsBy
    <2>3. h[U] = f[Some(U)] + h[U \ {Some(U)}]
      BY <1>2 DEF SumsBy
    <2>. QED  BY <2>1, <2>2, <2>3
  <1>. HIDE DEF G
  <1>3. E \in G
    BY <1>1, <1>2, SetInduction
  <1>. QED  BY <1>3 DEF G

\* A sum over a finite set: of none 0, of more one of them and the rest.
LEMMA OverBase ==
  ASSUME NEW D, IsFiniteSet(D), NEW f, Ints(f, D)
  PROVE  /\ over(f, D) \in Int
         /\ D = {} => over(f, D) = 0
         /\ D # {} => over(f, D) = f[Some(D)] + over(f, D \ {Some(D)})
  <1>1. PICK g \in [SUBSET D -> Int] : SumsBy(g, f, D) /\ over(f, D) = g[D]
    BY OverUnfolds
  <1>2. over(f, D) \in Int
    BY <1>1
  <1>3. D = {} => over(f, D) = 0
    BY <1>1 DEF SumsBy
  <1>4. ASSUME D # {} PROVE over(f, D) = f[Some(D)] + over(f, D \ {Some(D)})
    <2>. DEFINE E == D \ {Some(D)}
    <2>1. IsFiniteSet(E) /\ Ints(f, E) /\ E \in SUBSET D
      BY FS_Subset DEF Ints
    <2>2. g[D] = f[Some(D)] + g[E]
      BY <1>1, <1>4 DEF SumsBy
    <2>. HIDE DEF E
    <2>3. PICK h \in [SUBSET E -> Int] : SumsBy(h, f, E) /\ over(f, E) = h[E]
      BY <2>1, OverUnfolds
    <2>4. g[E] = h[E]
      BY <1>1, <2>1, <2>3, SumsAgree
    <2>. QED  BY <1>1, <2>2, <2>3, <2>4 DEF E
  <1>. QED  BY <1>2, <1>3, <1>4

\* A sum, whichever member is taken out first.
LEMMA OverTakes ==
  ASSUME NEW D, IsFiniteSet(D), NEW f, Ints(f, D)
  PROVE  /\ over(f, {}) = 0
         /\ \A U \in SUBSET D :
              /\ IsFiniteSet(U) /\ over(f, U) \in Int
              /\ \A x \in U : over(f, U) = f[x] + over(f, U \ {x})
  <1>1. ASSUME NEW U \in SUBSET D
        PROVE  /\ IsFiniteSet(U) /\ over(f, U) \in Int /\ Cardinality(U) \in Nat
               /\ \A x \in U : Cardinality(U \ {x}) = Cardinality(U) - 1
               /\ U = {} => over(f, U) = 0
               /\ U # {} => /\ Some(U) \in U
                            /\ over(f, U) = f[Some(U)] + over(f, U \ {Some(U)})
    <2>1. IsFiniteSet(U) /\ Cardinality(U) \in Nat
          /\ \A x \in U : Cardinality(U \ {x}) = Cardinality(U) - 1
      BY Subsets
    <2>2. Ints(f, U)
      BY DEF Ints
    <2>3. U # {} => Some(U) \in U
      BY DEF Some
    <2>. QED  BY <2>1, <2>2, <2>3, OverBase
  <1>. DEFINE T == {n \in Nat : \A U \in SUBSET D : Cardinality(U) = n =>
                        \A x \in U : over(f, U) = f[x] + over(f, U \ {x})}
  <1>2. 0 \in T
    BY Subsets
  <1>3. ASSUME NEW n \in Nat, n \in T PROVE n + 1 \in T
    <2>. SUFFICES ASSUME NEW U \in SUBSET D, Cardinality(U) = n + 1, NEW x \in U
                  PROVE  over(f, U) = f[x] + over(f, U \ {x})
      OBVIOUS
    <2>. DEFINE y == Some(U)
                Less(z) == U \ {z}
                Both == (U \ {x}) \ {y}
    <2>1. y \in U /\ over(f, U) = f[y] + over(f, Less(y))
      BY <1>1
    <2>2. CASE x = y
      BY <2>1, <2>2
    <2>3. CASE x # y
      <3>1. \A z \in U : Less(z) \in SUBSET D /\ Cardinality(Less(z)) = n
        <4>1. \A z \in U : Cardinality(U \ {z}) = Cardinality(U) - 1
          BY <1>1
        <4>. QED  BY <4>1
      <3>2. x \in Less(y) /\ y \in Less(x) /\ Less(y) \ {x} = Both /\ Less(x) \ {y} = Both
        BY <2>1, <2>3
      <3>. HIDE DEF y, Less, Both
      <3>3. over(f, Less(y)) = f[x] + over(f, Both)
        BY <1>3, <2>1, <3>1, <3>2
      <3>4. over(f, Less(x)) = f[y] + over(f, Both)
        BY <1>3, <3>1, <3>2
      <3>5. f[x] \in Int /\ f[y] \in Int
        BY <2>1 DEF Ints
      <3>6. over(f, Both) \in Int
        BY <1>1, <3>1 DEF Both, Less
      <3>. QED  BY <2>1, <3>3, <3>4, <3>5, <3>6 DEF Less
    <2>. QED  BY <2>2, <2>3
  <1>4. \A n \in Nat : n \in T
    <2>. HIDE DEF T
    <2>. QED  BY <1>2, <1>3, Induction
  <1>5. \A U \in SUBSET D : \A x \in U : over(f, U) = f[x] + over(f, U \ {x})
    BY <1>1, <1>4
  <1>6. over(f, {}) = 0
    BY <1>1
  <1>. QED  BY <1>1, <1>5, <1>6

\* Sums of sums, of multiples.
LEMMA OverPlus ==
  ASSUME NEW D, IsFiniteSet(D), NEW f, Ints(f, D), NEW e, Ints(e, D), NEW c \in Int,
         NEW h, \A x \in D : h[x] = f[x] + c * e[x]
  PROVE  over(h, D) = over(f, D) + c * over(e, D)
  <1>0. Ints(h, D)
    BY DEF Ints
  <1>. DEFINE G == {U \in SUBSET D : over(h, U) = over(f, U) + c * over(e, U)}
  <1>1. {} \in G
    <2>1. over(h, {}) = 0 /\ over(f, {}) = 0 /\ over(e, {}) = 0
      BY <1>0, OverTakes
    <2>. QED  BY <2>1
  <1>2. ASSUME NEW U \in SUBSET D, U # {} PROVE \E x \in U : (U \ {x} \in G => U \in G)
    <2>1. PICK x \in U : TRUE
      BY <1>2
    <2>. DEFINE W == U \ {x}
    <2>2. W \in SUBSET D
      OBVIOUS
    <2>. HIDE DEF W
    <2>3. over(h, W) \in Int /\ over(f, W) \in Int /\ over(e, W) \in Int
      BY <1>0, <2>2, OverTakes
    <2>4. over(h, U) = h[x] + over(h, W)
      BY <1>0, OverTakes DEF W
    <2>5. over(f, U) = f[x] + over(f, W)
      BY OverTakes DEF W
    <2>6. over(e, U) = e[x] + over(e, W)
      BY OverTakes DEF W
    <2>7. f[x] \in Int /\ e[x] \in Int /\ h[x] = f[x] + c * e[x]
      BY DEF Ints
    <2>8. \A p, q \in Int : c * (p + q) = c * p + c * q
      OBVIOUS
    <2>9. ASSUME over(h, W) = over(f, W) + c * over(e, W)
          PROVE  over(h, U) = over(f, U) + c * over(e, U)
      <3>1. c * (e[x] + over(e, W)) = c * e[x] + c * over(e, W)
        BY <2>3, <2>7, <2>8
      <3>2. c * e[x] \in Int /\ c * over(e, W) \in Int
        BY <2>3, <2>7
      <3>. QED  BY <2>3, <2>4, <2>5, <2>6, <2>7, <2>9, <3>1, <3>2
    <2>. QED  BY <2>9 DEF W
  <1>. HIDE DEF G
  <1>3. D \in G
    BY <1>1, <1>2, SetInduction
  <1>. QED  BY <1>3 DEF G

\* A sum of which all but one are 0.
LEMMA OverSingle ==
  ASSUME NEW D, IsFiniteSet(D), NEW f, Ints(f, D), NEW s \in D,
         \A x \in D : x # s => f[x] = 0
  PROVE  over(f, D) = f[s]
  <1>. DEFINE E == D \ {s}
              G == {U \in SUBSET E : over(f, U) = 0}
  <1>0. IsFiniteSet(E) /\ E \in SUBSET D /\ \A x \in E : f[x] = 0
    BY FS_Subset
  <1>1. over(f, {}) = 0
    BY OverTakes
  <1>2. ASSUME NEW U \in SUBSET E, U # {} PROVE \E x \in U : (U \ {x} \in G => U \in G)
    <2>1. PICK x \in U : TRUE
      BY <1>2
    <2>2. over(f, U) = f[x] + over(f, U \ {x})
      BY OverTakes
    <2>. QED  BY <1>0, <2>1, <2>2
  <1>. HIDE DEF E
  <1>3. {} \in G
    BY <1>1
  <1>. HIDE DEF G
  <1>4. E \in G
    BY <1>0, <1>2, <1>3, SetInduction
  <1>5. over(f, E) = 0
    BY <1>4 DEF G
  <1>6. over(f, D) = f[s] + over(f, E)
    BY OverTakes DEF E
  <1>. QED  BY <1>5, <1>6 DEF Ints

\* A sum of numbers no less than 0, and when it is 0.
LEMMA OverNat ==
  ASSUME NEW D, IsFiniteSet(D), NEW f, \A x \in D : f[x] \in Nat
  PROVE  over(f, D) \in Nat /\ (over(f, D) = 0 <=> \A x \in D : f[x] = 0)
  <1>0. Ints(f, D)
    BY DEF Ints
  <1>. DEFINE G == {U \in SUBSET D :
                      /\ over(f, U) \in Nat
                      /\ over(f, U) = 0 <=> \A x \in U : f[x] = 0}
  <1>1. {} \in G
    <2>1. over(f, {}) = 0
      BY <1>0, OverTakes
    <2>. QED  BY <2>1
  <1>2. ASSUME NEW U \in SUBSET D, U # {} PROVE \E x \in U : (U \ {x} \in G => U \in G)
    <2>1. PICK x \in U : TRUE
      BY <1>2
    <2>2. over(f, U) = f[x] + over(f, U \ {x})
      BY <1>0, OverTakes
    <2>3. f[x] \in Nat
      OBVIOUS
    <2>4. (\A y \in U : f[y] = 0) <=> f[x] = 0 /\ (\A y \in U \ {x} : f[y] = 0)
      OBVIOUS
    <2>. DEFINE W == U \ {x}
    <2>5. W \in SUBSET D
      OBVIOUS
    <2>. HIDE DEF W
    <2>6. ASSUME over(f, W) \in Nat, over(f, W) = 0 <=> \A y \in W : f[y] = 0
          PROVE  over(f, U) \in Nat /\ (over(f, U) = 0 <=> \A y \in U : f[y] = 0)
      BY <2>2, <2>3, <2>4, <2>6 DEF W
    <2>7. W \in G => U \in G
      BY <2>6
    <2>. QED  BY <2>7 DEF W
  <1>. HIDE DEF G
  <1>3. D \in G
    BY <1>1, <1>2, SetInduction
  <1>. QED  BY <1>3 DEF G

\* b carries the members of D to different ones of E, all of them.
Bijects(b, D, E) ==
    /\ \A x \in D : b[x] \in E
    /\ \A x, y \in D : b[x] = b[y] => x = y
    /\ \A z \in E : \E x \in D : b[x] = z

\* A sum taken in another way.
LEMMA OverBijects ==
  ASSUME NEW D, IsFiniteSet(D), NEW E, IsFiniteSet(E), NEW b, Bijects(b, D, E),
         NEW f, Ints(f, E), NEW h, \A x \in D : h[x] = f[b[x]]
  PROVE  over(h, D) = over(f, E)
  <1>0. Ints(h, D)
    BY DEF Ints, Bijects
  <1>. DEFINE image(U) == {b[x] : x \in U}
              G == {U \in SUBSET D : over(h, U) = over(f, image(U))}
  <1>1. {} \in G
    <2>1. over(h, {}) = 0 /\ over(f, {}) = 0
      BY <1>0, OverTakes
    <2>2. image({}) = {}
      OBVIOUS
    <2>. QED  BY <2>1, <2>2
  <1>2. ASSUME NEW U \in SUBSET D, U # {} PROVE \E x \in U : (U \ {x} \in G => U \in G)
    <2>1. PICK x \in U : TRUE
      BY <1>2
    <2>2. over(h, U) = h[x] + over(h, U \ {x})
      BY <1>0, OverTakes
    <2>3. image(U) \in SUBSET E /\ b[x] \in image(U)
      BY <2>1 DEF Bijects
    <2>4. image(U \ {x}) = image(U) \ {b[x]}
      BY <2>1 DEF Bijects
    <2>. HIDE DEF image
    <2>5. over(f, image(U)) = f[b[x]] + over(f, image(U) \ {b[x]})
      BY <2>3, OverTakes
    <2>. QED  BY <2>1, <2>2, <2>4, <2>5
  <1>3. image(D) = E
    BY DEF Bijects
  <1>. HIDE DEF G
  <1>4. D \in G
    BY <1>1, <1>2, SetInduction
  <1>. QED  BY <1>3, <1>4 DEF G

\* A sum that changes at one place.
LEMMA OverChanges ==
  ASSUME NEW D, IsFiniteSet(D), NEW f, Ints(f, D), NEW h, Ints(h, D),
         NEW s \in D, \A x \in D : x # s => h[x] = f[x]
  PROVE  over(h, D) = over(f, D) - f[s] + h[s]
  <1>. DEFINE E == D \ {s}
  <1>1. [x \in E |-> f[x]] = [x \in E |-> h[x]]
    OBVIOUS
  <1>2. over(f, E) = over(h, E)
    BY <1>1 DEF over
  <1>3. over(f, D) = f[s] + over(f, E) /\ over(h, D) = h[s] + over(h, E)
    BY OverTakes
  <1>4. over(f, E) \in Int /\ f[s] \in Int /\ h[s] \in Int
    <2>1. E \in SUBSET D
      OBVIOUS
    <2>. HIDE DEF E
    <2>. QED  BY <2>1, OverTakes DEF Ints
  <1>. HIDE DEF E
  <1>. QED  BY <1>2, <1>3, <1>4

\* total of a function, and sums that read the same values.
LEMMA TotalIsOver ==
  ASSUME NEW D, NEW f, f = [x \in D |-> f[x]]
  PROVE  total(f) = over(f, D)
  BY DEF over

\* Functions alike on a set have the same sum there.
LEMMA OverSame ==
  ASSUME NEW D, NEW f, NEW h, \A x \in D : h[x] = f[x]
  PROVE  over(h, D) = over(f, D)
  <1>1. [x \in D |-> h[x]] = [x \in D |-> f[x]]
    OBVIOUS
  <1>. QED  BY <1>1 DEF over

\* s is the members of S, in the order of R.
Arranged(s, R, S) ==
    /\ Len(s) \in Nat /\ Len(s) = Cardinality(S)
    /\ s = [n \in 1 .. Len(s) |-> s[n]]
    /\ Bijects(s, 1 .. Len(s), S)
    /\ \A m, n \in 1 .. Len(s) : m < n => <<s[m], s[n]>> \in R

\* A sequence that sorts S is one of its members, each once.
LEMMA SortsInOrder ==
  ASSUME NEW S, IsFiniteSet(S), NEW R, NEW s, Sorts(s, R, S)
  PROVE  Arranged(s, R, S)
  <1>1. s \in SetToSeqs(S) /\ \A m, n \in DOMAIN s : m < n => <<s[m], s[n]>> \in R
    BY DEF Sorts
  <1>2. /\ Len(s) \in Nat /\ Len(s) = Cardinality(S)
        /\ s \in [1 .. Len(s) -> S]
        /\ \A m, n \in 1 .. Len(s) : m # n => s[m] # s[n]
        /\ \A x \in S : \E n \in 1 .. Len(s) : s[n] = x
    BY <1>1, SeqsOf
  <1>3. DOMAIN s = 1 .. Len(s) /\ s = [n \in 1 .. Len(s) |-> s[n]]
    BY <1>2
  <1>4. Bijects(s, 1 .. Len(s), S)
    BY <1>2 DEF Bijects
  <1>. QED  BY <1>1, <1>2, <1>3, <1>4 DEF Arranged

\* The smaller number first.
Ascending(S) == {p \in S \X S : p[1] < p[2]}

\* order is the indices kept, in ascending order.
Indexes(order, kept) ==
    /\ Len(order) \in Nat /\ Len(order) = Cardinality(kept)
    /\ Bijects(order, 1 .. Len(order), kept)
    /\ \A m, n \in 1 .. Len(order) : m < n => order[m] < order[n]

\* t has what s has at these.
Selects(t, s, kept, order) ==
    /\ Indexes(order, kept)
    /\ t = [n \in 1 .. Len(order) |-> s[order[n]]]

\* What the model keeps of a sequence are the values at the indices kept, in the
\* order they had.
LEMMA SubsequenceIs ==
  ASSUME NEW kept, IsFiniteSet(kept), kept \subseteq Int, NEW s
  PROVE  \E order : Selects(subsequence(s, kept), s, kept, order)
  <1>. DEFINE R == Ascending(kept)
              order == CHOOSE t \in SetToSeqs(kept) :
                          \A m, n \in DOMAIN t : m < n => t[m] < t[n]
  <1>1. Ordering(R, kept)
    BY DEF Ordering, Ascending
  <1>2. PICK t : Sorts(t, R, kept)
    <2>. HIDE DEF R
    <2>. QED  BY <1>1, SortedExists
  <1>3. \A m, n \in DOMAIN t : m < n => t[m] < t[n]
    BY <1>2 DEF Sorts, Ascending
  <1>4. order \in SetToSeqs(kept) /\ \A m, n \in DOMAIN order : m < n => order[m] < order[n]
    <2>1. t \in SetToSeqs(kept)
      BY <1>2 DEF Sorts
    <2>. QED  BY <1>3, <2>1
  <1>5. subsequence(s, kept) = [n \in DOMAIN order |-> s[order[n]]]
    BY DEF subsequence, ranked
  <1>. HIDE DEF order
  <1>6. \A m \in DOMAIN order : order[m] \in kept
    BY <1>4 DEF SetToSeqs
  <1>7. Sorts(order, R, kept)
    BY <1>4, <1>6 DEF Sorts, Ascending
  <1>. HIDE DEF R
  <1>8. Arranged(order, R, kept)
    BY <1>7, SortsInOrder
  <1>9. DOMAIN order = 1 .. Len(order)
    BY <1>8 DEF Arranged
  <1>10. Indexes(order, kept)
    BY <1>4, <1>8, <1>9 DEF Arranged, Indexes
  <1>. QED  BY <1>5, <1>9, <1>10 DEF Selects

\* Everything kept is everything, where it was.
LEMMA SubsequenceWhole ==
  ASSUME NEW N \in Nat, NEW s
  PROVE  subsequence(s, 1 .. N) = [n \in 1 .. N |-> s[n]]
  <1>. DEFINE kept == 1 .. N
  <1>1. IsFiniteSet(kept) /\ Cardinality(kept) = N /\ kept \subseteq Int
    BY FS_Interval
  <1>. HIDE DEF kept
  <1>2. PICK order : Selects(subsequence(s, kept), s, kept, order)
    BY <1>1, SubsequenceIs
  <1>3. Len(order) = N
    BY <1>1, <1>2 DEF Indexes, Selects
  <1>4. /\ \A n \in 1 .. N : order[n] \in 1 .. N
        /\ \A m, n \in 1 .. N : m < n => order[m] < order[n]
    BY <1>2, <1>3 DEF Selects, Indexes, Bijects, kept
  <1>. DEFINE Low == {n \in Nat : n \in 1 .. N => order[n] >= n}
              High == {d \in Nat : N - d \in 1 .. N => order[N - d] <= N - d}
  <1>5. \A n \in 1 .. N : order[n] >= n
    <2>1. 0 \in Low
      OBVIOUS
    <2>2. ASSUME NEW n \in Nat, n \in Low PROVE n + 1 \in Low
      <3>. SUFFICES ASSUME n + 1 \in 1 .. N PROVE order[n + 1] >= n + 1
        OBVIOUS
      <3>1. CASE n = 0
        BY <1>4, <3>1
      <3>2. CASE n \in 1 .. N
        <4>1. order[n] < order[n + 1] /\ order[n] >= n /\ order[n] \in Int /\ order[n + 1] \in Int
          BY <1>4, <2>2, <3>2
        <4>. QED  BY <4>1
      <3>. QED  BY <3>1, <3>2
    <2>. HIDE DEF Low
    <2>3. \A n \in Nat : n \in Low
      BY <2>1, <2>2, Induction
    <2>. QED  BY <2>3 DEF Low
  <1>6. \A n \in 1 .. N : order[n] <= n
    <2>1. 0 \in High
      BY <1>4
    <2>2. ASSUME NEW d \in Nat, d \in High PROVE d + 1 \in High
      <3>. DEFINE n == N - (d + 1)
      <3>. SUFFICES ASSUME n \in 1 .. N PROVE order[n] <= n
        OBVIOUS
      <3>1. N - d = n + 1 /\ n + 1 \in 1 .. N /\ n < n + 1
        OBVIOUS
      <3>2. order[n + 1] <= n + 1
        BY <2>2, <3>1
      <3>. HIDE DEF n
      <3>3. order[n] < order[n + 1] /\ order[n] \in Int /\ order[n + 1] \in Int
        BY <1>4, <3>1
      <3>. QED  BY <3>2, <3>3
    <2>. HIDE DEF High
    <2>3. \A d \in Nat : d \in High
      BY <2>1, <2>2, Induction
    <2>4. ASSUME NEW n \in 1 .. N PROVE order[n] <= n
      <3>1. N - n \in Nat /\ N - (N - n) = n
        OBVIOUS
      <3>2. N - n \in High
        BY <2>3, <3>1
      <3>. QED  BY <3>1, <3>2 DEF High
    <2>. QED  BY <2>4
  <1>7. \A n \in 1 .. N : order[n] = n
    BY <1>4, <1>5, <1>6
  <1>. QED  BY <1>2, <1>3, <1>7 DEF kept, Selects

-----------------------------------------------------------------------------
(* Snapshots (ops.rs, consolidate.rs, merge.rs): comparing, combining, merging. *)

\* v is a vector of integers with the coordinates S.
IntVector(v, S) == v = [i \in S |-> v[i]] /\ Ints(v, S)

\* vec_ops.rs: the product of two vectors, and the square of a length.
LEMMA DotIs ==
  ASSUME NEW S, IsFiniteSet(S), NEW a, IntVector(a, S), NEW b, Ints(b, S)
  PROVE  /\ dot(a, b) \in Int
         /\ dot(a, b) = over([i \in S |-> a[i] * b[i]], S)
  <1>1. DOMAIN a = S /\ Ints(a, S)
    BY DEF IntVector, Ints
  <1>. DEFINE f == [i \in S |-> a[i] * b[i]]
  <1>2. Ints(f, S) /\ f = [x \in S |-> f[x]]
    BY <1>1 DEF Ints
  <1>3. dot(a, b) = total(f)
    BY <1>1 DEF dot
  <1>. HIDE DEF f
  <1>4. dot(a, b) = over(f, S)
    BY <1>2, <1>3, TotalIsOver
  <1>5. over(f, S) \in Int
    BY <1>2, OverTakes
  <1>. QED  BY <1>4, <1>5 DEF f

\* vec_ops.rs: a squared length is no less than 0, and 0 for the zero vector only.
LEMMA NormIs ==
  ASSUME NEW S, IsFiniteSet(S), NEW a, IntVector(a, S)
  PROVE  /\ norm2(a) \in Nat
         /\ norm2(a) = dot(a, a)
         /\ norm2(a) = 0 <=> \A i \in S : a[i] = 0
  <1>1. Ints(a, S)
    BY DEF IntVector, Ints
  <1>. DEFINE f == [i \in S |-> a[i] * a[i]]
  <1>2. norm2(a) = over(f, S)
    BY <1>1, DotIs DEF norm2
  <1>3. ASSUME NEW i \in S PROVE f[i] \in Nat /\ (f[i] = 0 <=> a[i] = 0)
    <2>1. a[i] \in Int /\ f[i] = a[i] * a[i]
      BY <1>1 DEF Ints
    <2>2. \A n \in Int : n * n \in Int /\ n * n >= 0 /\ (n * n = 0 <=> n = 0)
      OBVIOUS
    <2>. HIDE DEF f
    <2>. QED  BY <2>1, <2>2
  <1>. HIDE DEF f
  <1>4. over(f, S) \in Nat /\ (over(f, S) = 0 <=> \A i \in S : f[i] = 0)
    BY <1>3, OverNat
  <1>. QED  BY <1>2, <1>3, <1>4 DEF norm2

\* A fraction with a denominator above 0.
IsFraction(x) == x.num \in Int /\ x.den \in Nat \ {0}

\* vec_ops.rs: a cosine's square is a fraction.
LEMMA CosineIs ==
  ASSUME NEW S, IsFiniteSet(S), NEW a, IntVector(a, S), NEW b, IntVector(b, S)
  PROVE  IsFraction(cosine(a, b))
  <1>1. Ints(b, S)
    BY DEF IntVector, Ints
  <1>2. dot(a, b) \in Int /\ norm2(a) \in Nat /\ norm2(b) \in Nat
    BY <1>1, DotIs, NormIs
  <1>3. CASE norm2(a) = 0 \/ norm2(b) = 0
    BY <1>3 DEF cosine, IsFraction
  <1>4. CASE norm2(a) # 0 /\ norm2(b) # 0
    <2>. DEFINE c == dot(a, b)
                n == norm2(a)
                m == norm2(b)
    <2>1. cosine(a, b) = [num |-> IF c < 0 THEN -c * c ELSE c * c, den |-> n * m]
      BY <1>4 DEF cosine
    <2>2. n \in Nat \ {0} /\ m \in Nat \ {0} /\ c \in Int
      BY <1>2, <1>4
    <2>3. n * m \in Nat \ {0}
      <3>1. \A p, q \in Nat \ {0} : p * q \in Nat \ {0}
        OBVIOUS
      <3>. HIDE DEF n, m, c
      <3>. QED  BY <2>2, <3>1
    <2>4. (IF c < 0 THEN -c * c ELSE c * c) \in Int
      BY <2>2
    <2>. HIDE DEF n, m, c
    <2>. QED  BY <2>1, <2>3, <2>4 DEF IsFraction
  <1>. QED  BY <1>3, <1>4

\* Comparing fractions: not being above is transitive, and nothing is above itself.
LEMMA FractionsCompare ==
  ASSUME NEW x, IsFraction(x), NEW y, IsFraction(y), NEW z, IsFraction(z)
  PROVE  /\ ~above(x, x)
         /\ above(x, y) => ~above(y, x)
         /\ ~above(x, y) /\ ~above(y, z) => ~above(x, z)
  <1>1. /\ x.num \in Int /\ y.num \in Int /\ z.num \in Int
        /\ x.den \in Nat \ {0} /\ y.den \in Nat \ {0} /\ z.den \in Nat \ {0}
    BY DEF IsFraction
  <1>2. \A a, b, c \in Int, p, q, r \in Nat \ {0} :
           a * q <= b * p /\ b * r <= c * q => a * r <= c * p
    <2>. SUFFICES ASSUME NEW a \in Int, NEW b \in Int, NEW c \in Int,
                         NEW p \in Nat \ {0}, NEW q \in Nat \ {0}, NEW r \in Nat \ {0},
                         a * q <= b * p, b * r <= c * q
                  PROVE  a * r <= c * p
      OBVIOUS
    <2>1. \A m, n \in Int, k \in Nat : m <= n => m * k <= n * k
      OBVIOUS
    <2>2. a * q \in Int /\ b * p \in Int /\ b * r \in Int /\ c * q \in Int
      OBVIOUS
    <2>3. (a * q) * r <= (b * p) * r
      BY <2>1, <2>2
    <2>4. (b * r) * p <= (c * q) * p
      BY <2>1, <2>2
    <2>5. (b * p) * r = (b * r) * p
      OBVIOUS
    <2>6. (a * q) * r = (a * r) * q
      OBVIOUS
    <2>7. (c * q) * p = (c * p) * q
      OBVIOUS
    <2>. DEFINE m == a * r
                n == c * p
    <2>8. m \in Int /\ n \in Int /\ m * q \in Int /\ n * q \in Int
      OBVIOUS
    <2>9. m * q <= n * q
      <3>1. (b * p) * r \in Int
        OBVIOUS
      <3>. HIDE DEF m, n
      <3>. QED  BY <2>3, <2>4, <2>5, <2>6, <2>7, <2>8, <3>1 DEF m, n
    <2>10. \A u, v \in Int, k \in Nat \ {0} : u * k <= v * k => u <= v
      OBVIOUS
    <2>. HIDE DEF m, n
    <2>11. m <= n
      BY <2>8, <2>9, <2>10
    <2>. QED  BY <2>11 DEF m, n
  <1>. DEFINE xy == x.num * y.den
              yx == y.num * x.den
              yz == y.num * z.den
              zy == z.num * y.den
              xz == x.num * z.den
              zx == z.num * x.den
  <1>3. /\ xy \in Int /\ yx \in Int /\ yz \in Int /\ zy \in Int /\ xz \in Int /\ zx \in Int
        /\ x.num * x.den \in Int
    BY <1>1
  <1>4. xy <= yx /\ yz <= zy => xz <= zx
    BY <1>1, <1>2
  <1>5. /\ above(x, y) <=> xy > yx
        /\ above(y, x) <=> yx > xy
        /\ above(y, z) <=> yz > zy
        /\ above(x, z) <=> xz > zx
        /\ above(x, x) <=> x.num * x.den > x.num * x.den
    BY DEF above
  <1>. HIDE DEF xy, yx, yz, zy, xz, zx
  <1>. QED  BY <1>3, <1>4, <1>5

\* By similarity, and then as T has them.
LEMMA SimOrders ==
  ASSUME NEW S, NEW score, \A x \in S : IsFraction(score[x]), NEW T, Ordering(T, S), NEW R,
         \A x, y \in S : <<x, y>> \in R 
            <=> above(score[x], score[y]) \/ (~above(score[y], score[x]) /\ <<x, y>> \in T)
  PROVE  Ordering(R, S)
  <1>. DEFINE up(x, y) == above(score[x], score[y])
  <1>1. \A x, y \in S : up(x, y) => ~up(y, x)
    BY FractionsCompare
  <1>2. \A x, y, z \in S : ~up(x, y) /\ ~up(y, z) => ~up(x, z)
    BY FractionsCompare
  <1>3. \A x, y \in S : <<x, y>> \in R <=> up(x, y) \/ (~up(y, x) /\ <<x, y>> \in T)
    OBVIOUS
  <1>. HIDE DEF up
  <1>4. \A x, y \in S : x # y => <<x, y>> \in R \/ <<y, x>> \in R
    BY <1>1, <1>3 DEF Ordering
  <1>5. ASSUME NEW x \in S, NEW y \in S, NEW z \in S, <<x, y>> \in R, <<y, z>> \in R
        PROVE  <<x, z>> \in R
    <2>1. ~up(y, x) /\ ~up(z, y)
      BY <1>1, <1>3, <1>5
    <2>2. ~up(z, x)
      BY <1>2, <2>1
    <2>3. CASE up(x, z)
      BY <1>3, <2>3
    <2>4. CASE ~up(x, z)
      <3>1. ~up(x, y) /\ ~up(y, z)
        BY <1>2, <2>1, <2>4
      <3>. QED  BY <1>3, <1>5, <2>2, <3>1 DEF Ordering
    <2>. QED  BY <2>3, <2>4
  <1>. QED  BY <1>4, <1>5 DEF Ordering

\* ops.rs: the partners of a location are as many as the limit, of those there are.
LEMMA MostSimilarAre ==
  ASSUME NEW N \in Nat, NEW sims, DOMAIN sims = 1 .. N, \A i \in 1 .. N : IsFraction(sims[i]),
         NEW k \in 0 .. N
  PROVE  /\ DOMAIN most_similar(sims, k) = 1 .. k
         /\ Len(most_similar(sims, k)) = k
         /\ \A n \in 1 .. k : most_similar(sims, k)[n] \in 1 .. N
  <1>. DEFINE S == 1 .. N
              T == Ascending(S)
              R == {p \in S \X S : \/ above(sims[p[1]], sims[p[2]])
                                   \/ ~above(sims[p[2]], sims[p[1]]) /\ p[1] < p[2]}
              s == CHOOSE t \in SetToSeqs(S) : \A m, n \in DOMAIN t : m < n =>
                      \/ above(sims[t[m]], sims[t[n]])
                      \/ ~above(sims[t[n]], sims[t[m]]) /\ t[m] < t[n]
  <1>0. IsFiniteSet(S) /\ Cardinality(S) = N
    BY FS_Interval
  <1>1. most_similar(sims, k) = SubSeq(s, 1, k)
    BY DEF most_similar, ranked
  <1>2. Ordering(T, S)
    BY DEF Ordering, Ascending
  <1>3. \A x, y \in S : <<x, y>> \in R 
            <=> above(sims[x], sims[y]) \/ (~above(sims[y], sims[x]) /\ <<x, y>> \in T)
    BY DEF Ascending
  <1>4. Ordering(R, S)
    <2>. HIDE DEF R, T, S
    <2>1. \A x \in S : IsFraction(sims[x])
      BY DEF S
    <2>. QED  BY <1>2, <1>3, <2>1, SimOrders
  <1>5. PICK t : Sorts(t, R, S)
    <2>. HIDE DEF R, S
    <2>. QED  BY <1>0, <1>4, SortedExists
  <1>6. t \in SetToSeqs(S) /\ \A m, n \in DOMAIN t : m < n =>
           \/ above(sims[t[m]], sims[t[n]])
           \/ ~above(sims[t[n]], sims[t[m]]) /\ t[m] < t[n]
    BY <1>5 DEF Sorts
  <1>7. s \in SetToSeqs(S)
    BY <1>6
  <1>. HIDE DEF s, R, T
  <1>8. Len(s) = N /\ s \in [1 .. N -> S]
    <2>. HIDE DEF S
    <2>. QED  BY <1>0, <1>7, SeqsOf
  <1>9. s \in Seq(S)
    BY <1>8
  <1>. QED  BY <1>1, <1>8, <1>9

\* The same for a crossed row.
wide(n_b, k) == IF k = 0 \/ k >= n_b THEN n_b ELSE k

\* locations has N locations with addresses of the coordinates S.
Placed(locations, N, S) ==
    /\ N \in Nat /\ locations = [n \in 1 .. N |-> locations[n]]
    /\ \A n \in 1 .. N : IntVector(locations[n].address, S)

\* ops.rs: what a location is combined with are so many locations of b.
LEMMA PartnersAre ==
  ASSUME NEW S, IsFiniteSet(S), NEW l, IntVector(l.address, S),
         NEW b, NEW N, Placed(b, N, S), NEW k \in Nat
  PROVE  /\ wide(N, k) \in 0 .. N /\ Len(b) = N
         /\ DOMAIN partners(l, b, k) = 1 .. wide(N, k)
         /\ \A n \in 1 .. wide(N, k) : partners(l, b, k)[n] \in 1 .. N
  <1>1. N \in Nat /\ DOMAIN b = 1 .. N /\ Len(b) = N
    BY DEF Placed
  <1>2. wide(N, k) \in 0 .. N
    BY <1>1 DEF wide
  <1>3. CASE k = 0 \/ k >= N
    BY <1>1, <1>2, <1>3 DEF partners, wide
  <1>4. CASE ~(k = 0 \/ k >= N)
    <2>. DEFINE sims == [j \in 1 .. N |-> cosine(l.address, b[j].address)]
    <2>1. partners(l, b, k) = most_similar(sims, k)
      BY <1>1, <1>4 DEF partners
    <2>2. ASSUME NEW i \in 1 .. N PROVE IsFraction(sims[i])
      <3>1. IntVector(b[i].address, S)
        BY DEF Placed
      <3>2. IsFraction(cosine(l.address, b[i].address))
        BY <3>1, CosineIs
      <3>. QED  BY <3>2
    <2>3. DOMAIN sims = 1 .. N
      OBVIOUS
    <2>4. k \in 0 .. N /\ wide(N, k) = k
      BY <1>1, <1>4 DEF wide
    <2>. HIDE DEF sims
    <2>. QED  BY <1>1, <1>2, <2>1, <2>2, <2>3, <2>4, MostSimilarAre
  <1>. QED  BY <1>1, <1>2, <1>3, <1>4

\* p is a pair of usable locations closer than tau.
IsPair(p, locations, N, tau) ==
    /\ p.i \in 1 .. N /\ p.j \in 1 .. N /\ p.i # p.j
    /\ p.sim = cosine(locations[p.i].address, locations[p.j].address)
    /\ norm2(locations[p.i].address) > 0 /\ norm2(locations[p.j].address) > 0
    /\ above(p.sim, tau)

\* merge.rs: what a consolidation goes through.
LEMMA MergePairsAre ==
  ASSUME NEW S, IsFiniteSet(S), NEW locations, NEW N, Placed(locations, N, S), NEW tau
  PROVE  /\ Len(merge_pairs(locations, tau)) \in Nat
         /\ DOMAIN merge_pairs(locations, tau) = 1 .. Len(merge_pairs(locations, tau))
         /\ \A m \in DOMAIN merge_pairs(locations, tau) :
               IsPair(merge_pairs(locations, tau)[m], locations, N, tau)
  <1>. DEFINE D == 1 .. N
              usable == {i \in DOMAIN locations : norm2(locations[i].address) > 0}
              pair(i, j) == [i |-> i, j |-> j,
                             sim |-> cosine(locations[i].address, locations[j].address)]
              pairs == {pair(p[1], p[2]) : p \in {p \in usable \X usable : p[1] # p[2]}}
              before(p, q) == \/ above(p.sim, q.sim)
                              \/ ~above(q.sim, p.sim) /\ (p.i < q.i \/ (p.i = q.i /\ p.j < q.j))
              nn == {p \in pairs : \A q \in pairs : before(q, p) => q.i # p.i}
              close == {p \in nn : above(p.sim, tau)}
              s == CHOOSE t \in SetToSeqs(close) :
                      \A m, n \in DOMAIN t : m < n => before(t[m], t[n])
              T == {p \in close \X close : \/ p[1].i < p[2].i
                                           \/ p[1].i = p[2].i /\ p[1].j < p[2].j}
              R == {p \in close \X close : before(p[1], p[2])}
  <1>1. merge_pairs(locations, tau) = s
    BY DEF merge_pairs, ranked
  <1>2. DOMAIN locations = D /\ \A i \in D : IntVector(locations[i].address, S)
    BY DEF Placed
  <1>3. ASSUME NEW p \in pairs
        PROVE  /\ p.i \in D /\ p.j \in D /\ p.i # p.j
               /\ p = pair(p.i, p.j)
               /\ p.sim = cosine(locations[p.i].address, locations[p.j].address)
               /\ norm2(locations[p.i].address) > 0 /\ norm2(locations[p.j].address) > 0
               /\ IsFraction(p.sim)
    <2>1. PICK x \in usable, y \in usable : x # y /\ p = pair(x, y)
      OBVIOUS
    <2>2. p.i = x /\ p.j = y /\ p.sim = cosine(locations[x].address, locations[y].address)
      BY <2>1
    <2>3. x \in D /\ y \in D
      BY <1>2
    <2>4. IsFraction(p.sim)
      BY <1>2, <2>2, <2>3, CosineIs
    <2>5. norm2(locations[x].address) > 0 /\ norm2(locations[y].address) > 0
      OBVIOUS
    <2>. QED  BY <2>1, <2>2, <2>3, <2>4, <2>5
  <1>4. close \in SUBSET pairs
    OBVIOUS
  <1>5. IsFiniteSet(close)
    <2>0. N \in Nat
      BY DEF Placed
    <2>1. IsFiniteSet(D)
      <3>. HIDE DEF close, pairs, nn, T, R, s
      <3>. QED  BY <2>0, FS_Interval
    <2>2. IsFiniteSet(D \X D)
      <3>. HIDE DEF D
      <3>. QED  BY <2>1, FS_Product
    <2>. DEFINE f == [x \in D \X D |-> pair(x[1], x[2])]
                A == D \X D
                B == {f[x] : x \in A}
    <2>3. f \in [A -> B] /\ \A y \in B : \E x \in A : f[x] = y
      OBVIOUS
    <2>4. pairs \in SUBSET B
      BY <1>3
    <2>5. IsFiniteSet(B)
      <3>1. f \in Surjection(A, B)
        BY <2>3 DEF Surjection
      <3>. HIDE DEF f, A, B, D
      <3>. QED  BY <2>2, <3>1, FS_Surjection DEF A
    <2>6. close \in SUBSET B
      <3>. HIDE DEF close, pairs, B
      <3>. QED  BY <1>4, <2>4
    <2>. HIDE DEF close, B
    <2>. QED  BY <2>5, <2>6, FS_Subset
  <1>6. \A p \in close : above(p.sim, tau)
    OBVIOUS
  <1>7. \A x, y \in close : <<x, y>> \in T <=> x.i < y.i \/ (x.i = y.i /\ x.j < y.j)
    <2>. HIDE DEF close
    <2>. QED  OBVIOUS
  <1>8. \A x, y \in close : <<x, y>> \in R <=> before(x, y)
    <2>. HIDE DEF close, before
    <2>. QED  OBVIOUS
  <1>9. \A x, y \in close : <<x, y>> \in R
            <=> above(x.sim, y.sim) \/ (~above(y.sim, x.sim) /\ <<x, y>> \in T)
    <2>. HIDE DEF close, R, T
    <2>. QED  BY <1>7, <1>8
  <1>10. \A x \in close : x \in pairs /\ x.i \in D /\ x.j \in D /\ x = pair(x.i, x.j) /\ IsFraction(x.sim)
    <2>. HIDE DEF close, pairs, pair, D
    <2>. QED  BY <1>3, <1>4
  <1>. HIDE DEF close, pairs, nn, T, R
  <1>11. Ordering(T, close)
    <2>1. \A x, y \in close : x # y => x.i # y.i \/ x.j # y.j
      BY <1>10
    <2>2. \A x \in close : x.i \in Int /\ x.j \in Int
      BY <1>10
    <2>3. \A x, y \in close : x # y => <<x, y>> \in T \/ <<y, x>> \in T
      BY <1>7, <2>1, <2>2
    <2>4. \A x, y, z \in close : <<x, y>> \in T /\ <<y, z>> \in T => <<x, z>> \in T
      BY <1>7, <2>2
    <2>. QED  BY <2>3, <2>4 DEF Ordering
  <1>12. Ordering(R, close)
    <2>. DEFINE score == [x \in close |-> x.sim]
    <2>1. \A x \in close : score[x] = x.sim /\ IsFraction(score[x])
      BY <1>10
    <2>. HIDE DEF score
    <2>2. \A x, y \in close : <<x, y>> \in R
            <=> above(score[x], score[y]) \/ (~above(score[y], score[x]) /\ <<x, y>> \in T)
      BY <1>9, <2>1
    <2>. QED  BY <1>11, <2>1, <2>2, SimOrders
  <1>13. PICK t : Sorts(t, R, close)
    BY <1>5, <1>12, SortedExists
  <1>14. t \in SetToSeqs(close) /\ \A m, n \in DOMAIN t : m < n => before(t[m], t[n])
    <2>1. t \in SetToSeqs(close) /\ \A m, n \in DOMAIN t : m < n => <<t[m], t[n]>> \in R
      BY <1>13 DEF Sorts
    <2>2. \A m \in DOMAIN t : t[m] \in close
      BY <2>1 DEF SetToSeqs
    <2>. HIDE DEF before
    <2>. QED  BY <1>8, <2>1, <2>2
  <1>15. s \in SetToSeqs(close)
    <2>. HIDE DEF before
    <2>. QED  BY <1>14
  <1>. HIDE DEF s
  <1>16. Len(s) \in Nat /\ s \in [1 .. Len(s) -> close]
    BY <1>5, <1>15, SeqsOf
  <1>17. \A p \in close : IsPair(p, locations, N, tau)
    <2>. HIDE DEF pair
    <2>. QED  BY <1>3, <1>6, <1>10 DEF IsPair
  <1>. QED  BY <1>1, <1>16, <1>17

\* Locations with vectors of integers over S.
Locs(S) == [address : [S -> Int], counter : [S -> Int], writes : Nat, id : Int]

\* N of them, some merged into others.
Merges(N, S) == [locs : [1 .. N -> Locs(S)], merged : [1 .. N -> BOOLEAN]]

\* a is st, with location j merged into i.
Absorbed(a, st, i, j, N) ==
    /\ \A n \in 1 .. N : a.merged[n] <=> st.merged[n] \/ n = j
    /\ \A n \in 1 .. N : n # i => a.locs[n] = st.locs[n]
    /\ a.locs[i].address = st.locs[i].address
    /\ a.locs[i].counter = plus(st.locs[i].counter, st.locs[j].counter)
    /\ a.locs[i].writes = st.locs[i].writes + st.locs[j].writes

\* Taking one pair, in full.
LEMMA AbsorbIs ==
  ASSUME NEW N \in Nat, NEW S, NEW st \in Merges(N, S),
         NEW p, p.i \in 1 .. N, p.j \in 1 .. N, p.i # p.j
  PROVE  /\ absorb(st, p) \in Merges(N, S)
         /\ st.merged[p.i] \/ st.merged[p.j] => absorb(st, p) = st
         /\ ~(st.merged[p.i] \/ st.merged[p.j]) => Absorbed(absorb(st, p), st, p.i, p.j, N)
  <1>. DEFINE i == p.i
              j == p.j
              l == st.locs[i]
              m == st.locs[j]
              e == [l EXCEPT !.counter = plus(@, m.counter), !.writes = @ + m.writes]
  <1>1. st.locs \in [1 .. N -> Locs(S)] /\ st.merged \in [1 .. N -> BOOLEAN]
    BY DEF Merges
  <1>2. l \in Locs(S) /\ m \in Locs(S)
    BY <1>1
  <1>3. CASE st.merged[i] \/ st.merged[j]
    BY <1>3 DEF absorb, absorbing
  <1>4. CASE ~(st.merged[i] \/ st.merged[j])
    <2>1. absorb(st, p) = [locs |-> [st.locs EXCEPT ![i].counter = plus(@, st.locs[j].counter),
                                                   ![i].writes = @ + st.locs[j].writes],
                          merged |-> [st.merged EXCEPT ![j] = TRUE]]
      BY <1>4 DEF absorb, absorbing
    <2>2. [st.locs EXCEPT ![i].counter = plus(@, st.locs[j].counter),
                          ![i].writes = @ + st.locs[j].writes]
            = [st.locs EXCEPT ![i] = e]
      BY <1>1, <1>2 DEF Locs
    <2>3. e \in Locs(S)
      <3>1. plus(l.counter, m.counter) \in [S -> Int]
        BY <1>2 DEF plus, Locs
      <3>2. l.writes + m.writes \in Nat
        BY <1>2 DEF Locs
      <3>. QED  BY <1>2, <3>1, <3>2 DEF Locs
    <2>. HIDE DEF e, l, m
    <2>4. absorb(st, p) = [locs |-> [st.locs EXCEPT ![i] = e], merged |-> [st.merged EXCEPT ![j] = TRUE]]
      BY <2>1, <2>2
    <2>5. absorb(st, p) \in Merges(N, S)
      BY <1>1, <2>3, <2>4 DEF Merges
    <2>. DEFINE a == absorb(st, p)
    <2>6. a.locs = [st.locs EXCEPT ![i] = e] /\ a.merged = [st.merged EXCEPT ![j] = TRUE]
      BY <2>4
    <2>. HIDE DEF a
    <2>7. e.address = l.address /\ e.counter = plus(l.counter, m.counter) /\ e.writes = l.writes + m.writes
      BY <1>2 DEF e, Locs
    <2>8. \A n \in 1 .. N : a.merged[n] <=> st.merged[n] \/ n = j
      BY <1>1, <2>6
    <2>9. /\ \A n \in 1 .. N : n # i => a.locs[n] = st.locs[n]
          /\ a.locs[i] = e
      BY <1>1, <2>6
    <2>10. Absorbed(a, st, i, j, N)
      BY <2>7, <2>8, <2>9 DEF Absorbed, l, m
    <2>. QED  BY <1>4, <2>5, <2>10 DEF a
  <1>. QED  BY <1>3, <1>4

\* Where a consolidation begins.
Unmerged(locations, N) == [locs |-> locations, merged |-> [i \in 1 .. N |-> FALSE]]

\* h has what the locations are after each of the pairs.
Absorbs(h, locations, pairs, N, S) ==
    /\ h[0] = Unmerged(locations, N)
    /\ \A m \in 1 .. Len(pairs) : h[m - 1] \in Merges(N, S) /\ h[m] = absorb(h[m - 1], pairs[m])
    /\ h[Len(pairs)] \in Merges(N, S)

\* Locations have addresses to compare.
LEMMA SnapshotsPlaced ==
  ASSUME NEW S, NEW N \in Nat, NEW locations \in [1 .. N -> Locs(S)]
  PROVE  Placed(locations, N, S)
  BY DEF Placed, Locs, IntVector, Ints

\* merge.rs: the loop over the pairs.
LEMMA MergeUnfolds ==
  ASSUME NEW S, IsFiniteSet(S), NEW N \in Nat, NEW locations \in [1 .. N -> Locs(S)], NEW tau
  PROVE  \E h : /\ Absorbs(h, locations, merge_pairs(locations, tau), N, S)
                /\ knn_merge(locations, tau) = survivors(h[Len(merge_pairs(locations, tau))])
  <1>. DEFINE pairs == merge_pairs(locations, tau)
              M == Len(pairs)
              base == Unmerged(locations, N)
              V == Merges(N, S)
              Body(it) == [U \in SUBSET (1 .. M) |->
                             IF U = {} THEN base ELSE absorb(it[U \ {Max(U)}], pairs[Max(U)])]
              it == CHOOSE it : it = Body(it)
              step == [x \in (1 .. M) \X V |-> absorb(x[2], pairs[x[1]])]
  <1>1. /\ M \in Nat /\ DOMAIN pairs = 1 .. M
        /\ \A m \in 1 .. M : IsPair(pairs[m], locations, N, tau)
    BY SnapshotsPlaced, MergePairsAre
  <1>2. knn_merge(locations, tau) = survivors(it[1 .. M])
    <2>. HIDE DEF pairs
    <2>1. DOMAIN locations = 1 .. N
      OBVIOUS
    <2>2. FoldLeft(absorb, base, pairs) = it[1 .. M]
      BY <1>1 DEF FoldLeft, MapThenFoldSet
    <2>. HIDE DEF it
    <2>3. knn_merge(locations, tau) = survivors(FoldLeft(absorb, base, pairs))
      BY <2>1 DEF knn_merge, pairs, Unmerged
    <2>. QED  BY <2>2, <2>3
  <1>. HIDE DEF pairs, M
  <1>3. ASSUME NEW n \in 1 .. M, NEW v \in V
        PROVE  step[<<n, v>>] = absorb(v, pairs[n]) /\ step[<<n, v>>] \in V
    <2>1. step[<<n, v>>] = absorb(v, pairs[n])
      OBVIOUS
    <2>. HIDE DEF step
    <2>2. pairs[n].i \in 1 .. N /\ pairs[n].j \in 1 .. N /\ pairs[n].i # pairs[n].j
      BY <1>1 DEF IsPair
    <2>3. absorb(v, pairs[n]) \in V
      BY <2>2, AbsorbIs
    <2>. QED  BY <2>1, <2>3
  <1>4. base \in V
    BY DEF Unmerged, Merges
  <1>. HIDE DEF step, V, base
  <1>5. PICK g \in [SUBSET (1 .. M) -> V] : FoldsTo(g, M, base, step)
    <2>1. Steps(step, M, V, base)
      BY <1>3, <1>4 DEF Steps
    <2>. QED  BY <1>1, <2>1, FoldUnfolds
  <1>6. g = Body(g)
    <2>1. \A U \in SUBSET (1 .. M) : U # {} => Max(U) \in 1 .. M
      BY <1>1, PartOfInterval
    <2>2. ASSUME NEW U \in SUBSET (1 .. M), U # {}
          PROVE  step[<<Max(U), g[U \ {Max(U)}]>>] = absorb(g[U \ {Max(U)}], pairs[Max(U)])
      <3>1. g[U \ {Max(U)}] \in V
        OBVIOUS
      <3>. QED  BY <1>3, <2>1, <2>2, <3>1
    <2>3. \A U \in SUBSET (1 .. M) :
             g[U] = IF U = {} THEN base ELSE absorb(g[U \ {Max(U)}], pairs[Max(U)])
      BY <1>5, <2>2 DEF FoldsTo
    <2>. QED  BY <2>3
  <1>7. it = Body(it)
    <2>. HIDE DEF Body
    <2>. QED  BY <1>6
  <1>. HIDE DEF it
  <1>. DEFINE h == [n \in 0 .. M |-> it[1 .. n]]
  <1>8. \A U \in SUBSET (1 .. M) :
           it[U] = IF U = {} THEN base ELSE absorb(it[U \ {Max(U)}], pairs[Max(U)])
    BY <1>7
  <1>9. h[0] = base
    <2>1. h[0] = it[{}] /\ {} \in SUBSET (1 .. M)
      BY <1>1
    <2>. QED  BY <1>8, <2>1
  <1>10. ASSUME NEW n \in 1 .. M PROVE h[n] = absorb(h[n - 1], pairs[n])
    <2>1. h[n] = it[1 .. n] /\ h[n - 1] = it[1 .. n - 1]
      BY <1>1
    <2>. DEFINE U == 1 .. n
    <2>2. U \in SUBSET (1 .. M) /\ U # {} /\ Max(U) = n /\ U \ {Max(U)} = 1 .. n - 1
      BY <1>1, FoldPrefixes
    <2>. HIDE DEF h, U
    <2>3. it[U] = absorb(it[1 .. n - 1], pairs[n])
      BY <1>8, <2>2
    <2>. QED  BY <2>1, <2>3 DEF U
  <1>11. h[M] = it[1 .. M]
    BY <1>1
  <1>. HIDE DEF h
  <1>. DEFINE T == {n \in Nat : n \in 0 .. M => h[n] \in V}
  <1>12. \A n \in 0 .. M : h[n] \in V
    <2>1. 0 \in T
      BY <1>4, <1>9
    <2>2. ASSUME NEW n \in Nat, n \in T PROVE n + 1 \in T
      <3>. SUFFICES ASSUME n + 1 \in 0 .. M PROVE h[n + 1] \in V
        OBVIOUS
      <3>1. h[n] \in V /\ n + 1 \in 1 .. M /\ (n + 1) - 1 = n
        BY <1>1, <2>2
      <3>2. h[n + 1] = absorb(h[n], pairs[n + 1])
        BY <1>10, <3>1
      <3>. QED  BY <1>3, <3>1, <3>2
    <2>. HIDE DEF T
    <2>3. \A n \in Nat : n \in T
      BY <2>1, <2>2, Induction
    <2>. QED  BY <1>1, <2>3 DEF T
  <1>13. Absorbs(h, locations, pairs, N, S)
    <2>1. \A m \in 1 .. M : m - 1 \in 0 .. M
      BY <1>1
    <2>2. M \in 0 .. M
      BY <1>1
    <2>. QED  BY <1>9, <1>10, <1>12, <2>1, <2>2 DEF Absorbs, M, base, V
  <1>. QED  BY <1>2, <1>11, <1>13 DEF pairs, M

\* What one of a set hands to another stays in the sum.
LEMMA OverMoves ==
  ASSUME NEW D, IsFiniteSet(D), NEW f, Ints(f, D), NEW e, Ints(e, D), NEW U \in SUBSET D,
         NEW i \in U, NEW j \in U, i # j,
         e[i] = f[i] + f[j], \A n \in D : n # i => e[n] = f[n]
  PROVE  over(e, U \ {j}) = over(f, U)
  <1>. DEFINE W == U \ {j}
  <1>1. IsFiniteSet(W) /\ Ints(f, W) /\ Ints(e, W) /\ i \in W
    BY FS_Subset DEF Ints
  <1>2. over(f, U) = f[j] + over(f, W)
    BY OverTakes
  <1>3. \A n \in W : n # i => e[n] = f[n]
    OBVIOUS
  <1>. HIDE DEF W
  <1>4. over(e, W) = over(f, W) - f[i] + e[i]
    BY <1>1, <1>3, OverChanges
  <1>5. over(f, W) \in Int
    BY <1>1, OverTakes
  <1>6. f[i] \in Int /\ f[j] \in Int
    BY DEF Ints
  <1>. QED  BY <1>2, <1>4, <1>5, <1>6 DEF W

\* One coordinate of the counters, and the writes.
CountersAt(ls, c, N) == [n \in 1 .. N |-> ls[n].counter[c]]
WritesAt(ls, N) == [n \in 1 .. N |-> ls[n].writes]

\* The locations not merged into others.
Left(st, N) == {n \in 1 .. N : ~st.merged[n]}

\* st has what the locations had, in what is left.
Kept(st, locations, N, S) ==
    /\ \A c \in S : over(CountersAt(st.locs, c, N), Left(st, N))
                      = over(CountersAt(locations, c, N), 1 .. N)
    /\ over(WritesAt(st.locs, N), Left(st, N)) = over(WritesAt(locations, N), 1 .. N)

\* They are integers.
LEMMA CountsAre ==
  ASSUME NEW S, NEW N \in Nat, NEW ls \in [1 .. N -> Locs(S)]
  PROVE  /\ \A c \in S : Ints(CountersAt(ls, c, N), 1 .. N)
         /\ Ints(WritesAt(ls, N), 1 .. N)
  BY DEF Ints, CountersAt, WritesAt, Locs

\* merge.rs: one pair merged keeps every count and every write.
LEMMA AbsorbKeeps ==
  ASSUME NEW N \in Nat, NEW S, NEW st \in Merges(N, S),
         NEW p, p.i \in 1 .. N, p.j \in 1 .. N, p.i # p.j,
         NEW locations, Kept(st, locations, N, S)
  PROVE  Kept(absorb(st, p), locations, N, S)
  <1>. DEFINE a == absorb(st, p)
              D == 1 .. N
              U == Left(st, N)
  <1>1. CASE st.merged[p.i] \/ st.merged[p.j]
    <2>1. a = st
      BY <1>1, AbsorbIs
    <2>. QED  BY <2>1
  <1>2. CASE ~(st.merged[p.i] \/ st.merged[p.j])
    <2>1. a \in Merges(N, S)
      BY AbsorbIs
    <2>2. Absorbed(a, st, p.i, p.j, N)
      BY <1>2, AbsorbIs
    <2>. HIDE DEF a
    <2>5. /\ st.locs \in [D -> Locs(S)] /\ st.merged \in [D -> BOOLEAN]
          /\ a.locs \in [D -> Locs(S)]
      BY <2>1 DEF Merges
    <2>3. \A n \in D : n # p.i => a.locs[n] = st.locs[n]
      BY <2>2 DEF Absorbed
    <2>6. U \in SUBSET D /\ p.i \in U /\ p.j \in U /\ Left(a, N) = U \ {p.j}
      BY <1>2, <2>2, <2>5 DEF Left, Absorbed
    <2>7. IsFiniteSet(D)
      BY FS_Interval
    <2>8. ASSUME NEW c \in S
          PROVE  over(CountersAt(a.locs, c, N), Left(a, N)) = over(CountersAt(st.locs, c, N), U)
      <3>. DEFINE f == CountersAt(st.locs, c, N)
                  e == CountersAt(a.locs, c, N)
      <3>1. Ints(f, D) /\ Ints(e, D)
        BY <2>5, CountsAre
      <3>2. \A n \in D : n # p.i => e[n] = f[n]
        BY <2>3 DEF CountersAt
      <3>3. e[p.i] = f[p.i] + f[p.j]
        <4>1. st.locs[p.i] \in Locs(S) /\ st.locs[p.j] \in Locs(S)
          BY <2>5
        <4>2. a.locs[p.i].counter = plus(st.locs[p.i].counter, st.locs[p.j].counter)
          BY <2>2 DEF Absorbed
        <4>3. a.locs[p.i].counter[c] = st.locs[p.i].counter[c] + st.locs[p.j].counter[c]
          BY <4>1, <4>2 DEF plus, Locs
        <4>. QED  BY <4>3 DEF CountersAt
      <3>. HIDE DEF f, e, D, U
      <3>4. over(e, U \ {p.j}) = over(f, U)
        BY <2>6, <2>7, <3>1, <3>2, <3>3, OverMoves
      <3>. QED  BY <2>6, <3>4 DEF f, e
    <2>9. over(WritesAt(a.locs, N), Left(a, N)) = over(WritesAt(st.locs, N), U)
      <3>. DEFINE f == WritesAt(st.locs, N)
                  e == WritesAt(a.locs, N)
      <3>1. Ints(f, D) /\ Ints(e, D)
        BY <2>5, CountsAre
      <3>2. \A n \in D : n # p.i => e[n] = f[n]
        BY <2>3 DEF WritesAt
      <3>3. e[p.i] = f[p.i] + f[p.j]
        <4>2. a.locs[p.i].writes = st.locs[p.i].writes + st.locs[p.j].writes
          BY <2>2 DEF Absorbed
        <4>. QED  BY <4>2 DEF WritesAt
      <3>. HIDE DEF f, e, D, U
      <3>4. over(e, U \ {p.j}) = over(f, U)
        BY <2>6, <2>7, <3>1, <3>2, <3>3, OverMoves
      <3>. QED  BY <2>6, <3>4 DEF f, e
    <2>. HIDE DEF U
    <2>. QED  BY <2>8, <2>9 DEF Kept, a, U
  <1>. QED  BY <1>1, <1>2

\* res is L locations that have what the N locations had.
Conserves(res, L, locations, N, S) ==
    /\ L \in 0 .. N
    /\ res \in [1 .. L -> Locs(S)]
    /\ \A c \in S : over(CountersAt(res, c, L), 1 .. L) = over(CountersAt(locations, c, N), 1 .. N)
    /\ over(WritesAt(res, L), 1 .. L) = over(WritesAt(locations, N), 1 .. N)

\* merge.rs: what is left, in order, has them all.
LEMMA SurvivorsConserve ==
  ASSUME NEW N \in Nat, NEW S, NEW st \in Merges(N, S), NEW locations, Kept(st, locations, N, S)
  PROVE  \E L : Conserves(survivors(st), L, locations, N, S)
  <1>. DEFINE U == Left(st, N)
              D == 1 .. N
              ls == st.locs
  <1>1. ls \in [D -> Locs(S)]
    BY DEF Merges
  <1>2. survivors(st) = subsequence(ls, U)
    BY <1>1 DEF survivors, Left
  <1>3. U \in SUBSET D /\ IsFiniteSet(D) /\ Cardinality(D) = N
    BY FS_Interval DEF Left
  <1>4. IsFiniteSet(U) /\ Cardinality(U) \in 0 .. N
    <2>1. IsFiniteSet(U) /\ Cardinality(U) <= Cardinality(D)
      <3>. HIDE DEF D, U
      <3>. QED  BY <1>3, FS_Subset
    <2>2. Cardinality(U) \in Nat
      BY <2>1, FS_CardinalityType
    <2>. QED  BY <1>3, <2>1, <2>2
  <1>5. U \subseteq Int
    BY DEF Left
  <1>. HIDE DEF U
  <1>6. PICK order : Selects(subsequence(ls, U), ls, U, order)
    BY <1>4, <1>5, SubsequenceIs
  <1>. DEFINE L == Len(order)
              res == survivors(st)
              E == 1 .. L
  <1>7. L \in 0 .. N /\ Bijects(order, E, U) /\ res = [n \in E |-> ls[order[n]]]
    BY <1>2, <1>4, <1>6 DEF Selects, Indexes
  <1>8. \A n \in E : order[n] \in D /\ res[n] = ls[order[n]]
    BY <1>3, <1>7 DEF Bijects
  <1>9. res \in [E -> Locs(S)]
    BY <1>1, <1>7, <1>8
  <1>10. IsFiniteSet(E)
    <2>1. L \in Int
      BY <1>7
    <2>. HIDE DEF L
    <2>. QED  BY <2>1, FS_Interval
  <1>. HIDE DEF res, ls
  <1>11. ASSUME NEW f, Ints(f, D), NEW h, \A n \in E : h[n] = f[order[n]]
         PROVE  over(h, E) = over(f, U)
    <2>1. Ints(f, U)
      BY <1>3, <1>11 DEF Ints
    <2>. HIDE DEF E, D
    <2>. QED  BY <1>4, <1>7, <1>10, <1>11, <2>1, OverBijects
  <1>12. ASSUME NEW c \in S
         PROVE  over(CountersAt(res, c, L), E) = over(CountersAt(ls, c, N), U)
    <2>1. Ints(CountersAt(ls, c, N), D)
      BY <1>1, CountsAre
    <2>2. \A n \in E : CountersAt(res, c, L)[n] = CountersAt(ls, c, N)[order[n]]
      BY <1>8 DEF CountersAt
    <2>. QED  BY <1>11, <2>1, <2>2
  <1>13. over(WritesAt(res, L), E) = over(WritesAt(ls, N), U)
    <2>1. Ints(WritesAt(ls, N), D)
      BY <1>1, CountsAre
    <2>2. \A n \in E : WritesAt(res, L)[n] = WritesAt(ls, N)[order[n]]
      BY <1>8 DEF WritesAt
    <2>. QED  BY <1>11, <2>1, <2>2
  <1>14. Conserves(res, L, locations, N, S)
    <2>1. \A c \in S : over(CountersAt(ls, c, N), U) = over(CountersAt(locations, c, N), D)
      BY DEF Kept, U, ls
    <2>2. over(WritesAt(ls, N), U) = over(WritesAt(locations, N), D)
      BY DEF Kept, U, ls
    <2>. QED  BY <1>7, <1>9, <1>12, <1>13, <2>1, <2>2 DEF Conserves
  <1>. QED  BY <1>14 DEF res

\* merge.rs: a consolidation keeps every count and every write, in no more
\* locations, whatever it merges.
THEOREM MergeConserves ==
  ASSUME NEW S, IsFiniteSet(S), NEW N \in Nat, NEW locations \in [1 .. N -> Locs(S)], NEW tau
  PROVE  \E L : Conserves(knn_merge(locations, tau), L, locations, N, S)
  <1>. DEFINE pairs == merge_pairs(locations, tau)
              M == Len(pairs)
  <1>1. /\ M \in Nat /\ DOMAIN pairs = 1 .. M
        /\ \A m \in 1 .. M : IsPair(pairs[m], locations, N, tau)
    BY SnapshotsPlaced, MergePairsAre
  <1>2. PICK h : Absorbs(h, locations, pairs, N, S) /\ knn_merge(locations, tau) = survivors(h[M])
    BY MergeUnfolds
  <1>. HIDE DEF pairs, M
  <1>. DEFINE T == {n \in Nat : n \in 0 .. M => Kept(h[n], locations, N, S)}
  <1>3. 0 \in T
    <2>1. h[0].locs = locations /\ h[0].merged = [i \in 1 .. N |-> FALSE]
      BY <1>2 DEF Absorbs, Unmerged
    <2>2. Left(h[0], N) = 1 .. N
      BY <2>1 DEF Left
    <2>. QED  BY <2>1, <2>2 DEF Kept
  <1>4. ASSUME NEW n \in Nat, n \in T PROVE n + 1 \in T
    <2>. SUFFICES ASSUME n + 1 \in 0 .. M PROVE Kept(h[n + 1], locations, N, S)
      OBVIOUS
    <2>. DEFINE k == n + 1
    <2>1. k \in 1 .. M /\ k - 1 = n /\ Kept(h[n], locations, N, S)
      BY <1>1, <1>4
    <2>. HIDE DEF k, T
    <2>2. h[k - 1] \in Merges(N, S) /\ h[k] = absorb(h[k - 1], pairs[k])
      BY <1>2, <2>1 DEF Absorbs, M
    <2>3. pairs[k].i \in 1 .. N /\ pairs[k].j \in 1 .. N /\ pairs[k].i # pairs[k].j
      BY <1>1, <2>1 DEF IsPair
    <2>4. Kept(h[k], locations, N, S)
      BY <2>1, <2>2, <2>3, AbsorbKeeps
    <2>. QED  BY <2>4 DEF k
  <1>5. Kept(h[M], locations, N, S)
    <2>. HIDE DEF T
    <2>1. M \in T
      BY <1>1, <1>3, <1>4, Induction
    <2>. QED  BY <1>1, <2>1 DEF T
  <1>6. h[M] \in Merges(N, S)
    BY <1>2 DEF Absorbs, M
  <1>. QED  BY <1>2, <1>5, <1>6, SurvivorsConserve

\* The mean of what a location holds.
LEMMA PatternIs ==
  ASSUME NEW S, NEW l \in Locs(S)
  PROVE  normalized_pattern(l) \in [S -> Int]
  <1>1. l.counter \in [S -> Int] /\ l.writes \in Nat
    BY DEF Locs
  <1>2. CASE l.writes = 0
    BY <1>1, <1>2 DEF normalized_pattern, times
  <1>3. CASE l.writes # 0
    <2>1. \A x \in Int, n \in Nat \ {0} : x \div n \in Int
      OBVIOUS
    <2>2. \A i \in S : l.counter[i] \div l.writes \in Int
      BY <1>1, <1>3, <2>1
    <2>3. normalized_pattern(l) = [i \in S |-> l.counter[i] \div l.writes]
      BY <1>1, <1>3 DEF normalized_pattern
    <2>. QED  BY <2>2, <2>3
  <1>. QED  BY <1>2, <1>3

\* The n-th combination of location r of a.
Cross(a, b, k, r, n) ==
    <<normalized_pattern(a[r]), normalized_pattern(b[partners(a[r], b, k)[n]])>>

\* c has the combinations of the first R locations, row by row, w of each.
Rows(c, a, b, k, R, w) ==
    /\ Len(c) = R * w
    /\ \A r \in 1 .. R, n \in 1 .. w : c[(r - 1) * w + n] = Cross(a, b, k, r, n)
    /\ \A m \in 1 .. R * w : \E r \in 1 .. R, n \in 1 .. w : m = (r - 1) * w + n

\* One row more.
LEMMA RowAdded ==
  ASSUME NEW P, NEW c \in Seq(P), NEW row \in Seq(P), NEW a, NEW b, NEW k,
         NEW R \in Nat, NEW w \in Nat, Rows(c, a, b, k, R, w),
         Len(row) = w, \A n \in 1 .. w : row[n] = Cross(a, b, k, R + 1, n)
  PROVE  Rows(c \o row, a, b, k, R + 1, w)
  <1>. DEFINE d == R * w
              e == (R + 1) * w
  <1>1. d \in Nat /\ e = d + w /\ ((R + 1) - 1) * w = d
    <2>1. \A x, y \in Nat : x * y \in Nat /\ (x + 1) * y = x * y + y
      OBVIOUS
    <2>2. (R + 1) - 1 = R
      OBVIOUS
    <2>. QED  BY <2>1, <2>2
  <1>2. Len(c) = d
    BY DEF Rows
  <1>3. Len(c \o row) = e
    BY <1>1, <1>2
  <1>4. ASSUME NEW r \in 1 .. R, NEW n \in 1 .. w
        PROVE  (r - 1) * w + n \in 1 .. d
    <2>1. \A x, y \in Nat, z \in Nat : x <= y => x * z <= y * z
      OBVIOUS
    <2>2. \A x \in Nat : (x + 1) * w = x * w + w /\ x * w \in Nat
      OBVIOUS
    <2>3. r * w <= R * w
      BY <2>1
    <2>4. r - 1 \in Nat /\ (r - 1) + 1 = r
      OBVIOUS
    <2>5. r * w = (r - 1) * w + w /\ (r - 1) * w \in Nat
      BY <2>2, <2>4
    <2>. QED  BY <1>1, <2>3, <2>5
  <1>. HIDE DEF d, e
  <1>5. ASSUME NEW r \in 1 .. R + 1, NEW n \in 1 .. w
        PROVE  (c \o row)[(r - 1) * w + n] = Cross(a, b, k, r, n)
    <2>1. CASE r = R + 1
      <3>1. (r - 1) * w + n = d + n
        BY <1>1, <2>1
      <3>2. (c \o row)[d + n] = row[n]
        BY <1>1, <1>2
      <3>. QED  BY <2>1, <3>1, <3>2
    <2>2. CASE r # R + 1
      <3>. DEFINE m == (r - 1) * w + n
      <3>1. r \in 1 .. R
        BY <2>2
      <3>2. m \in 1 .. d
        BY <1>4, <3>1
      <3>3. c[m] = Cross(a, b, k, r, n)
        BY <3>1 DEF Rows
      <3>. HIDE DEF m
      <3>4. (c \o row)[m] = c[m]
        BY <1>1, <1>2, <3>2
      <3>. QED  BY <3>3, <3>4 DEF m
    <2>. QED  BY <2>1, <2>2
  <1>6. ASSUME NEW m \in 1 .. e
        PROVE  \E r \in 1 .. R + 1, n \in 1 .. w : m = (r - 1) * w + n
    <2>1. CASE m \in 1 .. d
      <3>1. PICK r \in 1 .. R, n \in 1 .. w : m = (r - 1) * w + n
        BY <2>1 DEF Rows, d
      <3>2. r \in 1 .. R + 1
        OBVIOUS
      <3>. QED  BY <3>1, <3>2
    <2>2. CASE m \notin 1 .. d
      <3>1. m - d \in 1 .. w /\ m = d + (m - d) /\ R + 1 \in 1 .. R + 1
        BY <1>1, <2>2
      <3>2. m = ((R + 1) - 1) * w + (m - d)
        BY <1>1, <3>1
      <3>. QED  BY <3>1, <3>2
    <2>. QED  BY <2>1, <2>2
  <1>. QED  BY <1>3, <1>5, <1>6 DEF Rows, e

\* bind.rs, ops.rs: the pairs of patterns to combine.
LEMMA CrossedIs ==
  ASSUME NEW S, IsFiniteSet(S), NEW N \in Nat, NEW a \in [1 .. N -> Locs(S)],
         NEW M \in Nat, NEW b \in [1 .. M -> Locs(S)], NEW k \in Nat
  PROVE  /\ wide(M, k) \in 0 .. M /\ Len(b) = M
         /\ crossed(a, b, k) \in Seq([S -> Int] \X [S -> Int])
         /\ Rows(crossed(a, b, k), a, b, k, N, wide(M, k))
  <1>. DEFINE w == wide(M, k)
              row(i) == LET js == partners(a[i], b, k)
                        IN [n \in DOMAIN js |-> <<normalized_pattern(a[i]),
                                                 normalized_pattern(b[js[n]])>>]
              taken(pairs, i) == pairs \o row(i)
              seq == [i \in DOMAIN a |-> i]
              base == <<>>
              P == [S -> Int] \X [S -> Int]
              V == Seq(P)
              Body(it) == [U \in SUBSET (1 .. N) |->
                             IF U = {} THEN base ELSE taken(it[U \ {Max(U)}], seq[Max(U)])]
              it == CHOOSE it : it = Body(it)
              step == [x \in (1 .. N) \X V |-> taken(x[2], seq[x[1]])]
  <1>0. /\ Placed(b, M, S)
        /\ \A i \in 1 .. N : IntVector(a[i].address, S)
    BY SnapshotsPlaced DEF Placed
  <1>1. w \in 0 .. M /\ Len(b) = M
    BY <1>0, PartnersAre DEF wide
  <1>2. ASSUME NEW i \in 1 .. N
        PROVE  /\ row(i) \in V /\ Len(row(i)) = w
               /\ \A n \in 1 .. w : row(i)[n] = Cross(a, b, k, i, n)
    <2>. DEFINE js == partners(a[i], b, k)
    <2>1. DOMAIN js = 1 .. w /\ \A n \in 1 .. w : js[n] \in 1 .. M
      BY <1>0, PartnersAre
    <2>2. \A n \in 1 .. w : <<normalized_pattern(a[i]), normalized_pattern(b[js[n]])>> \in P
      BY <2>1, PatternIs
    <2>3. \A n \in 1 .. w : row(i)[n] = <<normalized_pattern(a[i]), normalized_pattern(b[js[n]])>>
      BY <2>1
    <2>4. row(i) \in [1 .. w -> P]
      BY <2>1, <2>2
    <2>5. w \in Nat
      BY <1>1
    <2>. HIDE DEF row, w, P
    <2>6. row(i) \in Seq(P) /\ Len(row(i)) = w
      BY <2>4, <2>5
    <2>. QED  BY <2>3, <2>6 DEF Cross
  <1>3. crossed(a, b, k) = it[1 .. N]
    <2>1. DOMAIN a = 1 .. N
      OBVIOUS
    <2>. QED  BY <2>1 DEF crossed, FoldLeft, MapThenFoldSet
  <1>4. \A i \in 1 .. N : seq[i] = i
    OBVIOUS
  <1>. HIDE DEF row, seq, w, P
  <1>5. ASSUME NEW n \in 1 .. N, NEW v \in V
        PROVE  step[<<n, v>>] = taken(v, n) /\ step[<<n, v>>] \in V
    <2>1. step[<<n, v>>] = taken(v, seq[n])
      OBVIOUS
    <2>2. row(n) \in Seq(P) /\ v \in Seq(P)
      BY <1>2
    <2>. HIDE DEF step, Body, it
    <2>3. taken(v, n) \in Seq(P)
      BY <2>2
    <2>. HIDE DEF taken
    <2>. QED  BY <1>4, <2>1, <2>3
  <1>6. base \in V
    OBVIOUS
  <1>. HIDE DEF step, base, V
  <1>7. PICK g \in [SUBSET (1 .. N) -> V] : FoldsTo(g, N, base, step)
    <2>1. Steps(step, N, V, base)
      BY <1>5, <1>6 DEF Steps
    <2>. QED  BY <2>1, FoldUnfolds
  <1>8. g = Body(g)
    <2>1. \A U \in SUBSET (1 .. N) : U # {} => Max(U) \in 1 .. N
      BY PartOfInterval
    <2>. HIDE DEF taken
    <2>2. ASSUME NEW U \in SUBSET (1 .. N), U # {}
          PROVE  step[<<Max(U), g[U \ {Max(U)}]>>] = taken(g[U \ {Max(U)}], seq[Max(U)])
      <3>1. g[U \ {Max(U)}] \in V
        OBVIOUS
      <3>. QED  BY <1>4, <1>5, <2>1, <2>2, <3>1
    <2>3. \A U \in SUBSET (1 .. N) :
             g[U] = IF U = {} THEN base ELSE taken(g[U \ {Max(U)}], seq[Max(U)])
      BY <1>7, <2>2 DEF FoldsTo
    <2>. QED  BY <2>3
  <1>9. it = Body(it)
    <2>. HIDE DEF Body
    <2>. QED  BY <1>8
  <1>. HIDE DEF it
  <1>. DEFINE h == [n \in 0 .. N |-> it[1 .. n]]
  <1>10. \A U \in SUBSET (1 .. N) :
           it[U] = IF U = {} THEN base ELSE taken(it[U \ {Max(U)}], seq[Max(U)])
    <2>. HIDE DEF taken
    <2>. QED  BY <1>9
  <1>11. h[0] = base
    <2>1. h[0] = it[{}] /\ {} \in SUBSET (1 .. N)
      OBVIOUS
    <2>. QED  BY <1>10, <2>1
  <1>12. ASSUME NEW n \in 1 .. N PROVE h[n] = taken(h[n - 1], n)
    <2>1. h[n] = it[1 .. n] /\ h[n - 1] = it[1 .. n - 1]
      OBVIOUS
    <2>. DEFINE U == 1 .. n
    <2>2. U \in SUBSET (1 .. N) /\ U # {} /\ Max(U) = n /\ U \ {Max(U)} = 1 .. n - 1
      BY FoldPrefixes
    <2>. HIDE DEF h, U, taken
    <2>3. it[U] = taken(it[1 .. n - 1], seq[n])
      BY <1>10, <2>2
    <2>. QED  BY <1>4, <2>1, <2>3 DEF U
  <1>13. h[N] = it[1 .. N]
    OBVIOUS
  <1>. HIDE DEF h
  <1>. DEFINE T == {n \in Nat : n \in 0 .. N => h[n] \in V /\ Rows(h[n], a, b, k, n, w)}
  <1>14. 0 \in T
    <2>1. w \in Nat /\ 0 * w = 0
      BY <1>1
    <2>2. Rows(base, a, b, k, 0, w)
      BY <2>1 DEF Rows, base
    <2>. QED  BY <1>6, <1>11, <2>2
  <1>15. ASSUME NEW n \in Nat, n \in T PROVE n + 1 \in T
    <2>. SUFFICES ASSUME n + 1 \in 0 .. N PROVE h[n + 1] \in V /\ Rows(h[n + 1], a, b, k, n + 1, w)
      OBVIOUS
    <2>. DEFINE r == n + 1
    <2>1. r \in 1 .. N /\ r - 1 = n /\ h[n] \in V /\ Rows(h[n], a, b, k, n, w)
      BY <1>15
    <2>2. h[r] = h[n] \o row(r)
      BY <1>12, <2>1
    <2>3. /\ row(r) \in V /\ Len(row(r)) = w
          /\ \A i \in 1 .. w : row(r)[i] = Cross(a, b, k, n + 1, i)
      BY <1>2, <2>1
    <2>4. w \in Nat
      BY <1>1
    <2>. HIDE DEF r, T
    <2>5. Rows(h[n] \o row(r), a, b, k, n + 1, w)
      BY <2>1, <2>3, <2>4, RowAdded DEF V
    <2>6. h[n] \o row(r) \in V
      BY <2>1, <2>3 DEF V
    <2>. QED  BY <2>2, <2>5, <2>6 DEF r
  <1>16. N \in T
    <2>. HIDE DEF T
    <2>. QED  BY <1>14, <1>15, Induction
  <1>17. h[N] \in V /\ Rows(h[N], a, b, k, N, w)
    BY <1>16
  <1>. QED  BY <1>1, <1>3, <1>13, <1>17 DEF w, V, P

\* The coordinates of a vector.
LEMMA CoordinatesAre ==
  ASSUME NEW d \in Nat
  PROVE  IsFiniteSet(0 .. d - 1) /\ Cardinality(0 .. d - 1) = d
  <1>. DEFINE e == d - 1
  <1>1. e \in Int /\ d = e + 1
    OBVIOUS
  <1>. HIDE DEF e
  <1>2. 0 \in Int /\ IsFiniteSet(0 .. e) /\ Cardinality(0 .. e) = IF 0 > e THEN 0 ELSE e - 0 + 1
    BY <1>1, FS_Interval
  <1>3. Cardinality(0 .. e) = d
    BY <1>1, <1>2
  <1>. QED  BY <1>2, <1>3 DEF e

\* Coordinates wrap around.
LEMMA Wrapped ==
  ASSUME NEW d \in Nat \ {0}
  PROVE  \A k, i \in 0 .. d - 1 : (k - i) % d \in 0 .. d - 1
  <1>1. \A n \in Int : n % d \in 0 .. d - 1
    OBVIOUS
  <1>2. \A k, i \in 0 .. d - 1 : k - i \in Int
    OBVIOUS
  <1>. QED  BY <1>1, <1>2

\* A coordinate of d, s before k around the circle.
back(k, s, d) == (k - s) % d

\* One coordinate of a circular convolution.
Term(a, b, k, d) == [i \in 0 .. d - 1 |-> a[i] * b[back(k, i, d)]]

\* c is the convolution of a with b.
Convolves(c, a, b, d) ==
    /\ c \in [0 .. d - 1 -> Int]
    /\ \A k \in 0 .. d - 1 :
          /\ c[k] = over(Term(a, b, k, d), 0 .. d - 1)
          /\ Ints(Term(a, b, k, d), 0 .. d - 1)
          /\ \A i \in 0 .. d - 1 : Term(a, b, k, d)[i] = a[i] * b[back(k, i, d)]

\* bind.rs: circular convolution, at each coordinate.
LEMMA ConvolveIs ==
  ASSUME NEW d \in Nat \ {0}, NEW a \in [0 .. d - 1 -> Int], NEW b \in [0 .. d - 1 -> Int]
  PROVE  Convolves(circular_convolve(a, b), a, b, d)
  <1>. DEFINE S == 0 .. d - 1
              f(k) == [i \in S |-> a[i] * b[(k - i) % d]]
  <1>1. IsFiniteSet(S) /\ Cardinality(S) = d
    BY CoordinatesAre
  <1>2. \A k, i \in S : (k - i) % d \in S
    BY Wrapped
  <1>3. ASSUME NEW k \in S PROVE Ints(f(k), S) /\ f(k) = [x \in S |-> f(k)[x]]
    <2>1. \A i \in S : a[i] \in Int /\ b[(k - i) % d] \in Int
      <3>. HIDE DEF S
      <3>. QED  BY <1>2 DEF S
    <2>2. \A i \in S : f(k)[i] = a[i] * b[(k - i) % d]
      OBVIOUS
    <2>3. \A i \in S : f(k)[i] \in Int
      BY <2>1, <2>2
    <2>. QED  BY <2>3 DEF Ints
  <1>4. circular_convolve(a, b) = [k \in S |-> total(f(k))]
    <2>1. DOMAIN a = S
      OBVIOUS
    <2>. QED  BY <1>1, <2>1 DEF circular_convolve
  <1>5. ASSUME NEW k \in S PROVE total(f(k)) = over(f(k), S) /\ over(f(k), S) \in Int
    <2>1. Ints(f(k), S) /\ f(k) = [x \in S |-> f(k)[x]]
      BY <1>3
    <2>. HIDE DEF f, S
    <2>2. total(f(k)) = over(f(k), S)
      BY <2>1, TotalIsOver
    <2>3. over(f(k), S) \in Int
      BY <1>1, <2>1, OverTakes
    <2>. QED  BY <2>2, <2>3
  <1>6. \A k \in S : circular_convolve(a, b)[k] = over(f(k), S)
    <2>. HIDE DEF f
    <2>. QED  BY <1>4, <1>5
  <1>7. circular_convolve(a, b) \in [S -> Int]
    <2>. HIDE DEF f
    <2>. QED  BY <1>4, <1>5
  <1>8. ASSUME NEW k \in S
        PROVE  f(k) = Term(a, b, k, d) /\ \A i \in S : f(k)[i] = a[i] * b[back(k, i, d)]
    BY DEF Term, back
  <1>9. \A k \in S : Ints(f(k), S)
    BY <1>3
  <1>. HIDE DEF f
  <1>10. \A k \in S : /\ circular_convolve(a, b)[k] = over(Term(a, b, k, d), S)
                      /\ Ints(Term(a, b, k, d), S)
                      /\ \A i \in S : Term(a, b, k, d)[i] = a[i] * b[back(k, i, d)]
    BY <1>6, <1>8, <1>9
  <1>. QED  BY <1>7, <1>10 DEF Convolves

\* ops.rs: a location for each combination that did not cancel.
LEMMA CombinedIs ==
  ASSUME NEW S, NEW K \in Nat, NEW vectors \in [1 .. K -> [S -> Int]]
  PROVE  \E L \in 0 .. K : combined(vectors) \in [1 .. L -> Locs(S)]
  <1>. DEFINE D == 1 .. K
              kept == {n \in DOMAIN vectors : norm2(vectors[n]) > 0}
  <1>1. kept \in SUBSET D /\ kept \subseteq Int
    OBVIOUS
  <1>2. IsFiniteSet(kept) /\ Cardinality(kept) \in 0 .. K
    <2>1. IsFiniteSet(D) /\ Cardinality(D) = K
      BY FS_Interval
    <2>2. IsFiniteSet(kept) /\ Cardinality(kept) <= Cardinality(D)
      <3>. HIDE DEF D, kept
      <3>. QED  BY <1>1, <2>1, FS_Subset
    <2>3. Cardinality(kept) \in Nat
      BY <2>2, FS_CardinalityType
    <2>. QED  BY <2>1, <2>2, <2>3
  <1>. DEFINE t == subsequence(vectors, kept)
  <1>3. combined(vectors) = [n \in DOMAIN t |-> Made(t[n])]
    BY DEF combined
  <1>. HIDE DEF kept
  <1>4. PICK order : Selects(t, vectors, kept, order)
    BY <1>1, <1>2, SubsequenceIs
  <1>. DEFINE L == Len(order)
  <1>5. L \in 0 .. K /\ t = [n \in 1 .. L |-> vectors[order[n]]] /\ \A n \in 1 .. L : order[n] \in D
    BY <1>1, <1>2, <1>4 DEF Selects, Indexes, Bijects
  <1>. HIDE DEF t
  <1>6. \A n \in 1 .. L : t[n] \in [S -> Int]
    BY <1>5
  <1>7. \A v \in [S -> Int] : Made(v) \in Locs(S)
    BY DEF Made, Locs
  <1>8. combined(vectors) \in [1 .. L -> Locs(S)]
    BY <1>3, <1>5, <1>6, <1>7
  <1>. QED  BY <1>5, <1>8

\* The combinations that add, sub and bind consolidate are within the limit.
LEMMA CombinationsFit ==
  ASSUME NEW N \in Nat, NEW a \in [1 .. N -> Locs(0 .. 1)],
         NEW M \in Nat, NEW b \in [1 .. M -> Locs(0 .. 1)], NEW k \in Nat, NEW sign \in Int
  PROVE  /\ \E L \in 0 .. estimated_cross_locations(N, M, k) :
               pairwise_combine(a, b, sign, k) \in [1 .. L -> Locs(0 .. 1)]
         /\ \E L \in 0 .. estimated_cross_locations(N, M, k) :
               pairwise_bind(a, b, k) \in [1 .. L -> Locs(0 .. 1)]
  <1>. DEFINE S == 0 .. 1
              V == [S -> Int]
              c == crossed(a, b, k)
              w == wide(M, k)
              K == N * w
  <1>1. IsFiniteSet(S)
    <2>. DEFINE last == 1
    <2>1. last \in Int
      OBVIOUS
    <2>. HIDE DEF last
    <2>2. IsFiniteSet(0 .. last)
      BY <2>1, FS_Interval
    <2>. QED  BY <2>2 DEF last
  <1>2. w \in 0 .. M /\ c \in Seq(V \X V) /\ Rows(c, a, b, k, N, w)
    <2>1. a \in [1 .. N -> Locs(S)] /\ b \in [1 .. M -> Locs(S)]
      OBVIOUS
    <2>. HIDE DEF S
    <2>. QED  BY <1>1, <2>1, CrossedIs
  <1>3. K \in Nat /\ estimated_cross_locations(N, M, k) = K
    <2>1. \A x, y \in Nat : x * y \in Nat
      OBVIOUS
    <2>2. estimated_cross_locations(N, M, k) = K
      BY DEF estimated_cross_locations, wide
    <2>. HIDE DEF w
    <2>. QED  BY <1>2, <2>1, <2>2
  <1>4. Len(c) = K
    BY <1>2 DEF Rows
  <1>. HIDE DEF c, K, w
  <1>5. DOMAIN c = 1 .. K /\ \A n \in 1 .. K : c[n][1] \in V /\ c[n][2] \in V
    BY <1>2, <1>3, <1>4
  <1>6. sums(c, sign) \in [1 .. K -> V]
    <2>1. \A p, q \in V : plus(p, times(sign, q)) \in V
      BY DEF plus, times
    <2>. HIDE DEF S, V
    <2>. QED  BY <1>5, <2>1 DEF sums
  <1>7. products(c) \in [1 .. K -> V]
    <2>1. \A p, q \in V : circular_convolve(p, q) \in V
      <3>1. \A d \in Nat \ {0} : \A p, q \in [0 .. d - 1 -> Int] : circular_convolve(p, q) \in [0 .. d - 1 -> Int]
        BY ConvolveIs DEF Convolves
      <3>2. 2 \in Nat \ {0} /\ 2 - 1 = 1
        OBVIOUS
      <3>. QED  BY <3>1, <3>2
    <2>. HIDE DEF S, V
    <2>. QED  BY <1>5, <2>1 DEF products
  <1>8. \E L \in 0 .. K : combined(sums(c, sign)) \in [1 .. L -> Locs(S)]
    <2>. HIDE DEF S
    <2>. QED  BY <1>3, <1>6, CombinedIs DEF V
  <1>9. \E L \in 0 .. K : combined(products(c)) \in [1 .. L -> Locs(S)]
    <2>. HIDE DEF S
    <2>. QED  BY <1>3, <1>7, CombinedIs DEF V
  <1>. QED  BY <1>3, <1>8, <1>9 DEF pairwise_combine, pairwise_bind, c

\* A consolidation of them.
LEMMA ConsolidateFits ==
  ASSUME NEW K \in Nat, NEW limit \in Nat, K <= limit,
         NEW made \in [1 .. K -> Locs(0 .. 1)], NEW tau
  PROVE  MergedFrom(consolidate(made, tau), made, limit)
  <1>. DEFINE S == 0 .. 1
              res == knn_merge(made, tau)
  <1>1. IsFiniteSet(S)
    <2>. DEFINE last == 1
    <2>1. last \in Int
      OBVIOUS
    <2>. HIDE DEF last
    <2>2. IsFiniteSet(0 .. last)
      BY <2>1, FS_Interval
    <2>. QED  BY <2>2 DEF last
  <1>2. PICK L : Conserves(res, L, made, K, S)
    <2>1. made \in [1 .. K -> Locs(S)]
      OBVIOUS
    <2>. HIDE DEF S
    <2>. QED  BY <1>1, <2>1, MergeConserves
  <1>. DEFINE r == reindex(res)
  <1>3. consolidate(made, tau) = r
    BY DEF consolidate
  <1>. HIDE DEF res
  <1>4. L \in 0 .. K /\ res \in [1 .. L -> Locs(S)]
    BY <1>2 DEF Conserves
  <1>5. r = [n \in 1 .. L |-> [res[n] EXCEPT !.id = n - 1]]
    BY <1>4 DEF reindex
  <1>6. \A n \in 1 .. L : /\ r[n] = [res[n] EXCEPT !.id = n - 1]
                         /\ res[n] \in Locs(S)
    BY <1>4, <1>5
  <1>7. \A n \in 1 .. L : r[n].id = n - 1 /\ r[n].counter = res[n].counter /\ r[n].writes = res[n].writes
    BY <1>6 DEF Locs
  <1>8. DOMAIN r = 1 .. L /\ Len(r) = L /\ DOMAIN made = 1 .. K /\ Len(made) = K
    BY <1>4, <1>5
  <1>. HIDE DEF r
  <1>9. \A c \in S : total([n \in DOMAIN r |-> r[n].counter[c]]) = total([n \in DOMAIN made |-> made[n].counter[c]])
    <2>. SUFFICES ASSUME NEW c \in S
                  PROVE  total([n \in DOMAIN r |-> r[n].counter[c]]) = total([n \in DOMAIN made |-> made[n].counter[c]])
      OBVIOUS
    <2>1. [n \in DOMAIN r |-> r[n].counter[c]] = [n \in 1 .. L |-> CountersAt(res, c, L)[n]]
      BY <1>7, <1>8 DEF CountersAt
    <2>2. [n \in DOMAIN made |-> made[n].counter[c]] = [n \in 1 .. K |-> CountersAt(made, c, K)[n]]
      BY <1>8 DEF CountersAt
    <2>3. over(CountersAt(res, c, L), 1 .. L) = over(CountersAt(made, c, K), 1 .. K)
      BY <1>2 DEF Conserves
    <2>. QED  BY <2>1, <2>2, <2>3 DEF over
  <1>10. total([n \in DOMAIN r |-> r[n].writes]) = total([n \in DOMAIN made |-> made[n].writes])
    <2>1. [n \in DOMAIN r |-> r[n].writes] = [n \in 1 .. L |-> WritesAt(res, L)[n]]
      BY <1>7, <1>8 DEF WritesAt
    <2>2. [n \in DOMAIN made |-> made[n].writes] = [n \in 1 .. K |-> WritesAt(made, K)[n]]
      BY <1>8 DEF WritesAt
    <2>3. over(WritesAt(res, L), 1 .. L) = over(WritesAt(made, K), 1 .. K)
      BY <1>2 DEF Conserves
    <2>. QED  BY <2>1, <2>2, <2>3 DEF over
  <1>11. Counters(r) = Counters(made) /\ Writes(r) = Writes(made)
    BY <1>9, <1>10 DEF Counters, Writes
  <1>. QED  BY <1>3, <1>4, <1>7, <1>8, <1>11 DEF MergedFrom

-----------------------------------------------------------------------------
(* Circular convolution (bind.rs, vec_ops.rs), in any dimension.           *)

\* The wrap of an index, as the code's % of usize makes it.
LEMMA BackIs ==
  ASSUME NEW d \in Nat \ {0}, NEW k \in 0 .. d - 1, NEW s \in 0 .. d - 1
  PROVE  /\ back(k, s, d) = IF s <= k THEN k - s ELSE k - s + d
         /\ back(k, s, d) \in 0 .. d - 1
  <1>. DEFINE m == k - s
              r == back(k, s, d)
  <1>1. m \in Int /\ -d < m /\ m < d
    OBVIOUS
  <1>2. r \in 0 .. d - 1 /\ \E q \in Int : r = m - q * d
    BY <1>1, Residue DEF back
  <1>3. PICK q \in Int : r = m - q * d
    BY <1>2
  <1>4. \A x \in Int : (x >= 2 => x * d >= d + d) /\ (x <= -1 => x * d <= -d) /\ (x = 1 => x * d = d) /\ (x = 0 => x * d = 0)
    <2>1. \A x \in Int : x * d \in Int
      OBVIOUS
    <2>2. \A x, y \in Int : x >= y => x * d >= y * d
      OBVIOUS
    <2>3. 2 * d = d + d /\ (-1) * d = -d
      OBVIOUS
    <2>4. ASSUME NEW x \in Int PROVE (x >= 2 => x * d >= d + d) /\ (x <= -1 => x * d <= -d)
      <3>1. 2 \in Int /\ -1 \in Int
        OBVIOUS
      <3>. QED  BY <2>2, <2>3, <3>1
    <2>. QED  BY <2>4
  <1>. DEFINE t == (-q) * d
  <1>5. t \in Int /\ r = m + t
    BY <1>3
  <1>6. -q \in Int
    OBVIOUS
  <1>7. (-q >= 2 => t >= d + d) /\ (-q <= -1 => t <= -d) /\ (-q = 1 => t = d) /\ (-q = 0 => t = 0)
    BY <1>4, <1>6
  <1>. HIDE DEF r, t, m
  <1>8. t = 0 \/ t = d \/ t >= d + d \/ t <= -d
    BY <1>5, <1>6, <1>7
  <1>9. r \in Int /\ 0 <= r /\ r < d
    BY <1>2
  <1>10. t <= -d => m >= 0 /\ FALSE
    BY <1>1, <1>5, <1>9
  <1>11. r = IF s <= k THEN m ELSE m + d
    BY <1>1, <1>5, <1>8, <1>9, <1>10 DEF m
  <1>. QED  BY <1>2, <1>11 DEF r, m

\* Going back around the circle.
LEMMA BackReturns ==
  ASSUME NEW d \in Nat \ {0}, NEW k \in 0 .. d - 1, NEW s \in 0 .. d - 1, NEW i \in 0 .. d - 1
  PROVE  /\ back(k, back(k, i, d), d) = i
         /\ back(k, i, d) = s <=> i = back(k, s, d)
         /\ back(back(k, back(0, s, d), d), s, d) = k
         /\ back(back(k, s, d), back(0, s, d), d) = k
         /\ back(0, back(k, i, d), d) = back(i, k, d)
  <1>. DEFINE S == 0 .. d - 1
              j == back(k, i, d)
              n == back(0, s, d)
              m == back(k, n, d)
              l == back(k, s, d)
  <1>0. 0 \in S
    OBVIOUS
  <1>1. \A x, y \in S : /\ back(x, y, d) = IF y <= x THEN x - y ELSE x - y + d
                        /\ back(x, y, d) \in S
    BY BackIs
  <1>2. j \in S /\ n \in S /\ l \in S
    BY <1>0, <1>1
  <1>3. m \in S
    BY <1>1, <1>2
  <1>4. /\ j = IF i <= k THEN k - i ELSE k - i + d
        /\ n = IF s <= 0 THEN 0 - s ELSE 0 - s + d
        /\ l = IF s <= k THEN k - s ELSE k - s + d
    BY <1>0, <1>1
  <1>5. /\ m = IF n <= k THEN k - n ELSE k - n + d
        /\ back(k, j, d) = IF j <= k THEN k - j ELSE k - j + d
        /\ back(m, s, d) = IF s <= m THEN m - s ELSE m - s + d
        /\ back(l, n, d) = IF n <= l THEN l - n ELSE l - n + d
        /\ back(0, j, d) = IF j <= 0 THEN 0 - j ELSE 0 - j + d
        /\ back(i, k, d) = IF k <= i THEN i - k ELSE i - k + d
    BY <1>0, <1>1, <1>2, <1>3
  <1>. HIDE DEF j, n, m, l
  <1>6. back(k, j, d) = i /\ (j = s <=> i = l)
    BY <1>2, <1>4, <1>5
  <1>7. back(m, s, d) = k
    BY <1>2, <1>3, <1>4, <1>5
  <1>8. back(l, n, d) = k
    BY <1>2, <1>4, <1>5
  <1>9. back(0, j, d) = back(i, k, d)
    BY <1>2, <1>4, <1>5
  <1>. QED  BY <1>6, <1>7, <1>8, <1>9 DEF j, n, m, l

\* Functions with the same values.
LEMMA SameVectors ==
  ASSUME NEW S, NEW f \in [S -> Int], NEW g \in [S -> Int], \A k \in S : f[k] = g[k]
  PROVE  f = g
  OBVIOUS

\* bind.rs: binding commutes, whatever the dimension.
THEOREM ConvolutionCommutes ==
  ASSUME NEW d \in Nat \ {0}, NEW a \in [0 .. d - 1 -> Int], NEW b \in [0 .. d - 1 -> Int]
  PROVE  circular_convolve(a, b) = circular_convolve(b, a)
  <1>. DEFINE S == 0 .. d - 1
  <1>1. ASSUME NEW k \in S PROVE circular_convolve(a, b)[k] = circular_convolve(b, a)[k]
    <2>. DEFINE turn == [i \in S |-> back(k, i, d)]
                h == Term(a, b, k, d)
                f == Term(b, a, k, d)
    <2>1. \A i \in S : back(k, i, d) \in S /\ back(k, back(k, i, d), d) = i
      BY BackIs, BackReturns
    <2>2. Bijects(turn, S, S)
      <3>. HIDE DEF S
      <3>. QED  BY <2>1 DEF Bijects
    <2>3. /\ Ints(f, S)
          /\ circular_convolve(a, b)[k] = over(h, S) /\ circular_convolve(b, a)[k] = over(f, S)
          /\ \A i \in S : h[i] = a[i] * b[back(k, i, d)] /\ f[i] = b[i] * a[back(k, i, d)]
      <3>1. Convolves(circular_convolve(a, b), a, b, d) /\ Convolves(circular_convolve(b, a), b, a, d)
        BY ConvolveIs
      <3>. QED  BY <3>1 DEF Convolves
    <2>4. \A i \in S : turn[i] = back(k, i, d)
      OBVIOUS
    <2>5. IsFiniteSet(S)
      BY CoordinatesAre
    <2>6. \A i \in S : a[i] \in Int /\ b[i] \in Int
      OBVIOUS
    <2>. HIDE DEF h, f, turn, S
    <2>7. ASSUME NEW i \in S PROVE h[i] = f[turn[i]]
      <3>1. h[i] = a[i] * b[turn[i]] /\ f[turn[i]] = b[turn[i]] * a[i] /\ turn[i] \in S
        BY <2>1, <2>3, <2>4
      <3>. QED  BY <2>6, <3>1
    <2>8. over(h, S) = over(f, S)
      BY <2>2, <2>3, <2>5, <2>7, OverBijects
    <2>. QED  BY <2>3, <2>8
  <1>2. circular_convolve(a, b) \in [S -> Int] /\ circular_convolve(b, a) \in [S -> Int]
    <2>1. Convolves(circular_convolve(a, b), a, b, d) /\ Convolves(circular_convolve(b, a), b, a, d)
      BY ConvolveIs
    <2>. QED  BY <2>1 DEF Convolves
  <1>. HIDE DEF S
  <1>. QED  BY <1>1, <1>2, SameVectors

\* r is p and w times q.
Weighted(r, p, q, w, S) == \A i \in S : r[i] = p[i] + w * q[i]

\* bind.rs: it distributes over a weighted sum.
LEMMA ConvolutionDistributes ==
  ASSUME NEW d \in Nat \ {0}, NEW p \in [0 .. d - 1 -> Int], NEW q \in [0 .. d - 1 -> Int],
         NEW w \in Int, NEW b \in [0 .. d - 1 -> Int], NEW r \in [0 .. d - 1 -> Int],
         Weighted(r, p, q, w, 0 .. d - 1)
  PROVE  Weighted(circular_convolve(r, b), circular_convolve(p, b), circular_convolve(q, b), w, 0 .. d - 1)
  <1>. DEFINE S == 0 .. d - 1
  <1>1. IsFiniteSet(S)
    BY CoordinatesAre
  <1>. SUFFICES ASSUME NEW k \in S
                PROVE  circular_convolve(r, b)[k]
                         = circular_convolve(p, b)[k] + w * circular_convolve(q, b)[k]
    BY DEF Weighted
  <1>. DEFINE h == Term(r, b, k, d)
              f == Term(p, b, k, d)
              e == Term(q, b, k, d)
  <1>2. /\ circular_convolve(r, b)[k] = over(h, S)
        /\ circular_convolve(p, b)[k] = over(f, S) /\ Ints(f, S)
        /\ circular_convolve(q, b)[k] = over(e, S) /\ Ints(e, S)
        /\ \A i \in S : h[i] = r[i] * b[back(k, i, d)]
        /\ \A i \in S : f[i] = p[i] * b[back(k, i, d)]
        /\ \A i \in S : e[i] = q[i] * b[back(k, i, d)]
    <2>1. /\ Convolves(circular_convolve(r, b), r, b, d)
          /\ Convolves(circular_convolve(p, b), p, b, d)
          /\ Convolves(circular_convolve(q, b), q, b, d)
      BY ConvolveIs
    <2>. QED  BY <2>1 DEF Convolves
  <1>3. ASSUME NEW i \in S PROVE h[i] = f[i] + w * e[i]
    <2>1. b[back(k, i, d)] \in Int /\ p[i] \in Int /\ q[i] \in Int
      BY BackIs
    <2>2. \A x, y, z, v \in Int : (x + v * y) * z = x * z + v * (y * z)
      OBVIOUS
    <2>3. h[i] = (p[i] + w * q[i]) * b[back(k, i, d)]
      BY <1>2 DEF Weighted
    <2>4. (p[i] + w * q[i]) * b[back(k, i, d)] = p[i] * b[back(k, i, d)] + w * (q[i] * b[back(k, i, d)])
      <3>. DEFINE x == p[i]
                  y == q[i]
                  z == b[back(k, i, d)]
      <3>1. x \in Int /\ y \in Int /\ z \in Int
        BY <2>1
      <3>. HIDE DEF x, y, z
      <3>2. (x + w * y) * z = x * z + w * (y * z)
        BY <2>2, <3>1
      <3>. QED  BY <3>2 DEF x, y, z
    <2>. HIDE DEF h, e, f
    <2>. QED  BY <1>2, <2>3, <2>4
  <1>. HIDE DEF h, e, f, S
  <1>4. over(h, S) = over(f, S) + w * over(e, S)
    BY <1>1, <1>2, <1>3, OverPlus
  <1>. QED  BY <1>2, <1>4

\* A key that shifts, and may negate, what is bound by it.
Shift(s, sign, d) == [i \in 0 .. d - 1 |-> IF i = s THEN sign ELSE 0]

\* The modelled keys are shifts.
LEMMA KeysShift ==
  ASSUME NEW d \in Nat \ {0}, NEW key \in Keys(d)
  PROVE  /\ key \in [0 .. d - 1 -> Int]
         /\ \E s \in 0 .. d - 1, sign \in {-1, 1} : key = Shift(s, sign, d)
  <1>1. PICK s \in 0 .. d - 1, sign \in {-1, 1} :
           key = [i \in 0 .. d - 1 |-> IF i = s THEN sign ELSE 0]
    BY DEF Keys
  <1>2. key \in [0 .. d - 1 -> Int]
    BY <1>1
  <1>. QED  BY <1>1, <1>2 DEF Shift

\* Binding by one.
LEMMA ConvolveShift ==
  ASSUME NEW d \in Nat \ {0}, NEW a \in [0 .. d - 1 -> Int], NEW s \in 0 .. d - 1, NEW sign \in Int
  PROVE  /\ circular_convolve(a, Shift(s, sign, d)) \in [0 .. d - 1 -> Int]
         /\ \A k \in 0 .. d - 1 :
              circular_convolve(a, Shift(s, sign, d))[k] = sign * a[back(k, s, d)]
  <1>. DEFINE S == 0 .. d - 1
              b == Shift(s, sign, d)
              c == circular_convolve(a, b)
  <1>1. b \in [S -> Int] /\ \A i \in S : b[i] = IF i = s THEN sign ELSE 0
    BY DEF Shift
  <1>2. IsFiniteSet(S)
    BY CoordinatesAre
  <1>. HIDE DEF b
  <1>3. Convolves(c, a, b, d)
    BY <1>1, ConvolveIs
  <1>. HIDE DEF c
  <1>4. ASSUME NEW k \in S PROVE c[k] = sign * a[back(k, s, d)]
    <2>. DEFINE f == Term(a, b, k, d)
                m == back(k, s, d)
    <2>1. /\ c[k] = over(f, S) /\ Ints(f, S)
          /\ \A i \in S : f[i] = a[i] * b[back(k, i, d)]
      BY <1>3 DEF Convolves
    <2>2. \A i \in S : back(k, i, d) \in S /\ (back(k, i, d) = s <=> i = m)
      BY BackIs, BackReturns
    <2>3. m \in S /\ \A i \in S : a[i] \in Int
      BY BackIs
    <2>. HIDE DEF f, m, S
    <2>4. ASSUME NEW i \in S, i # m PROVE f[i] = 0
      <3>1. b[back(k, i, d)] = 0
        BY <1>1, <2>2, <2>4
      <3>2. f[i] = a[i] * 0
        BY <2>1, <3>1
      <3>. QED  BY <2>3, <3>2
    <2>5. over(f, S) = f[m]
      BY <1>2, <2>1, <2>3, <2>4, OverSingle
    <2>6. f[m] = a[m] * sign
      BY <1>1, <2>1, <2>2, <2>3
    <2>7. a[m] * sign = sign * a[m]
      BY <2>3
    <2>. QED  BY <2>1, <2>5, <2>6, <2>7 DEF m
  <1>5. c \in [S -> Int]
    BY <1>3 DEF Convolves
  <1>. QED  BY <1>4, <1>5 DEF c, b

\* bind.rs: the approximate inverse of a vector.
LEMMA InvolveIs ==
  ASSUME NEW d \in Nat \ {0}, NEW a \in [0 .. d - 1 -> Int]
  PROVE  /\ involve(a) \in [0 .. d - 1 -> Int]
         /\ \A i \in 0 .. d - 1 : involve(a)[i] = a[back(0, i, d)]
  <1>. DEFINE S == 0 .. d - 1
  <1>1. Cardinality(S) = d /\ DOMAIN a = S
    BY CoordinatesAre
  <1>2. involve(a) = [i \in S |-> IF i = 0 THEN a[0] ELSE a[d - i]]
    BY <1>1 DEF involve
  <1>3. 0 \in S
    OBVIOUS
  <1>4. ASSUME NEW i \in S PROVE back(0, i, d) \in S /\ back(0, i, d) = IF i = 0 THEN 0 ELSE d - i
    <2>1. back(0, i, d) \in S /\ back(0, i, d) = IF i <= 0 THEN 0 - i ELSE 0 - i + d
      BY <1>3, BackIs
    <2>2. i \in Nat /\ d \in Int
      OBVIOUS
    <2>. QED  BY <2>1, <2>2
  <1>5. ASSUME NEW i \in S PROVE involve(a)[i] = a[back(0, i, d)]
    BY <1>2, <1>4
  <1>6. \A i \in S : a[back(0, i, d)] \in Int
    BY <1>4
  <1>7. involve(a) = [i \in S |-> involve(a)[i]]
    BY <1>2
  <1>. HIDE DEF S
  <1>8. involve(a) \in [S -> Int]
    BY <1>5, <1>6, <1>7
  <1>. QED  BY <1>5, <1>8 DEF S

\* The inverse of a shift is the shift back.
LEMMA InvolveShift ==
  ASSUME NEW d \in Nat \ {0}, NEW s \in 0 .. d - 1, NEW sign \in Int
  PROVE  involve(Shift(s, sign, d)) = Shift(back(0, s, d), sign, d)
  <1>. DEFINE S == 0 .. d - 1
              b == Shift(s, sign, d)
              n == back(0, s, d)
              e == Shift(n, sign, d)
  <1>0. 0 \in S /\ n \in S
    BY BackIs
  <1>1. /\ b \in [S -> Int] /\ \A i \in S : b[i] = IF i = s THEN sign ELSE 0
        /\ e \in [S -> Int] /\ \A i \in S : e[i] = IF i = n THEN sign ELSE 0
    BY DEF Shift
  <1>. HIDE DEF b, e
  <1>2. involve(b) \in [S -> Int] /\ \A i \in S : involve(b)[i] = b[back(0, i, d)]
    BY <1>1, InvolveIs
  <1>3. ASSUME NEW i \in S PROVE back(0, i, d) \in S /\ (back(0, i, d) = s <=> i = n)
    <2>1. back(0, i, d) \in S
      BY <1>0, BackIs
    <2>2. back(0, i, d) = s <=> i = back(0, s, d)
      BY <1>0, BackReturns
    <2>. QED  BY <2>1, <2>2
  <1>4. \A i \in S : involve(b)[i] = e[i]
    BY <1>1, <1>2, <1>3
  <1>5. involve(b) = e
    <2>. HIDE DEF S
    <2>. QED  BY <1>1, <1>2, <1>4, SameVectors
  <1>. QED  BY <1>5 DEF b, e

\* bind.rs: unbinding by a key that shifts restores what was bound by it, in
\* any dimension: nothing is lost there, where other keys give back an
\* approximation.
THEOREM ShiftsUnbind ==
  ASSUME NEW d \in Nat \ {0}, NEW a \in [0 .. d - 1 -> Int], NEW key \in Keys(d)
  PROVE  unbind_vec(circular_convolve(a, key), key) = a
  <1>. DEFINE S == 0 .. d - 1
  <1>1. PICK s \in S, sign \in {-1, 1} : key = Shift(s, sign, d)
    BY KeysShift
  <1>. DEFINE n == back(0, s, d)
              c == circular_convolve(a, key)
              u == unbind_vec(c, key)
  <1>2. sign \in Int /\ (\A x \in Int : sign * (sign * x) = x) /\ 0 \in S
    BY <1>1
  <1>3. n \in S
    BY <1>2, BackIs
  <1>4. c \in [S -> Int] /\ \A k \in S : c[k] = sign * a[back(k, s, d)]
    <2>. DEFINE e == circular_convolve(a, Shift(s, sign, d))
    <2>1. e \in [S -> Int] /\ \A k \in S : e[k] = sign * a[back(k, s, d)]
      <3>1. sign \in Int
        BY <1>2
      <3>. QED  BY <3>1, ConvolveShift
    <2>2. c = e
      BY <1>1
    <2>. HIDE DEF c, e
    <2>. QED  BY <2>1, <2>2
  <1>5. u = circular_convolve(c, Shift(n, sign, d))
    BY <1>1, <1>2, InvolveShift DEF unbind_vec
  <1>. HIDE DEF c, u, n
  <1>6. u \in [S -> Int] /\ \A k \in S : u[k] = sign * c[back(k, n, d)]
    <2>. DEFINE v == circular_convolve(c, Shift(n, sign, d))
    <2>1. v \in [S -> Int] /\ \A k \in S : v[k] = sign * c[back(k, n, d)]
      <3>1. sign \in Int /\ n \in S /\ c \in [S -> Int]
        BY <1>2, <1>3, <1>4
      <3>. QED  BY <3>1, ConvolveShift
    <2>. QED  BY <1>5, <2>1
  <1>7. ASSUME NEW k \in S PROVE u[k] = a[k]
    <2>1. back(k, n, d) \in S /\ back(back(k, n, d), s, d) = k
      <3>1. back(k, n, d) \in S
        BY <1>3, BackIs
      <3>2. back(back(k, n, d), s, d) = k
        <4>1. k \in S /\ s \in S
          OBVIOUS
        <4>. QED  BY <4>1, BackReturns DEF n
      <3>. QED  BY <3>1, <3>2
    <2>2. u[k] = sign * (sign * a[k])
      BY <1>4, <1>6, <2>1
    <2>3. a[k] \in Int
      OBVIOUS
    <2>. QED  BY <1>2, <2>2, <2>3
  <1>8. u = a
    <2>. HIDE DEF S
    <2>. QED  BY <1>6, <1>7, SameVectors DEF S
  <1>. QED  BY <1>8 DEF u, c

\* vec_ops.rs: scoring by role unbinds as bind.rs does.
THEOREM UnbindingsAgree ==
  ASSUME NEW d \in Nat \ {0}, NEW a \in [0 .. d - 1 -> Int], NEW b \in [0 .. d - 1 -> Int]
  PROVE  unbind_by(a, b) = unbind_vec(a, b)
  <1>. DEFINE S == 0 .. d - 1
              e == involve(b)
              u == unbind_vec(a, b)
              v == unbind_by(a, b)
              g(k) == [i \in S |-> a[i] * b[(i - k) % d]]
  <1>1. DOMAIN a = S /\ IsFiniteSet(S) /\ Cardinality(S) = d
    BY CoordinatesAre
  <1>2. v = [k \in S |-> total(g(k))]
    BY <1>1 DEF unbind_by
  <1>3. e \in [S -> Int] /\ \A i \in S : e[i] = b[back(0, i, d)]
    BY InvolveIs
  <1>4. Convolves(u, a, e, d)
    <2>. HIDE DEF e
    <2>. QED  BY <1>3, ConvolveIs DEF e, unbind_vec
  <1>. HIDE DEF e, u, v
  <1>5. ASSUME NEW k \in S PROVE v[k] = u[k]
    <2>1. v[k] = over(g(k), S)
      <3>1. g(k) = [x \in S |-> g(k)[x]]
        OBVIOUS
      <3>. HIDE DEF g
      <3>2. total(g(k)) = over(g(k), S)
        BY <3>1, TotalIsOver
      <3>. QED  BY <1>2, <3>2
    <2>2. \A i \in S : g(k)[i] = a[i] * b[back(i, k, d)]
      BY DEF back
    <2>. HIDE DEF g
    <2>3. ASSUME NEW i \in S PROVE e[back(k, i, d)] = b[back(i, k, d)]
      <3>1. back(k, i, d) \in S /\ back(0, back(k, i, d), d) = back(i, k, d)
        BY BackIs, BackReturns
      <3>. QED  BY <1>3, <3>1
    <2>4. u[k] = over(Term(a, e, k, d), S) /\ \A i \in S : Term(a, e, k, d)[i] = a[i] * e[back(k, i, d)]
      BY <1>4 DEF Convolves
    <2>5. \A i \in S : g(k)[i] = Term(a, e, k, d)[i]
      BY <2>2, <2>3, <2>4
    <2>6. over(g(k), S) = over(Term(a, e, k, d), S)
      <3>. DEFINE h == g(k)
                  f == Term(a, e, k, d)
      <3>1. \A x \in S : h[x] = f[x]
        BY <2>5
      <3>. HIDE DEF h, f, S
      <3>2. over(h, S) = over(f, S)
        BY <3>1, OverSame
      <3>. QED  BY <3>2 DEF h, f
    <2>. QED  BY <2>1, <2>4, <2>6
  <1>6. u \in [S -> Int]
    BY <1>4 DEF Convolves
  <1>7. v = [k \in S |-> v[k]]
    BY <1>2
  <1>. HIDE DEF S
  <1>8. v \in [S -> Int]
    BY <1>5, <1>6, <1>7
  <1>9. v = u
    BY <1>5, <1>6, <1>8, SameVectors
  <1>. QED  BY <1>9 DEF u, v

\* bind.rs: a bundle of two, the second with a weight.
Both(p, q, w) == bundle_vec(<<p, q>>, <<1, w>>)

\* vec_ops.rs: at each coordinate, the weighted sum.
LEMMA BundleIs ==
  ASSUME NEW S, NEW p \in [S -> Int], NEW q \in [S -> Int], NEW w \in Int
  PROVE  Both(p, q, w) \in [S -> Int] /\ Weighted(Both(p, q, w), p, q, w, S)
  <1>. DEFINE f(i) == [n \in DOMAIN <<p, q>> |-> <<1, w>>[n] * <<p, q>>[n][i]]
              b == Both(p, q, w)
  <1>1. b = [i \in S |-> total(f(i))]
    BY DEF bundle_vec, Both
  <1>2. ASSUME NEW i \in S
        PROVE  /\ DOMAIN f(i) = {1, 2} /\ f(i) = [n \in {1, 2} |-> f(i)[n]]
               /\ f(i)[1] = p[i] /\ f(i)[2] = w * q[i]
    <2>1. DOMAIN <<p, q>> = {1, 2}
      OBVIOUS
    <2>2. 1 * p[i] = p[i]
      OBVIOUS
    <2>. QED  BY <2>1, <2>2
  <1>. HIDE DEF f, b
  <1>3. ASSUME NEW i \in S PROVE total(f(i)) = p[i] + w * q[i] /\ total(f(i)) \in Int
    <2>. DEFINE g == f(i)
                D == {1, 2}
    <2>1. g = [n \in D |-> g[n]] /\ g[1] = p[i] /\ g[2] = w * q[i]
      BY <1>2
    <2>2. p[i] \in Int /\ w * q[i] \in Int
      OBVIOUS
    <2>. HIDE DEF g
    <2>3. Ints(g, D)
      BY <2>1, <2>2 DEF Ints
    <2>4. IsFiniteSet(D)
      <3>. DEFINE E == {} \cup {1}
      <3>1. IsFiniteSet({})
        BY FS_EmptySet
      <3>2. IsFiniteSet(E)
        BY <3>1, FS_AddElement
      <3>3. D = E \cup {2}
        OBVIOUS
      <3>. HIDE DEF E, D
      <3>. QED  BY <3>2, <3>3, FS_AddElement
    <2>5. D \in SUBSET D /\ {2} \in SUBSET D /\ D \ {1} = {2} /\ {2} \ {2} = {} /\ 1 \in D
      OBVIOUS
    <2>. HIDE DEF D
    <2>6. over(g, D) = g[1] + over(g, {2})
      BY <2>3, <2>4, <2>5, OverTakes
    <2>7. over(g, {2}) = g[2] + over(g, {}) /\ over(g, {}) = 0
      BY <2>3, <2>4, <2>5, OverTakes
    <2>8. total(g) = over(g, D)
      BY <2>1, TotalIsOver
    <2>. QED  BY <2>1, <2>2, <2>6, <2>7, <2>8 DEF g
  <1>4. \A i \in S : b[i] = p[i] + w * q[i]
    BY <1>1, <1>3
  <1>5. b \in [S -> Int]
    BY <1>1, <1>3
  <1>. QED  BY <1>4, <1>5 DEF b, Weighted

\* bind.rs: binding a bundle is bundling what was bound, whatever the dimension.
THEOREM BindingDistributes ==
  ASSUME NEW d \in Nat \ {0}, NEW p \in [0 .. d - 1 -> Int], NEW q \in [0 .. d - 1 -> Int],
         NEW w \in Int, NEW key \in [0 .. d - 1 -> Int]
  PROVE  circular_convolve(bundle_vec(<<p, q>>, <<1, w>>), key)
           = bundle_vec(<<circular_convolve(p, key), circular_convolve(q, key)>>, <<1, w>>)
  <1>. DEFINE S == 0 .. d - 1
              r == Both(p, q, w)
              x == circular_convolve(p, key)
              y == circular_convolve(q, key)
              c == circular_convolve(r, key)
              b == Both(x, y, w)
  <1>1. r \in [S -> Int] /\ Weighted(r, p, q, w, S)
    <2>1. p \in [S -> Int] /\ q \in [S -> Int]
      OBVIOUS
    <2>. HIDE DEF S
    <2>. QED  BY <2>1, BundleIs
  <1>. HIDE DEF r
  <1>2. x \in [S -> Int] /\ y \in [S -> Int] /\ c \in [S -> Int]
    BY <1>1, ConvolveIs DEF Convolves
  <1>3. Weighted(c, x, y, w, S)
    BY <1>1, ConvolutionDistributes
  <1>. HIDE DEF x, y, c, S
  <1>4. b \in [S -> Int] /\ Weighted(b, x, y, w, S)
    BY <1>2, BundleIs
  <1>. HIDE DEF b
  <1>5. c = b
    <2>1. \A k \in S : c[k] = b[k]
      BY <1>3, <1>4 DEF Weighted
    <2>. QED  BY <1>2, <1>4, <2>1, SameVectors
  <1>. QED  BY <1>5 DEF c, b, r, x, y, Both

-----------------------------------------------------------------------------
(* The laws of the operations on snapshots (ops.rs, bind.rs).              *)

\* The locations of a close enough to one of b.
Close(a, b, t) ==
    {i \in DOMAIN a : \E j \in DOMAIN b : above(cosine(a[i].address, b[j].address), t)}

\* r has the locations of a at these indices, numbered anew.
Renumbered(r, a, order, L, S) ==
    /\ L \in Nat
    /\ r \in [1 .. L -> Locs(S)]
    /\ \A n \in 1 .. L : /\ r[n].address = a[order[n]].address
                         /\ r[n].counter = a[order[n]].counter
                         /\ r[n].writes = a[order[n]].writes
                         /\ r[n].id = n - 1

\* ops.rs: numbering anew changes the ids alone, and no id that is in order.
LEMMA ReindexIs ==
  ASSUME NEW S, NEW L \in Nat, NEW r \in [1 .. L -> Locs(S)]
  PROVE  /\ reindex(r) \in [1 .. L -> Locs(S)]
         /\ \A n \in 1 .. L : /\ reindex(r)[n].address = r[n].address
                              /\ reindex(r)[n].counter = r[n].counter
                              /\ reindex(r)[n].writes = r[n].writes
                              /\ reindex(r)[n].id = n - 1
         /\ (\A n \in 1 .. L : r[n].id = n - 1) => reindex(r) = r
  <1>. DEFINE e(n) == [r[n] EXCEPT !.id = n - 1]
  <1>1. reindex(r) = [n \in 1 .. L |-> e(n)]
    BY DEF reindex
  <1>2. ASSUME NEW n \in 1 .. L
        PROVE  /\ e(n) \in Locs(S) /\ e(n).address = r[n].address /\ e(n).counter = r[n].counter
               /\ e(n).writes = r[n].writes /\ e(n).id = n - 1
               /\ r[n].id = n - 1 => e(n) = r[n]
    <2>1. r[n] \in Locs(S) /\ n - 1 \in Int
      OBVIOUS
    <2>. QED  BY <2>1 DEF Locs
  <1>. HIDE DEF e
  <1>3. reindex(r) \in [1 .. L -> Locs(S)] /\ \A n \in 1 .. L : reindex(r)[n] = e(n)
    BY <1>1, <1>2
  <1>4. (\A n \in 1 .. L : r[n].id = n - 1) => reindex(r) = r
    <2>. SUFFICES ASSUME \A n \in 1 .. L : r[n].id = n - 1 PROVE reindex(r) = r
      OBVIOUS
    <2>1. \A n \in 1 .. L : reindex(r)[n] = r[n]
      BY <1>2, <1>3
    <2>. DEFINE D == 1 .. L
                V == Locs(S)
                f == reindex(r)
    <2>2. f \in [D -> V] /\ r \in [D -> V] /\ \A n \in D : f[n] = r[n]
      BY <1>3, <2>1
    <2>. HIDE DEF D, V, f
    <2>3. f = r
      BY <2>2
    <2>. QED  BY <2>3 DEF f
  <1>. QED  BY <1>2, <1>3, <1>4

\* r is the locations of a that are close to one of b, all of them if all are.
Intersected(r, a, b, t, N, S, order, L) ==
    /\ Renumbered(r, a, order, L, S)
    /\ \A n \in 1 .. L : order[n] \in Close(a, b, t)
    /\ Close(a, b, t) = 1 .. N => L = N /\ \A n \in 1 .. N : order[n] = n

\* ops.rs: what an intersection holds.
LEMMA IntersectionIs ==
  ASSUME NEW S, NEW N \in Nat, NEW a \in [1 .. N -> Locs(S)], NEW b, NEW t
  PROVE  \E order, L : Intersected(intersect(a, b, t), a, b, t, N, S, order, L)
  <1>. DEFINE kept == Close(a, b, t)
              D == 1 .. N
              s == subsequence(a, kept)
              r == intersect(a, b, t)
  <1>1. r = reindex(s)
    BY DEF intersect, Close
  <1>2. kept \in SUBSET D
    BY DEF Close
  <1>3. IsFiniteSet(kept) /\ kept \subseteq Int
    <2>1. IsFiniteSet(D)
      <3>. HIDE DEF kept, s, r
      <3>. QED  BY FS_Interval
    <2>2. IsFiniteSet(kept)
      <3>. HIDE DEF kept, D
      <3>. QED  BY <1>2, <2>1, FS_Subset
    <2>. QED  BY <1>2, <2>2
  <1>. HIDE DEF r, kept
  <1>4. PICK order : Selects(s, a, kept, order)
    BY <1>3, SubsequenceIs
  <1>. DEFINE L == Len(order)
  <1>5. L \in Nat /\ s = [n \in 1 .. L |-> a[order[n]]] /\ \A n \in 1 .. L : order[n] \in kept
    BY <1>4 DEF Selects, Indexes, Bijects
  <1>6. \A n \in 1 .. L : s[n] = a[order[n]] /\ order[n] \in D /\ s[n] \in Locs(S)
    BY <1>2, <1>5
  <1>7. CASE kept # D
    <2>1. s \in [1 .. L -> Locs(S)]
      BY <1>5, <1>6
    <2>. HIDE DEF s, L
    <2>2. Renumbered(r, a, order, L, S)
      <3>1. L \in Nat
        BY <1>5
      <3>. DEFINE e == reindex(s)
      <3>2. /\ e \in [1 .. L -> Locs(S)]
            /\ \A n \in 1 .. L : /\ e[n].address = s[n].address
                                 /\ e[n].counter = s[n].counter
                                 /\ e[n].writes = s[n].writes
                                 /\ e[n].id = n - 1
        BY <2>1, <3>1, ReindexIs
      <3>. HIDE DEF e
      <3>3. \A n \in 1 .. L : s[n] = a[order[n]]
        BY <1>6
      <3>4. Renumbered(e, a, order, L, S)
        BY <3>1, <3>2, <3>3 DEF Renumbered
      <3>. QED  BY <1>1, <3>4 DEF e
    <2>3. Intersected(r, a, b, t, N, S, order, L)
      BY <1>5, <1>7, <2>2 DEF Intersected, kept
    <2>. QED  BY <2>3 DEF r
  <1>8. CASE kept = D
    <2>. DEFINE all == [n \in D |-> n]
    <2>1. s = [n \in D |-> a[n]]
      <3>1. subsequence(a, 1 .. N) = [n \in 1 .. N |-> a[n]]
        BY SubsequenceWhole
      <3>. QED  BY <1>8, <3>1
    <2>. HIDE DEF s, L
    <2>2. s = a
      BY <2>1
    <2>3. Renumbered(r, a, all, N, S) /\ \A n \in D : all[n] = n
      <3>1. r = reindex(a)
        BY <1>1, <2>2
      <3>2. /\ reindex(a) \in [1 .. N -> Locs(S)]
            /\ \A n \in 1 .. N : /\ reindex(a)[n].address = a[n].address
                                 /\ reindex(a)[n].counter = a[n].counter
                                 /\ reindex(a)[n].writes = a[n].writes
                                 /\ reindex(a)[n].id = n - 1
        BY ReindexIs
      <3>. QED  BY <3>1, <3>2 DEF Renumbered
    <2>. HIDE DEF all
    <2>4. \A n \in 1 .. N : all[n] \in kept
      BY <1>8, <2>3
    <2>5. Intersected(r, a, b, t, N, S, all, N)
      BY <2>3, <2>4 DEF Intersected, kept
    <2>. QED  BY <2>5 DEF r
  <1>. QED  BY <1>7, <1>8

\* The same location, whatever its id.
LEMMA PatternsSame ==
  ASSUME NEW l, NEW m, l.counter = m.counter, l.writes = m.writes
  PROVE  normalized_pattern(l) = normalized_pattern(m)
  BY DEF normalized_pattern

\* Locations alike in every field.
LEMMA SameLocation ==
  ASSUME NEW S, NEW l \in Locs(S), NEW m \in Locs(S),
         l.address = m.address, l.counter = m.counter, l.writes = m.writes, l.id = m.id
  PROVE  l = m
  BY DEF Locs

\* All of the locations, in place, are the snapshot.
LEMMA RenumberedSame ==
  ASSUME NEW S, NEW N \in Nat, NEW a \in [1 .. N -> Locs(S)], NEW r, NEW order,
         Renumbered(r, a, order, N, S), \A n \in 1 .. N : order[n] = n /\ a[n].id = n - 1
  PROVE  r = a
  <1>1. r \in [1 .. N -> Locs(S)]
    BY DEF Renumbered
  <1>2. ASSUME NEW n \in 1 .. N PROVE r[n] = a[n]
    <2>1. r[n] \in Locs(S) /\ a[n] \in Locs(S)
      BY <1>1
    <2>2. /\ r[n].address = a[n].address /\ r[n].counter = a[n].counter
          /\ r[n].writes = a[n].writes /\ r[n].id = a[n].id
      <3>1. order[n] = n /\ a[n].id = n - 1
        OBVIOUS
      <3>2. /\ r[n].address = a[order[n]].address /\ r[n].counter = a[order[n]].counter
            /\ r[n].writes = a[order[n]].writes /\ r[n].id = n - 1
        <4>1. n \in 1 .. N
          OBVIOUS
        <4>. QED  BY ONLY Renumbered(r, a, order, N, S), <4>1 DEF Renumbered
      <3>. QED  BY ONLY <3>1, <3>2
    <2>. DEFINE l == r[n]
                m == a[n]
    <2>3. l \in Locs(S) /\ m \in Locs(S)
      BY <2>1
    <2>4. l.address = m.address /\ l.counter = m.counter /\ l.writes = m.writes /\ l.id = m.id
      BY <2>2
    <2>. HIDE DEF l, m
    <2>5. l = m
      BY <2>3, <2>4, SameLocation
    <2>. QED  BY <2>5 DEF l, m
  <1>. DEFINE D == 1 .. N
              V == Locs(S)
  <1>3. r \in [D -> V] /\ a \in [D -> V] /\ \A n \in D : r[n] = a[n]
    BY <1>1, <1>2
  <1>. HIDE DEF D, V
  <1>. QED  BY <1>3

\* ops.rs: an intersection holds locations of the first operand, and loses
\* none of its own against the second, at any threshold.
THEOREM IntersectionsSettle ==
  ASSUME NEW S, NEW N \in Nat, NEW a \in [1 .. N -> Locs(S)], NEW b, NEW t
  PROVE  /\ PatternsOf(intersect(a, b, t)) \subseteq PatternsOf(a)
         /\ intersect(intersect(a, b, t), b, t) = intersect(a, b, t)
  <1>. DEFINE r == intersect(a, b, t)
  <1>0. PICK order, L : Intersected(r, a, b, t, N, S, order, L)
    BY IntersectionIs
  <1>1. /\ Renumbered(r, a, order, L, S)
        /\ \A n \in 1 .. L : order[n] \in Close(a, b, t)
    BY <1>0 DEF Intersected
  <1>. HIDE DEF r
  <1>2. L \in Nat /\ r \in [1 .. L -> Locs(S)]
    BY <1>1 DEF Renumbered
  <1>3. ASSUME NEW n \in 1 .. L
        PROVE  /\ order[n] \in DOMAIN a /\ n \in Close(r, b, t)
               /\ normalized_pattern(r[n]) = normalized_pattern(a[order[n]])
    <2>1. order[n] \in DOMAIN a /\ \E j \in DOMAIN b : above(cosine(a[order[n]].address, b[j].address), t)
      BY <1>1 DEF Close
    <2>2. /\ r[n].address = a[order[n]].address /\ r[n].counter = a[order[n]].counter
          /\ r[n].writes = a[order[n]].writes
      BY <1>1 DEF Renumbered
    <2>3. n \in DOMAIN r
      BY <1>2
    <2>4. n \in Close(r, b, t)
      BY <2>1, <2>2, <2>3 DEF Close
    <2>5. normalized_pattern(r[n]) = normalized_pattern(a[order[n]])
      <3>. DEFINE l == r[n]
                  m == a[order[n]]
      <3>1. l.counter = m.counter /\ l.writes = m.writes
        BY <2>2
      <3>. HIDE DEF l, m
      <3>2. normalized_pattern(l) = normalized_pattern(m)
        BY <3>1, PatternsSame
      <3>. QED  BY <3>2 DEF l, m
    <2>. QED  BY <2>1, <2>4, <2>5
  <1>4. PatternsOf(r) \subseteq PatternsOf(a)
    <2>1. DOMAIN r = 1 .. L
      BY <1>2
    <2>. QED  BY <1>3, <2>1 DEF PatternsOf
  <1>5. Close(r, b, t) = 1 .. L
    <2>1. Close(r, b, t) \subseteq DOMAIN r
      BY DEF Close
    <2>2. DOMAIN r = 1 .. L
      BY <1>2
    <2>. QED  BY <1>3, <2>1, <2>2
  <1>6. intersect(r, b, t) = r
    <2>. DEFINE q == intersect(r, b, t)
    <2>0. PICK again, M : Intersected(q, r, b, t, L, S, again, M)
      BY <1>2, IntersectionIs
    <2>1. /\ Renumbered(q, r, again, M, S)
          /\ Close(r, b, t) = 1 .. L => M = L /\ \A n \in 1 .. L : again[n] = n
      BY <2>0 DEF Intersected
    <2>. HIDE DEF q
    <2>2. \A n \in 1 .. L : r[n].id = n - 1
      BY <1>1 DEF Renumbered
    <2>3. Renumbered(q, r, again, L, S) /\ \A n \in 1 .. L : again[n] = n /\ r[n].id = n - 1
      BY <1>5, <2>1, <2>2
    <2>4. q = r
      BY <1>2, <2>3, RenumberedSame
    <2>. QED  BY <2>4 DEF q
  <1>. QED  BY <1>4, <1>6 DEF r

\* vec_ops.rs: nothing is closer to a vector than itself.
LEMMA SelfIsClose ==
  ASSUME NEW S, IsFiniteSet(S), NEW v, IntVector(v, S), norm2(v) # 0,
         NEW t, t.num \in Int, t.den \in Int, t.num < t.den
  PROVE  above(cosine(v, v), t)
  <1>. DEFINE c == norm2(v)
              x == c * c
              n == t.num
              m == t.den
  <1>1. c \in Nat \ {0} /\ dot(v, v) = c
    BY NormIs
  <1>2. cosine(v, v) = [num |-> x, den |-> x]
    <2>1. cosine(v, v) = [num |-> IF dot(v, v) < 0 THEN -dot(v, v) * dot(v, v) ELSE dot(v, v) * dot(v, v),
                          den |-> norm2(v) * norm2(v)]
      BY DEF cosine
    <2>2. ~(dot(v, v) < 0)
      BY <1>1
    <2>. QED  BY <1>1, <2>1, <2>2
  <1>3. x \in Nat \ {0}
    <2>1. \A y \in Nat \ {0} : y * y \in Nat \ {0}
      OBVIOUS
    <2>. HIDE DEF c
    <2>. QED  BY <1>1, <2>1
  <1>. HIDE DEF x
  <1>4. x * m > n * x
    <2>1. \A y \in Nat \ {0}, p, q \in Int : p < q => y * q > p * y
      OBVIOUS
    <2>2. n \in Int /\ m \in Int /\ n < m
      OBVIOUS
    <2>. HIDE DEF n, m
    <2>. QED  BY <1>3, <2>1, <2>2
  <1>. QED  BY <1>2, <1>4 DEF above

\* ops.rs: a snapshot intersected with itself is itself.
THEOREM IntersectionWithSelf ==
  ASSUME NEW S, IsFiniteSet(S), NEW N \in Nat, NEW a \in [1 .. N -> Locs(S)],
         \A n \in 1 .. N : a[n].id = n - 1 /\ norm2(a[n].address) # 0,
         NEW t, t.num \in Int, t.den \in Int, t.num < t.den
  PROVE  intersect(a, a, t) = a
  <1>1. Close(a, a, t) = 1 .. N
    <2>1. ASSUME NEW n \in 1 .. N PROVE above(cosine(a[n].address, a[n].address), t)
      <3>1. IntVector(a[n].address, S)
        BY SnapshotsPlaced DEF Placed
      <3>. QED  BY <3>1, SelfIsClose
    <2>. QED  BY <2>1 DEF Close
  <1>. DEFINE r == intersect(a, a, t)
  <1>2. PICK order, L : /\ Renumbered(r, a, order, L, S)
                        /\ Close(a, a, t) = 1 .. N => L = N /\ \A n \in 1 .. N : order[n] = n
    <2>1. PICK order, L : Intersected(r, a, a, t, N, S, order, L)
      BY IntersectionIs
    <2>. QED  BY <2>1 DEF Intersected
  <1>. HIDE DEF r
  <1>3. Renumbered(r, a, order, N, S) /\ \A n \in 1 .. N : order[n] = n /\ a[n].id = n - 1
    BY <1>1, <1>2
  <1>4. r = a
    BY <1>3, RenumberedSame
  <1>. QED  BY <1>4 DEF r

\* c has the locations of b with the opposite counters.
Negated(c, b, M, S) ==
    /\ c \in [1 .. M -> Locs(S)]
    /\ \A n \in 1 .. M : /\ c[n].address = b[n].address
                         /\ c[n].counter = times(-1, b[n].counter)
                         /\ c[n].writes = b[n].writes

\* ops.rs: what negate makes.
LEMMA NegateIs ==
  ASSUME NEW S, NEW M \in Nat, NEW b \in [1 .. M -> Locs(S)]
  PROVE  Negated(negate(b), b, M, S)
  <1>. DEFINE e(n) == [b[n] EXCEPT !.counter = times(-1, @)]
  <1>1. negate(b) = [n \in 1 .. M |-> e(n)]
    BY DEF negate, scale
  <1>2. ASSUME NEW n \in 1 .. M
        PROVE  /\ e(n) \in Locs(S) /\ e(n).address = b[n].address
               /\ e(n).counter = times(-1, b[n].counter) /\ e(n).writes = b[n].writes
    <2>1. b[n] \in Locs(S)
      OBVIOUS
    <2>2. times(-1, b[n].counter) \in [S -> Int]
      BY <2>1 DEF Locs, times
    <2>. QED  BY <2>1, <2>2 DEF Locs
  <1>. HIDE DEF e
  <1>3. negate(b) \in [1 .. M -> Locs(S)] /\ \A n \in 1 .. M : negate(b)[n] = e(n)
    BY <1>1, <1>2
  <1>. QED  BY <1>2, <1>3 DEF Negated

\* z is the opposite of y.
Opposite(z, y, S) == \A i \in S : z[i] = -1 * y[i]

\* What a difference takes away is what the negation adds.
LEMMA DifferenceIs ==
  ASSUME NEW S, NEW x \in [S -> Int], NEW y \in [S -> Int], NEW z \in [S -> Int],
         Opposite(z, y, S)
  PROVE  plus(x, times(1, z)) = plus(x, times(-1, y))
  <1>1. times(1, z) = [i \in S |-> 1 * z[i]] /\ times(-1, y) = [i \in S |-> -1 * y[i]]
    BY DEF times
  <1>2. \A i \in S : x[i] + 1 * z[i] = x[i] + (-1 * y[i])
    <2>. TAKE i \in S
    <2>1. x[i] \in Int /\ y[i] \in Int /\ z[i] \in Int /\ z[i] = -1 * y[i]
      BY DEF Opposite
    <2>. QED  BY <2>1
  <1>3. plus(x, times(1, z)) = [i \in S |-> x[i] + 1 * z[i]]
    BY <1>1 DEF plus
  <1>4. plus(x, times(-1, y)) = [i \in S |-> x[i] + (-1 * y[i])]
    BY <1>1 DEF plus
  <1>. QED  BY <1>2, <1>3, <1>4

\* ops.rs: the pattern of a negated location is the opposite.
LEMMA NegatedPattern ==
  ASSUME NEW S, NEW l \in Locs(S), NEW m \in Locs(S), l.writes = 1, m.writes = 1,
         m.counter = times(-1, l.counter)
  PROVE  /\ normalized_pattern(l) \in [S -> Int] /\ normalized_pattern(m) \in [S -> Int]
         /\ Opposite(normalized_pattern(m), normalized_pattern(l), S)
  <1>. DEFINE u == l.counter
              v == m.counter
  <1>1. u \in [S -> Int] /\ v \in [S -> Int] /\ \A i \in S : v[i] = -1 * u[i]
    BY DEF Locs, times
  <1>2. normalized_pattern(l) = [i \in S |-> u[i] \div 1] /\ normalized_pattern(m) = [i \in S |-> v[i] \div 1]
    <2>1. DOMAIN u = S /\ DOMAIN v = S
      BY <1>1
    <2>. QED  BY <2>1 DEF normalized_pattern
  <1>. HIDE DEF u, v
  <1>3. ASSUME NEW i \in S PROVE u[i] \div 1 = u[i] /\ v[i] \div 1 = v[i] /\ u[i] \in Int /\ v[i] \in Int
    <2>1. \A n \in Int : n \div 1 = n
      OBVIOUS
    <2>. QED  BY <1>1, <2>1
  <1>. QED  BY <1>1, <1>2, <1>3 DEF Opposite

\* vec_ops.rs: an operand's addresses alone decide what it is combined with.
LEMMA NegatedPartners ==
  ASSUME NEW S, NEW M \in Nat, NEW b \in [1 .. M -> Locs(S)], NEW c, Negated(c, b, M, S),
         NEW l, NEW k \in Nat
  PROVE  partners(l, c, k) = partners(l, b, k)
  <1>1. DOMAIN c = 1 .. M /\ DOMAIN b = 1 .. M /\ Len(c) = M /\ Len(b) = M
    BY DEF Negated
  <1>2. \A j \in 1 .. M : c[j].address = b[j].address
    BY DEF Negated
  <1>3. [j \in 1 .. M |-> cosine(l.address, c[j].address)] = [j \in 1 .. M |-> cosine(l.address, b[j].address)]
    BY <1>2
  <1>. QED  BY <1>1, <1>3 DEF partners

\* The differences with b are the sums with its negation, pair by pair.
LEMMA DifferencesAreSums ==
  ASSUME NEW S, IsFiniteSet(S), NEW N \in Nat, NEW a \in [1 .. N -> Locs(S)],
         NEW M \in Nat, NEW b \in [1 .. M -> Locs(S)], \A n \in 1 .. M : b[n].writes = 1,
         NEW k \in Nat
  PROVE  sums(crossed(a, negate(b), k), 1) = sums(crossed(a, b, k), -1)
  <1>. DEFINE w == wide(M, k)
              K == N * w
              e == negate(b)
              c == crossed(a, b, k)
              f == crossed(a, e, k)
              V == [S -> Int]
  <1>1. Negated(e, b, M, S)
    BY NegateIs
  <1>2. e \in [1 .. M -> Locs(S)]
    BY <1>1 DEF Negated
  <1>. HIDE DEF e
  <1>3. w \in 0 .. M /\ c \in Seq(V \X V) /\ Rows(c, a, b, k, N, w)
    BY CrossedIs
  <1>4. f \in Seq(V \X V) /\ Rows(f, a, e, k, N, w)
    BY <1>2, CrossedIs
  <1>5. K \in Nat
    <2>1. \A x, y \in Nat : x * y \in Nat
      OBVIOUS
    <2>. HIDE DEF w
    <2>. QED  BY <1>3, <2>1
  <1>6. DOMAIN c = 1 .. K /\ DOMAIN f = 1 .. K
    <2>1. Len(c) = K /\ Len(f) = K
      BY <1>3, <1>4 DEF Rows
    <2>. HIDE DEF c, f, K
    <2>. QED  BY <1>3, <1>4, <1>5, <2>1
  <1>7. \A r \in 1 .. N : partners(a[r], e, k) = partners(a[r], b, k)
    BY <1>1, NegatedPartners
  <1>8. ASSUME NEW r \in 1 .. N, NEW n \in 1 .. w
        PROVE  partners(a[r], b, k)[n] \in 1 .. M
    <2>1. Placed(b, M, S) /\ Placed(a, N, S)
      BY SnapshotsPlaced
    <2>2. IntVector(a[r].address, S)
      BY <2>1 DEF Placed
    <2>. QED  BY <2>1, <2>2, PartnersAre
  <1>. HIDE DEF c, f, w, V
  <1>9. ASSUME NEW r \in 1 .. N, NEW n \in 1 .. w
        PROVE  LET m == (r - 1) * w + n
               IN plus(f[m][1], times(1, f[m][2])) = plus(c[m][1], times(-1, c[m][2]))
    <2>. DEFINE m == (r - 1) * w + n
                j == partners(a[r], b, k)[n]
                x == normalized_pattern(a[r])
                y == normalized_pattern(b[j])
                z == normalized_pattern(e[j])
    <2>1. c[m] = <<x, y>>
      BY <1>3 DEF Rows, Cross
    <2>2. f[m] = <<x, z>>
      <3>1. f[m] = Cross(a, e, k, r, n)
        BY <1>4 DEF Rows
      <3>2. partners(a[r], e, k) = partners(a[r], b, k)
        BY <1>7
      <3>. QED  BY <3>1, <3>2 DEF Cross
    <2>3. j \in 1 .. M
      BY <1>8
    <2>4. b[j] \in Locs(S) /\ e[j] \in Locs(S) /\ b[j].writes = 1 /\ e[j].writes = 1
          /\ e[j].counter = times(-1, b[j].counter)
      <3>. HIDE DEF j
      <3>. QED  BY <1>1, <1>2, <2>3 DEF Negated
    <2>5. y \in [S -> Int] /\ z \in [S -> Int] /\ Opposite(z, y, S)
      <3>. HIDE DEF j
      <3>. QED  BY <2>4, NegatedPattern
    <2>6. x \in [S -> Int]
      <3>1. a[r] \in Locs(S)
        OBVIOUS
      <3>. QED  BY <3>1, PatternIs
    <2>. HIDE DEF x, y, z, m
    <2>7. plus(x, times(1, z)) = plus(x, times(-1, y))
      BY <2>5, <2>6, DifferenceIs
    <2>8. f[m][1] = x /\ f[m][2] = z /\ c[m][1] = x /\ c[m][2] = y
      BY <2>1, <2>2
    <2>9. plus(f[m][1], times(1, f[m][2])) = plus(c[m][1], times(-1, c[m][2]))
      BY <2>7, <2>8
    <2>. QED  BY <2>9 DEF m
  <1>10. ASSUME NEW m \in 1 .. K
         PROVE  plus(f[m][1], times(1, f[m][2])) = plus(c[m][1], times(-1, c[m][2]))
    <2>1. PICK r \in 1 .. N, n \in 1 .. w : m = (r - 1) * w + n
      BY <1>3 DEF Rows
    <2>. QED  BY <1>9, <2>1
  <1>. HIDE DEF K
  <1>11. sums(f, 1) = [m \in 1 .. K |-> plus(f[m][1], times(1, f[m][2]))]
    BY <1>6 DEF sums
  <1>12. sums(c, -1) = [m \in 1 .. K |-> plus(c[m][1], times(-1, c[m][2]))]
    BY <1>6 DEF sums
  <1>. QED  BY <1>10, <1>11, <1>12 DEF f, c, e

\* ops.rs: subtracting adds the negation, an empty operand included, whatever
\* the snapshots, the limit of the crossing and the threshold.
THEOREM SubtractingAddsNegation ==
  ASSUME NEW S, IsFiniteSet(S), NEW N \in Nat, NEW a \in [1 .. N -> Locs(S)],
         NEW M \in Nat, NEW b \in [1 .. M -> Locs(S)], \A n \in 1 .. M : b[n].writes = 1,
         NEW k \in Nat, NEW tau
  PROVE  sub_with_limit(a, b, k, tau) = add_with_limit(a, negate(b), k, tau)
  <1>1. CASE a = NoLocations
    BY <1>1 DEF sub_with_limit, add_with_limit
  <1>2. CASE a # NoLocations /\ b = NoLocations
    <2>1. negate(b) = NoLocations
      BY <1>2 DEF negate, scale, NoLocations
    <2>. QED  BY <1>2, <2>1 DEF sub_with_limit, add_with_limit
  <1>3. CASE a # NoLocations /\ b # NoLocations
    <2>1. negate(b) # NoLocations
      <3>1. M # 0
        <4>. SUFFICES ASSUME M = 0 PROVE FALSE
          OBVIOUS
        <4>1. DOMAIN b = {}
          OBVIOUS
        <4>2. b = NoLocations
          BY <4>1 DEF NoLocations
        <4>. QED  BY <1>3, <4>2
      <3>2. DOMAIN negate(b) = 1 .. M
        BY NegateIs DEF Negated
      <3>3. 1 \in 1 .. M /\ 1 \notin DOMAIN NoLocations
        BY <3>1 DEF NoLocations
      <3>. QED  BY <3>2, <3>3
    <2>2. sums(crossed(a, negate(b), k), 1) = sums(crossed(a, b, k), -1)
      BY DifferencesAreSums
    <2>3. pairwise_combine(a, negate(b), 1, k) = pairwise_combine(a, b, -1, k)
      BY <2>2 DEF pairwise_combine
    <2>. QED  BY <1>3, <2>1, <2>3 DEF sub_with_limit, add_with_limit
  <1>. QED  BY <1>1, <1>2, <1>3

\* vec_ops.rs: unit vectors with a positive cosine, entries being integers, are equal.
LEMMA UnitsAreEqual ==
  ASSUME NEW S, IsFiniteSet(S), NEW a \in [S -> Int], NEW b \in [S -> Int],
         norm2(a) = 1, norm2(b) = 1, NEW t, t.num \in Nat, t.den \in Nat \ {0},
         above(cosine(a, b), t)
  PROVE  a = b
  <1>0. IntVector(a, S) /\ IntVector(b, S) /\ Ints(b, S)
    BY DEF IntVector, Ints
  <1>. DEFINE c == dot(a, b)
              f == [i \in S |-> a[i] * a[i]]
              g == [i \in S |-> b[i] * b[i]]
              e == [i \in S |-> a[i] * b[i]]
              h == [i \in S |-> (a[i] - b[i]) * (a[i] - b[i])]
              s == [i \in S |-> f[i] + 1 * g[i]]
  <1>1. c \in Int /\ c = over(e, S) /\ over(f, S) = 1 /\ over(g, S) = 1
    <2>1. c \in Int /\ c = over(e, S)
      BY <1>0, DotIs
    <2>2. over(f, S) = 1
      <3>1. norm2(a) = over(f, S)
        BY <1>0, DotIs DEF norm2, IntVector
      <3>. QED  BY <3>1
    <2>3. over(g, S) = 1
      <3>1. norm2(b) = over(g, S)
        BY <1>0, DotIs DEF norm2
      <3>. QED  BY <3>1
    <2>. QED  BY <2>1, <2>2, <2>3
  <1>2. c >= 1
    <2>. SUFFICES ASSUME c <= 0 PROVE FALSE
      BY <1>1
    <2>. DEFINE m == t.den
                n == t.num
                x == IF c < 0 THEN -c * c ELSE c * c
    <2>1. cosine(a, b) = [num |-> x, den |-> 1]
      <3>1. 1 * 1 = 1 /\ ~(norm2(a) = 0 \/ norm2(b) = 0)
        OBVIOUS
      <3>. QED  BY <3>1 DEF cosine
    <2>2. x \in Int /\ x <= 0
      <3>1. \A y \in Int : y <= 0 => -y * y <= 0 /\ -y * y \in Int /\ (y = 0 => y * y = 0)
        OBVIOUS
      <3>. HIDE DEF c
      <3>. QED  BY <1>1, <3>1
    <2>3. x * m > n * 1
      <3>. HIDE DEF x
      <3>. QED  BY <2>1 DEF above
    <2>4. m \in Nat /\ n \in Nat
      OBVIOUS
    <2>5. \A y \in Int, z \in Nat : y <= 0 => y * z <= 0 /\ y * z \in Int
      OBVIOUS
    <2>. HIDE DEF x, m, n, c
    <2>6. x * m <= 0 /\ x * m \in Int
      BY <2>2, <2>4, <2>5
    <2>. QED  BY <2>3, <2>4, <2>6
  <1>3. ASSUME NEW i \in S
        PROVE  /\ f[i] \in Int /\ g[i] \in Int /\ e[i] \in Int /\ s[i] \in Int
               /\ s[i] = f[i] + 1 * g[i]
               /\ h[i] = s[i] + -2 * e[i]
               /\ h[i] \in Nat /\ (h[i] = 0 => a[i] = b[i])
    <2>. DEFINE x == a[i]
                y == b[i]
    <2>1. /\ f[i] = x * x /\ g[i] = y * y /\ e[i] = x * y
          /\ s[i] = f[i] + 1 * g[i] /\ h[i] = (x - y) * (x - y)
      OBVIOUS
    <2>2. x \in Int /\ y \in Int
      OBVIOUS
    <2>3. \A u, v \in Int : /\ u * u \in Int /\ u * v \in Int
                            /\ (u - v) * (u - v) = (u * u + 1 * (v * v)) + -2 * (u * v)
      OBVIOUS
    <2>4. \A u \in Int : u * u \in Nat /\ (u * u = 0 => u = 0)
      OBVIOUS
    <2>. HIDE DEF x, y, f, g, e, s, h
    <2>5. f[i] \in Int /\ g[i] \in Int /\ e[i] \in Int /\ s[i] \in Int
      BY <2>1, <2>2, <2>3
    <2>6. h[i] = s[i] + -2 * e[i]
      BY <2>1, <2>2, <2>3
    <2>7. h[i] \in Nat /\ (h[i] = 0 => x = y)
      <3>1. x - y \in Int
        BY <2>2
      <3>2. h[i] \in Nat /\ (h[i] = 0 => x - y = 0)
        BY <2>1, <2>4, <3>1
      <3>. QED  BY <2>2, <3>2
    <2>. QED  BY <2>1, <2>5, <2>6, <2>7 DEF x, y
  <1>. HIDE DEF c, f, g, e, h, s
  <1>4. Ints(f, S) /\ Ints(g, S) /\ Ints(e, S) /\ Ints(s, S)
    BY <1>3 DEF Ints
  <1>5. over(s, S) = over(f, S) + 1 * over(g, S)
    BY <1>3, <1>4, OverPlus
  <1>6. over(h, S) = over(s, S) + (-2) * over(e, S)
    <2>. DEFINE double == -2
    <2>1. double \in Int /\ \A i \in S : h[i] = s[i] + double * e[i]
      BY <1>3
    <2>. HIDE DEF double
    <2>2. over(h, S) = over(s, S) + double * over(e, S)
      BY <1>4, <2>1, OverPlus
    <2>. QED  BY <2>2 DEF double
  <1>7. over(h, S) \in Nat /\ (over(h, S) = 0 <=> \A i \in S : h[i] = 0)
    BY <1>3, OverNat
  <1>8. over(h, S) = 0
    BY <1>1, <1>2, <1>5, <1>6, <1>7
  <1>. QED  BY <1>3, <1>7, <1>8

\* bind.rs: a key that shifts keeps the length of what is bound by it.
LEMMA ShiftsKeepLength ==
  ASSUME NEW d \in Nat \ {0}, NEW a \in [0 .. d - 1 -> Int], NEW key \in Keys(d)
  PROVE  /\ circular_convolve(a, key) \in [0 .. d - 1 -> Int]
         /\ norm2(circular_convolve(a, key)) = norm2(a)
  <1>. DEFINE S == 0 .. d - 1
              c == circular_convolve(a, key)
              f == [i \in S |-> a[i] * a[i]]
              h == [k \in S |-> c[k] * c[k]]
  <1>1. PICK s \in S, sign \in {-1, 1} : key = Shift(s, sign, d)
    BY KeysShift
  <1>2. sign \in Int /\ (\A x \in Int : (sign * x) * (sign * x) = x * x)
    BY <1>1
  <1>3. c \in [S -> Int] /\ \A k \in S : c[k] = sign * a[back(k, s, d)]
    <2>. DEFINE e == circular_convolve(a, Shift(s, sign, d))
    <2>1. e \in [S -> Int] /\ \A k \in S : e[k] = sign * a[back(k, s, d)]
      <3>1. sign \in Int
        BY <1>2
      <3>. QED  BY <3>1, ConvolveShift
    <2>2. c = e
      BY <1>1
    <2>. HIDE DEF c, e
    <2>. QED  BY <2>1, <2>2
  <1>4. IsFiniteSet(S)
    BY CoordinatesAre
  <1>. HIDE DEF c
  <1>. DEFINE turn == [k \in S |-> back(k, s, d)]
  <1>5. 0 \in S
    OBVIOUS
  <1>6. ASSUME NEW k \in S
        PROVE  /\ turn[k] = back(k, s, d) /\ turn[k] \in S
               /\ turn[back(k, back(0, s, d), d)] = k /\ back(k, back(0, s, d), d) \in S
               /\ back(turn[k], back(0, s, d), d) = k
    <2>1. back(0, s, d) \in S
      BY <1>5, BackIs
    <2>2. back(k, s, d) \in S /\ back(k, back(0, s, d), d) \in S
      BY <2>1, BackIs
    <2>3. back(back(k, back(0, s, d), d), s, d) = k /\ back(back(k, s, d), back(0, s, d), d) = k
      BY BackReturns
    <2>. QED  BY <2>2, <2>3
  <1>7. Bijects(turn, S, S)
    <2>. HIDE DEF turn, S
    <2>. QED  BY <1>6 DEF Bijects
  <1>8. ASSUME NEW k \in S PROVE f[k] \in Int /\ h[k] = f[turn[k]]
    <2>1. a[k] \in Int /\ a[turn[k]] \in Int /\ c[k] = sign * a[turn[k]]
      BY <1>3, <1>6
    <2>2. f[turn[k]] = a[turn[k]] * a[turn[k]]
      BY <1>6
    <2>3. h[k] = (sign * a[turn[k]]) * (sign * a[turn[k]])
      BY <2>1
    <2>4. f[k] \in Int
      <3>1. \A x \in Int : x * x \in Int
        OBVIOUS
      <3>2. f[k] = a[k] * a[k]
        OBVIOUS
      <3>. HIDE DEF f
      <3>. QED  BY <2>1, <3>1, <3>2
    <2>. HIDE DEF f, h, turn
    <2>. QED  BY <1>2, <2>1, <2>2, <2>3, <2>4
  <1>9. norm2(a) = over(f, S) /\ norm2(c) = over(h, S)
    <2>1. IntVector(a, S) /\ Ints(a, S) /\ IntVector(c, S) /\ Ints(c, S)
      BY <1>3 DEF IntVector, Ints
    <2>2. norm2(a) = over(f, S)
      BY <1>4, <2>1, DotIs DEF norm2
    <2>3. norm2(c) = over(h, S)
      BY <1>4, <2>1, DotIs DEF norm2
    <2>. QED  BY <2>2, <2>3
  <1>10. over(h, S) = over(f, S)
    <2>. HIDE DEF S, f, h, turn
    <2>1. Ints(f, S)
      BY <1>8 DEF Ints
    <2>. QED  BY <1>4, <1>7, <1>8, <2>1, OverBijects
  <1>. QED  BY <1>3, <1>9, <1>10 DEF c

\* ops.rs: the pattern of a location whose counter is that many times a vector.
LEMMA WholePattern ==
  ASSUME NEW S, NEW l, NEW v \in [S -> Int], l.writes \in Nat \ {0}, l.counter = times(l.writes, v)
  PROVE  normalized_pattern(l) = v
  <1>. DEFINE w == l.writes
              u == l.counter
  <1>1. u = [i \in S |-> w * v[i]] /\ w \in Nat \ {0}
    BY DEF times
  <1>2. normalized_pattern(l) = [i \in S |-> u[i] \div w]
    <2>1. DOMAIN u = S /\ w # 0
      BY <1>1
    <2>. QED  BY <2>1 DEF normalized_pattern
  <1>. HIDE DEF u, w
  <1>3. \A x \in Int : (w * x) \div w = x
    <2>. TAKE x \in Int
    <2>. DEFINE y == w * x
                q == y \div w
                r == y % w
    <2>1. y \in Int /\ q \in Int /\ r \in Int /\ 0 <= r /\ r < w /\ y = w * q + r
      <3>1. \A m \in Int, n \in Nat \ {0} : /\ m \div n \in Int /\ m % n \in 0 .. n - 1
                                            /\ m = n * (m \div n) + (m % n)
        OBVIOUS
      <3>2. y \in Int
        BY <1>1
      <3>. HIDE DEF y
      <3>. QED  BY <1>1, <3>1, <3>2
    <2>2. w * (x - q) = r
      <3>1. w * (x - q) = w * x - w * q /\ w * q \in Int /\ w * x \in Int
        BY <1>1, <2>1
      <3>. HIDE DEF q, r
      <3>. QED  BY <2>1, <3>1
    <2>3. \A n \in Int : (n >= 1 => w * n >= w) /\ (n <= -1 => w * n <= -w)
      BY <1>1
    <2>4. x - q \in Int
      BY <2>1
    <2>. HIDE DEF q, r, y
    <2>5. ~(x - q >= 1) /\ ~(x - q <= -1)
      BY <1>1, <2>1, <2>2, <2>3, <2>4
    <2>6. q = x
      BY <2>1, <2>4, <2>5
    <2>. QED  BY <2>6 DEF q, y
  <1>4. ASSUME NEW i \in S PROVE u[i] \div w = v[i]
    BY <1>1, <1>3
  <1>. QED  BY <1>2, <1>4

\* Each location still holds its own address, as often as it was written, and
\* one that is left has the address of any that is not.
HoldsAll(st, made, N) ==
    /\ \A n \in 1 .. N : /\ st.locs[n].address = made[n].address
                         /\ st.locs[n].writes > 0
                         /\ st.locs[n].counter = times(st.locs[n].writes, made[n].address)
    /\ \A n \in 1 .. N : \E m \in 1 .. N : ~st.merged[m] /\ made[m].address = made[n].address

\* Multiples of one vector add up.
LEMMA TimesPlus ==
  ASSUME NEW S, NEW v \in [S -> Int], NEW m \in Int, NEW n \in Int
  PROVE  plus(times(m, v), times(n, v)) = times(m + n, v)
  <1>1. \A x \in Int : m * x + n * x = (m + n) * x
    OBVIOUS
  <1>2. times(m, v) = [i \in S |-> m * v[i]] /\ times(n, v) = [i \in S |-> n * v[i]]
    BY DEF times
  <1>3. plus(times(m, v), times(n, v)) = [i \in S |-> m * v[i] + n * v[i]]
    BY <1>2 DEF plus
  <1>4. times(m + n, v) = [i \in S |-> (m + n) * v[i]]
    BY DEF times
  <1>5. \A i \in S : m * v[i] + n * v[i] = (m + n) * v[i]
    BY <1>1
  <1>. QED  BY <1>3, <1>4, <1>5

\* merge.rs: merging locations of the same address.
LEMMA AbsorbHolds ==
  ASSUME NEW N \in Nat, NEW S, NEW st \in Merges(N, S), NEW made \in [1 .. N -> Locs(S)],
         HoldsAll(st, made, N),
         NEW p, p.i \in 1 .. N, p.j \in 1 .. N, p.i # p.j,
         made[p.i].address = made[p.j].address
  PROVE  HoldsAll(absorb(st, p), made, N)
  <1>. DEFINE a == absorb(st, p)
              i == p.i
              j == p.j
              v == made[i].address
  <1>1. CASE st.merged[p.i] \/ st.merged[p.j]
    <2>1. a = st
      BY <1>1, AbsorbIs
    <2>. QED  BY <2>1
  <1>2. CASE ~(st.merged[p.i] \/ st.merged[p.j])
    <2>1. a \in Merges(N, S) /\ Absorbed(a, st, i, j, N)
      BY <1>2, AbsorbIs
    <2>2. i \in 1 .. N /\ j \in 1 .. N /\ i # j /\ made[j].address = v /\ ~st.merged[i]
      BY <1>2
    <2>3. v \in [S -> Int]
      BY DEF Locs
    <2>. HIDE DEF a, i, j
    <2>4. /\ \A n \in 1 .. N : a.merged[n] <=> st.merged[n] \/ n = j
          /\ \A n \in 1 .. N : n # i => a.locs[n] = st.locs[n]
          /\ a.locs[i].address = st.locs[i].address
          /\ a.locs[i].counter = plus(st.locs[i].counter, st.locs[j].counter)
          /\ a.locs[i].writes = st.locs[i].writes + st.locs[j].writes
      BY <2>1 DEF Absorbed
    <2>5. /\ st.locs[i].address = v
          /\ st.locs[i].writes > 0 /\ st.locs[j].writes > 0
          /\ st.locs[i].counter = times(st.locs[i].writes, v)
          /\ st.locs[j].counter = times(st.locs[j].writes, v)
      BY <2>2 DEF HoldsAll
    <2>6. st.locs[i].writes \in Int /\ st.locs[j].writes \in Int
      <3>1. st.locs[i] \in Locs(S) /\ st.locs[j] \in Locs(S)
        BY <2>2 DEF Merges
      <3>2. \A l \in Locs(S) : l.writes \in Int
        BY DEF Locs
      <3>. QED  BY <3>1, <3>2
    <2>. HIDE DEF v
    <2>7. /\ a.locs[i].address = v
          /\ a.locs[i].writes > 0
          /\ a.locs[i].counter = times(a.locs[i].writes, v)
      <3>1. a.locs[i].counter = plus(times(st.locs[i].writes, v), times(st.locs[j].writes, v))
        BY <2>4, <2>5
      <3>2. a.locs[i].counter = times(st.locs[i].writes + st.locs[j].writes, v)
        BY <2>3, <2>6, <3>1, TimesPlus
      <3>. QED  BY <2>4, <2>5, <2>6, <3>2
    <2>8. ASSUME NEW n \in 1 .. N
          PROVE  /\ a.locs[n].address = made[n].address
                 /\ a.locs[n].writes > 0
                 /\ a.locs[n].counter = times(a.locs[n].writes, made[n].address)
      <3>1. CASE n = i
        BY <2>7, <3>1 DEF v
      <3>2. CASE n # i
        <4>1. a.locs[n] = st.locs[n]
          BY <2>4, <3>2
        <4>. QED  BY <4>1 DEF HoldsAll
      <3>. QED  BY <3>1, <3>2
    <2>9. ASSUME NEW n \in 1 .. N
          PROVE  \E m \in 1 .. N : ~a.merged[m] /\ made[m].address = made[n].address
      <3>1. PICK m \in 1 .. N : ~st.merged[m] /\ made[m].address = made[n].address
        BY DEF HoldsAll
      <3>2. CASE m # j
        <4>1. ~a.merged[m]
          BY <2>4, <3>1, <3>2
        <4>. QED  BY <3>1, <4>1
      <3>3. CASE m = j
        <4>1. ~a.merged[i] /\ made[i].address = made[n].address
          BY <2>2, <2>4, <3>1, <3>3 DEF v
        <4>. QED  BY <2>2, <4>1
      <3>. QED  BY <3>2, <3>3
    <2>10. HoldsAll(a, made, N)
      BY <2>8, <2>9 DEF HoldsAll
    <2>. QED  BY <2>10 DEF a
  <1>. QED  BY <1>1, <1>2

\* r has locations holding what those of made do, all of it.
Gathers(r, L, made, N, S) ==
    /\ L \in Nat /\ r \in [1 .. L -> Locs(S)]
    /\ \A n \in 1 .. L : \E m \in 1 .. N :
          /\ r[n].address = made[m].address
          /\ r[n].writes \in Nat \ {0}
          /\ r[n].counter = times(r[n].writes, made[m].address)
    /\ \A m \in 1 .. N : \E n \in 1 .. L : r[n].address = made[m].address

\* merge.rs: what is left, in order, still has every address.
LEMMA SurvivorsGather ==
  ASSUME NEW N \in Nat, NEW S, NEW st \in Merges(N, S), NEW made, HoldsAll(st, made, N)
  PROVE  \E L : Gathers(survivors(st), L, made, N, S)
  <1>. DEFINE U == Left(st, N)
              D == 1 .. N
              ls == st.locs
  <1>1. ls \in [D -> Locs(S)]
    BY DEF Merges
  <1>2. survivors(st) = subsequence(ls, U)
    BY <1>1 DEF survivors, Left
  <1>3. U \in SUBSET D /\ IsFiniteSet(D) /\ U \subseteq Int
    BY FS_Interval DEF Left
  <1>4. IsFiniteSet(U)
    <2>. HIDE DEF D, U
    <2>. QED  BY <1>3, FS_Subset
  <1>5. \A m \in D : m \in U <=> ~st.merged[m]
    BY DEF Left
  <1>. HIDE DEF U
  <1>6. PICK order : Selects(subsequence(ls, U), ls, U, order)
    BY <1>3, <1>4, SubsequenceIs
  <1>. DEFINE L == Len(order)
              res == survivors(st)
              E == 1 .. L
  <1>7. /\ L \in Nat /\ res = [n \in E |-> ls[order[n]]]
        /\ \A n \in E : order[n] \in U
        /\ \A m \in U : \E n \in E : order[n] = m
    BY <1>2, <1>6 DEF Selects, Indexes, Bijects
  <1>8. \A n \in E : order[n] \in D /\ res[n] = ls[order[n]]
    BY <1>3, <1>7
  <1>9. res \in [E -> Locs(S)]
    BY <1>1, <1>7, <1>8
  <1>. HIDE DEF res, E
  <1>10. ASSUME NEW n \in E
         PROVE  \E m \in D : /\ res[n].address = made[m].address
                             /\ res[n].writes \in Nat \ {0}
                             /\ res[n].counter = times(res[n].writes, made[m].address)
    <2>. DEFINE m == order[n]
    <2>1. m \in D /\ res[n] = ls[m] /\ ls[m] \in Locs(S)
      BY <1>1, <1>8
    <2>2. /\ ls[m].address = made[m].address /\ ls[m].writes > 0
          /\ ls[m].counter = times(ls[m].writes, made[m].address)
      BY <2>1 DEF HoldsAll
    <2>3. ls[m].writes \in Nat
      BY <2>1 DEF Locs
    <2>. HIDE DEF m, ls
    <2>4. res[n].writes \in Nat \ {0}
      BY <2>1, <2>2, <2>3
    <2>. QED  BY <2>1, <2>2, <2>4
  <1>11. ASSUME NEW m \in D PROVE \E n \in E : res[n].address = made[m].address
    <2>1. PICK k \in D : ~st.merged[k] /\ made[k].address = made[m].address
      BY DEF HoldsAll
    <2>2. PICK n \in E : order[n] = k
      BY <1>5, <1>7, <2>1
    <2>3. res[n] = ls[k] /\ ls[k].address = made[k].address
      BY <1>8, <2>2 DEF HoldsAll
    <2>. QED  BY <2>1, <2>3
  <1>12. Gathers(res, L, made, N, S)
    BY <1>7, <1>9, <1>10, <1>11 DEF Gathers, E
  <1>. QED  BY <1>12 DEF res

\* merge.rs: unit vectors of integers merge only with their equals, whatever
\* the threshold, and none of them is lost.
LEMMA MergeGathers ==
  ASSUME NEW S, IsFiniteSet(S), NEW N \in Nat, NEW made \in [1 .. N -> Locs(S)],
         \A n \in 1 .. N : /\ norm2(made[n].address) = 1 /\ made[n].writes = 1
                           /\ made[n].counter = made[n].address,
         NEW tau, tau.num \in Nat, tau.den \in Nat \ {0}
  PROVE  \E L : Gathers(knn_merge(made, tau), L, made, N, S)
  <1>. DEFINE pairs == merge_pairs(made, tau)
              M == Len(pairs)
  <1>1. /\ M \in Nat /\ DOMAIN pairs = 1 .. M
        /\ \A m \in 1 .. M : IsPair(pairs[m], made, N, tau)
    BY SnapshotsPlaced, MergePairsAre
  <1>2. PICK h : Absorbs(h, made, pairs, N, S) /\ knn_merge(made, tau) = survivors(h[M])
    BY MergeUnfolds
  <1>. HIDE DEF pairs, M
  <1>. DEFINE T == {n \in Nat : n \in 0 .. M => HoldsAll(h[n], made, N)}
  <1>3. 0 \in T
    <2>1. h[0].locs = made /\ h[0].merged = [i \in 1 .. N |-> FALSE]
      BY <1>2 DEF Absorbs, Unmerged
    <2>2. ASSUME NEW n \in 1 .. N
          PROVE  /\ made[n].writes > 0
                 /\ made[n].counter = times(made[n].writes, made[n].address)
      <3>. DEFINE v == made[n].address
      <3>1. v \in [S -> Int]
        BY DEF Locs
      <3>. HIDE DEF v
      <3>2. times(1, v) = v
        BY <3>1 DEF times
      <3>. QED  BY <3>2 DEF v
    <2>3. \A n \in 1 .. N : ~h[0].merged[n]
      BY <2>1
    <2>. QED  BY <2>1, <2>2, <2>3 DEF HoldsAll
  <1>4. ASSUME NEW n \in Nat, n \in T PROVE n + 1 \in T
    <2>. SUFFICES ASSUME n + 1 \in 0 .. M PROVE HoldsAll(h[n + 1], made, N)
      OBVIOUS
    <2>. DEFINE k == n + 1
    <2>1. k \in 1 .. M /\ k - 1 = n /\ HoldsAll(h[n], made, N)
      BY <1>1, <1>4
    <2>. HIDE DEF k, T
    <2>2. h[k - 1] \in Merges(N, S) /\ h[k] = absorb(h[k - 1], pairs[k])
      BY <1>2, <2>1 DEF Absorbs, M
    <2>. DEFINE p == pairs[k]
                u == made[p.i].address
                v == made[p.j].address
    <2>3. /\ p.i \in 1 .. N /\ p.j \in 1 .. N /\ p.i # p.j
          /\ p.sim = cosine(u, v) /\ above(p.sim, tau)
      BY <1>1, <2>1 DEF IsPair
    <2>4. u \in [S -> Int] /\ v \in [S -> Int] /\ norm2(u) = 1 /\ norm2(v) = 1
      <3>1. made[p.i] \in Locs(S) /\ made[p.j] \in Locs(S)
        BY <2>3
      <3>. QED  BY <2>3, <3>1 DEF Locs
    <2>. HIDE DEF p
    <2>5. u = v
      <3>. HIDE DEF u, v
      <3>1. above(cosine(u, v), tau)
        BY <2>3
      <3>. QED  BY <2>4, <3>1, UnitsAreEqual
    <2>6. HoldsAll(absorb(h[n], p), made, N)
      <3>1. h[n] \in Merges(N, S)
        BY <2>1, <2>2
      <3>. QED  BY <2>1, <2>3, <2>5, <3>1, AbsorbHolds
    <2>7. h[k] = absorb(h[n], p)
      BY <2>1, <2>2 DEF p
    <2>. QED  BY <2>6, <2>7 DEF k
  <1>5. HoldsAll(h[M], made, N)
    <2>. HIDE DEF T
    <2>1. M \in T
      BY <1>1, <1>3, <1>4, Induction
    <2>. QED  BY <1>1, <2>1 DEF T
  <1>6. h[M] \in Merges(N, S)
    BY <1>2 DEF Absorbs, M
  <1>. QED  BY <1>2, <1>5, <1>6, SurvivorsGather

\* What a location with one write stands for.
LEMMA SinglePattern ==
  ASSUME NEW S, NEW l, l.counter \in [S -> Int], l.writes = 1
  PROVE  normalized_pattern(l) = l.counter
  <1>. DEFINE v == l.counter
  <1>1. times(1, v) = v
    <2>1. v \in [S -> Int]
      OBVIOUS
    <2>. HIDE DEF v
    <2>. QED  BY <2>1 DEF times
  <1>2. l.writes \in Nat \ {0} /\ v = times(l.writes, v) /\ v \in [S -> Int]
    BY <1>1
  <1>. QED  BY <1>2, WholePattern

\* The bound vectors, one for each location.
Bound(a, key, N) == [n \in 1 .. N |-> circular_convolve(normalized_pattern(a[n]), key)]

\* bind.rs: the products with the only location of a key.
LEMMA ProductsAre ==
  ASSUME NEW S, IsFiniteSet(S), NEW N \in Nat, NEW a \in [1 .. N -> Locs(S)],
         NEW b \in [1 .. 1 -> Locs(S)]
  PROVE  products(crossed(a, b, 0)) = Bound(a, normalized_pattern(b[1]), N)
  <1>. DEFINE c == crossed(a, b, 0)
              key == normalized_pattern(b[1])
              V == [S -> Int]
              M == 1
  <1>1. wide(M, 0) = 1 /\ M \in Nat /\ b \in [1 .. M -> Locs(S)] /\ N * 1 = N
    BY DEF wide
  <1>. HIDE DEF M
  <1>2. c \in Seq(V \X V) /\ Rows(c, a, b, 0, N, wide(M, 0))
    BY <1>1, CrossedIs
  <1>3. Rows(c, a, b, 0, N, 1)
    BY <1>1, <1>2
  <1>. HIDE DEF c, key, V
  <1>4. DOMAIN c = 1 .. N
    BY <1>1, <1>2, <1>3 DEF Rows
  <1>5. ASSUME NEW n \in 1 .. N PROVE c[n] = <<normalized_pattern(a[n]), key>>
    <2>1. (n - 1) * 1 + 1 = n /\ 1 \in 1 .. 1
      OBVIOUS
    <2>2. c[n] = Cross(a, b, 0, n, 1)
      <3>1. c[(n - 1) * 1 + 1] = Cross(a, b, 0, n, 1)
        BY <1>3, <2>1 DEF Rows
      <3>. QED  BY <2>1, <3>1
    <2>3. partners(a[n], b, 0)[1] = 1
      <3>1. DOMAIN b = 1 .. 1
        OBVIOUS
      <3>2. partners(a[n], b, 0) = [j \in 1 .. 1 |-> j]
        BY <3>1 DEF partners
      <3>. QED  BY <3>2
    <2>. QED  BY <2>2, <2>3 DEF Cross, key
  <1>6. products(c) = [n \in 1 .. N |-> circular_convolve(c[n][1], c[n][2])]
    BY <1>4 DEF products
  <1>7. \A n \in 1 .. N : circular_convolve(c[n][1], c[n][2]) = circular_convolve(normalized_pattern(a[n]), key)
    BY <1>5
  <1>. QED  BY <1>6, <1>7 DEF Bound, c, key

\* ops.rs: none of the combinations cancels.
LEMMA CombinedWhole ==
  ASSUME NEW N \in Nat, NEW v, DOMAIN v = 1 .. N, \A n \in 1 .. N : norm2(v[n]) > 0
  PROVE  combined(v) = [n \in 1 .. N |-> Made(v[n])]
  <1>. DEFINE kept == {n \in DOMAIN v : norm2(v[n]) > 0}
              t == subsequence(v, kept)
  <1>1. kept = 1 .. N
    OBVIOUS
  <1>2. t = [n \in 1 .. N |-> v[n]]
    <2>1. subsequence(v, 1 .. N) = [n \in 1 .. N |-> v[n]]
      BY SubsequenceWhole
    <2>. QED  BY <1>1, <2>1
  <1>3. combined(v) = [n \in DOMAIN t |-> Made(t[n])]
    BY DEF combined
  <1>. HIDE DEF t
  <1>. QED  BY <1>2, <1>3

\* merge.rs: numbering the locations anew changes nothing of what they hold.
LEMMA ReindexGathers ==
  ASSUME NEW S, NEW N, NEW made, NEW L, NEW q, Gathers(q, L, made, N, S)
  PROVE  Gathers(reindex(q), L, made, N, S)
  <1>. DEFINE r == reindex(q)
  <1>1. L \in Nat /\ q \in [1 .. L -> Locs(S)]
    BY DEF Gathers
  <1>2. /\ r \in [1 .. L -> Locs(S)]
        /\ \A n \in 1 .. L : /\ r[n].address = q[n].address
                             /\ r[n].counter = q[n].counter
                             /\ r[n].writes = q[n].writes
    BY <1>1, ReindexIs
  <1>. HIDE DEF r
  <1>3. ASSUME NEW n \in 1 .. L
        PROVE  \E m \in 1 .. N : /\ r[n].address = made[m].address
                                 /\ r[n].writes \in Nat \ {0}
                                 /\ r[n].counter = times(r[n].writes, made[m].address)
    <2>1. PICK m \in 1 .. N : /\ q[n].address = made[m].address
                              /\ q[n].writes \in Nat \ {0}
                              /\ q[n].counter = times(q[n].writes, made[m].address)
      BY DEF Gathers
    <2>. QED  BY <1>2, <2>1
  <1>4. ASSUME NEW m \in 1 .. N PROVE \E n \in 1 .. L : r[n].address = made[m].address
    <2>1. PICK n \in 1 .. L : q[n].address = made[m].address
      BY DEF Gathers
    <2>. QED  BY <1>2, <2>1
  <1>5. Gathers(r, L, made, N, S)
    BY <1>1, <1>2, <1>3, <1>4 DEF Gathers
  <1>. QED  BY <1>5 DEF r

\* Nothing bound, nothing held.
LEMMA NoneGathered ==
  ASSUME NEW S, NEW made
  PROVE  Gathers(NoLocations, 0, made, 0, S)
  <1>1. 1 .. 0 = {} /\ 0 \in Nat
    OBVIOUS
  <1>2. NoLocations \in [{} -> Locs(S)]
    BY DEF NoLocations
  <1>. QED  BY <1>1, <1>2 DEF Gathers

\* Each of the N locations of a holds a unit pattern, written once.
Units(a, N) == \A n \in 1 .. N : a[n].writes = 1 /\ norm2(a[n].counter) = 1

\* bind.rs: what binding unit vectors by a key makes.
LEMMA BindGathers ==
  ASSUME NEW d \in Nat \ {0}, NEW N \in Nat, NEW a \in [1 .. N -> Locs(0 .. d - 1)],
         Units(a, N),
         NEW b \in [1 .. 1 -> Locs(0 .. d - 1)], normalized_pattern(b[1]) \in Keys(d),
         NEW tau, tau.num \in Nat, tau.den \in Nat \ {0}
  PROVE  \E L : Gathers(bind_with_limit(a, b, 0, tau), L,
                        [n \in 1 .. N |-> Made(Bound(a, normalized_pattern(b[1]), N)[n])], N, 0 .. d - 1)
  <1>. DEFINE S == 0 .. d - 1
              key == normalized_pattern(b[1])
              v == Bound(a, key, N)
              made == [n \in 1 .. N |-> Made(v[n])]
              r == bind_with_limit(a, b, 0, tau)
  <1>1. IsFiniteSet(S)
    BY CoordinatesAre
  <1>2. ASSUME NEW n \in 1 .. N PROVE v[n] \in [S -> Int] /\ norm2(v[n]) = 1
    <2>. DEFINE u == normalized_pattern(a[n])
    <2>1. u = a[n].counter /\ u \in [S -> Int]
      <3>1. a[n].counter \in [S -> Int] /\ a[n].writes = 1
        BY DEF Locs, Units
      <3>. QED  BY <3>1, SinglePattern
    <2>2. norm2(u) = 1
      BY <2>1 DEF Units
    <2>. HIDE DEF u, key
    <2>3. key \in Keys(d)
      BY DEF key
    <2>4. circular_convolve(u, key) \in [S -> Int] /\ norm2(circular_convolve(u, key)) = 1
      BY <2>1, <2>2, <2>3, ShiftsKeepLength
    <2>. QED  BY <2>4 DEF u, Bound
  <1>3. DOMAIN v = 1 .. N
    BY DEF Bound
  <1>. HIDE DEF v
  <1>4. ASSUME NEW n \in 1 .. N
        PROVE  /\ made[n] \in Locs(S) /\ norm2(made[n].address) = 1 /\ made[n].writes = 1
               /\ made[n].counter = made[n].address
    <2>1. made[n] = Made(v[n])
      OBVIOUS
    <2>2. \A u \in [S -> Int] : /\ Made(u) \in Locs(S) /\ Made(u).address = u /\ Made(u).writes = 1
                               /\ Made(u).counter = u
      BY DEF Made, Locs
    <2>. HIDE DEF made, S
    <2>. QED  BY <1>2, <2>1, <2>2
  <1>5. made \in [1 .. N -> Locs(S)]
    BY <1>4
  <1>6. CASE a = NoLocations
    <2>1. N = 0
      <3>. SUFFICES ASSUME N # 0 PROVE FALSE
        OBVIOUS
      <3>1. 1 \in DOMAIN a
        OBVIOUS
      <3>. QED  BY <1>6, <3>1 DEF NoLocations
    <2>2. r = NoLocations
      BY <1>6 DEF bind_with_limit
    <2>3. Gathers(r, 0, made, N, S)
      <3>. HIDE DEF r, made, S
      <3>. QED  BY <2>1, <2>2, NoneGathered
    <2>. QED  BY <2>3 DEF v
  <1>7. CASE a # NoLocations
    <2>1. b # NoLocations
      <3>1. DOMAIN b = 1 .. 1 /\ 1 \in 1 .. 1
        OBVIOUS
      <3>2. DOMAIN NoLocations = {}
        BY DEF NoLocations
      <3>. QED  BY <3>1, <3>2
    <2>2. pairwise_bind(a, b, 0) = made
      <3>1. products(crossed(a, b, 0)) = v
        <4>1. a \in [1 .. N -> Locs(S)] /\ b \in [1 .. 1 -> Locs(S)]
          OBVIOUS
        <4>. HIDE DEF S
        <4>. QED  BY <1>1, <4>1, ProductsAre DEF v
      <3>2. \A n \in 1 .. N : norm2(v[n]) > 0
        BY <1>2
      <3>3. combined(v) = made
        BY <1>3, <3>2, CombinedWhole
      <3>. QED  BY <3>1, <3>3 DEF pairwise_bind
    <2>. HIDE DEF made, S
    <2>. DEFINE q == knn_merge(made, tau)
    <2>3. PICK L : Gathers(q, L, made, N, S)
      BY <1>1, <1>4, <1>5, MergeGathers
    <2>4. r = reindex(q)
      BY <1>7, <2>1, <2>2 DEF bind_with_limit, consolidate
    <2>. HIDE DEF q, r
    <2>5. Gathers(r, L, made, N, S)
      BY <2>3, <2>4, ReindexGathers
    <2>. QED  BY <2>5 DEF made, r, S, v
  <1>. QED  BY <1>6, <1>7

\* bind.rs: unbinding by the key of a binding restores every pattern that was
\* bound, and nothing else, whatever was merged in between.
THEOREM UnbindingRestores ==
  ASSUME NEW d \in Nat \ {0}, NEW N \in Nat, NEW a \in [1 .. N -> Locs(0 .. d - 1)],
         Units(a, N),
         NEW b \in [1 .. 1 -> Locs(0 .. d - 1)], normalized_pattern(b[1]) \in Keys(d),
         NEW tau, tau.num \in Nat, tau.den \in Nat \ {0}
  PROVE  PatternsOf(unbind(bind_with_limit(a, b, 0, tau), b)) = PatternsOf(a)
  <1>. DEFINE S == 0 .. d - 1
              key == normalized_pattern(b[1])
              v == Bound(a, key, N)
              made == [n \in 1 .. N |-> Made(v[n])]
              r == bind_with_limit(a, b, 0, tau)
              u(m) == normalized_pattern(a[m])
  <1>1. PICK L : Gathers(r, L, made, N, S)
    BY BindGathers
  <1>2. ASSUME NEW m \in 1 .. N
        PROVE  /\ u(m) \in [S -> Int] /\ norm2(u(m)) = 1
               /\ made[m].address = circular_convolve(u(m), key)
    <2>1. a[m].counter \in [S -> Int] /\ a[m].writes = 1 /\ norm2(a[m].counter) = 1
      BY DEF Locs, Units
    <2>2. u(m) = a[m].counter
      BY <2>1, SinglePattern
    <2>3. made[m].address = v[m]
      BY DEF Made
    <2>4. v[m] = circular_convolve(u(m), key)
      BY DEF Bound
    <2>. QED  BY <2>1, <2>2, <2>3, <2>4
  <1>3. key \in Keys(d)
    OBVIOUS
  <1>. HIDE DEF made, v, r, key, u
  <1>4. L \in Nat /\ r \in [1 .. L -> Locs(S)] /\ DOMAIN r = 1 .. L
    BY <1>1 DEF Gathers
  <1>5. ASSUME NEW n \in 1 .. L, NEW m \in 1 .. N, r[n].address = made[m].address
        PROVE  unbind_vec(normalized_pattern(r[n]), key) = u(m)
    <2>. DEFINE x == r[n].address
                l == r[n]
    <2>1. PICK k \in 1 .. N : /\ r[n].address = made[k].address
                              /\ r[n].writes \in Nat \ {0}
                              /\ r[n].counter = times(r[n].writes, made[k].address)
      BY <1>1 DEF Gathers
    <2>2. x \in [S -> Int]
      BY <1>4 DEF Locs
    <2>3. l.writes \in Nat \ {0} /\ l.counter = times(l.writes, x)
      BY <2>1
    <2>. HIDE DEF x, l
    <2>4. normalized_pattern(l) = x
      BY <2>2, <2>3, WholePattern
    <2>5. x = circular_convolve(u(m), key)
      BY <1>2, <1>5 DEF x
    <2>6. unbind_vec(circular_convolve(u(m), key), key) = u(m)
      BY <1>2, <1>3, ShiftsUnbind
    <2>. QED  BY <2>4, <2>5, <2>6 DEF l
  <1>. DEFINE recovered(n) == unbind_vec(normalized_pattern(r[n]), key)
              e(n) == [Made(recovered(n)) EXCEPT !.id = n - 1]
              t == [n \in 1 .. L |-> e(n)]
              kept == {n \in DOMAIN t : norm2(t[n].counter) > 0}
  <1>6. unbind(r, b) = subsequence(t, kept)
    BY <1>4 DEF unbind, key
  <1>7. ASSUME NEW n \in 1 .. L
        PROVE  t[n].counter = recovered(n) /\ t[n].writes = 1
    BY DEF Made
  <1>8. DOMAIN t = 1 .. L
    OBVIOUS
  <1>9. t = [n \in 1 .. L |-> t[n]]
    OBVIOUS
  <1>. HIDE DEF recovered, t
  <1>10. ASSUME NEW n \in 1 .. L
         PROVE  \E m \in 1 .. N : r[n].address = made[m].address /\ recovered(n) = u(m)
    <2>1. PICK m \in 1 .. N : r[n].address = made[m].address
      BY <1>1 DEF Gathers
    <2>. QED  BY <1>5, <2>1 DEF recovered
  <1>11. ASSUME NEW n \in 1 .. L
         PROVE  norm2(t[n].counter) > 0 /\ normalized_pattern(t[n]) = recovered(n)
    <2>1. recovered(n) \in [S -> Int] /\ norm2(recovered(n)) = 1
      BY <1>2, <1>10
    <2>2. t[n].counter = recovered(n) /\ t[n].writes = 1
      BY <1>7
    <2>. DEFINE l == t[n]
    <2>3. l.counter \in [S -> Int] /\ l.writes = 1
      BY <2>1, <2>2
    <2>. HIDE DEF l
    <2>4. normalized_pattern(l) = l.counter
      BY <2>3, SinglePattern
    <2>. QED  BY <2>1, <2>2, <2>4 DEF l
  <1>12. kept = 1 .. L
    BY <1>8, <1>11
  <1>13. unbind(r, b) = t
    <2>1. subsequence(t, 1 .. L) = [n \in 1 .. L |-> t[n]]
      BY <1>4, SubsequenceWhole
    <2>. HIDE DEF kept
    <2>. QED  BY <1>6, <1>9, <1>12, <2>1
  <1>14. PatternsOf(t) = {recovered(n) : n \in 1 .. L}
    BY <1>8, <1>11 DEF PatternsOf
  <1>15. PatternsOf(a) = {u(m) : m \in 1 .. N}
    BY DEF PatternsOf, u
  <1>16. ASSUME NEW m \in 1 .. N PROVE \E n \in 1 .. L : recovered(n) = u(m)
    <2>1. PICK n \in 1 .. L : r[n].address = made[m].address
      BY <1>1 DEF Gathers
    <2>. QED  BY <1>5, <2>1 DEF recovered
  <1>17. PatternsOf(t) = PatternsOf(a)
    BY <1>10, <1>14, <1>15, <1>16
  <1>. QED  BY <1>13, <1>17 DEF r

-----------------------------------------------------------------------------
(* The calls: theorems of CallSpec.                                        *)

\* The snapshots of the calls have vectors of two coordinates.
LEMMA StoredAre ==
  ASSUME NEW a \in Operands
  PROVE  /\ a = [l \in DOMAIN a |-> a[l]]
         /\ \A l \in DOMAIN a : \E c, e, w, id :
               /\ IsVector(c, 0 .. 1) /\ IsVector(e, 0 .. 1)
               /\ a[l] = [address |-> e, counter |-> c, writes |-> w, id |-> id]
  <1>1. PICK ls \in UNION {[1 .. n -> Locations] : n \in 0 .. 2} : a = Stored(ls)
    BY DEF Operands
  <1>2. PICK n \in 0 .. 2 : ls \in [1 .. n -> Locations]
    BY <1>1
  <1>3. a = [l \in 1 .. n |->
               [address |-> ls[l].address, counter |-> times(ls[l].writes, ls[l].address),
                writes |-> ls[l].writes, id |-> l - 1]]
    BY <1>1, <1>2 DEF Stored
  <1>4. ASSUME NEW l \in 1 .. n
        PROVE  IsVector(ls[l].address, 0 .. 1) /\ IsVector(times(ls[l].writes, ls[l].address), 0 .. 1)
    <2>1. ls[l] \in Locations
      BY <1>2
    <2>2. ls[l].address \in [0 .. 1 -> -1 .. 1]
      BY <2>1 DEF Locations, Patterns
    <2>. QED  BY <2>2 DEF IsVector, times
  <1>. QED  BY <1>3, <1>4

\* What a permutation call was given and what it returned.
PermutationsMade ==
    /\ op \in {"permute", "rotate"} =>
          /\ input.rho \in from_seed(Dim) /\ input.k \in Int
          /\ result = apply_pow(input.rho, Marked, input.k)
    /\ op = "permute_snapshot" =>
          /\ input.rho \in from_seed(2) /\ input.k \in Int /\ input.a \in Operands
          /\ result = permute_snapshot(input.a, input.rho, input.k)

\* The permuted vector has a value for every coordinate.
LEMMA MarkedIsVector == IsVector(Marked, 0 .. Dim - 1)
  BY DEF Marked, IsVector

\* permute.rs: in every state of a permutation call the result is the power asked
\* for, whether apply_pow or a rotation along the cycles (permute.rs:238) made it.
THEOREM PermutationsMadeInvariant == CallSpec => []PermutationsMade
  <1>1. NoCall => PermutationsMade
    BY DEF NoCall, PermutationsMade
  <1>2. PermutationsMade /\ [OneCall]_calls => PermutationsMade'
    <2>. SUFFICES ASSUME PermutationsMade, [OneCall]_calls PROVE PermutationsMade'
      OBVIOUS
    <2>1. CASE Permute
      <3>1. PICK rho \in from_seed(Dim), k \in Powers :
               /\ op' = "permute" /\ input' = [rho |-> rho, k |-> k]
               /\ result' = apply_pow(rho, Marked, k)
        BY <2>1 DEF Permute, Call
      <3>2. k \in Int
        BY AlgorithmsAssumption DEF Powers
      <3>. QED  BY <3>1, <3>2 DEF PermutationsMade
    <2>2. CASE Rotate
      <3>1. PICK rho \in from_seed(Dim), t \in Powers :
               /\ op' = "rotate" /\ input' = [rho |-> rho, k |-> t]
               /\ result' = apply_rotate(rho, Marked, t)
        BY <2>2 DEF Rotate, Call
      <3>2. t \in Int
        BY AlgorithmsAssumption DEF Powers
      <3>. DEFINE S == 0 .. Dim - 1
      <3>3. S \in SUBSET Nat /\ IsFiniteSet(S) /\ IsPermutation(rho, S) /\ IsVector(Marked, S)
        BY AlgorithmsAssumption, SeedsPermute, MarkedIsVector, FS_Interval
      <3>. HIDE DEF S
      <3>4. apply_rotate(rho, Marked, t) = [i \in S |-> Marked[power(rho, t, i)]]
        BY <3>2, <3>3, RotateIsPower
      <3>5. apply_pow(rho, Marked, t) = [i \in S |-> Marked[power(rho, t, i)]]
        BY <3>2, <3>3, AppliedPower
      <3>. QED  BY <3>1, <3>2, <3>4, <3>5 DEF PermutationsMade
    <2>3. CASE PermuteSnapshot
      <3>1. PICK rho \in from_seed(2), k \in Powers, a \in Operands :
               /\ op' = "permute_snapshot" /\ input' = [rho |-> rho, k |-> k, a |-> a]
               /\ result' = permute_snapshot(a, rho, k)
        BY <2>3 DEF PermuteSnapshot, Call
      <3>2. k \in Int
        BY AlgorithmsAssumption DEF Powers
      <3>. QED  BY <3>1, <3>2 DEF PermutationsMade
    <2>4. ASSUME op' \notin {"permute", "rotate", "permute_snapshot"} PROVE PermutationsMade'
      BY <2>4 DEF PermutationsMade
    <2>5. CASE Activate \/ ActivateSubset \/ ScanNearest \/ Neighbour \/ GraphActivate
      BY <2>4, <2>5 DEF Activate, ActivateSubset, ScanNearest, Neighbour, GraphActivate, Call
    <2>6. CASE Add \/ Sub \/ Bind \/ Intersect \/ Bundle
      BY <2>4, <2>6 DEF Add, Sub, Bind, Intersect, Bundle, Call
    <2>7. CASE UNCHANGED calls
      BY <2>7 DEF calls, PermutationsMade
    <2>. QED  BY <2>1, <2>2, <2>3, <2>5, <2>6, <2>7 DEF OneCall
  <1>. QED  BY <1>1, <1>2, PTL DEF CallSpec

\* permute.rs: for every dimension and power, a power is that many single
\* permutations, forward or back; rotating by whole steps is that power; powers
\* add up; and a permuted snapshot is restored by the opposite power.
THEOREM PermutationsCompose == CallSpec => []PowersCompose
  <1>1. PermutationsMade => PowersCompose
    <2>. SUFFICES ASSUME PermutationsMade PROVE PowersCompose
      OBVIOUS
    <2>1. ASSUME op \in {"permute", "rotate"}
          PROVE  /\ result = Stepped(input.rho, Marked, input.k)
                 /\ \A k \in Powers : apply_pow(input.rho, result, k)
                                         = apply_pow(input.rho, Marked, input.k + k)
      <3>. DEFINE rho == input.rho
                  j == input.k
                  S == 0 .. Dim - 1
      <3>1. rho \in from_seed(Dim) /\ j \in Int /\ result = apply_pow(rho, Marked, j)
        BY <2>1 DEF PermutationsMade
      <3>. HIDE DEF rho, j
      <3>2. IsPermutation(rho, S) /\ IsVector(Marked, S)
        BY <3>1, AlgorithmsAssumption, SeedsPermute, MarkedIsVector
      <3>. HIDE DEF S
      <3>3. result = Stepped(rho, Marked, j)
        BY <3>1, <3>2, SteppedIsPower
      <3>4. ASSUME NEW k \in Powers PROVE apply_pow(rho, result, k) = apply_pow(rho, Marked, j + k)
        <4>1. k \in Int
          BY AlgorithmsAssumption DEF Powers
        <4>2. apply_pow(rho, apply_pow(rho, Marked, j), k) = apply_pow(rho, Marked, j + k)
          BY <3>1, <3>2, <4>1, PowersOfPowers
        <4>. QED  BY <3>1, <4>2
      <3>. QED  BY <3>3, <3>4 DEF rho, j
    <2>2. ASSUME op = "permute_snapshot"
          PROVE  permute_snapshot(result, input.rho, -input.k) = input.a
      <3>. DEFINE rho == input.rho
                  j == input.k
                  a == input.a
                  S == 0 .. 1
      <3>1. /\ rho \in from_seed(2) /\ j \in Int /\ a \in Operands
            /\ result = permute_snapshot(a, rho, j)
        BY <2>2 DEF PermutationsMade
      <3>. HIDE DEF rho, j, a
      <3>2. IsPermutation(rho, S)
        <4>1. IsPermutation(rho, 0 .. 2 - 1)
          BY <3>1, SeedsPermute
        <4>. QED  BY <4>1
      <3>3. /\ a = [l \in DOMAIN a |-> a[l]]
            /\ \A l \in DOMAIN a : \E c, e, w, id :
                  /\ IsVector(c, S) /\ IsVector(e, S)
                  /\ a[l] = [address |-> e, counter |-> c, writes |-> w, id |-> id]
        BY <3>1, StoredAre
      <3>. HIDE DEF S
      <3>4. permute_snapshot(permute_snapshot(a, rho, j), rho, -j) = a
        BY <3>1, <3>2, <3>3, SnapshotRestored
      <3>. QED  BY <3>1, <3>4 DEF rho, j, a
    <2>. QED  BY <2>1, <2>2 DEF PowersCompose
  <1>. QED  BY <1>1, PermutationsMadeInvariant, PTL

\* The points of the calls have three integer coordinates.
LEMMA PointsAre ==
  ASSUME NEW points \in Points, NEW valid \in SUBSET (1 .. MaxPoints)
  PROVE  ArePoints(points, valid, 3)
  <1>1. valid \subseteq Nat /\ IsFiniteSet(valid)
    <2>1. IsFiniteSet(1 .. MaxPoints)
      BY AlgorithmsAssumption, FS_Interval
    <2>. DEFINE M == 1 .. MaxPoints
    <2>2. valid \in SUBSET M /\ IsFiniteSet(M)
      BY <2>1
    <2>. HIDE DEF M
    <2>3. IsFiniteSet(valid)
      BY <2>2, FS_Subset
    <2>. QED  BY <2>3
  <1>2. ASSUME NEW p \in valid PROVE IsPoint(points[p], 3) /\ Len(points[p]) = 3
    <2>1. points[p] \in {<<0, 0, 0>>, <<1, 0, 0>>, <<2, 0, 0>>,
                         <<0, 1, 0>>, <<0, 0, 2>>, <<1, 1, 1>>}
      BY DEF Points
    <2>. QED  BY <2>1 DEF IsPoint
  <1>. QED  BY <1>1, <1>2, AlgorithmsAssumption DEF ArePoints

\* nearest.rs: for any number of points, the leaf size and the projection, the
\* projected search finds the neighbour that comparing every pair finds.
THEOREM NeighboursFound == CallSpec => []NeighboursAreExact
  <1>1. NoCall => NeighboursAreExact
    BY DEF NoCall, NeighboursAreExact
  <1>2. NeighboursAreExact /\ [OneCall]_calls => NeighboursAreExact'
    <2>. SUFFICES ASSUME NeighboursAreExact, [OneCall]_calls PROVE NeighboursAreExact'
      OBVIOUS
    <2>1. CASE Neighbour
      <3>1. PICK points \in Points, zero \in SUBSET {MaxPoints} :
               \E order \in build(points, (1 .. MaxPoints) \ zero), i \in (1 .. MaxPoints) \ zero :
                  /\ input' = [points |-> points, valid |-> (1 .. MaxPoints) \ zero, i |-> i]
                  /\ result' = projected(points, (1 .. MaxPoints) \ zero, order, i)
        BY <2>1 DEF Neighbour, Call
      <3>. DEFINE valid == (1 .. MaxPoints) \ zero
      <3>2. PICK order \in build(points, valid), i \in valid :
               /\ input' = [points |-> points, valid |-> valid, i |-> i]
               /\ result' = projected(points, valid, order, i)
        BY <3>1
      <3>3. ArePoints(points, valid, 3)
        <4>1. valid \in SUBSET (1 .. MaxPoints)
          OBVIOUS
        <4>. HIDE DEF valid
        <4>. QED  BY <4>1, PointsAre
      <3>. HIDE DEF valid
      <3>4. projected(points, valid, order, i) = brute_one(points, valid, i)
        BY <3>3, ProjectedIsExact
      <3>. QED  BY <3>2, <3>4 DEF NeighboursAreExact
    <2>2. ASSUME op' # "neighbour" PROVE NeighboursAreExact'
      BY <2>2 DEF NeighboursAreExact
    <2>3. CASE Permute \/ Rotate \/ PermuteSnapshot \/ Activate \/ ActivateSubset \/ ScanNearest \/ GraphActivate
      BY <2>2, <2>3 DEF Permute, Rotate, PermuteSnapshot, Activate, ActivateSubset, ScanNearest, GraphActivate, Call
    <2>4. CASE Add \/ Sub \/ Bind \/ Intersect \/ Bundle
      BY <2>2, <2>4 DEF Add, Sub, Bind, Intersect, Bundle, Call
    <2>5. CASE UNCHANGED calls
      BY <2>5 DEF calls, NeighboursAreExact
    <2>. QED  BY <2>1, <2>3, <2>4, <2>5 DEF OneCall
  <1>. QED  BY <1>1, <1>2, PTL DEF CallSpec

\* The lesser of k and the number of candidates.
LEMMA MinOfTwo ==
  ASSUME NEW k \in Nat, NEW c \in Nat
  PROVE  Min({k, c}) = IF c <= k THEN c ELSE k
  <1>. DEFINE T == {k, c}
  <1>1. IsFiniteSet(T) /\ T \in SUBSET Int /\ T # {}
    <2>1. IsFiniteSet({k} \cup {c})
      BY FS_Singleton, FS_Union
    <2>2. {k} \cup {c} = T
      OBVIOUS
    <2>. QED  BY <2>1, <2>2
  <1>2. Min(T) \in T /\ \A x \in T : Min(T) <= x
    <2>. HIDE DEF T
    <2>. QED  BY <1>1, MinMax
  <1>3. Min(T) \in {k, c} /\ Min(T) <= k /\ Min(T) <= c
    BY <1>2
  <1>. HIDE DEF T
  <1>4. Min(T) = IF c <= k THEN c ELSE k
    BY <1>3
  <1>. QED  BY <1>4 DEF T

\* The parts of SearchIsExact that do not need every location linked, and
\* those that do.
InOrder(r, sims, allowed) ==
    /\ ToSet(r) \subseteq allowed
    /\ IsInjective(r)
    /\ \A m, n \in DOMAIN r :
          m < n => sims[r[m]] > sims[r[n]] \/ sims[r[m]] = sims[r[n]]

LeavesNone(r, sims, allowed, k) ==
    /\ Len(r) = Min({k, Cardinality(allowed)})
    /\ \A i \in allowed \ ToSet(r), m \in DOMAIN r :
          sims[i] < sims[r[m]] \/ sims[i] = sims[r[m]]

\* A heap of the best, sorted, is such an answer.
LEMMA SortedAnswers ==
  ASSUME NEW sims, NEW allowed, AreSims(sims, allowed), NEW h \in SUBSET allowed,
         NEW r, SortedDown(r, sims, h), NEW k \in Nat
  PROVE  /\ InOrder(r, sims, allowed)
         /\ HoldsBest(h, sims, allowed, k) => LeavesNone(r, sims, allowed, k)
  <1>1. /\ ToSet(r) = h /\ IsInjective(r) /\ Len(r) = Cardinality(h)
        /\ \A m, n \in DOMAIN r : m < n => sims[r[m]] >= sims[r[n]]
    BY DEF SortedDown
  <1>2. \A m \in DOMAIN r : r[m] \in h
    BY <1>1 DEF ToSet
  <1>3. \A i \in allowed : sims[i] \in Int
    BY DEF AreSims
  <1>4. InOrder(r, sims, allowed)
    BY <1>1, <1>2, <1>3 DEF InOrder
  <1>5. ASSUME HoldsBest(h, sims, allowed, k) PROVE LeavesNone(r, sims, allowed, k)
    <2>1. Cardinality(allowed) \in Nat
      BY FS_CardinalityType DEF AreSims
    <2>2. Len(r) = Min({k, Cardinality(allowed)})
      BY <1>1, <1>5, <2>1, MinOfTwo DEF HoldsBest
    <2>3. ASSUME NEW i \in allowed \ ToSet(r), NEW m \in DOMAIN r
          PROVE  sims[i] < sims[r[m]] \/ sims[i] = sims[r[m]]
      BY <1>1, <1>2, <1>3, <1>5 DEF HoldsBest
    <2>. QED  BY <2>2, <2>3 DEF LeavesNone
  <1>. QED  BY <1>4, <1>5

\* The indices of n locations.
LEMMA NumberedAre ==
  ASSUME NEW n \in Nat
  PROVE  /\ DOMAIN Numbered(n) = 1 .. n
         /\ \A m \in 1 .. n : Numbered(n)[m] = m - 1
  BY DEF Numbered

\* Similarities of n locations are similarities of any of them.
LEMMA SimsAre ==
  ASSUME NEW n \in Nat, NEW sims, NEW M \in Nat, sims \in [0 .. n - 1 -> 0 .. M],
         NEW allowed \in SUBSET (0 .. n - 1)
  PROVE  AreSims(sims, allowed)
  <1>. DEFINE S == 0 .. n - 1
  <1>1. IsFiniteSet(S)
    BY FS_Interval
  <1>2. allowed \in SUBSET S
    OBVIOUS
  <1>3. IsFiniteSet(allowed)
    <2>. HIDE DEF S
    <2>. QED  BY <1>1, <1>2, FS_Subset
  <1>. QED  BY <1>2, <1>3 DEF AreSims

\* read.rs: activate returns the k most similar locations, best first.
LEMMA ActivateExact ==
  ASSUME NEW n \in Nat, NEW M \in Nat, NEW sims, sims \in [0 .. n - 1 -> 0 .. M], NEW k \in Nat,
         NEW r \in activate(sims, n, k)
  PROVE  InOrder(r, sims, 0 .. n - 1) /\ LeavesNone(r, sims, 0 .. n - 1, k)
  <1>. DEFINE S == 0 .. n - 1
              indices == Numbered(n)
  <1>1. AreSims(sims, S)
    BY SimsAre
  <1>2. /\ DOMAIN indices = 1 .. n
        /\ \A m \in 1 .. n : /\ indices[m] \in S <=> indices[m] \in DOMAIN sims
                             /\ \A l \in 1 .. n : l # m => indices[l] # indices[m]
        /\ \A i \in S : \E m \in 1 .. n : indices[m] = i
    <2>1. DOMAIN indices = 1 .. n /\ \A m \in 1 .. n : indices[m] = m - 1
      BY NumberedAre
    <2>2. DOMAIN sims = S
      OBVIOUS
    <2>. HIDE DEF indices
    <2>3. \A m \in 1 .. n : m - 1 \in S
      OBVIOUS
    <2>4. \A m, l \in 1 .. n : l # m => l - 1 # m - 1
      OBVIOUS
    <2>5. \A i \in S : i + 1 \in 1 .. n /\ (i + 1) - 1 = i
      OBVIOUS
    <2>. HIDE DEF S
    <2>. QED  BY <2>1, <2>2, <2>3, <2>4, <2>5
  <1>3. r \in top_k(sims, indices, k)
    BY DEF activate
  <1>. HIDE DEF S, indices
  <1>4. PICK h : HoldsBest(h, sims, S, k) /\ SortedDown(r, sims, h)
    BY <1>1, <1>2, <1>3, TopIsBest
  <1>5. h \in SUBSET S
    BY <1>4 DEF HoldsBest
  <1>6. InOrder(r, sims, S) /\ LeavesNone(r, sims, S, k)
    BY <1>1, <1>4, <1>5, SortedAnswers
  <1>. QED  BY <1>6 DEF S

\* read.rs: activate_subset returns the k most similar of the locations allowed,
\* and passes over an index beyond them.
LEMMA SubsetExact ==
  ASSUME NEW n \in Nat, NEW M \in Nat, NEW sims, sims \in [0 .. n - 1 -> 0 .. M], NEW k \in Nat,
         NEW A, IsFiniteSet(A), NEW r \in activate_subset(sims, SetToSeq(A), k)
  PROVE  /\ InOrder(r, sims, A \cap 0 .. n - 1)
         /\ LeavesNone(r, sims, A \cap 0 .. n - 1, k)
  <1>. DEFINE S == A \cap 0 .. n - 1
              indices == SetToSeq(A)
              N == Len(indices)
  <1>1. AreSims(sims, S)
    <2>1. S \in SUBSET (0 .. n - 1)
      OBVIOUS
    <2>. HIDE DEF S
    <2>. QED  BY <2>1, SimsAre
  <1>2. /\ N \in Nat /\ indices \in [1 .. N -> A]
        /\ \A m, l \in 1 .. N : m # l => indices[m] # indices[l]
        /\ \A i \in A : \E m \in 1 .. N : indices[m] = i
    BY SetToSeqIs, SeqsOf
  <1>3. r \in top_k(sims, indices, k)
    BY DEF activate_subset
  <1>. HIDE DEF indices, N
  <1>4. /\ DOMAIN indices = 1 .. N
        /\ \A m \in 1 .. N : /\ indices[m] \in S <=> indices[m] \in DOMAIN sims
                             /\ \A l \in 1 .. N : l # m => indices[l] # indices[m]
        /\ \A i \in S : \E m \in 1 .. N : indices[m] = i
    BY <1>2
  <1>. HIDE DEF S
  <1>5. PICK h : HoldsBest(h, sims, S, k) /\ SortedDown(r, sims, h)
    BY <1>1, <1>2, <1>3, <1>4, TopIsBest
  <1>6. h \in SUBSET S
    BY <1>5 DEF HoldsBest
  <1>7. InOrder(r, sims, S) /\ LeavesNone(r, sims, S, k)
    BY <1>1, <1>5, <1>6, SortedAnswers
  <1>. QED  BY <1>7 DEF S

\* What SearchIsExact says of a scan's answer.
LEMMA FirstAnswers ==
  ASSUME NEW sims, NEW S, AreSims(sims, S), NEW k \in Nat, k <= Cardinality(S),
         NEW r, IsFirstOf(r, sims, S, k)
  PROVE  /\ ToSet(r) \subseteq S
         /\ IsInjective(r)
         /\ \A m, n \in DOMAIN r :
               m < n => \/ sims[r[m]] > sims[r[n]]
                        \/ sims[r[m]] = sims[r[n]] /\ r[m] < r[n]
         /\ Len(r) = Min({k, Cardinality(S)})
         /\ \A i \in S \ ToSet(r), m \in DOMAIN r :
               \/ sims[i] < sims[r[m]]
               \/ sims[i] = sims[r[m]] /\ i > r[m]
  <1>1. /\ DOMAIN r = 1 .. k /\ Len(r) = k
        /\ \A m \in 1 .. k : r[m] \in S
        /\ \A m, n \in 1 .. k : m < n => Precedes(sims, r[m], r[n])
        /\ \A i \in S, m \in 1 .. k : (\A n \in 1 .. k : r[n] # i) => Precedes(sims, r[m], i)
    BY DEF IsFirstOf
  <1>2. /\ S \subseteq Int /\ \A i \in S : sims[i] \in Int
        /\ Cardinality(S) \in Nat
    BY FS_CardinalityType DEF AreSims
  <1>3. \A i : i \in ToSet(r) <=> \E m \in 1 .. k : r[m] = i
    BY <1>1 DEF ToSet
  <1>4. ToSet(r) \subseteq S
    BY <1>1, <1>3
  <1>5. IsInjective(r)
    <2>1. ASSUME NEW m \in 1 .. k, NEW n \in 1 .. k, m < n PROVE r[m] # r[n]
      <3>1. Precedes(sims, r[m], r[n]) /\ r[m] \in Int /\ sims[r[m]] \in Int
        BY <1>1, <1>2, <2>1
      <3>. QED  BY <3>1 DEF Precedes
    <2>2. \A m, n \in 1 .. k : m = n \/ m < n \/ n < m
      OBVIOUS
    <2>. QED  BY <1>1, <2>1, <2>2 DEF IsInjective
  <1>6. \A m, n \in DOMAIN r :
           m < n => \/ sims[r[m]] > sims[r[n]]
                    \/ sims[r[m]] = sims[r[n]] /\ r[m] < r[n]
    BY <1>1 DEF Precedes
  <1>7. Len(r) = Min({k, Cardinality(S)})
    BY <1>1, <1>2, MinOfTwo
  <1>8. ASSUME NEW i \in S \ ToSet(r), NEW m \in DOMAIN r
        PROVE  \/ sims[i] < sims[r[m]]
               \/ sims[i] = sims[r[m]] /\ i > r[m]
    <2>1. m \in 1 .. k /\ i \in S /\ \A n \in 1 .. k : r[n] # i
      BY <1>1, <1>3
    <2>2. Precedes(sims, r[m], i)
      BY <1>1, <2>1
    <2>3. sims[i] \in Int /\ i \in Int /\ r[m] \in Int /\ sims[r[m]] \in Int
      BY <1>1, <1>2, <2>1
    <2>. QED  BY <2>2, <2>3 DEF Precedes
  <1>. QED  BY <1>4, <1>5, <1>6, <1>7, <1>8

\* read.rs: build_id_lookup of the calls' ids.
LEMMA LookupIs ==
  LET lookup == build_id_lookup(Ids)
  IN /\ DOMAIN lookup = {7, 3, 5}
     /\ lookup[7] = 0 /\ lookup[3] = 1 /\ lookup[5] = 2
  <1>. DEFINE at(id) == {i \in DOMAIN Ids : Ids[i] = id}
  <1>1. DOMAIN Ids = 1 .. 3 /\ Ids[1] = 7 /\ Ids[2] = 3 /\ Ids[3] = 5
    BY DEF Ids
  <1>2. ToSet(Ids) = {7, 3, 5}
    <2>1. \A x : x \in ToSet(Ids) <=> \E i \in 1 .. 3 : Ids[i] = x
      BY <1>1 DEF ToSet
    <2>2. \A i \in 1 .. 3 : i = 1 \/ i = 2 \/ i = 3
      OBVIOUS
    <2>. QED  BY <1>1, <2>1, <2>2
  <1>3. \A id \in {7, 3, 5} : build_id_lookup(Ids)[id] = Max(at(id)) - 1
    BY <1>2 DEF build_id_lookup
  <1>4. at(7) = {1} /\ at(3) = {2} /\ at(5) = {3}
    <2>1. \A i \in 1 .. 3 : i = 1 \/ i = 2 \/ i = 3
      OBVIOUS
    <2>. QED  BY <1>1, <2>1
  <1>5. ASSUME NEW x \in 1 .. 3 PROVE Max({x}) = x
    BY DEF Max
  <1>6. DOMAIN build_id_lookup(Ids) = {7, 3, 5}
    BY <1>2 DEF build_id_lookup
  <1>. HIDE DEF at
  <1>7. Max(at(7)) = 1 /\ Max(at(3)) = 2 /\ Max(at(5)) = 3
    BY <1>4, <1>5
  <1>. QED  BY <1>3, <1>6, <1>7

\* read.rs: select_landmarks returns count of the locations.
LEMMA LandmarksAre ==
  ASSUME NEW count \in 1 .. 2
  PROVE  LET landmarks == select_landmarks([i \in 0 .. 2 |-> i % 2], 3, count)
         IN /\ DOMAIN landmarks = 1 .. count
            /\ \A m \in 1 .. count : landmarks[m] \in 0 .. 2
  <1>. DEFINE written == [i \in 0 .. 2 |-> i % 2]
              S == 0 .. 2
              s == ranked(S, LAMBDA i, j : Precedes(written, i, j))
              c == Len(s)
  <1>1. select_landmarks(written, 3, count) = SubSeq(s, 1, count)
    BY DEF select_landmarks, ranked, Precedes
  <1>2. IsFiniteSet(S) /\ Cardinality(S) = 3 /\ S \subseteq Int /\ \A i \in S : written[i] \in Int
    <2>. DEFINE last == 2
    <2>1. last \in Nat /\ last + 1 = 3 /\ S = 0 .. last
      OBVIOUS
    <2>2. IsFiniteSet(S) /\ Cardinality(S) = 3
      <3>. HIDE DEF S, last
      <3>. QED  BY <2>1, FS_Interval
    <2>3. S \subseteq Int /\ \A i \in S : written[i] = i % 2 /\ i % 2 \in Int
      OBVIOUS
    <2>. QED  BY <2>2, <2>3
  <1>. HIDE DEF written, S
  <1>3. \E t : Ranks(t, written, S)
    BY <1>2, RankingExists
  <1>4. s \in SetToSeqs(S)
    BY <1>3 DEF ranked, Ranks
  <1>5. c = 3 /\ s \in [1 .. c -> S]
    <2>. HIDE DEF s
    <2>. QED  BY <1>2, <1>4, SeqsOf
  <1>. HIDE DEF s, c
  <1>6. s \in Seq(S) /\ Len(s) = 3
    BY <1>5 DEF c
  <1>. DEFINE q == SubSeq(s, 1, count)
  <1>7. DOMAIN q = 1 .. count /\ \A m \in 1 .. count : q[m] \in S
    <2>1. count \in Nat /\ count <= Len(s) /\ 1 <= count + 1 /\ (count - 1) + 1 = count
      BY <1>6
    <2>2. Len(q) = count /\ \A m \in 1 .. count : q[m] = s[m]
      BY <1>6, <2>1
    <2>3. DOMAIN q = 1 .. count
      BY <1>6, <2>1
    <2>4. \A m \in 1 .. count : m \in 1 .. Len(s)
      BY <2>1
    <2>5. \A m \in 1 .. Len(s) : s[m] \in S
      BY <1>5, <1>6
    <2>. HIDE DEF q
    <2>. QED  BY <2>2, <2>3, <2>4, <2>5
  <1>. QED  BY <1>1, <1>7 DEF S, written

\* The locations that edges lead to from an entry.
ReachedFrom(entry, edges) ==
    {i \in 0 .. 2 :
        \A S \in SUBSET (0 .. 2) :
            entry \in S /\ (\A j \in S : edges[j] \subseteq S) => i \in S}

\* The lists of neighbours of three locations: the ids of some of them, and of
\* one that is gone.
ListsOf(edges, gone) ==
    [i \in 0 .. 2 |-> SetToSeq({Ids[j + 1] : j \in edges[i]} \cup gone)]

\* Of three locations whose lists of neighbours name others of them, or none,
\* the links are the edges and what they lead to is closed.
LEMMA GraphIs ==
  ASSUME NEW sims, AreSims(sims, 0 .. 2), NEW edges \in Edges,
         NEW gone \in SUBSET {Gone}, NEW entry \in 0 .. 2,
         NEW neighbors, neighbors = ListsOf(edges, gone),
         NEW R, R = ReachedFrom(entry, edges)
  PROVE  /\ entry \in R /\ R \subseteq 0 .. 2
         /\ \A i \in R : LinksOf(neighbors, build_id_lookup(Ids), i) = edges[i]
         /\ IsClosed(sims, R, neighbors, build_id_lookup(Ids))
  <1>. DEFINE lookup == build_id_lookup(Ids)
              S == 0 .. 2
  <1>1. /\ DOMAIN lookup = {7, 3, 5}
        /\ lookup[7] = 0 /\ lookup[3] = 1 /\ lookup[5] = 2
    BY LookupIs
  <1>2. Ids[0 + 1] = 7 /\ Ids[1 + 1] = 3 /\ Ids[2 + 1] = 5
    BY DEF Ids
  <1>3. edges \in [S -> SUBSET S]
    BY DEF Edges
  <1>4. R \subseteq S /\ entry \in R /\ \A i \in R : edges[i] \subseteq R
    <2>1. R \subseteq S
      BY DEF ReachedFrom
    <2>2. entry \in R
      BY DEF ReachedFrom
    <2>3. ASSUME NEW i \in R, NEW j \in edges[i] PROVE j \in R
      <3>1. i \in S /\ j \in S
        BY <1>3, <2>1
      <3>2. ASSUME NEW Q \in SUBSET (0 .. 2), entry \in Q, \A l \in Q : edges[l] \subseteq Q
            PROVE  j \in Q
        <4>1. i \in Q
          BY <3>2 DEF ReachedFrom
        <4>. QED  BY <3>2, <4>1
      <3>. QED  BY <3>1, <3>2 DEF ReachedFrom
    <2>. QED  BY <2>1, <2>2, <2>3
  <1>5. \A i \in S : i = 0 \/ i = 1 \/ i = 2
    OBVIOUS
  <1>. HIDE DEF lookup
  <1>6. ASSUME NEW i \in S
        PROVE  /\ Len(neighbors[i]) \in Nat
               /\ DOMAIN neighbors[i] = 1 .. Len(neighbors[i])
               /\ LinksOf(neighbors, lookup, i) = edges[i]
    <2>. DEFINE ids == {Ids[j + 1] : j \in edges[i]} \cup gone
                q == neighbors[i]
    <2>1. q = SetToSeq(ids)
      BY DEF ListsOf
    <2>2. IsFiniteSet(ids)
      <3>1. ids \in SUBSET {7, 3, 5, 4}
        BY <1>2, <1>3, <1>5 DEF Gone
      <3>2. IsFiniteSet({7, 3, 5, 4})
        <4>1. IsFiniteSet(0 .. 7)
          <5>. DEFINE last == 7
          <5>1. last \in Nat
            OBVIOUS
          <5>2. IsFiniteSet(0 .. last)
            <6>. HIDE DEF last
            <6>. QED  BY <5>1, FS_Interval
          <5>. QED  BY <5>2
        <4>2. {7, 3, 5, 4} \in SUBSET (0 .. 7)
          OBVIOUS
        <4>. QED  BY <4>1, <4>2, FS_Subset
      <3>. HIDE DEF ids
      <3>. QED  BY <3>1, <3>2, FS_Subset
    <2>3. /\ Len(q) \in Nat /\ q \in [1 .. Len(q) -> ids]
          /\ \A x \in ids : \E m \in 1 .. Len(q) : q[m] = x
      <3>. HIDE DEF ids, q
      <3>. QED  BY <2>1, <2>2, SetToSeqIs, SeqsOf
    <2>4. \A id : id \in ids /\ id \in DOMAIN lookup
                  <=> \E j \in edges[i] : id = Ids[j + 1]
      <3>1. \A j \in edges[i] : Ids[j + 1] \in {7, 3, 5}
        BY <1>2, <1>3, <1>5
      <3>2. \A g \in gone : g \notin {7, 3, 5}
        BY DEF Gone
      <3>. QED  BY <1>1, <3>1, <3>2
    <2>5. \A j \in S : Ids[j + 1] \in DOMAIN lookup /\ lookup[Ids[j + 1]] = j
      BY <1>1, <1>2, <1>5
    <2>6. edges[i] \subseteq S
      BY <1>3
    <2>7. \A j : j \in LinksOf(neighbors, lookup, i)
                 <=> \E m \in 1 .. Len(q) : q[m] \in DOMAIN lookup /\ lookup[q[m]] = j
      BY DEF LinksOf
    <2>. HIDE DEF ids, q
    <2>8. \A j : (\E m \in 1 .. Len(q) : q[m] \in DOMAIN lookup /\ lookup[q[m]] = j)
                 <=> j \in edges[i]
      <3>1. ASSUME NEW j, NEW m \in 1 .. Len(q), q[m] \in DOMAIN lookup, lookup[q[m]] = j
            PROVE  j \in edges[i]
        <4>1. PICK l \in edges[i] : q[m] = Ids[l + 1]
          BY <2>3, <2>4, <3>1
        <4>. QED  BY <2>5, <2>6, <3>1, <4>1
      <3>2. ASSUME NEW j \in edges[i]
            PROVE  \E m \in 1 .. Len(q) : q[m] \in DOMAIN lookup /\ lookup[q[m]] = j
        <4>1. Ids[j + 1] \in ids
          BY <2>4, <3>2
        <4>2. PICK m \in 1 .. Len(q) : q[m] = Ids[j + 1]
          BY <2>3, <4>1
        <4>. QED  BY <2>5, <2>6, <4>2
      <3>. QED  BY <3>1, <3>2
    <2>9. LinksOf(neighbors, lookup, i) = edges[i]
      BY <2>7, <2>8
    <2>. QED  BY <2>3, <2>9 DEF q
  <1>7. AreSims(sims, R)
    <2>1. IsFiniteSet(R)
      <3>1. IsFiniteSet(S) /\ R \in SUBSET S
        BY <1>4 DEF AreSims
      <3>. HIDE DEF S
      <3>. QED  BY <3>1, FS_Subset
    <2>. QED  BY <1>4, <2>1 DEF AreSims
  <1>8. IsClosed(sims, R, neighbors, lookup)
    <2>. HIDE DEF S
    <2>. QED  BY <1>4, <1>6, <1>7 DEF IsClosed
  <1>. QED  BY <1>4, <1>6, <1>8 DEF lookup

\* read.rs: so graph_activate answers from what the graph leads to, and exactly
\* when every location has all of that as neighbours.
LEMMA GraphExact ==
  ASSUME NEW sims, AreSims(sims, 0 .. 2), NEW k \in Nat, 0 < k,
         NEW count \in 1 .. 2, NEW edges \in Edges, NEW gone \in SUBSET {Gone},
         NEW neighbors, neighbors = ListsOf(edges, gone),
         NEW landmarks, landmarks = select_landmarks([i \in 0 .. 2 |-> i % 2], 3, count),
         NEW r \in graph_activate(sims, 3, k, landmarks, neighbors, build_id_lookup(Ids)),
         NEW R, R = ReachedFrom(first_best(sims, landmarks), edges)
  PROVE  /\ InOrder(r, sims, R)
         /\ (\A i \in R : R \ {i} \subseteq edges[i]) => LeavesNone(r, sims, R, k)
  <1>. DEFINE entry == first_best(sims, landmarks)
              lookup == build_id_lookup(Ids)
  <1>1. DOMAIN landmarks = 1 .. count /\ \A m \in 1 .. count : landmarks[m] \in 0 .. 2
    BY LandmarksAre
  <1>2. landmarks # <<>>
    BY <1>1
  <1>3. entry \in 0 .. 2
    <2>1. count \in Nat /\ 0 < count /\ \A m \in 1 .. count : sims[landmarks[m]] \in Int
      BY <1>1 DEF AreSims
    <2>2. \E m \in 1 .. count : entry = landmarks[m]
      BY <1>1, <2>1, FirstBestIsOne
    <2>. QED  BY <1>1, <2>2
  <1>. HIDE DEF entry
  <1>4. /\ entry \in R
        /\ \A i \in R : LinksOf(neighbors, lookup, i) = edges[i]
        /\ IsClosed(sims, R, neighbors, lookup)
    <2>1. R = ReachedFrom(entry, edges)
      BY DEF entry
    <2>. QED  BY <1>3, <2>1, GraphIs
  <1>. HIDE DEF lookup
  <1>5. PICK h \in SUBSET R : /\ SortedDown(r, sims, h)
                              /\ IsComplete(R, neighbors, lookup) => HoldsBest(h, sims, R, k)
    <2>1. first_best(sims, landmarks) \in R /\ 3 \in Nat /\ 0 < 3
      BY <1>4 DEF entry
    <2>2. r \in graph_activate(sims, 3, k, landmarks, neighbors, lookup)
      BY DEF lookup
    <2>. QED  BY <1>2, <1>4, <2>1, <2>2, GraphFinds
  <1>6. AreSims(sims, R)
    BY <1>4 DEF IsClosed
  <1>7. (\A i \in R : R \ {i} \subseteq edges[i]) => IsComplete(R, neighbors, lookup)
    BY <1>4 DEF IsComplete
  <1>. QED  BY <1>5, <1>6, <1>7, SortedAnswers

\* read.rs, scan.rs: for any number of locations and similarities, every search
\* returns what SearchIsExact says.
THEOREM SearchesAreExact == CallSpec => []SearchIsExact
  <1>1. NoCall => SearchIsExact
    BY DEF NoCall, SearchIsExact
  <1>2. SearchIsExact /\ [OneCall]_calls => SearchIsExact'
    <2>. SUFFICES ASSUME SearchIsExact, [OneCall]_calls PROVE SearchIsExact'
      OBVIOUS
    <2>. DEFINE Gives(name, sims, n, k, A, r) ==
                  /\ op' = name /\ result' = r
                  /\ input' = [sims |-> sims, n |-> n, k |-> k, allowed |-> A]
    <2>0. ASSUME ExactAnswer(op', input'.sims, IF op' = "graph" THEN Reachable' ELSE input'.allowed,
                             input'.edges, input'.k, result')
          PROVE  SearchIsExact'
      BY <2>0 DEF SearchIsExact, ExactAnswer
    <2>1. ASSUME NEW r, NEW sims, NEW A, NEW k, NEW n,
                 Gives("activate", sims, n, k, A, r),
                 InOrder(r, sims, A), LeavesNone(r, sims, A, k)
          PROVE  SearchIsExact'
      <3>1. input'.sims = sims /\ input'.k = k /\ input'.allowed = A
        BY <2>1
      <3>2. ExactAnswer(op', sims, A, input'.edges, k, r)
        BY <2>1 DEF ExactAnswer, InOrder, LeavesNone
      <3>. QED  BY <2>0, <2>1, <3>1, <3>2
    <2>2. CASE Activate
      <3>1. PICK n \in 0 .. MaxSize : \E sims \in [0 .. n - 1 -> 0 .. MaxSim], k \in 0 .. n + 1 :
               \E r \in activate(sims, n, k) : Gives("activate", sims, n, k, 0 .. n - 1, r)
        BY <2>2 DEF Activate, Call
      <3>2. PICK sims \in [0 .. n - 1 -> 0 .. MaxSim], k \in 0 .. n + 1 :
               \E r \in activate(sims, n, k) : Gives("activate", sims, n, k, 0 .. n - 1, r)
        BY <3>1
      <3>3. PICK r \in activate(sims, n, k) : Gives("activate", sims, n, k, 0 .. n - 1, r)
        BY <3>2
      <3>4. n \in Nat /\ k \in Nat /\ MaxSim \in Nat
        BY AlgorithmsAssumption
      <3>5. InOrder(r, sims, 0 .. n - 1) /\ LeavesNone(r, sims, 0 .. n - 1, k)
        BY <3>4, ActivateExact
      <3>. QED  BY <2>1, <3>3, <3>5
    <2>3. CASE ActivateSubset
      <3>1. PICK n \in 0 .. MaxSize - 1 :
               \E sims \in [0 .. n - 1 -> 0 .. MaxSim], k \in 0 .. n + 1, A \in SUBSET (0 .. n) :
               \E r \in activate_subset(sims, SetToSeq(A), k) :
                  Gives("activate", sims, n, k, A \cap 0 .. n - 1, r)
        BY <2>3 DEF ActivateSubset, Call
      <3>2. PICK sims \in [0 .. n - 1 -> 0 .. MaxSim], k \in 0 .. n + 1, A \in SUBSET (0 .. n) :
               \E r \in activate_subset(sims, SetToSeq(A), k) :
                  Gives("activate", sims, n, k, A \cap 0 .. n - 1, r)
        BY <3>1
      <3>3. PICK r \in activate_subset(sims, SetToSeq(A), k) :
                  Gives("activate", sims, n, k, A \cap 0 .. n - 1, r)
        BY <3>2
      <3>4. n \in Nat /\ k \in Nat /\ MaxSim \in Nat
        BY AlgorithmsAssumption
      <3>5. IsFiniteSet(A)
        <4>. DEFINE S == 0 .. n
        <4>1. IsFiniteSet(S) /\ A \in SUBSET S
          BY FS_Interval
        <4>. HIDE DEF S
        <4>. QED  BY <4>1, FS_Subset
      <3>6. InOrder(r, sims, A \cap 0 .. n - 1) /\ LeavesNone(r, sims, A \cap 0 .. n - 1, k)
        BY <3>4, <3>5, SubsetExact
      <3>. QED  BY <2>1, <3>3, <3>6
    <2>4. CASE ScanNearest
      <3>1. PICK n \in 1 .. MaxSize - 1 :
               \E sims \in [0 .. n - 1 -> 0 .. MaxSim], off \in [0 .. n - 1 -> -1 .. 1], k \in 1 .. n :
               \E r \in nearest(sims, [i \in 0 .. n - 1 |-> sims[i] + off[i]], n, k, 1, TRUE) :
                  Gives("scan", sims, n, k, 0 .. n - 1, r)
        BY <2>4 DEF ScanNearest, Call
      <3>2. PICK sims \in [0 .. n - 1 -> 0 .. MaxSim], off \in [0 .. n - 1 -> -1 .. 1], k \in 1 .. n :
               \E r \in nearest(sims, [i \in 0 .. n - 1 |-> sims[i] + off[i]], n, k, 1, TRUE) :
                  Gives("scan", sims, n, k, 0 .. n - 1, r)
        BY <3>1
      <3>. DEFINE S == 0 .. n - 1
                  approx == [i \in S |-> sims[i] + off[i]]
      <3>3. PICK r \in nearest(sims, approx, n, k, 1, TRUE) :
                  Gives("scan", sims, n, k, S, r)
        BY <3>2
      <3>4. /\ n \in Nat /\ k \in Nat /\ 0 < k /\ k <= n /\ 1 \in Nat /\ DOMAIN approx = 0 .. n - 1
            /\ \A i \in 0 .. n - 1 : /\ sims[i] \in Int /\ approx[i] \in Int
                                     /\ sims[i] <= approx[i] + 1 /\ approx[i] <= sims[i] + 1
        <4>1. \A i \in S : sims[i] \in 0 .. MaxSim /\ off[i] \in -1 .. 1 /\ approx[i] = sims[i] + off[i]
          OBVIOUS
        <4>2. \A i \in S : /\ sims[i] \in Int /\ approx[i] \in Int
                           /\ sims[i] <= approx[i] + 1 /\ approx[i] <= sims[i] + 1
          <5>. SUFFICES ASSUME NEW i \in S
                        PROVE  /\ sims[i] \in Int /\ approx[i] \in Int
                               /\ sims[i] <= approx[i] + 1 /\ approx[i] <= sims[i] + 1
            OBVIOUS
          <5>. DEFINE a == sims[i]
                      d == off[i]
          <5>1. MaxSim \in Nat /\ a \in 0 .. MaxSim /\ d \in -1 .. 1 /\ approx[i] = a + d
            BY <4>1, AlgorithmsAssumption
          <5>. HIDE DEF a, d, approx, S
          <5>2. /\ a \in Int /\ a + d \in Int
                /\ a <= (a + d) + 1 /\ a + d <= a + 1
            BY <5>1
          <5>. QED  BY <5>1, <5>2 DEF a
        <4>. QED  BY <4>2
      <3>5. AreSims(sims, S) /\ Cardinality(S) = n
        <4>1. IsFiniteSet(S) /\ Cardinality(S) = n
          BY <3>4, FS_Interval
        <4>. QED  BY <3>4, <4>1 DEF AreSims
      <3>. HIDE DEF approx
      <3>6. IsFirstOf(r, sims, S, k)
        BY <3>3, <3>4, ScanIsExact
      <3>. HIDE DEF S
      <3>7. /\ ToSet(r) \subseteq S
            /\ IsInjective(r)
            /\ \A m, l \in DOMAIN r :
                  m < l => \/ sims[r[m]] > sims[r[l]]
                           \/ sims[r[m]] = sims[r[l]] /\ r[m] < r[l]
            /\ Len(r) = Min({k, Cardinality(S)})
            /\ \A i \in S \ ToSet(r), m \in DOMAIN r :
                  \/ sims[i] < sims[r[m]]
                  \/ sims[i] = sims[r[m]] /\ i > r[m]
        BY <3>4, <3>5, <3>6, FirstAnswers
      <3>8. input'.sims = sims /\ input'.k = k /\ input'.allowed = S
        BY <3>3
      <3>9. ExactAnswer(op', sims, S, input'.edges, k, r)
        BY <3>7 DEF ExactAnswer
      <3>. QED  BY <2>0, <3>3, <3>8, <3>9
    <2>5. CASE GraphActivate
      <3>1. PICK sims \in [0 .. 2 -> 0 .. MaxSim - 1], k \in 1 .. 3, count \in 1 .. 2,
                 edges \in Edges, gone \in SUBSET {Gone} :
               LET neighbors == ListsOf(edges, gone)
                   landmarks == select_landmarks([i \in 0 .. 2 |-> i % 2], 3, count)
               IN \E r \in graph_activate(sims, 3, k, landmarks, neighbors, build_id_lookup(Ids)) :
                     /\ op' = "graph" /\ result' = r
                     /\ input' = [sims |-> sims, k |-> k, edges |-> edges,
                                  entry |-> first_best(sims, landmarks), allowed |-> 0 .. 2]
        BY <2>5 DEF GraphActivate, Call, ListsOf
      <3>. DEFINE neighbors == ListsOf(edges, gone)
                  landmarks == select_landmarks([i \in 0 .. 2 |-> i % 2], 3, count)
                  entry == first_best(sims, landmarks)
                  R == ReachedFrom(entry, edges)
      <3>2. PICK r \in graph_activate(sims, 3, k, landmarks, neighbors, build_id_lookup(Ids)) :
               /\ op' = "graph" /\ result' = r
               /\ input' = [sims |-> sims, k |-> k, edges |-> edges,
                            entry |-> entry, allowed |-> 0 .. 2]
        BY <3>1
      <3>3. AreSims(sims, 0 .. 2) /\ k \in Nat /\ 0 < k
        <4>. DEFINE last == 2
        <4>1. last \in Nat /\ 0 .. last = 0 .. 2
          OBVIOUS
        <4>2. IsFiniteSet(0 .. 2)
          <5>1. IsFiniteSet(0 .. last)
            <6>. HIDE DEF last
            <6>. QED  BY <4>1, FS_Interval
          <5>. QED  BY <5>1
        <4>3. \A i \in 0 .. 2 : i \in DOMAIN sims /\ sims[i] \in Int
          OBVIOUS
        <4>. QED  BY <4>2, <4>3 DEF AreSims
      <3>. HIDE DEF neighbors, landmarks
      <3>4. /\ InOrder(r, sims, R)
            /\ (\A i \in R : R \ {i} \subseteq edges[i]) => LeavesNone(r, sims, R, k)
        BY <3>2, <3>3, GraphExact DEF neighbors, landmarks
      <3>. HIDE DEF entry
      <3>5. Reachable' = R
        <4>1. input'.entry = entry /\ input'.edges = edges
          BY <3>2
        <4>. QED  BY <4>1 DEF Reachable, ReachedFrom
      <3>. HIDE DEF R
      <3>6. input'.sims = sims /\ input'.k = k /\ input'.edges = edges
        BY <3>2
      <3>7. ExactAnswer(op', sims, R, edges, k, r)
        BY <3>2, <3>4 DEF ExactAnswer, InOrder, LeavesNone
      <3>. QED  BY <2>0, <3>2, <3>5, <3>6, <3>7
    <2>6. ASSUME op' \notin {"activate", "scan", "graph"} PROVE SearchIsExact'
      BY <2>6 DEF SearchIsExact
    <2>7. CASE Permute \/ Rotate \/ PermuteSnapshot \/ Neighbour
      BY <2>6, <2>7 DEF Permute, Rotate, PermuteSnapshot, Neighbour, Call
    <2>8. CASE Add \/ Sub \/ Bind \/ Intersect \/ Bundle
      BY <2>6, <2>8 DEF Add, Sub, Bind, Intersect, Bundle, Call
    <2>9. CASE UNCHANGED calls
      BY <2>9 DEF calls, SearchIsExact, Reachable
    <2>. QED  BY <2>2, <2>3, <2>4, <2>5, <2>7, <2>8, <2>9 DEF OneCall
  <1>. QED  BY <1>1, <1>2, PTL DEF CallSpec

\* a has N locations with a counter of as many times the address as there were writes.
AsStored(a, N) ==
    /\ N \in Nat /\ a \in [1 .. N -> Locs(0 .. 1)]
    /\ \A n \in 1 .. N : /\ a[n].writes > 0 /\ a[n].id = n - 1
                         /\ a[n].counter = times(a[n].writes, a[n].address)

\* ls says where N locations are and how often each was written.
Listed(ls, N) ==
    /\ DOMAIN ls = 1 .. N
    /\ \A n \in 1 .. N : ls[n].address \in [0 .. 1 -> Int] /\ ls[n].writes \in Nat \ {0}

\* What any sequence of locations is as it is stored.
LEMMA StoredIs ==
  ASSUME NEW N \in Nat, NEW ls, Listed(ls, N)
  PROVE  /\ AsStored(Stored(ls), N)
         /\ \A n \in 1 .. N : /\ Stored(ls)[n].address = ls[n].address
                              /\ Stored(ls)[n].writes = ls[n].writes
  <1>. DEFINE made(n) == [address |-> ls[n].address,
                          counter |-> times(ls[n].writes, ls[n].address),
                          writes  |-> ls[n].writes,
                          id      |-> n - 1]
  <1>1. Stored(ls) = [n \in 1 .. N |-> made(n)]
    BY DEF Stored, Listed
  <1>2. ASSUME NEW n \in 1 .. N
        PROVE  /\ made(n) \in Locs(0 .. 1)
               /\ made(n).address = ls[n].address
               /\ made(n).writes = ls[n].writes
               /\ made(n).id = n - 1
               /\ made(n).counter = times(ls[n].writes, ls[n].address)
    <2>1. times(ls[n].writes, ls[n].address) \in [0 .. 1 -> Int]
      BY DEF times, Listed
    <2>2. n - 1 \in Int
      OBVIOUS
    <2>. QED  BY <2>1, <2>2 DEF Locs, Listed
  <1>. HIDE DEF made
  <1>3. Stored(ls) \in [1 .. N -> Locs(0 .. 1)] /\ \A n \in 1 .. N : Stored(ls)[n] = made(n)
    BY <1>1, <1>2
  <1>4. \A n \in 1 .. N : /\ Stored(ls)[n].address = ls[n].address
                         /\ Stored(ls)[n].writes = ls[n].writes
                         /\ Stored(ls)[n].id = n - 1
                         /\ Stored(ls)[n].counter = times(ls[n].writes, ls[n].address)
    BY <1>2, <1>3
  <1>5. \A n \in 1 .. N : /\ Stored(ls)[n].writes > 0
                         /\ Stored(ls)[n].counter = times(Stored(ls)[n].writes, Stored(ls)[n].address)
    BY <1>4 DEF Listed
  <1>. QED  BY <1>3, <1>4, <1>5 DEF AsStored

\* The operands of the modelled calls.
LEMMA OperandsStored ==
  ASSUME NEW a \in Operands
  PROVE  \E N : /\ AsStored(a, N) /\ N \in 0 .. 2
                /\ \A n \in 1 .. N : a[n].address \in Patterns
  <1>1. PICK N \in 0 .. 2 : \E ls \in [1 .. N -> Locations] : a = Stored(ls)
    BY DEF Operands
  <1>5. PICK ls \in [1 .. N -> Locations] : a = Stored(ls)
    BY <1>1
  <1>2. ASSUME NEW n \in 1 .. N
        PROVE  /\ ls[n].address \in Patterns
               /\ ls[n].address \in [0 .. 1 -> Int] /\ ls[n].writes \in Nat \ {0}
    <2>1. ls[n] \in Locations
      BY <1>5
    <2>2. ls[n].address \in Patterns /\ ls[n].writes \in 1 .. 2
      BY <2>1 DEF Locations
    <2>3. \A p \in Patterns : p \in [0 .. 1 -> Int]
      BY DEF Patterns
    <2>. QED  BY <2>2, <2>3
  <1>3. DOMAIN ls = 1 .. N /\ N \in Nat
    BY <1>5
  <1>4. AsStored(a, N) /\ \A n \in 1 .. N : a[n].address = ls[n].address
    <2>1. Listed(ls, N)
      BY <1>2, <1>3 DEF Listed
    <2>2. /\ AsStored(Stored(ls), N)
          /\ \A n \in 1 .. N : Stored(ls)[n].address = ls[n].address
      BY <1>3, <2>1, StoredIs
    <2>. QED  BY <1>5, <2>2
  <1>. QED  BY <1>1, <1>2, <1>4

\* Those of them with one write each.
LEMMA SingleWritesStored ==
  ASSUME NEW b \in SingleWrites
  PROVE  \E N : /\ AsStored(b, N) /\ N \in 0 .. 2
                /\ \A n \in 1 .. N : b[n].address \in Patterns /\ b[n].writes = 1
  <1>1. b \in Operands /\ \A n \in DOMAIN b : b[n].writes = 1
    BY DEF SingleWrites
  <1>2. PICK N : /\ AsStored(b, N) /\ N \in 0 .. 2
                 /\ \A n \in 1 .. N : b[n].address \in Patterns
    BY <1>1, OperandsStored
  <1>3. DOMAIN b = 1 .. N
    BY <1>2 DEF AsStored
  <1>. QED  BY <1>1, <1>2, <1>3

\* A snapshot of one key.
LEMMA KeysStored ==
  ASSUME NEW key \in Keys(2)
  PROVE  /\ AsStored(Stored(<<[address |-> key, writes |-> 1]>>), 1)
         /\ Stored(<<[address |-> key, writes |-> 1]>>)[1].address = key
         /\ Stored(<<[address |-> key, writes |-> 1]>>)[1].writes = 1
  <1>. DEFINE ls == <<[address |-> key, writes |-> 1]>>
  <1>1. PICK s \in 0 .. 2 - 1, sign \in {-1, 1} :
           key = [i \in 0 .. 2 - 1 |-> IF i = s THEN sign ELSE 0]
    BY DEF Keys
  <1>2. key \in [0 .. 1 -> Int]
    BY <1>1
  <1>3. DOMAIN ls = 1 .. 1 /\ \A n \in 1 .. 1 : ls[n].address = key /\ ls[n].writes = 1
    OBVIOUS
  <1>. HIDE DEF ls
  <1>4. \A n \in 1 .. 1 : ls[n].address \in [0 .. 1 -> Int] /\ ls[n].writes \in Nat \ {0}
    BY <1>2, <1>3
  <1>5. 1 \in Nat
    OBVIOUS
  <1>6. AsStored(Stored(ls), 1) /\ \A n \in 1 .. 1 : /\ Stored(ls)[n].address = ls[n].address
                                                    /\ Stored(ls)[n].writes = ls[n].writes
    <2>1. Listed(ls, 1)
      BY <1>3, <1>4 DEF Listed
    <2>. QED  BY <1>5, <2>1, StoredIs
  <1>. QED  BY <1>3, <1>6 DEF ls

\* Sums, differences and products of stored snapshots fit.
LEMMA StoredFit ==
  ASSUME NEW a, NEW N, AsStored(a, N), NEW b, NEW M, AsStored(b, M), NEW k \in Nat, NEW tau
  PROVE  /\ \A sign \in Int :
               MergedFrom(consolidate(pairwise_combine(a, b, sign, k), tau),
                          pairwise_combine(a, b, sign, k),
                          estimated_cross_locations(Len(a), Len(b), k))
         /\ MergedFrom(consolidate(pairwise_bind(a, b, k), tau), pairwise_bind(a, b, k),
                       estimated_cross_locations(Len(a), Len(b), k))
  <1>. DEFINE limit == estimated_cross_locations(N, M, k)
  <1>1. /\ N \in Nat /\ a \in [1 .. N -> Locs(0 .. 1)] /\ Len(a) = N
        /\ M \in Nat /\ b \in [1 .. M -> Locs(0 .. 1)] /\ Len(b) = M
    BY DEF AsStored
  <1>2. limit \in Nat
    <2>1. \A x, y \in Nat : x * y \in Nat
      OBVIOUS
    <2>. QED  BY <1>1, <2>1 DEF estimated_cross_locations
  <1>. HIDE DEF limit
  <1>3. ASSUME NEW sign \in Int
        PROVE  MergedFrom(consolidate(pairwise_combine(a, b, sign, k), tau),
                          pairwise_combine(a, b, sign, k), limit)
    <2>. DEFINE made == pairwise_combine(a, b, sign, k)
    <2>1. \E L \in 0 .. limit : made \in [1 .. L -> Locs(0 .. 1)]
      <3>1. /\ N \in Nat /\ a \in [1 .. N -> Locs(0 .. 1)]
            /\ M \in Nat /\ b \in [1 .. M -> Locs(0 .. 1)] /\ k \in Nat
        BY <1>1
      <3>2. \E L \in 0 .. estimated_cross_locations(N, M, k) :
               pairwise_combine(a, b, sign, k) \in [1 .. L -> Locs(0 .. 1)]
        BY <3>1, CombinationsFit
      <3>. QED  BY <3>2 DEF limit
    <2>. HIDE DEF made
    <2>2. PICK L \in 0 .. limit : made \in [1 .. L -> Locs(0 .. 1)]
      BY <2>1
    <2>3. L \in Nat /\ L <= limit
      BY <1>2
    <2>4. MergedFrom(consolidate(made, tau), made, limit)
      BY <1>2, <2>2, <2>3, ConsolidateFits
    <2>. QED  BY <2>4 DEF made
  <1>4. MergedFrom(consolidate(pairwise_bind(a, b, k), tau), pairwise_bind(a, b, k), limit)
    <2>. DEFINE made == pairwise_bind(a, b, k)
    <2>1. \A sign \in Int : \E L \in 0 .. limit : pairwise_bind(a, b, k) \in [1 .. L -> Locs(0 .. 1)]
      BY <1>1, CombinationsFit DEF limit
    <2>2. 1 \in Int
      OBVIOUS
    <2>3. PICK L \in 0 .. limit : made \in [1 .. L -> Locs(0 .. 1)]
      BY <2>1, <2>2
    <2>. HIDE DEF made
    <2>4. L \in Nat /\ L <= limit
      BY <1>2
    <2>5. MergedFrom(consolidate(made, tau), made, limit)
      BY <1>2, <2>3, <2>4, ConsolidateFits
    <2>. QED  BY <2>5 DEF made
  <1>. QED  BY <1>1, <1>3, <1>4 DEF limit

\* ops.rs, bind.rs, merge.rs: whatever add, sub and bind make of two snapshots
\* is within the estimate the server's limit is checked against, is numbered
\* without gaps, and holds what was combined, counters and writes.
THEOREM CombinedSnapshotsFit == CallSpec => []ResultsFit
  <1>1. NoCall => ResultsFit
    BY DEF NoCall, ResultsFit
  <1>2. ResultsFit /\ [OneCall]_calls => ResultsFit'
    <2>. SUFFICES ASSUME ResultsFit, [OneCall]_calls PROVE ResultsFit'
      OBVIOUS
    <2>1. CASE Add
      <3>1. PICK a \in Operands, b \in SingleWrites, k \in 0 .. 1 :
               /\ op' = "add" /\ input' = [a |-> a, b |-> b, k |-> k]
               /\ result' = add_with_limit(a, b, k, Tau)
        BY <2>1 DEF Add, Call
      <3>. SUFFICES ASSUME a # NoLocations, b # NoLocations PROVE ResultsFit'
        BY <3>1 DEF ResultsFit
      <3>2. result' = consolidate(pairwise_combine(a, b, 1, k), Tau)
        BY <3>1 DEF add_with_limit
      <3>3. MergedFrom(result', pairwise_combine(a, b, 1, k),
                       estimated_cross_locations(Len(a), Len(b), k))
        <4>1. PICK N : AsStored(a, N)
          BY OperandsStored
        <4>2. PICK M : AsStored(b, M)
          BY SingleWritesStored
        <4>. QED  BY <3>2, <4>1, <4>2, StoredFit
      <3>. QED  BY <3>1, <3>3 DEF ResultsFit, Combinations
    <2>2. CASE Sub
      <3>1. PICK a \in Operands, b \in SingleWrites, k \in 0 .. 1 :
               /\ op' = "sub" /\ input' = [a |-> a, b |-> b, k |-> k]
               /\ result' = sub_with_limit(a, b, k, Tau)
        BY <2>2 DEF Sub, Call
      <3>. SUFFICES ASSUME a # NoLocations, b # NoLocations PROVE ResultsFit'
        BY <3>1 DEF ResultsFit
      <3>2. result' = consolidate(pairwise_combine(a, b, -1, k), Tau)
        BY <3>1 DEF sub_with_limit
      <3>3. MergedFrom(result', pairwise_combine(a, b, -1, k),
                       estimated_cross_locations(Len(a), Len(b), k))
        <4>1. PICK N : AsStored(a, N)
          BY OperandsStored
        <4>2. PICK M : AsStored(b, M)
          BY SingleWritesStored
        <4>3. -1 \in Int /\ k \in Nat
          OBVIOUS
        <4>. QED  BY <3>2, <4>1, <4>2, <4>3, StoredFit
      <3>. QED  BY <3>1, <3>3 DEF ResultsFit, Combinations
    <2>3. CASE Bind
      <3>1. PICK a \in SingleWrites, key \in Keys(2) :
               /\ op' = "bind"
               /\ input' = [a |-> a, b |-> Stored(<<[address |-> key, writes |-> 1]>>), k |-> 0]
               /\ result' = bind_with_limit(a, Stored(<<[address |-> key, writes |-> 1]>>), 0, Tau)
        BY <2>3 DEF Bind, Call
      <3>. DEFINE b == Stored(<<[address |-> key, writes |-> 1]>>)
      <3>2. AsStored(b, 1)
        BY KeysStored
      <3>3. op' = "bind" /\ input'.a = a /\ input'.b = b /\ input'.k = 0
        BY <3>1
      <3>4. result' = bind_with_limit(a, b, 0, Tau)
        BY <3>1
      <3>. HIDE DEF b
      <3>. SUFFICES ASSUME a # NoLocations, b # NoLocations PROVE ResultsFit'
        BY <3>3 DEF ResultsFit
      <3>5. result' = consolidate(pairwise_bind(a, b, 0), Tau)
        BY <3>4 DEF bind_with_limit
      <3>6. MergedFrom(result', pairwise_bind(a, b, 0), estimated_cross_locations(Len(a), Len(b), 0))
        <4>1. PICK N : AsStored(a, N)
          BY SingleWritesStored
        <4>. QED  BY <3>2, <3>5, <4>1, StoredFit
      <3>. QED  BY <3>3, <3>6 DEF ResultsFit, Combinations
    <2>4. ASSUME op' \notin {"add", "sub", "bind"} PROVE ResultsFit'
      BY <2>4 DEF ResultsFit
    <2>5. CASE Permute \/ Rotate \/ PermuteSnapshot \/ Activate \/ ActivateSubset
      BY <2>4, <2>5 DEF Permute, Rotate, PermuteSnapshot, Activate, ActivateSubset, Call
    <2>6. CASE ScanNearest \/ Neighbour \/ Bundle \/ Intersect \/ GraphActivate
      BY <2>4, <2>6 DEF ScanNearest, Neighbour, Bundle, Intersect, GraphActivate, Call
    <2>7. CASE UNCHANGED calls
      BY <2>7 DEF calls, ResultsFit, Combinations
    <2>. QED  BY <2>1, <2>2, <2>3, <2>5, <2>6, <2>7 DEF OneCall
  <1>. QED  BY <1>1, <1>2, PTL DEF CallSpec

\* The coordinates of the modelled patterns.
LEMMA PlaneIsFinite == IsFiniteSet(0 .. 1)
  <1>. DEFINE d == 2
  <1>1. d \in Nat /\ 0 .. d - 1 = 0 .. 1
    OBVIOUS
  <1>. HIDE DEF d
  <1>2. IsFiniteSet(0 .. d - 1)
    BY <1>1, CoordinatesAre
  <1>. QED  BY <1>1, <1>2

\* None of the modelled addresses is zero.
LEMMA PatternsNotZero ==
  ASSUME NEW p \in Patterns
  PROVE  p \in [0 .. 1 -> Int] /\ norm2(p) # 0
  <1>1. p \in [0 .. 1 -> Int] /\ p # Zero(2)
    BY DEF Patterns
  <1>. DEFINE S == 0 .. 1
  <1>2. norm2(p) = 0 => \A i \in S : p[i] = 0
    <2>1. IntVector(p, S)
      BY <1>1 DEF IntVector, Ints
    <2>. HIDE DEF S
    <2>. QED  BY <2>1, NormIs, PlaneIsFinite DEF S
  <1>3. (\A i \in S : p[i] = 0) => p = Zero(2)
    <2>1. Zero(2) = [i \in S |-> 0]
      BY DEF Zero
    <2>. HIDE DEF S
    <2>2. p = [i \in S |-> p[i]]
      BY <1>1 DEF S
    <2>. QED  BY <2>1, <2>2
  <1>. QED  BY <1>1, <1>2, <1>3

\* The laws, for what one modelled call is given and returns.
LEMMA SubLaw ==
  ASSUME NEW a \in Operands, NEW b \in SingleWrites, NEW k \in Nat
  PROVE  sub_with_limit(a, b, k, Tau) = add_with_limit(a, negate(b), k, Tau)
  <1>1. PICK N : AsStored(a, N)
    BY OperandsStored
  <1>2. PICK M : AsStored(b, M) /\ \A n \in 1 .. M : b[n].writes = 1
    BY SingleWritesStored
  <1>. DEFINE S == 0 .. 1
  <1>3. /\ N \in Nat /\ a \in [1 .. N -> Locs(S)]
        /\ M \in Nat /\ b \in [1 .. M -> Locs(S)]
    BY <1>1, <1>2 DEF AsStored
  <1>4. IsFiniteSet(S)
    BY PlaneIsFinite
  <1>. HIDE DEF S
  <1>. QED  BY <1>2, <1>3, <1>4, SubtractingAddsNegation

LEMMA BindLaw ==
  ASSUME NEW a \in SingleWrites, \A n \in DOMAIN a : norm2(a[n].counter) = 1, NEW key \in Keys(2)
  PROVE  LET b == Stored(<<[address |-> key, writes |-> 1]>>)
         IN PatternsOf(unbind(bind_with_limit(a, b, 0, Tau), b)) = PatternsOf(a)
  <1>. DEFINE b == Stored(<<[address |-> key, writes |-> 1]>>)
              d == 2
              S == 0 .. 1
  <1>0. d \in Nat \ {0} /\ 0 .. d - 1 = S /\ 2 = d
    OBVIOUS
  <1>1. PICK N : AsStored(a, N) /\ \A n \in 1 .. N : a[n].writes = 1
    BY SingleWritesStored
  <1>2. N \in Nat /\ a \in [1 .. N -> Locs(S)] /\ \A n \in 1 .. N : norm2(a[n].counter) = 1
    <2>1. N \in Nat /\ a \in [1 .. N -> Locs(S)]
      BY <1>1 DEF AsStored
    <2>. QED  BY <2>1
  <1>3. AsStored(b, 1) /\ b[1].address = key /\ b[1].writes = 1
    BY KeysStored
  <1>. HIDE DEF b
  <1>4. b \in [1 .. 1 -> Locs(S)] /\ b[1].counter = times(1, key)
    <2>1. 1 \in 1 .. 1
      OBVIOUS
    <2>. QED  BY <1>3, <2>1 DEF AsStored
  <1>5. normalized_pattern(b[1]) = key
    <2>. DEFINE l == b[1]
    <2>1. l.writes \in Nat \ {0} /\ l.counter = times(l.writes, key)
      BY <1>3, <1>4
    <2>2. key \in [0 .. d - 1 -> Int]
      <3>1. key \in Keys(d)
        OBVIOUS
      <3>. HIDE DEF d, S
      <3>. QED  BY <1>0, <3>1, KeysShift
    <2>. HIDE DEF l, d
    <2>3. normalized_pattern(l) = key
      BY <2>1, <2>2, WholePattern
    <2>. QED  BY <2>3 DEF l
  <1>. DEFINE t == Tau
  <1>6. t.num \in Nat /\ t.den \in Nat \ {0}
    BY DEF Tau
  <1>7. normalized_pattern(b[1]) \in Keys(d)
    BY <1>5
  <1>. HIDE DEF d, S, t
  <1>8. a \in [1 .. N -> Locs(0 .. d - 1)] /\ b \in [1 .. 1 -> Locs(0 .. d - 1)]
    BY <1>0, <1>2, <1>4
  <1>9. N \in Nat /\ Units(a, N)
    BY <1>1, <1>2 DEF Units
  <1>10. PatternsOf(unbind(bind_with_limit(a, b, 0, t), b)) = PatternsOf(a)
    BY <1>0, <1>6, <1>7, <1>8, <1>9, UnbindingRestores
  <1>. QED  BY <1>10 DEF t, b

LEMMA IntersectLaw ==
  ASSUME NEW a \in Operands, NEW b
  PROVE  /\ PatternsOf(intersect(a, b, Tau)) \subseteq PatternsOf(a)
         /\ intersect(intersect(a, b, Tau), b, Tau) = intersect(a, b, Tau)
         /\ intersect(a, a, Tau) = a
  <1>1. PICK N : AsStored(a, N) /\ \A n \in 1 .. N : a[n].address \in Patterns
    BY OperandsStored
  <1>. DEFINE S == 0 .. 1
              t == Tau
  <1>2. /\ N \in Nat /\ a \in [1 .. N -> Locs(S)]
        /\ \A n \in 1 .. N : a[n].id = n - 1
    BY <1>1 DEF AsStored
  <1>3. \A n \in 1 .. N : norm2(a[n].address) # 0
    BY <1>1, PatternsNotZero
  <1>4. IsFiniteSet(S)
    BY PlaneIsFinite
  <1>5. t.num \in Int /\ t.den \in Int /\ t.num < t.den
    BY DEF Tau
  <1>. HIDE DEF S, t
  <1>6. /\ PatternsOf(intersect(a, b, t)) \subseteq PatternsOf(a)
        /\ intersect(intersect(a, b, t), b, t) = intersect(a, b, t)
    BY <1>2, IntersectionsSettle
  <1>7. intersect(a, a, t) = a
    BY <1>2, <1>3, <1>4, <1>5, IntersectionWithSelf
  <1>. QED  BY <1>6, <1>7 DEF t

LEMMA BundleLaw ==
  ASSUME NEW p \in Vectors, NEW q \in Vectors, NEW w \in -1 .. 2, NEW key \in Keys(3)
  PROVE  LET r == bundle_vec(<<p, q>>, <<1, w>>)
         IN /\ circular_convolve(r, key)
                  = bundle_vec(<<circular_convolve(p, key), circular_convolve(q, key)>>, <<1, w>>)
            /\ circular_convolve(p, q) = circular_convolve(q, p)
            /\ unbind_vec(circular_convolve(r, key), key) = r
            /\ unbind_by(p, q) = unbind_vec(p, q)
  <1>. DEFINE d == 3
              r == bundle_vec(<<p, q>>, <<1, w>>)
  <1>1. d \in Nat \ {0} /\ p \in [0 .. d - 1 -> Int] /\ q \in [0 .. d - 1 -> Int] /\ w \in Int
    BY DEF Vectors
  <1>2. key \in Keys(d)
    OBVIOUS
  <1>. HIDE DEF d
  <1>3. key \in [0 .. d - 1 -> Int]
    BY <1>1, <1>2, KeysShift
  <1>4. r \in [0 .. d - 1 -> Int]
    <2>1. Both(p, q, w) \in [0 .. d - 1 -> Int]
      BY <1>1, BundleIs
    <2>. QED  BY <2>1 DEF Both
  <1>5. circular_convolve(r, key)
           = bundle_vec(<<circular_convolve(p, key), circular_convolve(q, key)>>, <<1, w>>)
    BY <1>1, <1>3, BindingDistributes
  <1>6. circular_convolve(p, q) = circular_convolve(q, p)
    BY <1>1, ConvolutionCommutes
  <1>7. unbind_vec(circular_convolve(r, key), key) = r
    <2>. HIDE DEF r
    <2>. QED  BY <1>1, <1>2, <1>4, ShiftsUnbind
  <1>8. unbind_by(p, q) = unbind_vec(p, q)
    BY <1>1, UnbindingsAgree
  <1>. QED  BY <1>5, <1>6, <1>7, <1>8

\* ops.rs, bind.rs: what one operation makes of two snapshots is what others
\* make of them: differences are sums with the negation, unbinding undoes
\* binding, intersections settle, and binding commutes and distributes.
THEOREM AlgebraLawsHold == CallSpec => []AlgebraLaws
  <1>1. NoCall => AlgebraLaws
    BY DEF NoCall, AlgebraLaws
  <1>2. AlgebraLaws /\ [OneCall]_calls => AlgebraLaws'
    <2>. SUFFICES ASSUME AlgebraLaws, [OneCall]_calls PROVE AlgebraLaws'
      OBVIOUS
    <2>1. CASE Sub
      <3>1. PICK a \in Operands, b \in SingleWrites, k \in 0 .. 1 :
               /\ op' = "sub" /\ input' = [a |-> a, b |-> b, k |-> k]
               /\ result' = sub_with_limit(a, b, k, Tau)
        BY <2>1 DEF Sub, Call
      <3>2. k \in Nat
        OBVIOUS
      <3>3. result' = add_with_limit(a, negate(b), k, Tau)
        BY <3>1, <3>2, SubLaw
      <3>. QED  BY <3>1, <3>3 DEF AlgebraLaws
    <2>2. CASE Bind
      <3>1. PICK a \in {a \in SingleWrites : \A n \in DOMAIN a : norm2(a[n].counter) = 1}, key \in Keys(2) :
               /\ op' = "bind"
               /\ input' = [a |-> a, b |-> Stored(<<[address |-> key, writes |-> 1]>>), k |-> 0]
               /\ result' = bind_with_limit(a, Stored(<<[address |-> key, writes |-> 1]>>), 0, Tau)
        BY <2>2 DEF Bind, Call
      <3>. DEFINE b == Stored(<<[address |-> key, writes |-> 1]>>)
      <3>2. a \in SingleWrites /\ \A n \in DOMAIN a : norm2(a[n].counter) = 1
        OBVIOUS
      <3>3. op' = "bind" /\ input'.a = a /\ input'.b = b /\ result' = bind_with_limit(a, b, 0, Tau)
        BY <3>1
      <3>4. PatternsOf(unbind(bind_with_limit(a, b, 0, Tau), b)) = PatternsOf(a)
        BY <3>2, BindLaw
      <3>. HIDE DEF b
      <3>5. PatternsOf(unbind(result', input'.b)) = PatternsOf(input'.a)
        BY <3>3, <3>4
      <3>. QED  BY <3>3, <3>5 DEF AlgebraLaws, PatternsOf
    <2>3. CASE Intersect
      <3>1. PICK a \in Operands, b \in SingleWrites :
               /\ op' = "intersect" /\ input' = [a |-> a, b |-> b]
               /\ result' = intersect(a, b, Tau)
        BY <2>3 DEF Intersect, Call
      <3>2. op' = "intersect" /\ input'.a = a /\ input'.b = b /\ result' = intersect(a, b, Tau)
        BY <3>1
      <3>3. /\ PatternsOf(result') \subseteq PatternsOf(a)
            /\ intersect(result', b, Tau) = result'
            /\ intersect(a, a, Tau) = a
        BY <3>2, IntersectLaw
      <3>. QED  BY <3>2, <3>3 DEF AlgebraLaws, PatternsOf
    <2>4. CASE Bundle
      <3>1. PICK p \in Vectors, q \in Vectors, w \in -1 .. 2 :
               /\ op' = "bundle" /\ input' = [p |-> p, q |-> q, w |-> w]
               /\ result' = bundle_vec(<<p, q>>, <<1, w>>)
        BY <2>4 DEF Bundle, Call
      <3>. DEFINE r == bundle_vec(<<p, q>>, <<1, w>>)
      <3>2. op' = "bundle" /\ input'.p = p /\ input'.q = q /\ input'.w = w /\ result' = r
        BY <3>1
      <3>3. \A key \in Keys(3) :
              /\ circular_convolve(r, key)
                    = bundle_vec(<<circular_convolve(p, key), circular_convolve(q, key)>>, <<1, w>>)
              /\ circular_convolve(p, q) = circular_convolve(q, p)
              /\ unbind_vec(circular_convolve(r, key), key) = r
              /\ unbind_by(p, q) = unbind_vec(p, q)
        BY BundleLaw
      <3>. HIDE DEF r
      <3>. QED  BY <3>2, <3>3 DEF AlgebraLaws
    <2>5. ASSUME op' \notin {"sub", "bind", "intersect", "bundle"} PROVE AlgebraLaws'
      BY <2>5 DEF AlgebraLaws
    <2>6. CASE Permute \/ Rotate \/ PermuteSnapshot \/ Activate \/ ActivateSubset
      <3>1. Permute \/ Rotate \/ PermuteSnapshot => op' \notin {"sub", "bind", "intersect", "bundle"}
        BY DEF Permute, Rotate, PermuteSnapshot, Call
      <3>2. Activate \/ ActivateSubset => op' \notin {"sub", "bind", "intersect", "bundle"}
        BY DEF Activate, ActivateSubset, Call
      <3>. QED  BY <2>5, <2>6, <3>1, <3>2
    <2>7. CASE ScanNearest \/ Neighbour \/ Add \/ GraphActivate
      <3>1. ScanNearest \/ Neighbour => op' \notin {"sub", "bind", "intersect", "bundle"}
        BY DEF ScanNearest, Neighbour, Call
      <3>2. Add => op' \notin {"sub", "bind", "intersect", "bundle"}
        BY DEF Add, Call
      <3>3. GraphActivate => op' \notin {"sub", "bind", "intersect", "bundle"}
        BY DEF GraphActivate, Call
      <3>. QED  BY <2>5, <2>7, <3>1, <3>2, <3>3
    <2>8. CASE UNCHANGED calls
      BY <2>8 DEF calls, AlgebraLaws
    <2>. QED  BY <2>1, <2>2, <2>3, <2>4, <2>6, <2>7, <2>8 DEF OneCall
  <1>. QED  BY <1>1, <1>2, PTL DEF CallSpec

-----------------------------------------------------------------------------
(* Commands on the data directory (backup.rs, verify.rs).                  *)

USE DEF Copies, FileCommands, PartCommands, Copyings

\* A command by what it is.
LEMMA ColdCommand ==
  ASSUME CommandOK, cmd.op \in {"backup", "restore_archive"}
  PROVE  /\ cmd.only \in Name \cup {All} /\ cmd.todo \subseteq File
         /\ cmd.before \in Disks
         /\ \A T \in SUBSET File :
              LET next == [cmd EXCEPT !.todo = T]
              IN /\ next.op = cmd.op /\ next.only = cmd.only
                 /\ next.todo = T /\ next.before = cmd.before
                 /\ next \in FileCommands
  BY DEF CommandOK, Cold

LEMMA SnapshotRestore ==
  ASSUME CommandOK, cmd.op = "restore_snapshot"
  PROVE  /\ cmd.only \in Name /\ cmd.todo \subseteq Name \X Part
         /\ cmd.before \in Disks
         /\ \A T \in SUBSET (Name \X Part) :
              LET next == [cmd EXCEPT !.todo = T]
              IN /\ next.op = cmd.op /\ next.only = cmd.only
                 /\ next.todo = T /\ next.before = cmd.before
                 /\ next \in PartCommands
  BY DEF CommandOK, Cold

LEMMA SnapshotCommand ==
  ASSUME CommandOK, cmd.op = "snapshot"
  PROVE  cmd.only \in Name /\ cmd.before \in Disks
  BY DEF CommandOK

LEMMA CopyingCommand ==
  ASSUME CommandOK, cmd.op = "copying"
  PROVE  /\ cmd.only \in Name /\ cmd.before \in Disks /\ cmd.todo \in 1 .. 3
         /\ \A k \in 1 .. 3 :
              LET next == [cmd EXCEPT !.todo = k]
              IN /\ next.op = cmd.op /\ next.only = cmd.only
                 /\ next.todo = k /\ next.before = cmd.before
                 /\ next \in Copyings
  BY DEF CommandOK

\* A new command knows the disk as it is.
LEMMA Begins ==
  ASSUME NEW kind, NEW only, NEW todo, Begin(kind, only, todo)
  PROVE  /\ cmd'.op = kind /\ cmd'.only = only /\ cmd'.todo = todo
         /\ cmd'.before = disk
         /\ cmd' = [op |-> kind, only |-> only, todo |-> todo, before |-> disk]
  BY DEF Begin

LEMMA FilesOfANameAreFiles ==
  ASSUME NEW n \in Name, NEW p \in Part
  PROVE  <<n, p>> \in File /\ <<n, p>> \in Of(n)
  BY DEF File, Of

LEMMA ScopeIsFiles ==
  ASSUME NEW only \in Name \cup {All}
  PROVE  Scope(only) \subseteq File /\ Of(only) \subseteq {only} \X Part
         /\ (only \in Name => Of(only) \subseteq Name \X Part)
  BY DEF Scope, Of, File

-----------------------------------------------------------------------------
\* The value of each variable after each kind of step.

LEMMA InitTyped == Init => TypeOK
  <1>. SUFFICES ASSUME Init PROVE TypeOK
    OBVIOUS
  <1>1. 0 \in 0 .. MaxClock /\ 1 \in 1 .. MaxClock /\ 1 \in 0 .. MaxClock
        /\ 0 \in 0 .. MaxCommand
    BY BackupAssumption
  <1>2. disk \in Disks /\ Nothing \in Disks
    BY <1>1 DEF Init, Disks, Nothing, Absent
  <1>3. archive \in [ends : BOOLEAN, said : BOOLEAN, only : Name \cup {All},
                     file : Disks, of : Disks]
    BY <1>2 DEF Init
  <1>4. snapshot \in Copies
    BY <1>1 DEF Init, NoDirectory, Absent
  <1>5. CommandOK
    BY DEF Init, Idle, CommandOK
  <1>. QED  BY <1>1, <1>2, <1>3, <1>4, <1>5 DEF Init, TypeOK

LEMMA ChangedTyped ==
  ASSUME TypeOK, NEW files, Changed(files)
  PROVE  clock' \in 1 .. MaxClock /\ disk' \in Disks
  <1>1. clock' \in 1 .. MaxClock /\ clock' \in 0 .. MaxClock
    BY BackupAssumption DEF TypeOK, Changed
  <1>. QED  BY <1>1 DEF TypeOK, Changed, Disks

\* Of a snapshot, a drop leaves everything but the word that it happened.
LEMMA DropEffect ==
  ASSUME TypeOK, NEW n \in Name, DropDatabase(n)
  PROVE  /\ snapshot' \in Copies
         /\ snapshot'.made = snapshot.made /\ snapshot'.part = snapshot.part
         /\ snapshot'.of = snapshot.of
         /\ snapshot'.dropped = (snapshot.dropped \/ Copying(n))
  <1>. DEFINE said == snapshot.dropped \/ Copying(n)
  <1>1. said \in BOOLEAN
    BY DEF TypeOK, Copying
  <1>2. snapshot' = [snapshot EXCEPT !.dropped = said]
    BY DEF DropDatabase
  <1>. HIDE DEF said
  <1>3. /\ snapshot' \in Copies
        /\ snapshot'.made = snapshot.made /\ snapshot'.part = snapshot.part
        /\ snapshot'.of = snapshot.of /\ snapshot'.dropped = said
    BY <1>1, <1>2 DEF TypeOK
  <1>. QED  BY <1>3 DEF said

LEMMA EngineTyped ==
  ASSUME TypeOK, Engine
  PROVE  TypeOK'
  <1>1. /\ engine' \in BOOLEAN /\ clock' \in 1 .. MaxClock /\ disk' \in Disks
        /\ dirs' \subseteq Name
        /\ snapshot' \in Copies
        /\ UNCHANGED <<archive, cmd, begun>>
    <2>1. CASE EngineStart
      <3>. DEFINE fresh == {n \in Name : disk[<<n, "db.toml">>] # Absent /\ empty(n)}
      <3>1. clock' \in 1 .. MaxClock
        BY <2>1, BackupAssumption DEF EngineStart, TypeOK
      <3>2. clock' \in 0 .. MaxClock
        BY <3>1, BackupAssumption
      <3>3. disk' \in Disks
        BY <2>1, <3>2 DEF EngineStart, TypeOK, Disks
      <3>. QED  BY <2>1, <3>1, <3>3 DEF EngineStart, TypeOK
    <2>2. CASE EngineStop
      BY <2>2 DEF EngineStop, TypeOK
    <2>3. CASE CommitUsers
      BY <2>3, ChangedTyped DEF CommitUsers, TypeOK
    <2>4. CASE \E n \in Name : Commit(n)
      BY <2>4, ChangedTyped DEF Commit, TypeOK
    <2>5. CASE \E n \in Name : CreateDatabase(n)
      BY <2>5, ChangedTyped DEF CreateDatabase, TypeOK
    <2>6. CASE \E n \in Name : DropDatabase(n)
      <3>1. disk' \in Disks
        BY <2>6, BackupAssumption DEF DropDatabase, TypeOK, Disks, Absent
      <3>2. snapshot' \in Copies
        BY <2>6, DropEffect
      <3>. QED  BY <2>6, <3>1, <3>2 DEF DropDatabase, TypeOK
    <2>. QED  BY <2>1, <2>2, <2>3, <2>4, <2>5, <2>6 DEF Engine
  <1>2. CommandOK'
    BY <1>1 DEF TypeOK, CommandOK
  <1>. QED  BY <1>1, <1>2 DEF TypeOK

LEMMA ReadyTyped ==
  ASSUME TypeOK, Ready
  PROVE  begun' \in 0 .. MaxCommand
  BY BackupAssumption DEF TypeOK, Ready

LEMMA CommandEnds ==
  cmd' = Idle \/ Report => CommandOK' /\ cmd'.op \in {"none", "reported"}
  BY DEF Idle, Report, CommandOK

LEMMA NewSnapshotTyped ==
  NoDirectory \in Copies
  <1>1. 0 \in 0 .. MaxClock
    BY BackupAssumption
  <1>. QED  BY <1>1 DEF NoDirectory, Absent

LEMMA AbortTyped == TypeOK /\ Abort => TypeOK'
  <1>. SUFFICES ASSUME TypeOK, Abort PROVE TypeOK'
    OBVIOUS
  <1>1. archive' \in [ends : BOOLEAN, said : BOOLEAN, only : Name \cup {All},
                      file : Disks, of : Disks]
    BY DEF TypeOK, Abort
  <1>2. CommandOK'
    BY CommandEnds DEF Abort
  <1>. QED  BY <1>1, <1>2 DEF TypeOK, Abort

LEMMA DoBackupTyped ==
  ASSUME TypeOK, NEW only \in Name \cup {All}, do_backup(only)
  PROVE  TypeOK'
  <1>. DEFINE found == only = All \/ only \in dirs
              todo == {f \in Scope(only) : disk[f] # Absent}
  <1>1. Nothing \in Disks /\ disk \in Disks
    BY BackupAssumption DEF Nothing, Disks, Absent, TypeOK
  <1>2. archive' \in [ends : BOOLEAN, said : BOOLEAN, only : Name \cup {All},
                      file : Disks, of : Disks]
    BY <1>1 DEF do_backup
  <1>3. CommandOK'
    <2>1. CASE found
      <3>1. Begin("backup", only, todo)
        BY <2>1 DEF do_backup
      <3>2. todo \subseteq File
        BY ScopeIsFiles
      <3>. HIDE DEF todo
      <3>3. cmd' \in FileCommands /\ cmd'.op = "backup"
        BY <1>1, <3>1, <3>2, Begins DEF Cold
      <3>. QED  BY <3>3 DEF CommandOK
    <2>2. CASE ~found
      BY <2>2, CommandEnds DEF do_backup
    <2>. QED  BY <2>1, <2>2
  <1>. QED  BY <1>2, <1>3, ReadyTyped DEF TypeOK, do_backup

LEMMA AppendEffect ==
  ASSUME TypeOK, NEW f \in File, append(f)
  PROVE  /\ archive' \in [ends : BOOLEAN, said : BOOLEAN, only : Name \cup {All},
                          file : Disks, of : Disks]
         /\ archive'.file[f] = disk[f]
         /\ \A g \in File : g # f => archive'.file[g] = archive.file[g]
         /\ archive'.only = archive.only /\ archive'.of = archive.of
         /\ archive'.said = archive.said
         /\ cmd'.op = "backup" /\ cmd'.only = cmd.only /\ cmd'.todo = cmd.todo \ {f}
         /\ CommandOK'
  <1>. DEFINE copy_of == [archive.file EXCEPT ![f] = disk[f]]
  <1>1. copy_of \in Disks /\ copy_of[f] = disk[f]
        /\ \A g \in File : g # f => copy_of[g] = archive.file[g]
    BY DEF TypeOK, Disks
  <1>2. archive' = [archive EXCEPT !.file = copy_of]
    BY DEF append, TypeOK
  <1>. HIDE DEF copy_of
  <1>3. cmd' = [cmd EXCEPT !.todo = cmd.todo \ {f}] /\ cmd.op = "backup"
    BY DEF append, TypeOK, CommandOK
  <1>4. cmd.todo \ {f} \in SUBSET File
    BY <1>3, ColdCommand DEF TypeOK
  <1>5. cmd'.op = "backup" /\ cmd'.only = cmd.only /\ cmd'.todo = cmd.todo \ {f}
        /\ cmd' \in FileCommands
    BY <1>3, <1>4, ColdCommand DEF TypeOK
  <1>6. CommandOK'
    BY <1>5 DEF CommandOK
  <1>. QED  BY <1>1, <1>2, <1>5, <1>6 DEF TypeOK

LEMMA AppendTyped ==
  ASSUME TypeOK, NEW f \in File, append(f)
  PROVE  TypeOK'
  BY AppendEffect DEF TypeOK, append

LEMMA FinishTyped == TypeOK /\ finish => TypeOK'
  <1>. SUFFICES ASSUME TypeOK, finish PROVE TypeOK'
    OBVIOUS
  <1>1. archive' \in [ends : BOOLEAN, said : BOOLEAN, only : Name \cup {All},
                      file : Disks, of : Disks]
    BY DEF TypeOK, finish
  <1>2. CommandOK'
    BY CommandEnds DEF finish
  <1>. QED  BY <1>1, <1>2 DEF TypeOK, finish

LEMMA DoRestoreArchiveTyped ==
  ASSUME TypeOK, NEW only \in Name \cup {All}, do_restore_archive(only)
  PROVE  TypeOK'
  <1>1. wanted(only) \subseteq File
    BY ScopeIsFiles DEF wanted
  <1>2. cmd' \in FileCommands /\ cmd'.op = "restore_archive"
    BY <1>1, Begins DEF do_restore_archive, TypeOK, Cold
  <1>3. CommandOK'
    BY <1>2 DEF CommandOK
  <1>. QED  BY <1>3, ReadyTyped DEF TypeOK, do_restore_archive

LEMMA UnpackEffect ==
  ASSUME TypeOK, NEW f \in File, unpack(f)
  PROVE  /\ disk' \in Disks /\ disk'[f] = archive.file[f]
         /\ \A g \in File : g # f => disk'[g] = disk[g]
         /\ cmd'.op = "restore_archive" /\ cmd'.only = cmd.only
         /\ cmd'.todo = cmd.todo \ {f} /\ cmd'.before = cmd.before
         /\ CommandOK'
  <1>1. disk' \in Disks /\ disk'[f] = archive.file[f]
        /\ \A g \in File : g # f => disk'[g] = disk[g]
    BY DEF unpack, TypeOK, Disks
  <1>2. cmd' = [cmd EXCEPT !.todo = cmd.todo \ {f}] /\ cmd.op = "restore_archive"
    BY DEF unpack, TypeOK, CommandOK
  <1>3. cmd.todo \ {f} \in SUBSET File
    BY <1>2, ColdCommand DEF TypeOK
  <1>4. cmd'.op = "restore_archive" /\ cmd'.only = cmd.only
        /\ cmd'.todo = cmd.todo \ {f} /\ cmd'.before = cmd.before
        /\ cmd' \in FileCommands
    BY <1>2, <1>3, ColdCommand DEF TypeOK
  <1>5. CommandOK'
    BY <1>4 DEF CommandOK
  <1>. QED  BY <1>1, <1>4, <1>5

LEMMA UnpackTyped ==
  ASSUME TypeOK, NEW f \in File, unpack(f)
  PROVE  TypeOK'
  BY UnpackEffect DEF TypeOK, unpack

LEMMA DoRestoreSnapshotTyped ==
  ASSUME TypeOK, NEW n \in Name, do_restore_snapshot(n)
  PROVE  TypeOK'
  <1>1. Of(n) \subseteq Name \X Part
    BY ScopeIsFiles
  <1>2. cmd' \in PartCommands /\ cmd'.op = "restore_snapshot"
    BY <1>1, Begins DEF do_restore_snapshot, TypeOK, Cold
  <1>3. CommandOK'
    BY <1>2 DEF CommandOK
  <1>. QED  BY <1>3, ReadyTyped DEF TypeOK, do_restore_snapshot

LEMMA CopyEffect ==
  ASSUME TypeOK, NEW f \in File, copy(f)
  PROVE  /\ disk' \in Disks /\ disk'[f] = snapshot.part[f[2]]
         /\ \A g \in File : g # f => disk'[g] = disk[g]
         /\ cmd'.op = "restore_snapshot" /\ cmd'.only = cmd.only
         /\ cmd'.todo = cmd.todo \ {f} /\ cmd'.before = cmd.before
         /\ CommandOK'
  <1>1. cmd.op = "restore_snapshot" /\ f \in cmd.todo
    BY DEF copy
  <1>2. f \in Name \X Part
    BY <1>1, SnapshotRestore DEF TypeOK
  <1>3. snapshot.part[f[2]] \in 0 .. MaxClock
    BY <1>2 DEF TypeOK
  <1>4. disk' \in Disks /\ disk'[f] = snapshot.part[f[2]]
        /\ \A g \in File : g # f => disk'[g] = disk[g]
    BY <1>3 DEF copy, TypeOK, Disks
  <1>5. cmd' = [cmd EXCEPT !.todo = cmd.todo \ {f}]
    BY DEF copy, TypeOK, CommandOK
  <1>6. cmd.todo \ {f} \in SUBSET (Name \X Part)
    BY <1>1, SnapshotRestore DEF TypeOK
  <1>7. cmd'.op = "restore_snapshot" /\ cmd'.only = cmd.only
        /\ cmd'.todo = cmd.todo \ {f} /\ cmd'.before = cmd.before
        /\ cmd' \in PartCommands
    BY <1>1, <1>5, <1>6, SnapshotRestore DEF TypeOK
  <1>8. CommandOK'
    BY <1>7 DEF CommandOK
  <1>. QED  BY <1>4, <1>7, <1>8

LEMMA CopyTyped ==
  ASSUME TypeOK, NEW f \in File, copy(f)
  PROVE  TypeOK'
  BY CopyEffect DEF TypeOK, copy

LEMMA RestoreEndsTyped == TypeOK /\ (unpacked \/ copied) => TypeOK'
  <1>. SUFFICES ASSUME TypeOK, unpacked \/ copied PROVE TypeOK'
    OBVIOUS
  <1>1. CommandOK'
    BY CommandEnds DEF unpacked, copied
  <1>. QED  BY <1>1 DEF TypeOK, unpacked, copied

LEMMA DoSnapshotEffect ==
  ASSUME TypeOK, NEW n \in Name, do_snapshot(n)
  PROVE  /\ snapshot' \in Copies
         /\ \A p \in Part : snapshot'.part[p] = Absent
         /\ snapshot'.dropped = FALSE
         /\ cmd'.op = "snapshot" /\ cmd'.only = n
         /\ CommandOK'
  <1>1. snapshot' \in Copies
        /\ snapshot'.part = NoDirectory.part /\ snapshot'.dropped = FALSE
    BY NewSnapshotTyped DEF do_snapshot, NoDirectory
  <1>2. \A p \in Part : snapshot'.part[p] = Absent
    BY <1>1 DEF NoDirectory
  <1>3. cmd' \in [op : {"snapshot"}, only : Name, todo : {{}}, before : Disks]
        /\ cmd'.op = "snapshot" /\ cmd'.only = n
    BY Begins DEF do_snapshot, TypeOK
  <1>4. CommandOK'
    BY <1>3 DEF CommandOK
  <1>. QED  BY <1>1, <1>2, <1>3, <1>4

LEMMA DoSnapshotTyped ==
  ASSUME TypeOK, NEW n \in Name, do_snapshot(n)
  PROVE  TypeOK'
  BY DoSnapshotEffect, ReadyTyped DEF TypeOK, do_snapshot

LEMMA CopyToFileEffect ==
  ASSUME TypeOK, copy_to_file
  PROVE  /\ snapshot' \in Copies
         /\ snapshot'.part = snapshot.part
         /\ snapshot'.dropped = snapshot.dropped
         /\ \A p \in Part : snapshot'.of[p] = disk'[<<cmd.only, p>>]
         /\ disk'[<<cmd.only, "first">>] # Absent
         /\ disk'[<<cmd.only, "second">>] # Absent
         /\ disk'[<<cmd.only, "db.toml">>] = disk[<<cmd.only, "db.toml">>]
         /\ cmd'.op = "copying" /\ cmd'.only = cmd.only /\ cmd'.todo = 1
         /\ cmd'.before = disk'
         /\ clock' \in 1 .. MaxClock /\ disk' \in Disks
         /\ CommandOK'
  <1>. DEFINE n == cmd.only
  <1>. DEFINE now == [p \in Part |-> disk'[<<cmd.only, p>>]]
  <1>1. cmd.only \in Name /\ disk \in Disks
    BY SnapshotCommand DEF copy_to_file, TypeOK
  <1>2. <<n, "first">> \in File /\ <<n, "second">> \in File
        /\ <<n, "db.toml">> \in File
    BY <1>1, FilesOfANameAreFiles DEF Part
  <1>3. /\ clock' \in 1 .. MaxClock /\ disk' \in Disks
        /\ disk'[<<n, "first">>] # Absent /\ disk'[<<n, "second">>] # Absent
        /\ disk'[<<n, "db.toml">>] = disk[<<n, "db.toml">>]
    <2>1. CASE UNCHANGED <<clock, disk>> /\ ~empty(n)
      BY <1>1, <2>1 DEF copy_to_file, empty, TypeOK
    <2>2. CASE /\ clock < MaxClock /\ clock' = clock + 1
               /\ disk' = [disk EXCEPT ![<<n, "first">>] = clock',
                                      ![<<n, "second">>] = clock']
      <3>1. clock' \in 1 .. MaxClock /\ clock' \in 0 .. MaxClock /\ clock' # 0
        BY <2>2, BackupAssumption DEF TypeOK
      <3>2. disk' \in Disks
        BY <1>1, <1>2, <2>2, <3>1 DEF Disks
      <3>3. <<n, "first">> # <<n, "second">> /\ <<n, "first">> # <<n, "db.toml">>
            /\ <<n, "second">> # <<n, "db.toml">>
        OBVIOUS
      <3>. QED  BY <1>1, <1>2, <2>2, <3>1, <3>2, <3>3 DEF Disks, Absent
    <2>. QED  BY <2>1, <2>2 DEF copy_to_file, empty
  <1>4. now \in [Part -> 0 .. MaxClock]
    BY <1>1, <1>3, FilesOfANameAreFiles DEF Disks
  <1>5. snapshot' = [snapshot EXCEPT !.of = now]
    BY DEF copy_to_file
  <1>6. \A p \in Part : now[p] = disk'[<<cmd.only, p>>]
    OBVIOUS
  <1>. HIDE DEF now
  <1>7. snapshot' \in Copies
        /\ snapshot'.part = snapshot.part /\ snapshot'.of = now
        /\ snapshot'.dropped = snapshot.dropped
    BY <1>4, <1>5 DEF TypeOK
  <1>8. cmd'.op = "copying" /\ cmd'.only = cmd.only /\ cmd'.todo = 1
        /\ cmd'.before = disk'
        /\ cmd' \in Copyings
    BY <1>1, <1>3 DEF copy_to_file
  <1>9. CommandOK'
    BY <1>8 DEF CommandOK
  <1>. QED  BY <1>3, <1>6, <1>7, <1>8, <1>9

LEMMA CopyToFileTyped == TypeOK /\ copy_to_file => TypeOK'
  BY CopyToFileEffect DEF TypeOK, copy_to_file

\* The part copied next, and what is copied of it.
Value(p) == IF p = "db.toml" THEN disk[<<cmd.only, p>>] ELSE page(cmd.only, p)

LEMMA CopyPartEffect ==
  ASSUME TypeOK, copy_part
  PROVE  /\ snapshot' \in Copies
         /\ snapshot'.of = snapshot.of /\ snapshot'.dropped = snapshot.dropped
         /\ cmd.op = "copying" /\ cmd.todo \in 1 .. 3
         /\ LET p == snapshot_parts[cmd.todo]
            IN /\ p \in Part /\ snapshot'.part[p] = Value(p)
               /\ \A q \in Part : q # p => snapshot'.part[q] = snapshot.part[q]
         /\ \/ cmd.todo = 3 /\ cmd'.op = "reported"
            \/ /\ cmd.todo < 3
               /\ cmd'.op = "copying" /\ cmd'.only = cmd.only
               /\ cmd'.todo = cmd.todo + 1 /\ cmd'.before = cmd.before
         /\ CommandOK'
  <1>. DEFINE p == snapshot_parts[cmd.todo]
              v == Value(p)
              parts == [snapshot.part EXCEPT ![p] = v]
  <1>1. cmd.op = "copying" /\ cmd.only \in Name /\ cmd.before \in Disks
        /\ cmd.todo \in 1 .. 3
    BY CopyingCommand DEF copy_part, TypeOK
  <1>2. p \in Part
    BY <1>1 DEF snapshot_parts, Part
  <1>3. v \in 0 .. MaxClock
    BY <1>1, <1>2, FilesOfANameAreFiles DEF Value, page, TypeOK, Disks
  <1>4. parts \in [Part -> 0 .. MaxClock] /\ parts[p] = v
        /\ \A q \in Part : q # p => parts[q] = snapshot.part[q]
    BY <1>2, <1>3 DEF TypeOK
  <1>5. snapshot' = [snapshot EXCEPT !.part = parts]
    BY DEF copy_part, TypeOK, Value
  <1>6. \/ cmd.todo = 3 /\ cmd'.op = "reported" /\ CommandOK'
        \/ /\ cmd.todo < 3
           /\ cmd'.op = "copying" /\ cmd'.only = cmd.only
           /\ cmd'.todo = cmd.todo + 1 /\ cmd'.before = cmd.before
           /\ CommandOK'
    <2>1. CASE cmd.todo = 3
      BY <2>1, CommandEnds DEF copy_part, Report
    <2>2. CASE cmd.todo # 3
      <3>1. cmd.todo + 1 \in 1 .. 3 /\ cmd.todo < 3
        BY <1>1, <2>2
      <3>2. cmd' = [cmd EXCEPT !.todo = cmd.todo + 1]
        BY <1>1, <2>2, CopyingCommand DEF copy_part, TypeOK, CommandOK
      <3>3. cmd'.op = "copying" /\ cmd'.only = cmd.only
            /\ cmd'.todo = cmd.todo + 1 /\ cmd'.before = cmd.before
            /\ cmd' \in Copyings
        BY <1>1, <3>1, <3>2, CopyingCommand DEF TypeOK
      <3>4. CommandOK'
        BY <3>3 DEF CommandOK
      <3>. QED  BY <3>1, <3>3, <3>4
    <2>. QED  BY <2>1, <2>2
  <1>. HIDE DEF v, parts
  <1>7. snapshot' \in Copies
        /\ snapshot'.of = snapshot.of /\ snapshot'.part = parts
        /\ snapshot'.dropped = snapshot.dropped
    BY <1>4, <1>5 DEF TypeOK
  <1>. QED  BY <1>1, <1>2, <1>4, <1>6, <1>7 DEF v

LEMMA CopyPartTyped == TypeOK /\ copy_part => TypeOK'
  BY CopyPartEffect DEF TypeOK, copy_part

LEMMA DeleteSnapshotTyped == TypeOK /\ delete_snapshot => TypeOK'
  <1>. SUFFICES ASSUME TypeOK, delete_snapshot PROVE TypeOK'
    OBVIOUS
  <1>1. CommandOK'
    BY DEF TypeOK, delete_snapshot, CommandOK
  <1>. QED  BY <1>1, NewSnapshotTyped, ReadyTyped DEF TypeOK, delete_snapshot

LEMMA TypeNext == TypeOK /\ [Next]_vars => TypeOK'
  <1>. SUFFICES ASSUME TypeOK, [Next]_vars PROVE TypeOK'
    OBVIOUS
  <1>1. CASE Engine
    BY <1>1, EngineTyped
  <1>2. CASE Command
    <2>1. CASE Abort \/ finish \/ unpacked \/ copied
               \/ copy_to_file \/ copy_part \/ delete_snapshot
      BY <2>1, AbortTyped, FinishTyped, RestoreEndsTyped, CopyToFileTyped,
         CopyPartTyped, DeleteSnapshotTyped
    <2>2. CASE \E n \in Name \cup {All} : do_backup(n) \/ do_restore_archive(n)
      BY <2>2, DoBackupTyped, DoRestoreArchiveTyped
    <2>3. CASE \E n \in Name : do_restore_snapshot(n) \/ do_snapshot(n)
      BY <2>3, DoRestoreSnapshotTyped, DoSnapshotTyped
    <2>4. CASE \E f \in File : append(f) \/ unpack(f) \/ copy(f)
      BY <2>4, AppendTyped, UnpackTyped, CopyTyped
    <2>. QED  BY <1>2, <2>1, <2>2, <2>3, <2>4 DEF Command
  <1>3. CASE UNCHANGED vars
    BY <1>3 DEF vars, TypeOK, CommandOK
  <1>. QED  BY <1>1, <1>2, <1>3 DEF Next

\* The values the variables take, whatever commands and engines do: a command
\* copies only files there are, each from a place that has it.
THEOREM BackupTypeCorrect == Spec => []TypeOK
  BY InitTyped, TypeNext, PTL DEF Spec

-----------------------------------------------------------------------------
\* Snapshots.

Halves == {"first", "second"}

\* SnapshotIsWhole says this of snapshots a restore accepts.
Whole ==
    /\ \A p \in Halves : snapshot.part[p] = snapshot.of[p] /\ snapshot.part[p] # Absent
    /\ ~snapshot.dropped => snapshot.part["db.toml"] = snapshot.of["db.toml"]

\* A snapshot under way is not accepted: db.toml comes last.  What it copies
\* is the database as the transaction of its copy saw it.
SnapshotsAreWhole ==
    /\ snapshot.part["db.toml"] # Absent => Whole
    /\ cmd.op \in {"snapshot", "copying"} => snapshot.part["db.toml"] = Absent
    /\ cmd.op = "copying" => \A p \in Halves :
           snapshot.of[p] = cmd.before[<<cmd.only, p>>] /\ snapshot.of[p] # Absent
    /\ (cmd.op = "copying" /\ cmd.todo > 1) =>
           snapshot.part["first"] = snapshot.of["first"]
    /\ (cmd.op = "copying" /\ cmd.todo > 2) =>
           snapshot.part["second"] = snapshot.of["second"]

\* No database is created over one that is mounted, so only a drop parts what is
\* being copied from its db.toml.
ConfigStays ==
    /\ cmd.op = "snapshot" /\ cmd.only \in dirs =>
           disk[<<cmd.only, "db.toml">>] # Absent
    /\ cmd.op = "copying" /\ ~snapshot.dropped =>
           /\ mounted(cmd.only)
           /\ disk[<<cmd.only, "db.toml">>] = snapshot.of["db.toml"]

SnapshotInv == TypeOK /\ SnapshotsAreWhole /\ ConfigStays

LEMMA PartsArePlain == Halves \subseteq Part /\ "db.toml" \in Part /\ "db.toml" \notin Halves
  BY DEF Halves, Part

\* A command that makes no snapshot leaves it whole, or deletes it.
LEMMA OtherCommandsKeepSnapshots ==
  ASSUME SnapshotsAreWhole, cmd'.op \notin {"snapshot", "copying"},
         snapshot' = snapshot
  PROVE  SnapshotsAreWhole' /\ ConfigStays'
  BY DEF SnapshotsAreWhole, ConfigStays, Whole

LEMMA SnapshotInit == Init => SnapshotsAreWhole /\ ConfigStays
  BY DEF Init, SnapshotsAreWhole, ConfigStays, Idle, NoDirectory, Part

LEMMA CopyToFileKeepsWhole ==
  ASSUME SnapshotInv, copy_to_file
  PROVE  SnapshotsAreWhole' /\ ConfigStays'
  <1>1. /\ snapshot'.part = snapshot.part
        /\ \A p \in Part : snapshot'.of[p] = disk'[<<cmd.only, p>>]
        /\ disk'[<<cmd.only, "first">>] # Absent
        /\ disk'[<<cmd.only, "second">>] # Absent
        /\ disk'[<<cmd.only, "db.toml">>] = disk[<<cmd.only, "db.toml">>]
        /\ cmd'.op = "copying" /\ cmd'.only = cmd.only /\ cmd'.todo = 1
        /\ cmd'.before = disk'
    BY CopyToFileEffect DEF SnapshotInv
  <1>2. snapshot.part["db.toml"] = Absent /\ disk[<<cmd.only, "db.toml">>] # Absent
    BY DEF SnapshotInv, SnapshotsAreWhole, ConfigStays, copy_to_file
  <1>3. \A p \in Halves : snapshot'.of[p] = cmd'.before[<<cmd'.only, p>>]
                          /\ snapshot'.of[p] # Absent
    BY <1>1, PartsArePlain DEF Halves
  <1>4. mounted(cmd.only)'
    BY <1>1, <1>2 DEF mounted, Part
  <1>5. SnapshotsAreWhole'
    BY <1>1, <1>2, <1>3 DEF SnapshotsAreWhole
  <1>6. ConfigStays'
    BY <1>1, <1>4, PartsArePlain DEF ConfigStays
  <1>. QED  BY <1>5, <1>6

\* The engine, while a snapshot is taken: a commit writes no db.toml, and only
\* what is not mounted is created.
LEMMA EngineKeepsWhole ==
  ASSUME SnapshotInv, Engine
  PROVE  SnapshotsAreWhole' /\ ConfigStays'
  <1>1. CASE \E n \in Name : DropDatabase(n)
    <2>1. PICK n \in Name : DropDatabase(n)
      BY <1>1
    <2>2. /\ snapshot'.part = snapshot.part /\ snapshot'.of = snapshot.of
          /\ snapshot'.dropped = (snapshot.dropped \/ Copying(n))
          /\ snapshot.dropped \in BOOLEAN
      BY <2>1, DropEffect DEF SnapshotInv, TypeOK
    <2>3. cmd' = cmd /\ dirs' = dirs \ {n}
          /\ disk' = [f \in File |-> IF f \in Of(n) THEN Absent ELSE disk[f]]
      BY <2>1 DEF DropDatabase
    <2>4. SnapshotsAreWhole'
      <3>1. Copying(n) => cmd.op = "copying"
        BY DEF Copying
      <3>2. snapshot.part["db.toml"] # Absent => ~Copying(n) /\ Whole
        BY <3>1 DEF SnapshotInv, SnapshotsAreWhole
      <3>. QED  BY <2>2, <2>3, <3>2 DEF SnapshotInv, SnapshotsAreWhole, Whole
    <2>5. CASE cmd.op \in {"snapshot", "copying"} /\ cmd.only # n
      <3>1. cmd.only \in Name
        BY <2>5, SnapshotCommand, CopyingCommand DEF SnapshotInv, TypeOK
      <3>2. \A p \in Part : disk'[<<cmd.only, p>>] = disk[<<cmd.only, p>>]
        BY <2>3, <2>5, <3>1, FilesOfANameAreFiles DEF Of
      <3>3. mounted(cmd.only) => mounted(cmd.only)'
        BY <2>3, <3>2 DEF mounted
      <3>. QED  BY <2>2, <2>3, <2>4, <3>2, <3>3, PartsArePlain DEF SnapshotInv, ConfigStays
    <2>6. CASE cmd.op \in {"snapshot", "copying"} /\ cmd.only = n
      BY <2>2, <2>3, <2>4, <2>6 DEF ConfigStays, Copying
    <2>7. CASE cmd.op \notin {"snapshot", "copying"}
      BY <2>3, <2>4, <2>7 DEF ConfigStays
    <2>. QED  BY <2>5, <2>6, <2>7
  <1>2. CASE ~\E n \in Name : DropDatabase(n)
    <2>1. UNCHANGED <<cmd, snapshot>>
      BY <1>2 DEF Engine, EngineStart, EngineStop, CommitUsers, Commit, CreateDatabase
    <2>2. SnapshotsAreWhole'
      BY <2>1 DEF SnapshotInv, SnapshotsAreWhole, Whole
    <2>3. ASSUME NEW n \in Name
          PROVE  /\ disk[<<n, "db.toml">>] # Absent => disk'[<<n, "db.toml">>] # Absent
                 /\ mounted(n) => mounted(n)' /\ disk'[<<n, "db.toml">>] = disk[<<n, "db.toml">>]
                 /\ n \in dirs' /\ n \notin dirs => disk'[<<n, "db.toml">>] # Absent
      <3>1. \A p \in Part : <<n, p>> \in File
        BY FilesOfANameAreFiles
      <3>2. clock' # Absent
        BY EngineTyped, BackupAssumption DEF SnapshotInv, TypeOK, Absent
      <3>3. CASE EngineStart
        BY <3>1, <3>2, <3>3, PartsArePlain DEF EngineStart, mounted
      <3>4. CASE EngineStop
        BY <3>4 DEF EngineStop, mounted
      <3>5. CASE CommitUsers
        BY <3>1, <3>2, <3>5, PartsArePlain, BackupAssumption DEF CommitUsers, Changed, mounted
      <3>6. CASE \E m \in Name : Commit(m)
        BY <3>1, <3>2, <3>6, PartsArePlain DEF Commit, Changed, mounted
      <3>7. CASE \E m \in Name : CreateDatabase(m)
        <4>1. PICK m \in Name : CreateDatabase(m)
          BY <3>7
        <4>2. CASE m = n
          <5>1. ~mounted(n) /\ disk'[<<n, "db.toml">>] = clock'
            BY <3>1, <4>1, <4>2, PartsArePlain DEF CreateDatabase, Changed, Of
          <5>. QED  BY <3>2, <5>1
        <4>3. CASE m # n
          <5>1. \A p \in Part : disk'[<<n, p>>] = disk[<<n, p>>]
            BY <3>1, <4>1, <4>3 DEF CreateDatabase, Changed, Of
          <5>2. n \in dirs' => n \in dirs
            BY <4>1, <4>3 DEF CreateDatabase
          <5>. QED  BY <5>1, <5>2, PartsArePlain DEF mounted
        <4>. QED  BY <4>2, <4>3
      <3>. QED  BY <1>2, <3>3, <3>4, <3>5, <3>6, <3>7 DEF Engine
    <2>4. CASE cmd.op \in {"snapshot", "copying"}
      <3>1. cmd.only \in Name
        BY <2>4, SnapshotCommand, CopyingCommand DEF SnapshotInv, TypeOK
      <3>2. mounted(cmd.only) => mounted(cmd.only)'
        BY <2>1, <2>3, <3>1 DEF mounted
      <3>. QED  BY <2>1, <2>2, <2>3, <3>1, <3>2 DEF SnapshotInv, ConfigStays
    <2>5. CASE cmd.op \notin {"snapshot", "copying"}
      BY <2>1, <2>2, <2>5 DEF ConfigStays
    <2>. QED  BY <2>4, <2>5
  <1>. QED  BY <1>1, <1>2

LEMMA CopyPartKeepsWhole ==
  ASSUME SnapshotInv, copy_part
  PROVE  SnapshotsAreWhole' /\ ConfigStays'
  <1>. DEFINE p == snapshot_parts[cmd.todo]
  <1>1. /\ snapshot'.of = snapshot.of /\ snapshot'.dropped = snapshot.dropped
        /\ cmd.op = "copying" /\ cmd.todo \in 1 .. 3
        /\ p \in Part /\ snapshot'.part[p] = Value(p)
        /\ \A q \in Part : q # p => snapshot'.part[q] = snapshot.part[q]
        /\ \/ cmd.todo = 3 /\ cmd'.op = "reported"
           \/ /\ cmd.todo < 3
              /\ cmd'.op = "copying" /\ cmd'.only = cmd.only
              /\ cmd'.todo = cmd.todo + 1 /\ cmd'.before = cmd.before
    BY CopyPartEffect DEF SnapshotInv
  <1>2. /\ snapshot.part["db.toml"] = Absent
        /\ \A q \in Halves : snapshot.of[q] = cmd.before[<<cmd.only, q>>]
                             /\ snapshot.of[q] # Absent
        /\ cmd.todo > 1 => snapshot.part["first"] = snapshot.of["first"]
        /\ cmd.todo > 2 => snapshot.part["second"] = snapshot.of["second"]
        /\ ~snapshot.dropped => Value("db.toml") = snapshot.of["db.toml"]
    BY <1>1 DEF SnapshotInv, SnapshotsAreWhole, ConfigStays, Value
  <1>3. \A q \in Halves : Value(q) = snapshot.of[q]
    BY <1>2, PartsArePlain DEF Value, page
  <1>7. ConfigStays'
    BY <1>1 DEF SnapshotInv, ConfigStays, copy_part, mounted
  <1>4. CASE cmd.todo = 1
    <2>1. p = "first" /\ cmd'.op = "copying" /\ cmd'.todo = 2
      BY <1>1, <1>4 DEF snapshot_parts
    <2>2. snapshot'.part["first"] = snapshot'.of["first"]
          /\ snapshot'.part["db.toml"] = Absent
      BY <1>1, <1>2, <1>3, <2>1 DEF Halves, Part
    <2>. QED  BY <1>1, <1>2, <1>7, <2>1, <2>2 DEF SnapshotsAreWhole
  <1>5. CASE cmd.todo = 2
    <2>1. p = "second" /\ cmd'.op = "copying" /\ cmd'.todo = 3
      BY <1>1, <1>5 DEF snapshot_parts
    <2>2. snapshot'.part["first"] = snapshot'.of["first"]
          /\ snapshot'.part["second"] = snapshot'.of["second"]
          /\ snapshot'.part["db.toml"] = Absent
      BY <1>1, <1>2, <1>3, <1>5, <2>1 DEF Halves, Part
    <2>. QED  BY <1>1, <1>2, <1>7, <2>1, <2>2 DEF SnapshotsAreWhole
  <1>6. CASE cmd.todo = 3
    <2>1. p = "db.toml" /\ cmd'.op = "reported"
      BY <1>1, <1>6 DEF snapshot_parts
    <2>2. Whole'
      BY <1>1, <1>2, <1>6, <2>1 DEF Whole, Halves, Part
    <2>. QED  BY <1>7, <2>1, <2>2 DEF SnapshotsAreWhole
  <1>. QED  BY <1>1, <1>4, <1>5, <1>6, <1>7

LEMMA SnapshotNext == SnapshotInv /\ [Next]_vars => SnapshotInv'
  <1>. SUFFICES ASSUME SnapshotInv, [Next]_vars PROVE SnapshotInv'
    OBVIOUS
  <1>1. TypeOK'
    BY TypeNext DEF SnapshotInv
  <1>. SUFFICES SnapshotsAreWhole' /\ ConfigStays'
    BY <1>1 DEF SnapshotInv
  <1>3. CASE Engine
    BY <1>3, EngineKeepsWhole
  <1>4. CASE Command
    <2>1. CASE Abort \/ finish \/ unpacked \/ copied
      <3>1. cmd'.op \notin {"snapshot", "copying"} /\ snapshot' = snapshot
        BY <2>1 DEF Abort, finish, unpacked, copied, Idle, Report
      <3>. QED  BY <3>1, OtherCommandsKeepSnapshots DEF SnapshotInv
    <2>2. CASE copy_to_file \/ copy_part
      BY <2>2, CopyToFileKeepsWhole, CopyPartKeepsWhole
    <2>3. CASE delete_snapshot
      <3>1. cmd'.op \notin {"snapshot", "copying"} /\ snapshot' = NoDirectory
        BY <2>3 DEF delete_snapshot, Ready
      <3>. QED  BY <3>1 DEF SnapshotsAreWhole, ConfigStays, NoDirectory, Part
    <2>4. CASE \E n \in Name \cup {All} : do_backup(n) \/ do_restore_archive(n)
      <3>1. cmd'.op \notin {"snapshot", "copying"} /\ snapshot' = snapshot
        BY <2>4 DEF do_backup, do_restore_archive, Begin, Idle
      <3>. QED  BY <3>1, OtherCommandsKeepSnapshots DEF SnapshotInv
    <2>5. CASE \E n \in Name : do_restore_snapshot(n)
      <3>1. cmd'.op \notin {"snapshot", "copying"} /\ snapshot' = snapshot
        BY <2>5 DEF do_restore_snapshot, Begin
      <3>. QED  BY <3>1, OtherCommandsKeepSnapshots DEF SnapshotInv
    <2>6. CASE \E n \in Name : do_snapshot(n)
      <3>1. PICK n \in Name : do_snapshot(n)
        BY <2>6
      <3>2. /\ \A p \in Part : snapshot'.part[p] = Absent
            /\ cmd'.op = "snapshot" /\ cmd'.only = n
        BY <3>1, DoSnapshotEffect DEF SnapshotInv
      <3>3. disk'[<<n, "db.toml">>] # Absent
        BY <3>1 DEF do_snapshot
      <3>. QED  BY <3>2, <3>3, PartsArePlain DEF SnapshotsAreWhole, ConfigStays
    <2>7. CASE \E f \in File : append(f) \/ unpack(f) \/ copy(f)
      <3>1. cmd'.op \notin {"snapshot", "copying"}
        BY <2>7, AppendEffect, UnpackEffect, CopyEffect DEF SnapshotInv
      <3>2. snapshot' = snapshot
        BY <2>7 DEF append, unpack, copy
      <3>. QED  BY <3>1, <3>2, OtherCommandsKeepSnapshots DEF SnapshotInv
    <2>. QED  BY <1>4, <2>1, <2>2, <2>3, <2>4, <2>5, <2>6, <2>7 DEF Command
  <1>5. CASE UNCHANGED vars
    BY <1>5 DEF vars, SnapshotInv, SnapshotsAreWhole, ConfigStays, Whole, mounted
  <1>. QED  BY <1>3, <1>4, <1>5 DEF Next

\* A snapshot that a restore accepts holds one whole LMDB file, and with it the
\* db.toml of that moment unless the database was dropped meanwhile, however the
\* engine commits, drops and creates and wherever commands fail or are killed:
\* under Spec, engines started at any moment included, which is more than the run
\* checks.
THEOREM SnapshotCorrect == Spec => []SnapshotIsWhole
  <1>1. Init => SnapshotInv
    BY InitTyped, SnapshotInit DEF SnapshotInv
  <1>2. SnapshotInv => SnapshotIsWhole
    <2>. SUFFICES ASSUME SnapshotInv, accepted PROVE SnapshotIsWhole
      BY DEF SnapshotIsWhole
    <2>1. snapshot.part["db.toml"] # Absent /\ Whole
      BY DEF SnapshotInv, SnapshotsAreWhole, accepted
    <2>. QED  BY <2>1 DEF SnapshotIsWhole, Whole, Halves, Part
  <1>. QED  BY <1>1, <1>2, SnapshotNext, PTL DEF Spec

-----------------------------------------------------------------------------
\* Restores, when no engine is started while a cold command runs (ColdSpec).

\* The archive holds files as they were when its backup began, all of its
\* scope if the backup said so.
ArchiveIsCopied ==
    /\ \A f \in File : archive.file[f] # Absent =>
           f \in Scope(archive.only) /\ archive.file[f] = archive.of[f]
    /\ archive.said =>
           \A f \in Scope(archive.only) : archive.file[f] = archive.of[f]

BackingUp ==
    cmd.op = "backup" =>
        /\ archive.only = cmd.only /\ archive.of = disk
        /\ cmd.todo \subseteq Scope(cmd.only)
        /\ \A f \in Scope(cmd.only) \ cmd.todo : archive.file[f] = disk[f]

\* The disk half way through a restore: what was to be put back and is, and
\* everything else as the restore found it.
RestoringArchive ==
    cmd.op = "restore_archive" =>
        /\ cmd.todo \subseteq wanted(cmd.only)
        /\ \A f \in File :
             disk[f] = IF f \in wanted(cmd.only) \ cmd.todo
                       THEN archive.file[f] ELSE cmd.before[f]

RestoringSnapshot ==
    cmd.op = "restore_snapshot" =>
        /\ cmd.todo \subseteq Of(cmd.only)
        /\ \A f \in File :
             disk[f] = IF f \in Of(cmd.only) \ cmd.todo
                       THEN snapshot.part[f[2]] ELSE cmd.before[f]

EngineIsOff == cmd.op \in Cold => ~engine

ColdInv ==
    TypeOK /\ ArchiveIsCopied /\ BackingUp /\ RestoringArchive /\ RestoringSnapshot
    /\ EngineIsOff

LEMMA ColdInit == Init => ColdInv
  <1>. SUFFICES ASSUME Init PROVE ColdInv
    OBVIOUS
  <1>1. ArchiveIsCopied
    BY DEF Init, ArchiveIsCopied, Nothing
  <1>2. cmd.op = "none"
    BY DEF Init, Idle
  <1>. QED  BY <1>1, <1>2, InitTyped
         DEF ColdInv, BackingUp, RestoringArchive, RestoringSnapshot, EngineIsOff, Cold

\* While a cold command runs the engine neither runs nor starts.
LEMMA EngineKeepsCold ==
  ASSUME ColdInv, Engine, KeptCold, TypeOK'
  PROVE  ColdInv'
  <1>1. UNCHANGED <<archive, cmd>>
    BY DEF Engine, EngineStart, EngineStop, CommitUsers, Commit, CreateDatabase,
           DropDatabase
  <1>2. cmd.op \notin Cold
    BY DEF ColdInv, EngineIsOff, KeptCold, Engine, EngineStart, EngineStop, CommitUsers,
           Commit, CreateDatabase, DropDatabase, Changed
  <1>. QED  BY <1>1, <1>2
         DEF ColdInv, ArchiveIsCopied, BackingUp, RestoringArchive, RestoringSnapshot,
             EngineIsOff, Cold

\* Where the archive is the same and no cold command runs any more.
LEMMA ColdCommandEnds ==
  ASSUME ColdInv, TypeOK', cmd'.op \notin Cold,
         archive'.only = archive.only, archive'.file = archive.file,
         archive'.of = archive.of,
         archive'.said =>
            archive.said \/ \A f \in Scope(archive.only) : archive.file[f] = archive.of[f]
  PROVE  ColdInv'
  BY DEF ColdInv, ArchiveIsCopied, BackingUp, RestoringArchive, RestoringSnapshot,
         EngineIsOff, Cold

LEMMA DoBackupKeepsCold ==
  ASSUME ColdInv, TypeOK', NEW only \in Name \cup {All}, do_backup(only)
  PROVE  ColdInv'
  <1>. DEFINE found == only = All \/ only \in dirs
              todo == {f \in Scope(only) : disk[f] # Absent}
  <1>1. archive' = [ends |-> ~found, said |-> FALSE, only |-> only,
                    file |-> Nothing, of |-> disk]
        /\ disk' = disk /\ engine' = FALSE
    BY DEF do_backup, refuse_if_engine_running, ColdInv, TypeOK
  <1>2. ArchiveIsCopied'
    BY <1>1 DEF ArchiveIsCopied, Nothing
  <1>3. CASE found
    <2>1. cmd'.op = "backup" /\ cmd'.only = only /\ cmd'.todo = todo
      BY <1>3, Begins DEF do_backup
    <2>2. \A f \in Scope(only) \ todo : disk[f] = Absent /\ Nothing[f] = Absent
      BY ScopeIsFiles DEF Nothing
    <2>3. BackingUp'
      BY <1>1, <2>1, <2>2 DEF BackingUp
    <2>. QED  BY <1>1, <1>2, <2>1, <2>3
           DEF ColdInv, RestoringArchive, RestoringSnapshot, EngineIsOff
  <1>4. CASE ~found
    <2>1. cmd'.op = "none"
      BY <1>4 DEF do_backup, Idle
    <2>. QED  BY <1>2, <2>1
           DEF ColdInv, BackingUp, RestoringArchive, RestoringSnapshot, EngineIsOff, Cold
  <1>. QED  BY <1>3, <1>4

LEMMA AppendKeepsCold ==
  ASSUME ColdInv, TypeOK', NEW f \in File, append(f)
  PROVE  ColdInv'
  <1>1. /\ archive'.file[f] = disk[f]
        /\ \A g \in File : g # f => archive'.file[g] = archive.file[g]
        /\ archive'.only = archive.only /\ archive'.of = archive.of
        /\ archive'.said = archive.said
        /\ cmd'.op = "backup" /\ cmd'.only = cmd.only /\ cmd'.todo = cmd.todo \ {f}
    BY AppendEffect DEF ColdInv
  <1>2. cmd.op = "backup" /\ f \in cmd.todo /\ disk' = disk /\ engine' = engine
    BY DEF append
  <1>3. archive.only = cmd.only /\ archive.of = disk
        /\ cmd.todo \subseteq Scope(cmd.only)
        /\ \A g \in Scope(cmd.only) \ cmd.todo : archive.file[g] = disk[g]
    BY <1>2 DEF ColdInv, BackingUp
  <1>4. Scope(cmd.only) \subseteq File
    BY <1>2, ColdCommand, ScopeIsFiles DEF ColdInv, TypeOK
  <1>5. ArchiveIsCopied'
    BY <1>1, <1>2, <1>3, <1>4 DEF ColdInv, ArchiveIsCopied
  <1>6. BackingUp'
    BY <1>1, <1>2, <1>3, <1>4 DEF BackingUp
  <1>. QED  BY <1>1, <1>2, <1>5, <1>6
         DEF ColdInv, RestoringArchive, RestoringSnapshot, EngineIsOff, Cold

LEMMA DoRestoreArchiveKeepsCold ==
  ASSUME ColdInv, TypeOK', NEW only \in Name \cup {All}, do_restore_archive(only)
  PROVE  ColdInv'
  <1>1. cmd'.op = "restore_archive" /\ cmd'.only = only /\ cmd'.todo = wanted(only)
        /\ cmd'.before = disk
    BY Begins DEF do_restore_archive
  <1>2. UNCHANGED <<archive, disk, engine>> /\ ~engine
    BY DEF do_restore_archive, refuse_if_engine_running
  <1>3. RestoringArchive'
    BY <1>1, <1>2 DEF RestoringArchive, wanted
  <1>. QED  BY <1>1, <1>2, <1>3
         DEF ColdInv, ArchiveIsCopied, BackingUp, RestoringSnapshot, EngineIsOff

LEMMA UnpackKeepsCold ==
  ASSUME ColdInv, TypeOK', NEW f \in File, unpack(f)
  PROVE  ColdInv'
  <1>1. /\ disk'[f] = archive.file[f]
        /\ \A g \in File : g # f => disk'[g] = disk[g]
        /\ cmd'.op = "restore_archive" /\ cmd'.only = cmd.only
        /\ cmd'.todo = cmd.todo \ {f} /\ cmd'.before = cmd.before
    BY UnpackEffect DEF ColdInv
  <1>2. cmd.op = "restore_archive" /\ f \in cmd.todo
        /\ UNCHANGED <<archive, engine>>
    BY DEF unpack
  <1>3. RestoringArchive'
    BY <1>1, <1>2 DEF ColdInv, RestoringArchive, wanted
  <1>. QED  BY <1>1, <1>2, <1>3
         DEF ColdInv, ArchiveIsCopied, BackingUp, RestoringSnapshot, EngineIsOff, Cold

LEMMA DoRestoreSnapshotKeepsCold ==
  ASSUME ColdInv, TypeOK', NEW n \in Name, do_restore_snapshot(n)
  PROVE  ColdInv'
  <1>1. cmd'.op = "restore_snapshot" /\ cmd'.only = n /\ cmd'.todo = Of(n)
        /\ cmd'.before = disk
    BY Begins DEF do_restore_snapshot
  <1>2. UNCHANGED <<archive, disk, engine>> /\ ~engine
    BY DEF do_restore_snapshot, refuse_if_engine_running
  <1>. QED  BY <1>1, <1>2
         DEF ColdInv, ArchiveIsCopied, BackingUp, RestoringArchive, RestoringSnapshot,
             EngineIsOff

LEMMA CopyKeepsCold ==
  ASSUME ColdInv, TypeOK', NEW f \in File, copy(f)
  PROVE  ColdInv'
  <1>1. /\ disk'[f] = snapshot.part[f[2]]
        /\ \A g \in File : g # f => disk'[g] = disk[g]
        /\ cmd'.op = "restore_snapshot" /\ cmd'.only = cmd.only
        /\ cmd'.todo = cmd.todo \ {f} /\ cmd'.before = cmd.before
    BY CopyEffect DEF ColdInv
  <1>2. cmd.op = "restore_snapshot" /\ f \in cmd.todo
        /\ UNCHANGED <<archive, snapshot, engine>>
    BY DEF copy
  <1>3. RestoringSnapshot'
    BY <1>1, <1>2 DEF ColdInv, RestoringSnapshot
  <1>. QED  BY <1>1, <1>2, <1>3
         DEF ColdInv, ArchiveIsCopied, BackingUp, RestoringArchive, EngineIsOff, Cold

LEMMA FinishKeepsCold == ColdInv /\ finish /\ TypeOK' => ColdInv'
  <1>. SUFFICES ASSUME ColdInv, finish, TypeOK' PROVE ColdInv'
    OBVIOUS
  <1>1. cmd'.op \notin Cold
    BY DEF finish, Report, Cold
  <1>2. archive'.only = archive.only /\ archive'.file = archive.file
        /\ archive'.of = archive.of
    BY DEF finish, ColdInv, TypeOK
  <1>3. \A f \in Scope(archive.only) : archive.file[f] = archive.of[f]
    BY DEF finish, ColdInv, BackingUp
  <1>. QED  BY <1>1, <1>2, <1>3, ColdCommandEnds

LEMMA ColdNextKeeps == ColdInv /\ [ColdNext]_vars => ColdInv'
  <1>. SUFFICES ASSUME ColdInv, [ColdNext]_vars PROVE ColdInv'
    OBVIOUS
  <1>1. TypeOK'
    BY TypeNext DEF ColdInv, ColdNext
  <1>2. CASE Engine /\ KeptCold
    BY <1>1, <1>2, EngineKeepsCold
  <1>3. CASE Command
    <2>1. CASE Abort
      <3>1. cmd'.op \notin Cold
        BY <2>1 DEF Abort, Idle, Cold
      <3>2. archive'.only = archive.only /\ archive'.file = archive.file
            /\ archive'.of = archive.of /\ archive'.said = archive.said
        BY <2>1 DEF Abort, ColdInv, TypeOK
      <3>. QED  BY <1>1, <3>1, <3>2, ColdCommandEnds
    <2>2. CASE finish
      BY <1>1, <2>2, FinishKeepsCold
    <2>3. CASE unpacked \/ copied \/ delete_snapshot \/ copy_to_file
      <3>1. cmd'.op \notin Cold /\ archive' = archive
        BY <2>3 DEF unpacked, copied, delete_snapshot, copy_to_file, Report, Idle,
                    Ready, Cold
      <3>. QED  BY <1>1, <3>1, ColdCommandEnds
    <2>4. CASE copy_part
      <3>1. cmd'.op \notin Cold /\ archive' = archive
        BY <2>4, CopyPartEffect DEF copy_part, ColdInv, Cold
      <3>. QED  BY <1>1, <3>1, ColdCommandEnds
    <2>5. CASE \E n \in Name \cup {All} : do_backup(n) \/ do_restore_archive(n)
      BY <1>1, <2>5, DoBackupKeepsCold, DoRestoreArchiveKeepsCold
    <2>6. CASE \E n \in Name : do_restore_snapshot(n)
      BY <1>1, <2>6, DoRestoreSnapshotKeepsCold
    <2>7. CASE \E n \in Name : do_snapshot(n)
      <3>1. cmd'.op \notin Cold /\ archive' = archive
        BY <2>7, DoSnapshotEffect DEF do_snapshot, ColdInv, Cold
      <3>. QED  BY <1>1, <3>1, ColdCommandEnds
    <2>8. CASE \E f \in File : append(f) \/ unpack(f) \/ copy(f)
      BY <1>1, <2>8, AppendKeepsCold, UnpackKeepsCold, CopyKeepsCold
    <2>. QED  BY <1>3, <2>1, <2>2, <2>3, <2>4, <2>5, <2>6, <2>7, <2>8 DEF Command
  <1>4. CASE UNCHANGED vars
    BY <1>1, <1>4
       DEF vars, ColdInv, ArchiveIsCopied, BackingUp, RestoringArchive,
           RestoringSnapshot, EngineIsOff, wanted
  <1>. QED  BY <1>2, <1>3, <1>4 DEF ColdNext, Next

\* A restore that says it succeeded has put back what was saved, in its scope
\* and nothing beyond it, whatever failed or was killed before.
THEOREM RestoreCorrect == ColdSpec => RestoresWhatWasSaved
  <1>. DEFINE Restored ==
         cmd.op \in {"restore_archive", "restore_snapshot"} /\ cmd'.op = "reported" =>
         \A f \in File :
             LET saved == f \in Scope(archive.only) /\ archive.of[f] # Absent
             IN CASE f \notin Scope(cmd.only) -> disk'[f] = cmd.before[f]
                  [] f \in Scope(cmd.only) /\ cmd.op = "restore_snapshot" ->
                         disk'[f] = snapshot.part[f[2]]
                  [] OTHER ->
                         \/ saved /\ disk'[f] = archive.of[f]
                         \/ ~(saved /\ archive.said) /\ disk'[f] = cmd.before[f]
  <1>1. ColdInv /\ [ColdNext]_vars => [Restored]_vars
    <2>. SUFFICES ASSUME ColdInv, ColdNext,
                         cmd.op \in {"restore_archive", "restore_snapshot"},
                         cmd'.op = "reported", NEW f \in File
                  PROVE
             LET saved == f \in Scope(archive.only) /\ archive.of[f] # Absent
             IN CASE f \notin Scope(cmd.only) -> disk'[f] = cmd.before[f]
                  [] f \in Scope(cmd.only) /\ cmd.op = "restore_snapshot" ->
                         disk'[f] = snapshot.part[f[2]]
                  [] OTHER ->
                         \/ saved /\ disk'[f] = archive.of[f]
                         \/ ~(saved /\ archive.said) /\ disk'[f] = cmd.before[f]
      OBVIOUS
    <2>1. (unpacked \/ copied) /\ disk' = disk /\ cmd.todo = {}
      <3>1. ~Engine
        BY DEF Engine, EngineStart, EngineStop, CommitUsers, Commit, CreateDatabase,
               DropDatabase
      <3>2. ~(Abort \/ finish \/ copy_to_file \/ copy_part \/ delete_snapshot)
        BY DEF Abort, finish, copy_to_file, copy_part, delete_snapshot, Ready, Idle
      <3>3. \A n \in Name \cup {All} : ~(do_backup(n) \/ do_restore_archive(n))
        BY DEF do_backup, do_restore_archive, Ready
      <3>4. \A n \in Name : ~(do_restore_snapshot(n) \/ do_snapshot(n))
        BY DEF do_restore_snapshot, do_snapshot, Ready
      <3>5. \A g \in File : ~(append(g) \/ unpack(g) \/ copy(g))
        BY AppendEffect, UnpackEffect, CopyEffect DEF ColdInv
      <3>6. unpacked \/ copied
        BY <3>1, <3>2, <3>3, <3>4, <3>5 DEF ColdNext, Next, Command
      <3>. QED  BY <3>6 DEF unpacked, copied
    <2>2. CASE cmd.op = "restore_archive"
      <3>1. disk[f] = IF f \in wanted(cmd.only) THEN archive.file[f]
                                                ELSE cmd.before[f]
        BY <2>1, <2>2 DEF ColdInv, RestoringArchive
      <3>2. CASE f \in wanted(cmd.only)
        <4>1. f \in Scope(cmd.only) /\ archive.file[f] # Absent
          BY <3>2 DEF wanted
        <4>2. f \in Scope(archive.only) /\ archive.file[f] = archive.of[f]
          BY <4>1 DEF ColdInv, ArchiveIsCopied
        <4>. QED  BY <2>1, <2>2, <3>1, <3>2, <4>1, <4>2
      <3>3. CASE f \notin wanted(cmd.only)
        <4>1. disk'[f] = cmd.before[f]
          BY <2>1, <3>1, <3>3
        <4>2. CASE f \in Scope(cmd.only)
          <5>1. archive.file[f] = Absent
            BY <3>3, <4>2 DEF wanted
          <5>2. ~(f \in Scope(archive.only) /\ archive.of[f] # Absent /\ archive.said)
            BY <5>1 DEF ColdInv, ArchiveIsCopied
          <5>. QED  BY <2>2, <4>1, <4>2, <5>2
        <4>3. CASE f \notin Scope(cmd.only)
          BY <4>1, <4>3
        <4>. QED  BY <4>2, <4>3
      <3>. QED  BY <3>2, <3>3
    <2>3. CASE cmd.op = "restore_snapshot"
      <3>1. cmd.only \in Name
        BY <2>3, SnapshotRestore DEF ColdInv, TypeOK
      <3>2. Scope(cmd.only) = Of(cmd.only)
        BY <3>1, BackupAssumption DEF Scope
      <3>3. disk[f] = IF f \in Of(cmd.only) THEN snapshot.part[f[2]]
                                            ELSE cmd.before[f]
        BY <2>1, <2>3 DEF ColdInv, RestoringSnapshot
      <3>. QED  BY <2>1, <2>3, <3>2, <3>3
    <2>. QED  BY <2>2, <2>3
  <1>2. ColdInv /\ [ColdNext]_vars => ColdInv'
    BY ColdNextKeeps
  <1>. HIDE DEF Restored
  <1>3. ColdSpec => [][Restored]_vars
    BY <1>1, <1>2, ColdInit, PTL DEF ColdSpec
  <1>. QED  BY <1>3 DEF RestoresWhatWasSaved, Restored
==============================================================================
