---------------------------- MODULE DreamingProofs ----------------------------
(***************************************************************************)
(* Theorems about Dreaming: its type invariant and its safety properties,  *)
(* for any databases, bounds and numbers of passes.                        *)
(***************************************************************************)
EXTENDS Dreaming, FiniteSetTheorems, SequenceTheorems, TLAPS

-----------------------------------------------------------------------------
(* What a collection's operations make of the items of its locations.      *)

Locations == Seq(SUBSET Item)

LEMMA ItemsOf ==
  ASSUME NEW m, NEW x
  PROVE  x \in Items(m) <=> \E i \in DOMAIN m : x \in m[i]
  BY DEF Items

LEMMA NoItems == <<>> \in Locations /\ Items(<<>>) = {} /\ Len(<<>>) = 0
  BY DEF Locations, Items

LEMMA ItemsAreItems ==
  ASSUME NEW m \in Locations
  PROVE  Items(m) \subseteq Item
  BY DEF Locations, Items

LEMMA AppendItems ==
  ASSUME NEW m \in Locations, NEW x \in SUBSET Item
  PROVE  /\ Append(m, x) \in Locations /\ Len(Append(m, x)) = Len(m) + 1
         /\ Items(Append(m, x)) = Items(m) \cup x
  <1>. DEFINE n == Append(m, x)
  <1>1. n \in Locations /\ Len(n) = Len(m) + 1 /\ Len(m) \in Nat
    BY DEF Locations
  <1>2. DOMAIN m = 1 .. Len(m) /\ DOMAIN n = 1 .. (Len(m) + 1)
    BY <1>1 DEF Locations
  <1>3. n[Len(m) + 1] = x /\ \A i \in 1 .. Len(m) : n[i] = m[i]
    BY DEF Locations
  <1>. HIDE DEF n
  <1>4. ASSUME NEW y PROVE y \in Items(n) <=> y \in Items(m) \cup x
    <2>1. y \in Items(n) <=> \E i \in 1 .. (Len(m) + 1) : y \in n[i]
      BY <1>2, ItemsOf
    <2>2. y \in Items(m) <=> \E i \in 1 .. Len(m) : y \in m[i]
      BY <1>2, ItemsOf
    <2>3. \A i \in 1 .. (Len(m) + 1) : i \in 1 .. Len(m) \/ i = Len(m) + 1
      BY <1>1
    <2>4. \A i \in 1 .. Len(m) : i \in 1 .. (Len(m) + 1)
      BY <1>1
    <2>5. Len(m) + 1 \in 1 .. (Len(m) + 1)
      BY <1>1
    <2>. QED  BY <1>3, <2>1, <2>2, <2>3, <2>4, <2>5
  <1>5. Items(n) = Items(m) \cup x
    BY <1>4
  <1>. QED  BY <1>1, <1>5 DEF n

LEMMA JoinItems ==
  ASSUME NEW m \in Locations, NEW x \in SUBSET Item, NEW i \in DOMAIN m
  PROVE  /\ join(m, i, x) \in Locations /\ Len(join(m, i, x)) = Len(m)
         /\ Items(join(m, i, x)) = Items(m) \cup x
  <1>. DEFINE n == join(m, i, x)
  <1>1. DOMAIN n = DOMAIN m /\ n[i] = m[i] \cup x
        /\ \A k \in DOMAIN m : k # i => n[k] = m[k]
    BY DEF join
  <1>2. n \in Locations /\ Len(n) = Len(m)
    <2>1. DOMAIN m = 1 .. Len(m) /\ Len(m) \in Nat /\ m \in [1 .. Len(m) -> SUBSET Item]
      BY DEF Locations
    <2>2. n \in [1 .. Len(m) -> SUBSET Item]
      BY <2>1 DEF join
    <2>. QED  BY <2>1, <2>2 DEF Locations
  <1>. HIDE DEF n
  <1>3. ASSUME NEW y PROVE y \in Items(n) <=> y \in Items(m) \cup x
    <2>1. y \in Items(n) <=> \E k \in DOMAIN m : y \in n[k]
      BY <1>1, ItemsOf
    <2>2. y \in Items(m) <=> \E k \in DOMAIN m : y \in m[k]
      BY ItemsOf
    <2>. QED  BY <1>1, <2>1, <2>2
  <1>4. Items(n) = Items(m) \cup x
    BY <1>3
  <1>. QED  BY <1>2, <1>4 DEF n

LEMMA TailItems ==
  ASSUME NEW m \in Locations, m # <<>>
  PROVE  /\ Head(m) \in SUBSET Item /\ Tail(m) \in Locations
         /\ Items(m) = Head(m) \cup Items(Tail(m))
  <1>1. Head(m) = m[1] /\ Head(m) \in SUBSET Item /\ Tail(m) \in Locations
        /\ Len(m) \in Nat /\ Len(m) # 0 /\ DOMAIN m = 1 .. Len(m)
    BY DEF Locations
  <1>2. DOMAIN Tail(m) = 1 .. (Len(m) - 1)
        /\ \A i \in 1 .. (Len(m) - 1) : Tail(m)[i] = m[i + 1]
    BY <1>1 DEF Locations
  <1>3. ASSUME NEW y PROVE y \in Items(m) <=> y \in Head(m) \cup Items(Tail(m))
    <2>1. y \in Items(m) <=> \E i \in 1 .. Len(m) : y \in m[i]
      BY <1>1, ItemsOf
    <2>2. y \in Items(Tail(m)) <=> \E i \in 1 .. (Len(m) - 1) : y \in m[i + 1]
      BY <1>2, ItemsOf
    <2>3. ASSUME NEW i \in 1 .. Len(m), i # 1, y \in m[i]
          PROVE  \E k \in 1 .. (Len(m) - 1) : y \in m[k + 1]
      <3>1. i - 1 \in 1 .. (Len(m) - 1) /\ (i - 1) + 1 = i
        BY <1>1, <2>3
      <3>. QED  BY <2>3, <3>1
    <2>4. \A i \in 1 .. (Len(m) - 1) : i + 1 \in 1 .. Len(m)
      BY <1>1
    <2>5. 1 \in 1 .. Len(m)
      BY <1>1
    <2>. QED  BY <1>1, <2>1, <2>2, <2>3, <2>4, <2>5
  <1>. QED  BY <1>1, <1>3

LEMMA PutItems ==
  ASSUME NEW m \in Locations, NEW x \in SUBSET Item, NEW i \in DOMAIN m
  PROVE  [m EXCEPT ![i] = x] \in Locations /\ Len([m EXCEPT ![i] = x]) = Len(m)
  <1>1. DOMAIN m = 1 .. Len(m) /\ Len(m) \in Nat /\ m \in [1 .. Len(m) -> SUBSET Item]
    BY DEF Locations
  <1>2. [m EXCEPT ![i] = x] \in [1 .. Len(m) -> SUBSET Item]
    BY <1>1
  <1>. QED  BY <1>1, <1>2 DEF Locations

(* Memory and store of the collections.  Their records are aligned with    *)
(* the locations, and are what memory has unless a merge awaits its flush. *)
StoreTyped ==
    /\ mem \in [Coll -> Locations] /\ disk \in [Coll -> Locations]
    /\ \A c \in Coll : Count(c) <= MaxLoc /\ Len(disk[c]) = Count(c)
    /\ exposed \in SUBSET Coll /\ hurt \in SUBSET Coll
    /\ \A c \in Coll : c \notin exposed => disk[c] = mem[c]

(* What a write makes of a collection.                                     *)
Written(c, x, n) ==
    /\ n.mem \in Locations /\ n.disk \in Locations
    /\ Len(n.mem) <= MaxLoc /\ Len(n.disk) = Len(n.mem)
    /\ Items(n.mem) = Items(mem[c]) \cup x
    /\ c \notin exposed => n.disk = n.mem

LEMMA WrittenItems ==
  ASSUME StoreTyped, NEW c \in Coll, NEW x \in SUBSET Item, NEW n \in written(c, x)
  PROVE  Written(c, x, n)
  <1>. DEFINE m == mem[c]
              r == disk[c]
              j(i) == join(m, i, x)
              s(i) == [r EXCEPT ![i] = m[i] \cup x]
  <1>0. /\ m \in Locations /\ Len(m) \in Nat /\ Len(m) <= MaxLoc /\ MaxLoc \in Nat
        /\ r \in Locations /\ Len(r) = Len(m) /\ DOMAIN r = DOMAIN m
        /\ c \notin exposed => r = m
    BY DreamingAssumption DEF StoreTyped, Count, Locations
  <1>1. \/ Room(m) /\ n = [mem |-> Append(m, x), disk |-> Append(r, x)]
        \/ \E i \in DOMAIN m : n = [mem |-> j(i), disk |-> s(i)]
        \/ Room(m) /\ \E i \in DOMAIN m : n = [mem |-> Append(j(i), m[i] \cup x),
                                              disk |-> Append(s(i), m[i] \cup x)]
    BY DEF written
  <1>2. ASSUME NEW i \in DOMAIN m
        PROVE  /\ j(i) \in Locations /\ s(i) \in Locations
               /\ Len(j(i)) = Len(m) /\ Len(s(i)) = Len(m)
               /\ Items(j(i)) = Items(m) \cup x
               /\ c \notin exposed => s(i) = j(i)
               /\ m[i] \subseteq Items(m) /\ m[i] \cup x \in SUBSET Item
    <2>1. j(i) \in Locations /\ Len(j(i)) = Len(m) /\ Items(j(i)) = Items(m) \cup x
      BY <1>0, JoinItems
    <2>2. m[i] \subseteq Items(m) /\ m[i] \cup x \in SUBSET Item
      BY <1>0, ItemsAreItems DEF Items
    <2>3. s(i) \in Locations /\ Len(s(i)) = Len(m)
      <3>. HIDE DEF m, r
      <3>. QED  BY <1>0, <2>2, PutItems
    <2>4. c \notin exposed => s(i) = j(i)
      BY <1>0 DEF join
    <2>. QED  BY <2>1, <2>2, <2>3, <2>4
  <1>. HIDE DEF m, r, j, s
  <1>3. ASSUME Room(m), n = [mem |-> Append(m, x), disk |-> Append(r, x)]
        PROVE  Written(c, x, n)
    <2>1. /\ Append(m, x) \in Locations /\ Len(Append(m, x)) = Len(m) + 1
          /\ Items(Append(m, x)) = Items(m) \cup x
      BY <1>0, AppendItems
    <2>2. Append(r, x) \in Locations /\ Len(Append(r, x)) = Len(m) + 1
      BY <1>0, AppendItems
    <2>3. Len(m) + 1 <= MaxLoc
      BY <1>0, <1>3 DEF Room
    <2>. QED  BY <1>0, <1>3, <2>1, <2>2, <2>3 DEF Written, m
  <1>4. ASSUME NEW i \in DOMAIN m, n = [mem |-> j(i), disk |-> s(i)]
        PROVE  Written(c, x, n)
    BY <1>0, <1>2, <1>4 DEF Written, m
  <1>5. ASSUME Room(m), NEW i \in DOMAIN m,
               n = [mem |-> Append(j(i), m[i] \cup x), disk |-> Append(s(i), m[i] \cup x)]
        PROVE  Written(c, x, n)
    <2>. DEFINE a == Append(j(i), m[i] \cup x)
                b == Append(s(i), m[i] \cup x)
    <2>1. a \in Locations /\ Len(a) = Len(m) + 1
          /\ Items(a) = (Items(m) \cup x) \cup (m[i] \cup x)
      BY <1>2, AppendItems
    <2>2. b \in Locations /\ Len(b) = Len(m) + 1
      BY <1>2, AppendItems
    <2>3. Items(a) = Items(m) \cup x
      BY <1>2, <2>1
    <2>4. c \notin exposed => b = a
      BY <1>2
    <2>5. Len(m) + 1 <= MaxLoc
      BY <1>0, <1>5 DEF Room
    <2>6. n.mem = a /\ n.disk = b
      BY <1>5
    <2>. HIDE DEF a, b
    <2>. QED  BY <2>1, <2>2, <2>3, <2>4, <2>5, <2>6 DEF Written, m
  <1>. QED  BY <1>1, <1>3, <1>4, <1>5

LEMMA SetToSeqIsOnto ==
  ASSUME NEW S, IsFiniteSet(S)
  PROVE  /\ Cardinality(S) \in Nat
         /\ SetToSeq(S) \in [1 .. Cardinality(S) -> S]
         /\ \A x \in S : \E k \in 1 .. Cardinality(S) : SetToSeq(S)[k] = x
  <1>. DEFINE k == Cardinality(S)
              f == SetToSeq(S)
  <1>1. k \in Nat /\ ExistsBijection(1 .. k, S)
    BY FS_CardinalityType
  <1>2. \E g \in [1 .. k -> S] : IsInjective(g)
    BY <1>1 DEF ExistsBijection, Bijection, Injection
  <1>3. f \in [1 .. k -> S] /\ IsInjective(f)
    BY <1>2 DEF SetToSeq
  <1>4. f \in Injection(1 .. k, S)
    BY <1>3 DEF Injection
  <1>5. IsFiniteSet(1 .. k) /\ Cardinality(1 .. k) = k
    BY <1>1, FS_Interval
  <1>6. f \in Surjection(1 .. k, S)
    BY <1>4, <1>5, FS_Injection
  <1>. QED  BY <1>1, <1>3, <1>6 DEF Surjection

(* No group of a partition is empty, so there are no more groups than      *)
(* locations.                                                              *)
LEMMA PartitionIsSmall ==
  ASSUME NEW k \in Nat, NEW P \in Partitions(1 .. k)
  PROVE  IsFiniteSet(P) /\ Cardinality(P) \in Nat /\ Cardinality(P) <= k
  <1>0. /\ P \in SUBSET ((SUBSET (1 .. k)) \ {{}})
        /\ \A g, h \in P : g # h => g \cap h = {}
    BY DEF Partitions
  <1>1. ASSUME NEW g \in P
        PROVE  g \subseteq 1 .. k /\ \E i \in 1 .. k : i \in g
    <2>1. g \in SUBSET (1 .. k) /\ g # {}
      BY <1>0
    <2>2. \E i : i \in g
      BY <2>1
    <2>. QED  BY <2>1, <2>2
  <1>. DEFINE f == [g \in P |-> CHOOSE i \in 1 .. k : i \in g]
  <1>2. \A g \in P : f[g] \in 1 .. k /\ f[g] \in g
    BY <1>1
  <1>3. f \in [P -> 1 .. k]
    BY <1>2
  <1>4. \A g, h \in P : f[g] = f[h] => g = h
    BY <1>0, <1>2
  <1>. HIDE DEF f
  <1>5. f \in Injection(P, 1 .. k)
    BY <1>3, <1>4 DEF Injection, IsInjective
  <1>6. IsFiniteSet(1 .. k) /\ Cardinality(1 .. k) = k
    BY FS_Interval
  <1>7. IsFiniteSet(P) /\ Cardinality(P) <= k
    BY <1>5, <1>6, FS_Injection
  <1>. QED  BY <1>7, FS_CardinalityType

LEMMA GroupsOf ==
  ASSUME NEW m \in Locations, NEW P \in Partitions(DOMAIN m)
  PROVE  /\ DOMAIN m = 1 .. Len(m) /\ Len(m) \in Nat
         /\ Cardinality(P) \in Nat /\ Cardinality(P) <= Len(m)
         /\ SetToSeq(P) \in [1 .. Cardinality(P) -> P]
         /\ \A g \in P : \E k \in 1 .. Cardinality(P) : SetToSeq(P)[k] = g
         /\ \A g \in P : g \subseteq 1 .. Len(m)
         /\ \A i \in 1 .. Len(m) : \E g \in P : i \in g
         /\ \A g, h \in P : g # h => g \cap h = {}
  <1>1. DOMAIN m = 1 .. Len(m) /\ Len(m) \in Nat
    BY DEF Locations
  <1>2. P \in Partitions(1 .. Len(m))
    BY <1>1
  <1>3. IsFiniteSet(P) /\ Cardinality(P) \in Nat /\ Cardinality(P) <= Len(m)
    BY <1>1, <1>2, PartitionIsSmall
  <1>4. SetToSeq(P) \in [1 .. Cardinality(P) -> P]
        /\ \A g \in P : \E k \in 1 .. Cardinality(P) : SetToSeq(P)[k] = g
    BY <1>3, SetToSeqIsOnto
  <1>5. /\ \A g \in P : g \subseteq 1 .. Len(m)
        /\ \A i \in 1 .. Len(m) : \E g \in P : i \in g
        /\ \A g, h \in P : g # h => g \cap h = {}
    BY <1>2 DEF Partitions
  <1>. QED  BY <1>1, <1>3, <1>4, <1>5

LEMMA GroupedItems ==
  ASSUME NEW m \in Locations, NEW P \in Partitions(DOMAIN m)
  PROVE  /\ grouped(m, P) \in Locations /\ Len(grouped(m, P)) = Cardinality(P)
         /\ Items(grouped(m, P)) = Items(m)
  <1>. DEFINE q == Cardinality(P)
              groups == SetToSeq(P)
              n == grouped(m, P)
  <1>1. /\ DOMAIN m = 1 .. Len(m) /\ Len(m) \in Nat /\ q \in Nat
        /\ groups \in [1 .. q -> P] /\ \A g \in P : \E k \in 1 .. q : groups[k] = g
        /\ \A g \in P : g \subseteq 1 .. Len(m)
        /\ \A i \in 1 .. Len(m) : \E g \in P : i \in g
    BY GroupsOf
  <1>2. n = [k \in DOMAIN groups |-> Items(Restrict(m, groups[k]))]
    BY DEF grouped
  <1>. HIDE DEF groups, q, n
  <1>3. n = [k \in 1 .. q |-> Items(Restrict(m, groups[k]))]
    BY <1>1, <1>2
  <1>4. ASSUME NEW k \in 1 .. q, NEW y
        PROVE  y \in n[k] <=> \E i \in groups[k] : y \in m[i]
    <2>1. n[k] = Items(Restrict(m, groups[k]))
      BY <1>3
    <2>2. y \in n[k] <=> \E i \in groups[k] : y \in Restrict(m, groups[k])[i]
      BY <2>1, ItemsOf DEF Restrict
    <2>. QED  BY <2>2 DEF Restrict
  <1>5. \A k \in 1 .. q : n[k] \in SUBSET Item
    <2>1. \A i \in 1 .. Len(m) : m[i] \subseteq Item
      BY <1>1 DEF Locations
    <2>2. \A k \in 1 .. q : groups[k] \subseteq 1 .. Len(m)
      BY <1>1
    <2>. QED  BY <1>4, <2>1, <2>2
  <1>6. n \in Locations /\ Len(n) = q
    BY <1>1, <1>3, <1>5 DEF Locations
  <1>7. ASSUME NEW y PROVE y \in Items(n) <=> y \in Items(m)
    <2>1. y \in Items(n) <=> \E k \in 1 .. q : y \in n[k]
      BY <1>3, ItemsOf
    <2>2. y \in Items(m) <=> \E i \in 1 .. Len(m) : y \in m[i]
      BY <1>1, ItemsOf
    <2>3. y \in Items(n) <=> \E k \in 1 .. q : \E i \in groups[k] : y \in m[i]
      BY <1>4, <2>1
    <2>. QED  BY <1>1, <2>2, <2>3
  <1>. QED  BY <1>6, <1>7 DEF n, q

(* The records of the survivors, one for each group; when every group has  *)
(* one member only, nothing was deleted and they are the groups' own.      *)
LEMMA SurvivingItems ==
  ASSUME NEW m \in Locations, NEW P \in Partitions(DOMAIN m),
         NEW r \in Locations, Len(r) = Len(m), NEW s \in Survivors(m, P)
  PROVE  /\ surviving(r, P, s) \in Locations
         /\ Len(surviving(r, P, s)) = Cardinality(P)
         /\ (r = m /\ ~(Cardinality(P) < Len(m))) =>
               surviving(r, P, s) = grouped(m, P)
  <1>. DEFINE q == Cardinality(P)
              groups == SetToSeq(P)
              n == surviving(r, P, s)
  <1>1. /\ DOMAIN m = 1 .. Len(m) /\ Len(m) \in Nat /\ q \in Nat /\ q <= Len(m)
        /\ groups \in [1 .. q -> P]
        /\ \A g \in P : g \subseteq 1 .. Len(m)
        /\ \A g, h \in P : g # h => g \cap h = {}
    BY GroupsOf
  <1>2. s \in [P -> 1 .. Len(m)] /\ \A g \in P : s[g] \in g
    BY <1>1 DEF Survivors
  <1>3. r \in [1 .. Len(m) -> SUBSET Item]
    BY <1>1 DEF Locations
  <1>4. n = [k \in DOMAIN groups |-> r[s[groups[k]]]]
        /\ grouped(m, P) = [k \in DOMAIN groups |-> Items(Restrict(m, groups[k]))]
    BY DEF surviving, grouped
  <1>. HIDE DEF groups, n
  <1>5. n \in [1 .. q -> SUBSET Item]
    BY <1>1, <1>2, <1>3, <1>4
  <1>6. n \in Locations /\ Len(n) = q
    BY <1>1, <1>5 DEF Locations
  <1>7. ASSUME r = m, ~(q < Len(m)) PROVE n = grouped(m, P)
    <2>1. IsFiniteSet(P) /\ IsFiniteSet(1 .. Len(m)) /\ Cardinality(1 .. Len(m)) = Len(m)
          /\ Cardinality(P) = Len(m)
      <3>1. P \in Partitions(1 .. Len(m))
        BY <1>1
      <3>2. IsFiniteSet(P)
        BY <1>1, <3>1, PartitionIsSmall
      <3>. QED  BY <1>1, <1>7, <3>2, FS_Interval
    <2>2. s \in Injection(P, 1 .. Len(m))
      <3>1. \A g, h \in P : s[g] = s[h] => g = h
        BY <1>1, <1>2
      <3>. QED  BY <1>2, <3>1 DEF Injection, IsInjective
    <2>3. s \in Surjection(P, 1 .. Len(m))
      BY <2>1, <2>2, FS_Injection
    <2>4. ASSUME NEW g \in P, NEW i \in g PROVE i = s[g]
      <3>1. i \in 1 .. Len(m)
        BY <1>1
      <3>2. \E h \in P : s[h] = i
        BY <2>3, <3>1 DEF Surjection
      <3>3. PICK h \in P : s[h] = i
        BY <3>2
      <3>. QED  BY <1>1, <1>2, <3>3
    <2>5. ASSUME NEW k \in DOMAIN groups
          PROVE  Items(Restrict(m, groups[k])) = m[s[groups[k]]]
      <3>. DEFINE g == groups[k]
                  p == Restrict(m, g)
      <3>1. g \in P
        BY <1>1
      <3>2. DOMAIN p = g /\ (\A i \in g : p[i] = m[i]) /\ s[g] \in g
        BY <1>2, <3>1 DEF Restrict
      <3>. HIDE DEF g, p
      <3>3. ASSUME NEW y PROVE y \in Items(p) <=> y \in m[s[g]]
        BY <2>4, <3>1, <3>2, ItemsOf
      <3>4. Items(p) = m[s[g]]
        BY <3>3
      <3>. QED  BY <3>4 DEF p, g
    <2>. QED  BY <1>4, <1>7, <2>5
  <1>. QED  BY <1>6, <1>7 DEF n

-----------------------------------------------------------------------------
(* What the operations make of memory and store together.                  *)

(* A collection not known to be hurt still holds all that it held.         *)
Keeps(c) == c \notin hurt' => c \notin hurt /\ Items(mem[c]) \subseteq Items(mem'[c])

(* Memory and store stay aligned, no collection but c changes in memory,   *)
(* and none loses an item unnoticed.                                       *)
StoreMoves(S) ==
    /\ StoreTyped'
    /\ \A c \in Coll : c \notin S => mem'[c] = mem[c]
    /\ \A c \in Coll : Keeps(c)

LEMMA StoreRests ==
  ASSUME StoreTyped, UNCHANGED stored
  PROVE  StoreMoves({})
  BY DEF StoreTyped, StoreMoves, Keeps, stored, Count

LEMMA StoreBecomes ==
  ASSUME StoreTyped, NEW c \in Coll, NEW x \in SUBSET Item, NEW n \in written(c, x),
         Becomes(c, n)
  PROVE  StoreMoves({c}) /\ Items(mem'[c]) = Items(mem[c]) \cup x /\ hurt' = hurt
  <1>1. Written(c, x, n)
    BY WrittenItems
  <1>2. /\ mem' \in [Coll -> Locations] /\ disk' \in [Coll -> Locations]
        /\ mem'[c] = n.mem /\ disk'[c] = n.disk
        /\ \A e \in Coll : e # c => mem'[e] = mem[e] /\ disk'[e] = disk[e]
        /\ exposed' = exposed /\ hurt' = hurt
    BY <1>1 DEF StoreTyped, Becomes, Written
  <1>3. \A e \in Coll : /\ Len(mem'[e]) <= MaxLoc /\ Len(disk'[e]) = Len(mem'[e])
                        /\ e \notin exposed => disk'[e] = mem'[e]
    <2>. TAKE e \in Coll
    <2>1. CASE e = c
      BY <1>1, <1>2, <2>1 DEF Written
    <2>2. CASE e # c
      BY <1>2, <2>2 DEF StoreTyped, Count
    <2>. QED  BY <2>1, <2>2
  <1>4. StoreTyped'
    BY <1>2, <1>3 DEF StoreTyped, Count
  <1>5. Items(mem'[c]) = Items(mem[c]) \cup x
    BY <1>1, <1>2 DEF Written
  <1>6. \A e \in Coll : Keeps(e)
    BY <1>2, <1>5 DEF Keeps
  <1>. QED  BY <1>2, <1>4, <1>5, <1>6 DEF StoreMoves

LEMMA StoreMerges ==
  ASSUME StoreTyped, NEW c \in Coll, NEW P \in Partitions(DOMAIN mem[c]),
         NEW s \in Survivors(mem[c], P),
         mem' = [mem EXCEPT ![c] = grouped(mem[c], P)],
         disk' = [disk EXCEPT ![c] = surviving(disk[c], P, s)],
         exposed' = IF Cardinality(P) < Len(mem[c]) THEN exposed \cup {c} ELSE exposed,
         hurt' = hurt
  PROVE  StoreMoves({c})
  <1>. DEFINE g == grouped(mem[c], P)
              r == surviving(disk[c], P, s)
  <1>0. /\ mem[c] \in Locations /\ disk[c] \in Locations /\ Len(disk[c]) = Len(mem[c])
        /\ Len(mem[c]) \in Nat /\ Len(mem[c]) <= MaxLoc /\ MaxLoc \in Nat
        /\ c \notin exposed => disk[c] = mem[c]
    BY DreamingAssumption DEF StoreTyped, Count, Locations
  <1>1. g \in Locations /\ Len(g) = Cardinality(P) /\ Items(g) = Items(mem[c])
    BY <1>0, GroupedItems
  <1>2. /\ r \in Locations /\ Len(r) = Cardinality(P)
        /\ (disk[c] = mem[c] /\ ~(Cardinality(P) < Len(mem[c]))) => r = g
    BY <1>0, SurvivingItems
  <1>3. Cardinality(P) <= MaxLoc
    <2>1. Cardinality(P) \in Nat /\ Cardinality(P) <= Len(mem[c])
      BY <1>0, GroupsOf
    <2>. QED  BY <1>0, <2>1
  <1>4. /\ mem' = [mem EXCEPT ![c] = g] /\ disk' = [disk EXCEPT ![c] = r]
    OBVIOUS
  <1>. HIDE DEF g, r
  <1>5. /\ mem' \in [Coll -> Locations] /\ disk' \in [Coll -> Locations]
        /\ mem'[c] = g /\ disk'[c] = r
        /\ \A e \in Coll : e # c => mem'[e] = mem[e] /\ disk'[e] = disk[e]
    BY <1>1, <1>2, <1>4 DEF StoreTyped
  <1>6. exposed' \in SUBSET Coll /\ exposed \subseteq exposed'
        /\ (c \notin exposed' => c \notin exposed /\ ~(Cardinality(P) < Len(mem[c])))
    BY DEF StoreTyped
  <1>7. \A e \in Coll : /\ Len(mem'[e]) <= MaxLoc /\ Len(disk'[e]) = Len(mem'[e])
                        /\ e \notin exposed' => disk'[e] = mem'[e]
    <2>. TAKE e \in Coll
    <2>1. CASE e = c
      BY <1>0, <1>1, <1>2, <1>3, <1>5, <1>6, <2>1
    <2>2. CASE e # c
      BY <1>5, <1>6, <2>2 DEF StoreTyped, Count
    <2>. QED  BY <2>1, <2>2
  <1>8. StoreTyped'
    BY <1>5, <1>6, <1>7 DEF StoreTyped, Count
  <1>9. \A e \in Coll : Keeps(e)
    BY <1>1, <1>5 DEF Keeps
  <1>. QED  BY <1>5, <1>8, <1>9 DEF StoreMoves

LEMMA StoreFlushes ==
  ASSUME StoreTyped, NEW c \in Coll, mem' = mem, hurt' = hurt,
         disk' = [disk EXCEPT ![c] = mem[c]], exposed' = exposed \ {c}
  PROVE  StoreMoves({})
  <1>1. disk' \in [Coll -> Locations] /\ disk'[c] = mem[c]
        /\ \A e \in Coll : e # c => disk'[e] = disk[e]
    BY DEF StoreTyped
  <1>2. StoreTyped'
    BY <1>1 DEF StoreTyped, Count
  <1>. QED  BY <1>2 DEF StoreMoves, Keeps

LEMMA StoreClears ==
  ASSUME StoreTyped, NEW c \in Coll,
         mem' = [mem EXCEPT ![c] = <<>>], disk' = [disk EXCEPT ![c] = <<>>],
         exposed' = exposed \ {c}, hurt' = hurt \ {c}
  PROVE  /\ StoreTyped'
         /\ \A e \in Coll : e # c => mem'[e] = mem[e] /\ Keeps(e)
  <1>1. <<>> \in Locations /\ Len(<<>>) = 0 /\ 0 <= MaxLoc
    BY NoItems, DreamingAssumption
  <1>2. /\ mem' \in [Coll -> Locations] /\ disk' \in [Coll -> Locations]
        /\ mem'[c] = <<>> /\ disk'[c] = <<>>
        /\ \A e \in Coll : e # c => mem'[e] = mem[e] /\ disk'[e] = disk[e]
    BY <1>1 DEF StoreTyped
  <1>3. StoreTyped'
    BY <1>1, <1>2 DEF StoreTyped, Count
  <1>4. \A e \in Coll : e # c => Keeps(e)
    BY <1>2 DEF Keeps
  <1>. QED  BY <1>2, <1>3, <1>4

LEMMA StoreRereads ==
  ASSUME StoreTyped, NEW S \in SUBSET Coll, Rereads(S)
  PROVE  /\ StoreMoves(S)
         /\ \A c \in Coll : Len(mem'[c]) = Len(mem[c])
  <1>1. /\ disk' = disk /\ hurt' = hurt \cup (S \cap exposed) /\ exposed' = exposed \ S
        /\ mem' = [c \in Coll |-> IF c \in S THEN disk[c] ELSE mem[c]]
    BY DEF Rereads
  <1>2. \A c \in Coll : mem'[c] = IF c \in S THEN disk[c] ELSE mem[c]
    BY <1>1
  <1>3. mem' \in [Coll -> Locations]
    BY <1>1 DEF StoreTyped
  <1>4. \A c \in Coll : Len(mem'[c]) = Len(mem[c])
    BY <1>2 DEF StoreTyped, Count
  <1>5. StoreTyped'
    BY <1>1, <1>2, <1>3, <1>4 DEF StoreTyped, Count
  <1>6. \A c \in Coll : Keeps(c)
    BY <1>1, <1>2 DEF Keeps, StoreTyped
  <1>. QED  BY <1>2, <1>4, <1>5, <1>6 DEF StoreMoves

-----------------------------------------------------------------------------
(* The type invariant.  No rung is begun above the last one.               *)

JobsAreFormed ==
    \A d \in Dreamer :
        job[d].pc \in {"write", "source", "clear", "law"} => job[d].pass < Passes

(* What is neither memory nor store.                                       *)
RestTyped ==
    /\ mode \in [Db -> {"replay", "ladder"}]
    /\ exists \in SUBSET Coll /\ crossed \in SUBSET Db
    /\ fed \in [Db -> Locations] /\ dreamt \in [Db -> Locations]
    /\ learned \in [Db -> SUBSET Item]
    /\ touched \in SUBSET Coll
    /\ quiet \in 0 .. IdleTime
    /\ loop \in [pc : {"asleep", "databases", "collections", "dreaming"},
                 idle : BOOLEAN, dbs : SUBSET Db, names : SUBSET Coll,
                 name : Coll, count : 0 .. MaxLoc]
    /\ last_dreamed \in [Coll -> -1 .. MaxLoc]
    /\ job \in [Dreamer -> Jobs]
    /\ names \in SUBSET Coll
    /\ spent \in [trouble : 0 .. MaxTrouble, trigger : 0 .. MaxTrigger]

TypedInv == StoreTyped /\ RestTyped /\ JobsAreFormed

LEMMA Collections ==
  /\ \A b \in Db : Base(b) \in Coll /\ Base(b)[1] = b /\ ~IsLevel(Base(b))
                   /\ <<b, 1>> \in Coll /\ Base(b) # <<b, 1>>
  /\ \A c \in Coll : c[1] \in Db /\ c[2] \in 0 .. Passes /\ c = <<c[1], c[2]>>
                     /\ (IsLevel(c) \/ c = Base(c[1]))
  /\ None \in Coll
  <1>1. \A b \in Db : Base(b) \in Coll /\ Base(b)[1] = b /\ ~IsLevel(Base(b))
                   /\ <<b, 1>> \in Coll /\ Base(b) # <<b, 1>>
    BY DreamingAssumption DEF Base, Coll, IsLevel
  <1>2. \A c \in Coll : c[1] \in Db /\ c[2] \in 0 .. Passes /\ c = <<c[1], c[2]>>
    BY DEF Coll
  <1>3. \A c \in Coll : IsLevel(c) \/ c = Base(c[1])
    BY <1>2, DreamingAssumption DEF Base, IsLevel
  <1>4. \E c \in Coll : c[2] = 0
    BY <1>1, DreamingAssumption DEF Base
  <1>. QED  BY <1>1, <1>2, <1>3, <1>4 DEF None

LEMMA JobsOf ==
  ASSUME TypedInv, NEW d \in Dreamer
  PROVE  /\ job[d] \in Jobs /\ Here(d) \in Coll /\ Src(d) \in Coll
         /\ mem[Here(d)] \in Locations /\ Count(Here(d)) <= MaxLoc
         /\ mem[Src(d)] \in Locations
         /\ Here(d)[1] \in Db /\ Src(d)[1] = Here(d)[1] /\ Dst(d)[1] = Here(d)[1]
         /\ job[d].pc \in {"write", "source", "clear", "law"} =>
               /\ job[d].pass \in 0 .. Passes /\ job[d].pass + 1 \in 0 .. Passes
               /\ Dst(d) \in Coll /\ ~(Dst(d)[2] = 0)
               /\ mem[Dst(d)] \in Locations /\ Count(Dst(d)) <= MaxLoc
  <1>1. job[d] \in Jobs /\ Here(d) \in Coll /\ Here(d)[1] \in Db
        /\ job[d].pass \in 0 .. Passes
    BY Collections DEF TypedInv, RestTyped, Here, Jobs
  <1>2. Src(d) \in Coll /\ Src(d)[1] = Here(d)[1] /\ Dst(d)[1] = Here(d)[1]
    BY <1>1 DEF Src, Dst, Coll
  <1>3. \A c \in Coll : mem[c] \in Locations /\ Count(c) <= MaxLoc
    BY DEF TypedInv, StoreTyped
  <1>4. ASSUME job[d].pc \in {"write", "source", "clear", "law"}
        PROVE  /\ job[d].pass + 1 \in 0 .. Passes
               /\ Dst(d) \in Coll /\ ~(Dst(d)[2] = 0)
    <2>1. job[d].pass + 1 \in 0 .. Passes /\ job[d].pass + 1 # 0
      BY <1>1, <1>4, DreamingAssumption DEF TypedInv, JobsAreFormed
    <2>. QED  BY <1>1, <2>1 DEF Dst, Coll
  <1>. QED  BY <1>1, <1>2, <1>3, <1>4

LEMMA JobMoves ==
  ASSUME TypedInv, NEW d \in Dreamer, NEW j \in Jobs,
         job' = [job EXCEPT ![d] = j],
         j.pc \in {"write", "source", "clear", "law"} => j.pass < Passes
  PROVE  /\ job' \in [Dreamer -> Jobs] /\ JobsAreFormed'
         /\ job'[d] = j /\ \A e \in Dreamer : e # d => job'[e] = job[e]
  <1>1. job' \in [Dreamer -> Jobs] /\ job'[d] = j
        /\ \A e \in Dreamer : e # d => job'[e] = job[e]
    BY DEF TypedInv, RestTyped
  <1>. QED  BY <1>1 DEF TypedInv, JobsAreFormed

(* A job moves in its control, its reading, or both.                       *)
LEMMA JobGoes ==
  ASSUME TypedInv, NEW d \in Dreamer, NEW pc, Goes(d, pc),
         pc \in {"flush", "source", "law", "done", "failed"},
         pc \in {"source", "law"} => job[d].pass < Passes
  PROVE  /\ job' \in [Dreamer -> Jobs] /\ JobsAreFormed'
         /\ job'[d] = [job[d] EXCEPT !.pc = pc]
         /\ \A e \in Dreamer : e # d => job'[e] = job[e]
  <1>1. [job[d] EXCEPT !.pc = pc] \in Jobs
        /\ [job[d] EXCEPT !.pc = pc].pc = pc
        /\ [job[d] EXCEPT !.pc = pc].pass = job[d].pass
    BY JobsOf DEF Jobs
  <1>2. job' = [job EXCEPT ![d] = [job[d] EXCEPT !.pc = pc]]
    BY DEF Goes
  <1>. QED  BY <1>1, <1>2, JobMoves

LEMMA NoJobIsAJob == NoJob \in Jobs
  BY Collections, DreamingAssumption DEF NoJob, Jobs

LEMMA JobBegins ==
  ASSUME TypedInv, NEW d \in Dreamer, NEW c \in Coll,
         NEW m \in {"replay", "ladder"}, Begun(d, c, m)
  PROVE  /\ job' \in [Dreamer -> Jobs] /\ JobsAreFormed'
         /\ job'[d].pc = IF m = "ladder" THEN "rung" ELSE "replay"
         /\ job'[d].coll = c /\ job'[d].pass = 0 /\ job'[d].read = <<>>
         /\ \A e \in Dreamer : e # d => job'[e] = job[e]
  <1>. DEFINE pc == IF m = "ladder" THEN "rung" ELSE "replay"
              j == [NoJob EXCEPT !.coll = c, !.mode = m, !.pc = pc]
  <1>1. pc \in {"rung", "replay"}
    OBVIOUS
  <1>2. job' = [job EXCEPT ![d] = j]
    BY DEF Begun
  <1>. HIDE DEF pc
  <1>3. j \in Jobs
    BY <1>1, NoJobIsAJob DEF Jobs
  <1>4. j.pc = pc /\ j.coll = c /\ j.pass = 0 /\ j.read = <<>>
    BY DEF NoJob
  <1>. HIDE DEF j
  <1>5. job' \in [Dreamer -> Jobs] /\ JobsAreFormed' /\ job'[d] = j
        /\ \A e \in Dreamer : e # d => job'[e] = job[e]
    BY <1>1, <1>2, <1>3, <1>4, JobMoves
  <1>. QED  BY <1>4, <1>5 DEF pc

LEMMA TypedInit == Init => TypedInv
  <1>. SUFFICES ASSUME Init PROVE TypedInv
    OBVIOUS
  <1>1. mem \in [Coll -> Locations] /\ \A c \in Coll : Len(mem[c]) <= 1
    <2>1. 1 \in Item
      BY DreamingAssumption DEF Item
    <2>2. <<>> \in Locations /\ <<{1}>> \in Locations
          /\ Len(<<>>) <= 1 /\ Len(<<{1}>>) <= 1
      BY <2>1 DEF Locations
    <2>. QED  BY <2>2 DEF Init
  <1>2. StoreTyped
    <2>1. \A c \in Coll : Count(c) <= MaxLoc
      BY <1>1, DreamingAssumption DEF Count, Locations
    <2>. QED  BY <1>1, <2>1 DEF Init, StoreTyped, Count
  <1>3. job \in [Dreamer -> Jobs] /\ JobsAreFormed
    BY NoJobIsAJob DEF Init, JobsAreFormed, NoJob
  <1>4. learned \in [Db -> SUBSET Item] /\ dreamt \in [Db -> Locations]
        /\ fed \in [Db -> Locations] /\ crossed \in SUBSET Db
    BY NoItems, DreamingAssumption DEF Init, Item
  <1>5. loop \in [pc : {"asleep", "databases", "collections", "dreaming"},
                  idle : BOOLEAN, dbs : SUBSET Db, names : SUBSET Coll,
                  name : Coll, count : 0 .. MaxLoc]
    BY Collections, DreamingAssumption DEF Init, Asleep
  <1>6. last_dreamed \in [Coll -> -1 .. MaxLoc] /\ quiet \in 0 .. IdleTime
        /\ spent \in [trouble : 0 .. MaxTrouble, trigger : 0 .. MaxTrigger]
    BY DreamingAssumption DEF Init
  <1>7. exists \in SUBSET Coll /\ touched \in SUBSET Coll /\ names \in SUBSET Coll
        /\ mode \in [Db -> {"replay", "ladder"}]
    BY Collections DEF Init
  <1>. QED  BY <1>2, <1>3, <1>4, <1>5, <1>6, <1>7 DEF TypedInv, RestTyped

(* What each step of a dream does to its job.                              *)
LEMMA TouchesColl ==
  ASSUME RestTyped, NEW d \in Dreamer, NEW c \in Coll, Touches(d, c)
  PROVE  touched' \in SUBSET Coll
  BY DEF RestTyped, Touches

LEMMA OperandsOf ==
  ASSUME TypedInv, NEW d \in Dreamer, NEW todo \in Operands(d)
  PROVE  todo \in Locations /\ Items(todo) = Items(mem[Here(d)])
  <1>. DEFINE m == mem[Here(d)]
  <1>1. m \in Locations
    BY JobsOf
  <1>2. todo = m \/ \E P \in Partitions(DOMAIN m) : todo = grouped(m, P)
    BY DEF Operands
  <1>. HIDE DEF m
  <1>3. todo \in Locations /\ Items(todo) = Items(m)
    BY <1>1, <1>2, GroupedItems
  <1>. QED  BY <1>3 DEF m

LEMMA SnapshotSteps ==
  ASSUME TypedInv, NEW d \in Dreamer, ReplaySnapshot(d)
  PROVE  /\ job' \in [Dreamer -> Jobs] /\ JobsAreFormed'
         /\ job'[d].pc \in {"flush", "write"} /\ job'[d].coll = Here(d)
         /\ \A e \in Dreamer : e # d => job'[e] = job[e]
  <1>1. CASE Goes(d, "flush")
    <2>1. job' \in [Dreamer -> Jobs] /\ JobsAreFormed'
          /\ job'[d] = [job[d] EXCEPT !.pc = "flush"]
          /\ \A e \in Dreamer : e # d => job'[e] = job[e]
      BY <1>1, JobGoes
    <2>2. job[d] \in Jobs
      BY JobsOf
    <2>. QED  BY <2>1, <2>2 DEF Here, Jobs
  <1>2. ASSUME ~(job[d].pass >= Passes), NEW todo \in Operands(d),
               job' = [job EXCEPT ![d].pc = "write", ![d].todo = todo]
        PROVE  /\ job' \in [Dreamer -> Jobs] /\ JobsAreFormed'
               /\ job'[d].pc \in {"flush", "write"} /\ job'[d].coll = Here(d)
               /\ \A e \in Dreamer : e # d => job'[e] = job[e]
    <2>. DEFINE j == [job[d] EXCEPT !.pc = "write", !.todo = todo]
    <2>1. todo \in Locations /\ job[d] \in Jobs /\ job[d].pass < Passes
      BY <1>2, OperandsOf, JobsOf, DreamingAssumption DEF Jobs
    <2>2. j \in Jobs /\ j.pc = "write" /\ j.pass = job[d].pass /\ j.coll = Here(d)
      BY <2>1 DEF Jobs, Locations, Here
    <2>3. job' = [job EXCEPT ![d] = j]
      BY <1>2
    <2>. HIDE DEF j
    <2>. QED  BY <2>1, <2>2, <2>3, JobMoves
  <1>. QED  BY <1>1, <1>2 DEF ReplaySnapshot

LEMMA TodoSteps ==
  ASSUME TypedInv, NEW d \in Dreamer, job[d].todo # <<>>,
         job[d].pc \in {"write", "law"},
         job' = [job EXCEPT ![d].todo = Tail(@)]
  PROVE  /\ job' \in [Dreamer -> Jobs] /\ JobsAreFormed'
         /\ Head(job[d].todo) \in SUBSET Item
         /\ job'[d] = [job[d] EXCEPT !.todo = Tail(@)]
         /\ \A e \in Dreamer : e # d => job'[e] = job[e]
  <1>. DEFINE j == [job[d] EXCEPT !.todo = Tail(@)]
  <1>1. job[d] \in Jobs /\ job[d].todo \in Locations /\ job[d].pass < Passes
    BY JobsOf DEF Jobs, Locations, TypedInv, JobsAreFormed
  <1>2. Head(job[d].todo) \in SUBSET Item /\ Tail(job[d].todo) \in Locations
    BY <1>1, TailItems
  <1>3. j \in Jobs /\ j.pc = job[d].pc /\ j.pass = job[d].pass
    BY <1>1, <1>2 DEF Jobs, Locations
  <1>4. job' = [job EXCEPT ![d] = j]
    OBVIOUS
  <1>. HIDE DEF j
  <1>5. job' \in [Dreamer -> Jobs] /\ JobsAreFormed' /\ job'[d] = j
        /\ \A e \in Dreamer : e # d => job'[e] = job[e]
    BY <1>1, <1>3, <1>4, JobMoves
  <1>. QED  BY <1>2, <1>5 DEF j

LEMMA PassSteps ==
  ASSUME TypedInv, NEW d \in Dreamer, NEW pc \in {"replay", "rung"},
         job[d].pc \in {"write", "law"},
         job' = [job EXCEPT ![d].pc = pc, ![d].pass = @ + 1]
  PROVE  /\ job' \in [Dreamer -> Jobs] /\ JobsAreFormed'
         /\ job'[d].pc = pc /\ job'[d].pass = job[d].pass + 1
         /\ job'[d].coll = Here(d) /\ job'[d].read = job[d].read
         /\ \A e \in Dreamer : e # d => job'[e] = job[e]
  <1>. DEFINE j == [job[d] EXCEPT !.pc = pc, !.pass = @ + 1]
  <1>1. job[d] \in Jobs /\ job[d].pass + 1 \in 0 .. Passes
    BY JobsOf
  <1>2. j \in Jobs /\ j.pc = pc /\ j.pass = job[d].pass + 1
        /\ j.coll = Here(d) /\ j.read = job[d].read
    BY <1>1 DEF Jobs, Here
  <1>3. job' = [job EXCEPT ![d] = j]
    OBVIOUS
  <1>. HIDE DEF j
  <1>4. job' \in [Dreamer -> Jobs] /\ JobsAreFormed' /\ job'[d] = j
        /\ \A e \in Dreamer : e # d => job'[e] = job[e]
    BY <1>2, <1>3, JobMoves
  <1>. QED  BY <1>2, <1>4

LEMMA RungReads ==
  ASSUME TypedInv, NEW d \in Dreamer, RungSnapshot(d)
  PROVE  /\ job' \in [Dreamer -> Jobs] /\ JobsAreFormed'
         /\ job'[d].pc = "clear" /\ job'[d].coll = Here(d)
         /\ job'[d].pass = job[d].pass /\ job'[d].todo = mem[Src(d)]
         /\ job'[d].read = IF job[d].pass = 0 THEN mem[Src(d)] ELSE job[d].read
         /\ \A e \in Dreamer : e # d => job'[e] = job[e]
  <1>. DEFINE r == IF job[d].pass = 0 THEN mem[Src(d)] ELSE job[d].read
              j == [job[d] EXCEPT !.pc = "clear", !.todo = mem[Src(d)], !.read = r]
  <1>1. job[d] \in Jobs /\ mem[Src(d)] \in Locations /\ job[d].pass < Passes
    BY JobsOf DEF Running, RungSnapshot, TypedInv, JobsAreFormed
  <1>2. r \in Locations
    BY <1>1 DEF Jobs, Locations
  <1>3. job' = [job EXCEPT ![d] = j]
    BY DEF RungSnapshot
  <1>. HIDE DEF r
  <1>4. j \in Jobs /\ j.pc = "clear" /\ j.pass = job[d].pass /\ j.coll = Here(d)
        /\ j.todo = mem[Src(d)] /\ j.read = r
    BY <1>1, <1>2 DEF Jobs, Locations, Here
  <1>. HIDE DEF j
  <1>5. job' \in [Dreamer -> Jobs] /\ JobsAreFormed' /\ job'[d] = j
        /\ \A e \in Dreamer : e # d => job'[e] = job[e]
    BY <1>1, <1>3, <1>4, JobMoves
  <1>. QED  BY <1>4, <1>5 DEF r

(* A step that leaves memory and store as they are.                        *)
LEMMA StoreStays ==
  ASSUME TypedInv, UNCHANGED stored
  PROVE  StoreTyped'
  BY StoreRests DEF TypedInv, StoreMoves

LEMMA ReplayStores ==
  ASSUME TypedInv, NEW d \in Dreamer,
         \/ ReplaySnapshot(d) \/ ReplayWrite(d) \/ ReplayMerge(d) \/ ReplayFlush(d)
  PROVE  StoreMoves({Here(d)}) /\ (ReplaySnapshot(d) \/ ReplayFlush(d) => mem' = mem)
  <1>0. StoreTyped /\ Here(d) \in Coll
    BY JobsOf DEF TypedInv
  <1>. DEFINE c == Here(d)
  <1>1. CASE ReplaySnapshot(d)
    BY <1>0, <1>1, StoreRests DEF ReplaySnapshot, hives, stored, StoreMoves
  <1>2. CASE ReplayWrite(d)
    <2>1. Head(job[d].todo) \in SUBSET Item /\ Running(d, "write")
      BY <1>2, TodoSteps DEF ReplayWrite, Running
    <2>2. PICK n \in written(c, Head(job[d].todo)) : Becomes(c, n)
      BY <1>2 DEF ReplayWrite
    <2>. HIDE DEF c
    <2>3. StoreMoves({c})
      BY <1>0, <2>1, <2>2, StoreBecomes DEF c
    <2>. QED  BY <1>2, <2>1, <2>3 DEF c, ReplaySnapshot, ReplayFlush, Running
  <1>3. CASE ReplayMerge(d)
    <2>1. PICK P \in Partitions(DOMAIN mem[c]) : \E survivor \in Survivors(mem[c], P) :
            /\ mem' = [mem EXCEPT ![c] = grouped(mem[c], P)]
            /\ disk' = [disk EXCEPT ![c] = surviving(@, P, survivor)]
            /\ exposed' = IF Cardinality(P) < Len(mem[c]) THEN exposed \cup {c}
                          ELSE exposed
      BY <1>3 DEF ReplayMerge
    <2>2. PICK s \in Survivors(mem[c], P) :
            /\ mem' = [mem EXCEPT ![c] = grouped(mem[c], P)]
            /\ disk' = [disk EXCEPT ![c] = surviving(disk[c], P, s)]
            /\ exposed' = IF Cardinality(P) < Len(mem[c]) THEN exposed \cup {c}
                          ELSE exposed
      BY <2>1
    <2>3. hurt' = hurt /\ Running(d, "write")
      BY <1>3 DEF ReplayMerge
    <2>4. c \in Coll
      BY <1>0
    <2>. HIDE DEF c
    <2>5. StoreMoves({c})
      BY <1>0, <2>2, <2>3, <2>4, StoreMerges
    <2>. QED  BY <1>3, <2>3, <2>5 DEF c, ReplaySnapshot, ReplayFlush, Running
  <1>4. CASE ReplayFlush(d)
    <2>1. StoreMoves({})
      BY <1>0, <1>4, StoreFlushes DEF ReplayFlush
    <2>. QED  BY <1>4, <2>1 DEF ReplayFlush, StoreMoves
  <1>. QED  BY <1>1, <1>2, <1>3, <1>4

LEMMA ReplayTyped ==
  ASSUME TypedInv, NEW d \in Dreamer,
         \/ ReplaySnapshot(d) \/ ReplayWrite(d) \/ ReplayMerge(d) \/ ReplayFlush(d)
  PROVE  TypedInv'
  <1>0. StoreTyped'
    BY ReplayStores DEF StoreMoves
  <1>1. CASE ReplaySnapshot(d)
    <2>1. job' \in [Dreamer -> Jobs] /\ JobsAreFormed'
      BY <1>1, SnapshotSteps
    <2>. QED  BY <1>0, <1>1, <2>1 DEF ReplaySnapshot, TypedInv, RestTyped, hives,
                                      history, climbed, ticking
  <1>2. CASE ReplayWrite(d)
    <2>1. job' \in [Dreamer -> Jobs] /\ JobsAreFormed'
      BY <1>2, TodoSteps DEF ReplayWrite, Running
    <2>2. touched' \in SUBSET Coll
      BY <1>2, JobsOf, TouchesColl DEF ReplayWrite, TypedInv
    <2>. QED  BY <1>0, <1>2, <2>1, <2>2 DEF ReplayWrite, TypedInv, RestTyped, climbed,
                                            ticking
  <1>3. CASE ReplayMerge(d)
    <2>1. job' \in [Dreamer -> Jobs] /\ JobsAreFormed'
      BY <1>3, PassSteps DEF ReplayMerge, Running
    <2>2. touched' \in SUBSET Coll
      BY <1>3, JobsOf, TouchesColl DEF ReplayMerge, TypedInv
    <2>. QED  BY <1>0, <1>3, <2>1, <2>2 DEF ReplayMerge, TypedInv, RestTyped, climbed,
                                            ticking
  <1>4. CASE ReplayFlush(d)
    <2>1. job' \in [Dreamer -> Jobs] /\ JobsAreFormed'
      BY <1>4, JobGoes DEF ReplayFlush
    <2>. QED  BY <1>0, <1>4, <2>1 DEF ReplayFlush, TypedInv, RestTyped, history, climbed,
                                      ticking
  <1>. QED  BY <1>1, <1>2, <1>3, <1>4

(* The collection a rung fills is a level.                                 *)
LEMMA DstIsALevel ==
  ASSUME TypedInv, NEW d \in Dreamer, job[d].pc \in {"source", "clear", "law"}
  PROVE  /\ Dst(d) \in Coll /\ IsLevel(Dst(d)) /\ Dst(d)[1] = Here(d)[1]
         /\ Here(d)[1] \in Db /\ job[d].pass \in Nat /\ job[d].pass < Passes
         /\ (job[d].pass = 0) <=> (Dst(d) = <<Here(d)[1], 1>>)
  <1>1. /\ job[d] \in Jobs /\ job[d].pass \in 0 .. Passes
        /\ Dst(d) \in Coll /\ Dst(d)[1] = Here(d)[1] /\ ~(Dst(d)[2] = 0)
        /\ job[d].pass < Passes /\ Here(d)[1] \in Db
    BY JobsOf DEF TypedInv, JobsAreFormed
  <1>2. Dst(d)[2] \in 0 .. Passes
    BY <1>1, Collections
  <1>3. Dst(d) = <<Here(d)[1], job[d].pass + 1>>
    BY DEF Dst
  <1>4. Passes \in Nat /\ job[d].pass \in Nat
    BY <1>1, DreamingAssumption
  <1>5. (job[d].pass = 0) <=> (job[d].pass + 1 = 1)
    BY <1>4
  <1>6. (job[d].pass = 0) <=> (Dst(d) = <<Here(d)[1], 1>>)
    BY <1>3, <1>5
  <1>. QED  BY <1>1, <1>2, <1>4, <1>6 DEF IsLevel

LEMMA LadderStores ==
  ASSUME TypedInv, NEW d \in Dreamer,
         \/ LadderRung(d) \/ RungSnapshot(d) \/ RungClear(d) \/ RungWrite(d)
         \/ RungDone(d)
  PROVE  /\ StoreTyped'
         /\ \A c \in Coll : ~IsLevel(c) => mem'[c] = mem[c] /\ Keeps(c)
         /\ LadderRung(d) \/ RungSnapshot(d) \/ RungDone(d) => UNCHANGED stored
         /\ RungClear(d) \/ RungWrite(d) =>
               /\ Dst(d) \in Coll /\ Dst(d)[1] = Here(d)[1]
               /\ \A c \in Coll : c # Dst(d) => mem'[c] = mem[c] /\ Keeps(c)
         /\ RungWrite(d) =>
               /\ hurt' = hurt
               /\ Items(mem'[Dst(d)]) = Items(mem[Dst(d)]) \cup Head(job[d].todo)
  <1>0. StoreTyped
    BY DEF TypedInv
  <1>1. CASE LadderRung(d) \/ RungSnapshot(d) \/ RungDone(d)
    <2>1. UNCHANGED stored
      BY <1>1 DEF LadderRung, RungSnapshot, RungDone, hives
    <2>2. StoreMoves({})
      BY <1>0, <2>1, StoreRests
    <2>3. ~RungClear(d) /\ ~RungWrite(d)
      BY <1>1 DEF LadderRung, RungSnapshot, RungDone, RungClear, RungWrite, Running
    <2>. QED  BY <2>1, <2>2, <2>3 DEF StoreMoves
  <1>2. CASE RungClear(d)
    <2>1. Dst(d) \in Coll /\ IsLevel(Dst(d)) /\ Dst(d)[1] = Here(d)[1]
      BY <1>2, DstIsALevel DEF RungClear, Running
    <2>. DEFINE c == Dst(d)
    <2>2. /\ mem' = [mem EXCEPT ![c] = <<>>] /\ disk' = [disk EXCEPT ![c] = <<>>]
          /\ exposed' = exposed \ {c} /\ hurt' = hurt \ {c} /\ c \in Coll
      BY <1>2, <2>1 DEF RungClear
    <2>. HIDE DEF c
    <2>3. StoreTyped' /\ \A e \in Coll : e # c => mem'[e] = mem[e] /\ Keeps(e)
      BY <1>0, <2>2, StoreClears
    <2>4. ~LadderRung(d) /\ ~RungSnapshot(d) /\ ~RungDone(d) /\ ~RungWrite(d)
      BY <1>2 DEF LadderRung, RungSnapshot, RungDone, RungClear, RungWrite, Running
    <2>. QED  BY <2>1, <2>3, <2>4 DEF c
  <1>3. CASE RungWrite(d)
    <2>1. Dst(d) \in Coll /\ IsLevel(Dst(d)) /\ Dst(d)[1] = Here(d)[1]
      BY <1>3, DstIsALevel DEF RungWrite, Running
    <2>. DEFINE c == Dst(d)
                x == Head(job[d].todo)
    <2>2. x \in SUBSET Item
      BY <1>3, TodoSteps DEF RungWrite, Running
    <2>3. \E n \in written(c, x) : Becomes(c, n)
      BY <1>3 DEF RungWrite
    <2>4. c \in Coll
      BY <2>1
    <2>. HIDE DEF c, x
    <2>5. PICK n \in written(c, x) : Becomes(c, n)
      BY <2>3
    <2>6. StoreMoves({c}) /\ Items(mem'[c]) = Items(mem[c]) \cup x /\ hurt' = hurt
      BY <1>0, <2>2, <2>4, <2>5, StoreBecomes
    <2>7. ~LadderRung(d) /\ ~RungSnapshot(d) /\ ~RungDone(d) /\ ~RungClear(d)
      BY <1>3 DEF LadderRung, RungSnapshot, RungDone, RungClear, RungWrite, Running
    <2>. QED  BY <2>1, <2>6, <2>7 DEF c, x, StoreMoves
  <1>. QED  BY <1>1, <1>2, <1>3

LEMMA RefillsTyped ==
  ASSUME TypedInv, NEW d \in Dreamer, Refilled(d), Here(d)[1] \in Db
  PROVE  /\ fed' \in [Db -> Locations] /\ dreamt' \in [Db -> Locations]
         /\ crossed' \in SUBSET Db
  BY NoItems DEF Refilled, climbed, TypedInv, RestTyped

LEMMA LadderTyped ==
  ASSUME TypedInv, NEW d \in Dreamer,
         \/ LadderRung(d) \/ RungSnapshot(d) \/ RungClear(d) \/ RungWrite(d)
         \/ RungDone(d)
  PROVE  TypedInv'
  <1>0. StoreTyped' /\ RestTyped /\ job[d] \in Jobs /\ Here(d)[1] \in Db
    BY LadderStores, JobsOf DEF TypedInv
  <1>1. CASE LadderRung(d)
    <2>1. CASE Climbed(d)
      <3>1. job' \in [Dreamer -> Jobs] /\ JobsAreFormed' /\ exists' = exists
        BY <1>1, <2>1, JobGoes DEF LadderRung
      <3>2. dreamt' \in [Db -> Locations]
        BY <1>0, <1>1, <2>1 DEF LadderRung, RestTyped, Jobs, Locations
      <3>. QED  BY <1>0, <1>1, <3>1, <3>2 DEF LadderRung, TypedInv, RestTyped, ticking
    <2>2. CASE ~Climbed(d)
      <3>1. job[d].pass \in 0 .. Passes /\ job[d].pass < Passes /\ Here(d)[1] \in Db
        BY <2>2, JobsOf, DreamingAssumption DEF Climbed, Jobs
      <3>2. Dst(d) \in Coll
        BY <3>1, DreamingAssumption DEF Dst, Coll
      <3>3. job' \in [Dreamer -> Jobs] /\ JobsAreFormed' /\ dreamt' = dreamt
            /\ exists' = exists \cup {Dst(d)}
        BY <1>1, <2>2, <3>1, JobGoes DEF LadderRung
      <3>. QED  BY <1>0, <1>1, <3>2, <3>3 DEF LadderRung, TypedInv, RestTyped, ticking
    <2>. QED  BY <2>1, <2>2
  <1>2. CASE RungSnapshot(d)
    <2>1. job' \in [Dreamer -> Jobs] /\ JobsAreFormed'
      BY <1>2, RungReads
    <2>. QED  BY <1>0, <1>2, <2>1 DEF RungSnapshot, TypedInv, RestTyped, hives, history,
                                      climbed, ticking
  <1>3. CASE RungClear(d)
    <2>1. Dst(d) \in Coll /\ job[d].pass < Passes
      BY <1>3, JobsOf DEF RungClear, Running, TypedInv, JobsAreFormed
    <2>2. job' \in [Dreamer -> Jobs] /\ JobsAreFormed'
      BY <1>3, <2>1, JobGoes DEF RungClear
    <2>3. touched' \in SUBSET Coll
      BY <1>3, <2>1, TouchesColl DEF RungClear, TypedInv
    <2>4. fed' \in [Db -> Locations] /\ dreamt' \in [Db -> Locations] /\ crossed' \in SUBSET Db
      BY <1>0, <1>3, RefillsTyped DEF RungClear
    <2>. QED  BY <1>0, <1>3, <2>2, <2>3, <2>4 DEF RungClear, TypedInv, RestTyped, ticking
  <1>4. CASE RungWrite(d)
    <2>1. job' \in [Dreamer -> Jobs] /\ JobsAreFormed' /\ Head(job[d].todo) \in SUBSET Item
      BY <1>4, TodoSteps DEF RungWrite, Running
    <2>2. Dst(d) \in Coll
      BY <1>4, JobsOf DEF RungWrite, Running
    <2>3. touched' \in SUBSET Coll
      BY <1>4, <2>2, TouchesColl DEF RungWrite, TypedInv
    <2>4. fed' \in [Db -> Locations]
      <3>1. fed[Here(d)[1]] \in Locations /\ fed \in [Db -> Locations]
        BY <1>0 DEF RestTyped
      <3>2. Append(fed[Here(d)[1]], Head(job[d].todo)) \in Locations
        BY <2>1, <3>1, AppendItems
      <3>3. \/ fed' = fed
            \/ fed' = [fed EXCEPT ![Here(d)[1]] =
                          Append(fed[Here(d)[1]], Head(job[d].todo))]
        BY <1>4 DEF RungWrite
      <3>. QED  BY <3>1, <3>2, <3>3
    <2>. QED  BY <1>0, <1>4, <2>1, <2>3, <2>4 DEF RungWrite, TypedInv, RestTyped, ticking
  <1>5. CASE RungDone(d)
    <2>1. job' \in [Dreamer -> Jobs] /\ JobsAreFormed'
      BY <1>5, PassSteps DEF RungDone, Running
    <2>. QED  BY <1>0, <1>5, <2>1 DEF RungDone, TypedInv, RestTyped, hives, history,
                                      climbed, ticking
  <1>. QED  BY <1>1, <1>2, <1>3, <1>4, <1>5

LEMMA TroubleCounts ==
  ASSUME RestTyped, Trouble
  PROVE  spent' \in [trouble : 0 .. MaxTrouble, trigger : 0 .. MaxTrigger]
  <1>1. spent \in [trouble : 0 .. MaxTrouble, trigger : 0 .. MaxTrigger]
    BY DEF RestTyped
  <1>2. spent.trouble + 1 \in 0 .. MaxTrouble
    BY <1>1, DreamingAssumption DEF Trouble
  <1>. QED  BY <1>1, <1>2 DEF Trouble

LEMMA FailsTyped ==
  ASSUME TypedInv, NEW d \in Dreamer, DreamFails(d)
  PROVE  /\ TypedInv'
         /\ \E S \in SUBSET Coll : StoreMoves(S) /\ S \subseteq Changing(d)
                                   /\ touched' = touched \cup S
  <1>1. job' \in [Dreamer -> Jobs] /\ JobsAreFormed'
    BY JobGoes DEF DreamFails
  <1>2. spent' \in [trouble : 0 .. MaxTrouble, trigger : 0 .. MaxTrigger]
    BY TroubleCounts DEF DreamFails, TypedInv
  <1>3. PICK S \in {{}, Changing(d)} : Rereads(S) /\ touched' = touched \cup S
    BY DEF DreamFails
  <1>4. S \in SUBSET Coll /\ S \subseteq Changing(d)
    BY DEF Changing
  <1>5. StoreMoves(S)
    BY <1>3, <1>4, StoreRereads DEF TypedInv
  <1>6. TypedInv'
    BY <1>1, <1>2, <1>3, <1>4, <1>5 DEF DreamFails, TypedInv, RestTyped, StoreMoves,
                                        climbed, ticking
  <1>. QED  BY <1>3, <1>4, <1>5, <1>6

LEMMA EligibleAreCollections ==
  ASSUME RestTyped, NEW b \in Db
  PROVE  Eligible(b) \subseteq Coll
  BY DEF RestTyped, Eligible

Loops ==
    [pc : {"asleep", "databases", "collections", "dreaming"}, idle : BOOLEAN,
     dbs : SUBSET Db, names : SUBSET Coll, name : Coll, count : 0 .. MaxLoc]

LEMMA AsleepIsALoop == Asleep \in Loops
  BY Collections, DreamingAssumption DEF Asleep, Loops

LEMMA LoopTyped ==
  ASSUME TypedInv,
         \/ LoopWakes \/ LoopSleeps \/ LoopLists \/ LoopListed \/ LoopSkips
         \/ LoopDreams \/ LoopSettles \/ LoopWarns
  PROVE  TypedInv'
  <1>0. loop \in Loops /\ last_dreamed \in [Coll -> -1 .. MaxLoc] /\ touched \in SUBSET Coll
        /\ job \in [Dreamer -> Jobs] /\ NoJob \in Jobs
        /\ \A c \in Coll : Count(c) \in 0 .. MaxLoc
    <2>1. \A c \in Coll : Count(c) \in 0 .. MaxLoc
      BY DreamingAssumption DEF TypedInv, StoreTyped, Count, Locations
    <2>. QED  BY <2>1, NoJobIsAJob DEF TypedInv, RestTyped, Loops
  <1>s. StoreTyped'
    <2>1. UNCHANGED stored
      BY DEF LoopWakes, LoopSleeps, LoopLists, LoopListed, LoopSkips, LoopDreams,
             LoopSettles, LoopWarns, hives
    <2>. QED  BY <2>1, StoreStays
  <1>1. CASE LoopWakes
    <2>1. loop' \in Loops
      <3>1. (quiet >= IdleTime) \in BOOLEAN
        OBVIOUS
      <3>. QED  BY <1>0, <1>1, <3>1 DEF LoopWakes, Loops
    <2>. QED  BY <1>s, <1>1, <2>1 DEF LoopWakes, Loops, TypedInv, RestTyped, JobsAreFormed,
                                hives, history, climbed
  <1>2. CASE LoopSleeps
    <2>1. loop' \in Loops
      BY <1>2, AsleepIsALoop DEF LoopSleeps
    <2>. QED  BY <1>s, <1>2, <2>1 DEF LoopSleeps, Loops, TypedInv, RestTyped, JobsAreFormed,
                                hives, history, climbed
  <1>3. CASE LoopLists
    <2>1. loop' \in Loops
      <3>1. PICK b \in loop.dbs :
              loop' = [loop EXCEPT !.pc = "collections", !.dbs = @ \ {b},
                          !.names = IF b \in Enabled /\ loop.idle
                                    THEN Eligible(b) ELSE {}]
        BY <1>3 DEF LoopLists
      <3>. DEFINE N == IF b \in Enabled /\ loop.idle THEN Eligible(b) ELSE {}
      <3>2. b \in Db
        BY <1>0 DEF Loops
      <3>3. N \in SUBSET Coll
        BY <3>2, EligibleAreCollections DEF TypedInv
      <3>4. loop.dbs \ {b} \in SUBSET Db
        BY <1>0 DEF Loops
      <3>5. loop' = [loop EXCEPT !.pc = "collections", !.dbs = @ \ {b}, !.names = N]
        BY <3>1
      <3>. HIDE DEF N
      <3>. QED  BY <1>0, <3>3, <3>4, <3>5 DEF Loops
    <2>. QED  BY <1>s, <1>3, <2>1 DEF LoopLists, Loops, TypedInv, RestTyped, JobsAreFormed,
                                hives, history, climbed
  <1>4. CASE LoopListed
    <2>1. loop' \in Loops
      BY <1>0, <1>4 DEF LoopListed, Loops
    <2>. QED  BY <1>s, <1>4, <2>1 DEF LoopListed, Loops, TypedInv, RestTyped, JobsAreFormed,
                                hives, history, climbed
  <1>5. CASE LoopSkips
    <2>1. loop' \in Loops
      BY <1>0, <1>5 DEF LoopSkips, Loops
    <2>. QED  BY <1>s, <1>5, <2>1 DEF LoopSkips, Loops, TypedInv, RestTyped, JobsAreFormed,
                                hives, history, climbed
  <1>6. CASE LoopDreams
    <2>1. PICK c \in loop.names :
            /\ loop' = [loop EXCEPT !.pc = "dreaming", !.names = @ \ {c},
                                    !.name = c, !.count = Count(c)]
            /\ Begun("loop", c, mode[c[1]])
            /\ touched' = touched \ {c}
      BY <1>6 DEF LoopDreams
    <2>2. c \in Coll /\ Count(c) \in 0 .. MaxLoc
      BY <1>0 DEF Loops
    <2>3. loop' \in Loops
      BY <1>0, <2>1, <2>2 DEF Loops
    <2>4. mode[c[1]] \in {"replay", "ladder"}
      BY <2>2, Collections DEF TypedInv, RestTyped
    <2>5. job' \in [Dreamer -> Jobs] /\ JobsAreFormed'
      BY <2>1, <2>2, <2>4, JobBegins DEF Dreamer
    <2>. QED  BY <1>s, <1>0, <1>6, <2>1, <2>3, <2>5 DEF LoopDreams, Loops, TypedInv,
                                                       RestTyped, hives, climbed
  <1>7. CASE LoopSettles
    <2>1. loop.name \in Coll
      BY <1>0 DEF Loops
    <2>2. loop' \in Loops /\ last_dreamed' \in [Coll -> -1 .. MaxLoc]
      <3>1. settled \in -1 .. MaxLoc
        BY <1>0, <2>1, DreamingAssumption DEF settled
      <3>. QED  BY <1>0, <1>7, <2>1, <3>1 DEF LoopSettles, Loops
    <2>3. job' \in [Dreamer -> Jobs] /\ JobsAreFormed'
      BY <1>0, <1>7, JobMoves DEF LoopSettles, NoJob, Dreamer
    <2>. QED  BY <1>s, <1>7, <2>2, <2>3 DEF LoopSettles, Loops, TypedInv, RestTyped, hives,
                                           history, climbed
  <1>8. CASE LoopWarns
    <2>1. loop.name \in Coll
      BY <1>0 DEF Loops
    <2>2. loop' \in Loops /\ touched' \in SUBSET Coll
      BY <1>0, <1>8, <2>1 DEF LoopWarns, Loops
    <2>3. job' \in [Dreamer -> Jobs] /\ JobsAreFormed'
      BY <1>0, <1>8, JobMoves DEF LoopWarns, NoJob, Dreamer
    <2>. QED  BY <1>s, <1>8, <2>2, <2>3 DEF LoopWarns, Loops, TypedInv, RestTyped, hives,
                                           climbed
  <1>. QED  BY <1>1, <1>2, <1>3, <1>4, <1>5, <1>6, <1>7, <1>8

LEMMA LearnsNext ==
  ASSUME RestTyped, NEW b \in Db, Cardinality(learned[b]) < MaxItem
  PROVE  Cardinality(learned[b]) + 1 \in Item
  <1>1. IsFiniteSet(learned[b])
    <2>1. learned[b] \subseteq Item
      BY DEF RestTyped
    <2>2. IsFiniteSet(Item)
      BY FS_Interval, DreamingAssumption DEF Item
    <2>. QED  BY <2>1, <2>2, FS_Subset
  <1>2. Cardinality(learned[b]) \in Nat
    BY <1>1, FS_CardinalityType
  <1>. QED  BY <1>2, DreamingAssumption DEF Item

LEMMA RequestsTyped ==
  ASSUME TypedInv,
         \/ \E b \in Db : ClientWrite(b) \/ ClientWriteFails(b)
         \/ \E b \in Db, m \in Asked : Trigger(b, m)
         \/ TriggerNext \/ TriggerAnswers \/ Idles \/ Restart
  PROVE  TypedInv'
  <1>0. job \in [Dreamer -> Jobs] /\ NoJob \in Jobs
    BY NoJobIsAJob DEF TypedInv, RestTyped
  <1>1. ASSUME NEW b \in Db, ClientWrite(b) PROVE TypedInv'
    <2>. DEFINE x == Cardinality(learned[b]) + 1
    <2>1. x \in Item /\ {x} \in SUBSET Item
      BY <1>1, LearnsNext DEF ClientWrite, TypedInv
    <2>2. /\ \E n \in written(Base(b), {x}) : Becomes(Base(b), n)
          /\ learned' = [learned EXCEPT ![b] = @ \cup {x}]
      BY <1>1 DEF ClientWrite
    <2>. HIDE DEF x
    <2>3. PICK n \in written(Base(b), {x}) : Becomes(Base(b), n)
      BY <2>2
    <2>4. Base(b) \in Coll
      BY Collections
    <2>5. StoreTyped'
      BY <2>1, <2>3, <2>4, StoreBecomes DEF TypedInv, StoreMoves
    <2>6. learned' \in [Db -> SUBSET Item] /\ touched' \in SUBSET Coll /\ quiet' \in 0 .. IdleTime
      BY <1>1, <2>1, <2>2, <2>4, DreamingAssumption
         DEF ClientWrite, TypedInv, RestTyped, Stamps
    <2>. QED  BY <1>1, <2>5, <2>6 DEF ClientWrite, TypedInv, RestTyped, JobsAreFormed, climbed
  <1>7. ASSUME NEW b \in Db, ClientWriteFails(b) PROVE TypedInv'
    <2>1. Base(b) \in Coll /\ {Base(b)} \in SUBSET Coll
      BY Collections
    <2>2. StoreTyped'
      BY <1>7, <2>1, StoreRereads DEF ClientWriteFails, TypedInv, StoreMoves
    <2>3. spent' \in [trouble : 0 .. MaxTrouble, trigger : 0 .. MaxTrigger]
      BY <1>7, TroubleCounts DEF ClientWriteFails, TypedInv
    <2>4. touched' \in SUBSET Coll /\ quiet' \in 0 .. IdleTime
      BY <1>7, <2>1, DreamingAssumption DEF ClientWriteFails, TypedInv, RestTyped, Stamps
    <2>. QED  BY <1>7, <2>2, <2>3, <2>4 DEF ClientWriteFails, TypedInv, RestTyped,
                                            JobsAreFormed, climbed
  <1>2. ASSUME NEW b \in Db, NEW m \in Asked, Trigger(b, m) PROVE TypedInv'
    <2>1. "trigger" \in Dreamer /\ m \in {"replay", "ladder"}
      BY DreamingAssumption DEF Dreamer
    <2>2. job' \in [Dreamer -> Jobs] /\ JobsAreFormed'
      <3>. DEFINE j == [job["trigger"] EXCEPT !.mode = m]
      <3>1. j \in Jobs /\ j.pc = "none"
        BY <1>0, <1>2, <2>1 DEF Jobs, Trigger, Running
      <3>2. job' = [job EXCEPT !["trigger"] = j]
        BY <1>2 DEF Trigger
      <3>. HIDE DEF j
      <3>. QED  BY <2>1, <3>1, <3>2, JobMoves
    <2>3. names' \in SUBSET Coll
      BY <1>2, Collections DEF Trigger, TypedInv, RestTyped
    <2>4. spent' \in [trouble : 0 .. MaxTrouble, trigger : 0 .. MaxTrigger]
      <3>1. spent \in [trouble : 0 .. MaxTrouble, trigger : 0 .. MaxTrigger]
        BY DEF TypedInv, RestTyped
      <3>2. spent.trigger + 1 \in 0 .. MaxTrigger
        BY <1>2, <3>1, DreamingAssumption DEF Trigger
      <3>. QED  BY <1>2, <3>1, <3>2 DEF Trigger
    <2>5. quiet' \in 0 .. IdleTime
      BY <1>2, DreamingAssumption DEF Trigger, Stamps
    <2>6. StoreTyped'
      BY <1>2, StoreStays DEF Trigger, hives
    <2>. QED  BY <1>2, <2>2, <2>3, <2>4, <2>5, <2>6 DEF Trigger, TypedInv, RestTyped, hives,
                                                        history, climbed
  <1>3. CASE TriggerNext
    <2>1. PICK c \in names : Begun("trigger", c, job["trigger"].mode) /\ names' = names \ {c}
      BY <1>3 DEF TriggerNext
    <2>2. c \in Coll /\ "trigger" \in Dreamer /\ job["trigger"].mode \in {"replay", "ladder"}
          /\ names' \in SUBSET Coll
      BY <1>0, <2>1 DEF TypedInv, RestTyped, Jobs, Dreamer
    <2>3. job' \in [Dreamer -> Jobs] /\ JobsAreFormed'
      BY <2>1, <2>2, JobBegins
    <2>4. StoreTyped'
      BY <1>3, StoreStays DEF TriggerNext, hives
    <2>. QED  BY <1>3, <2>2, <2>3, <2>4 DEF TriggerNext, TypedInv, RestTyped, hives, history,
                                            climbed, ticking
  <1>4. CASE TriggerAnswers
    <2>1. job' \in [Dreamer -> Jobs] /\ JobsAreFormed'
      BY <1>0, <1>4, JobMoves DEF TriggerAnswers, NoJob, Dreamer
    <2>2. StoreTyped'
      BY <1>4, StoreStays DEF TriggerAnswers, hives
    <2>. QED  BY <1>4, <2>1, <2>2 DEF TriggerAnswers, TypedInv, RestTyped, hives, history,
                                      climbed, ticking
  <1>5. CASE Idles
    <2>1. quiet' \in 0 .. IdleTime
      BY <1>5, DreamingAssumption DEF Idles, TypedInv, RestTyped
    <2>2. StoreTyped'
      BY <1>5, StoreStays DEF Idles, hives
    <2>. QED  BY <1>5, <2>1, <2>2 DEF Idles, TypedInv, RestTyped, JobsAreFormed, hives,
                                      history, climbed
  <1>6. CASE Restart
    <2>1. job' \in [Dreamer -> Jobs] /\ JobsAreFormed'
      BY <1>0, <1>6 DEF Restart, JobsAreFormed, NoJob
    <2>2. spent' \in [trouble : 0 .. MaxTrouble, trigger : 0 .. MaxTrigger]
      BY <1>6, TroubleCounts DEF Restart, TypedInv
    <2>3. loop' \in Loops /\ last_dreamed' \in [Coll -> -1 .. MaxLoc] /\ quiet' \in 0 .. IdleTime
      BY <1>6, AsleepIsALoop, DreamingAssumption DEF Restart
    <2>4. touched' \in SUBSET Coll /\ names' \in SUBSET Coll
      BY <1>6 DEF Restart
    <2>5. StoreTyped'
      BY <1>6, StoreRereads DEF Restart, TypedInv, StoreMoves
    <2>. QED  BY <1>6, <2>1, <2>2, <2>3, <2>4, <2>5 DEF Restart, Loops, TypedInv, RestTyped,
                                                        climbed
  <1>. QED  BY <1>1, <1>2, <1>3, <1>4, <1>5, <1>6, <1>7

LEMMA TypedStutters ==
  ASSUME TypedInv, UNCHANGED vars
  PROVE  TypedInv'
  <1>1. StoreTyped'
    BY StoreStays DEF vars, stored
  <1>. QED  BY <1>1 DEF TypedInv, RestTyped, JobsAreFormed, vars

LEMMA TypedNext == TypedInv /\ [Next]_vars => TypedInv'
  <1>. SUFFICES ASSUME TypedInv, [Next]_vars PROVE TypedInv'
    OBVIOUS
  <1>1. ASSUME NEW d \in Dreamer, DreamSteps(d) PROVE TypedInv'
    BY <1>1, ReplayTyped, LadderTyped DEF DreamSteps
  <1>2. CASE LoopSteps
    BY <1>1, <1>2, LoopTyped DEF LoopSteps, Dreamer
  <1>3. CASE TriggerSteps
    BY <1>1, <1>3, RequestsTyped DEF TriggerSteps, Dreamer
  <1>4. CASE Requests \/ Triggers \/ Idles \/ Restart
    BY <1>4, RequestsTyped DEF Requests, Triggers
  <1>5. CASE \E d \in Dreamer : DreamFails(d)
    BY <1>5, FailsTyped
  <1>6. CASE UNCHANGED vars
    BY <1>6, TypedStutters
  <1>. QED  BY <1>2, <1>3, <1>4, <1>5, <1>6 DEF Next

(* Every variable of the loop, of the dreams and of the collections keeps  *)
(* to its type; in particular no dream climbs above its last rung.         *)
THEOREM DreamingTypeCorrect == Spec => []TypeOK
  <1>1. Init => TypedInv
    BY TypedInit
  <1>2. TypedInv /\ [Next]_vars => TypedInv'
    BY TypedNext
  <1>3. TypedInv => TypeOK
    BY DEF TypedInv, StoreTyped, RestTyped, TypeOK, Locations
  <1>. QED  BY <1>1, <1>2, <1>3, PTL DEF Spec

-----------------------------------------------------------------------------
(* What a step of a dream may change: collections of its own database,     *)
(* which it marks as touched unless they are the one the loop is dreaming, *)
(* and no base loses an item by it.                                        *)
StaysHome(d) ==
    /\ mode' = mode /\ learned' = learned /\ names' = names
    /\ loop' = loop /\ last_dreamed' = last_dreamed
    /\ job[d].pc # "none" /\ job'[d].pc # "none" /\ job'[d].coll = Here(d)
    /\ \A e \in Dreamer : e # d => job'[e] = job[e]
    /\ touched \subseteq touched'
    /\ \A c \in Coll :
          mem'[c] # mem[c] => /\ c[1] = Here(d)[1]
                              /\ c \in touched' \/ (d = "loop" /\ c = Here(d))
    /\ \A c \in Coll : Keeps(c) \/ (RungClear(d) /\ c = Dst(d))

LEMMA TouchesMarks ==
  ASSUME NEW d \in Dreamer, NEW c \in Coll, Touches(d, c)
  PROVE  touched \subseteq touched' /\ (c \in touched' \/ (d = "loop" /\ c = Here(d)))
  BY DEF Touches

(* A step that leaves memory and store as they are.                        *)
LEMMA StaysQuiet ==
  ASSUME TypedInv, NEW d \in Dreamer,
         mode' = mode, learned' = learned, names' = names, loop' = loop,
         last_dreamed' = last_dreamed, touched' = touched, mem' = mem,
         \A c \in Coll : Keeps(c),
         job[d].pc # "none", job'[d].pc # "none", job'[d].coll = Here(d),
         \A e \in Dreamer : e # d => job'[e] = job[e]
  PROVE  StaysHome(d)
  BY DEF StaysHome

LEMMA ReplayStaysHome ==
  ASSUME TypedInv, NEW d \in Dreamer,
         \/ ReplaySnapshot(d) \/ ReplayWrite(d) \/ ReplayMerge(d) \/ ReplayFlush(d)
  PROVE  StaysHome(d)
  <1>0. job[d] \in Jobs /\ Here(d) \in Coll /\ Here(d) = job[d].coll
    BY JobsOf DEF Here
  <1>m. /\ \A c \in Coll : c # Here(d) => mem'[c] = mem[c]
        /\ \A c \in Coll : Keeps(c)
        /\ ReplaySnapshot(d) \/ ReplayFlush(d) => mem' = mem
    BY ReplayStores DEF StoreMoves
  <1>1. CASE ReplaySnapshot(d)
    <2>1. job[d].pc # "none" /\ job'[d].pc # "none" /\ job'[d].coll = Here(d)
          /\ \A e \in Dreamer : e # d => job'[e] = job[e]
      BY <1>1, SnapshotSteps DEF ReplaySnapshot, Running
    <2>. QED  BY <1>m, <1>1, <2>1, StaysQuiet DEF ReplaySnapshot, hives, history, ticking
  <1>2. CASE ReplayWrite(d)
    <2>1. /\ job'[d] = [job[d] EXCEPT !.todo = Tail(@)]
          /\ \A e \in Dreamer : e # d => job'[e] = job[e]
      BY <1>2, TodoSteps DEF ReplayWrite, Running
    <2>2. job[d].pc # "none" /\ job'[d].pc # "none" /\ job'[d].coll = Here(d)
      BY <1>0, <1>2, <2>1 DEF ReplayWrite, Running, Jobs
    <2>3. touched \subseteq touched' /\ (Here(d) \in touched' \/ d = "loop")
      BY <1>0, <1>2, TouchesMarks DEF ReplayWrite
    <2>. QED  BY <1>m, <1>2, <2>1, <2>2, <2>3 DEF ReplayWrite, StaysHome, ticking
  <1>3. CASE ReplayMerge(d)
    <2>1. /\ job'[d].pc = "replay" /\ job'[d].coll = Here(d)
          /\ \A e \in Dreamer : e # d => job'[e] = job[e]
      BY <1>3, PassSteps DEF ReplayMerge, Running
    <2>2. job[d].pc # "none" /\ job'[d].pc # "none" /\ job'[d].coll = Here(d)
      BY <1>3, <2>1 DEF ReplayMerge, Running
    <2>3. touched \subseteq touched' /\ (Here(d) \in touched' \/ d = "loop")
      BY <1>0, <1>3, TouchesMarks DEF ReplayMerge
    <2>. QED  BY <1>m, <1>3, <2>1, <2>2, <2>3 DEF ReplayMerge, StaysHome, ticking
  <1>4. CASE ReplayFlush(d)
    <2>1. /\ job'[d] = [job[d] EXCEPT !.pc = "done"]
          /\ \A e \in Dreamer : e # d => job'[e] = job[e]
      BY <1>4, JobGoes DEF ReplayFlush
    <2>2. job[d].pc # "none" /\ job'[d].pc # "none" /\ job'[d].coll = Here(d)
      BY <1>0, <1>4, <2>1 DEF ReplayFlush, Running, Jobs
    <2>. QED  BY <1>m, <1>4, <2>1, <2>2, StaysQuiet DEF ReplayFlush, history, ticking
  <1>. QED  BY <1>1, <1>2, <1>3, <1>4

LEMMA LadderStaysHome ==
  ASSUME TypedInv, NEW d \in Dreamer,
         \/ LadderRung(d) \/ RungSnapshot(d) \/ RungClear(d) \/ RungWrite(d)
         \/ RungDone(d)
  PROVE  StaysHome(d)
  <1>0. job[d] \in Jobs /\ Here(d) \in Coll /\ Here(d) = job[d].coll
    BY JobsOf DEF Here
  <1>m. LadderRung(d) \/ RungSnapshot(d) \/ RungDone(d) =>
            mem' = mem /\ \A c \in Coll : Keeps(c)
    BY LadderStores, StoreRests DEF TypedInv, StoreMoves, stored
  <1>1. CASE LadderRung(d)
    <2>1. CASE Climbed(d)
      <3>1. /\ job'[d] = [job[d] EXCEPT !.pc = "done"]
            /\ \A e \in Dreamer : e # d => job'[e] = job[e]
        BY <1>1, <2>1, JobGoes DEF LadderRung
      <3>2. job[d].pc # "none" /\ job'[d].pc # "none" /\ job'[d].coll = Here(d)
        BY <1>0, <1>1, <3>1 DEF LadderRung, Running, Jobs
      <3>. QED  BY <1>m, <1>1, <3>1, <3>2, StaysQuiet DEF LadderRung, ticking
    <2>2. CASE ~Climbed(d)
      <3>1. job[d].pass < Passes
        BY <1>0, <2>2, DreamingAssumption DEF Climbed, Jobs
      <3>2. /\ job'[d] = [job[d] EXCEPT !.pc = "source"]
            /\ \A e \in Dreamer : e # d => job'[e] = job[e]
        BY <1>1, <2>2, <3>1, JobGoes DEF LadderRung
      <3>3. job[d].pc # "none" /\ job'[d].pc # "none" /\ job'[d].coll = Here(d)
        BY <1>0, <1>1, <3>2 DEF LadderRung, Running, Jobs
      <3>. QED  BY <1>m, <1>1, <3>2, <3>3, StaysQuiet DEF LadderRung, ticking
    <2>. QED  BY <2>1, <2>2
  <1>2. CASE RungSnapshot(d)
    <2>1. job[d].pc # "none" /\ job'[d].pc # "none" /\ job'[d].coll = Here(d)
          /\ \A e \in Dreamer : e # d => job'[e] = job[e]
      BY <1>2, RungReads DEF RungSnapshot, Running
    <2>. QED  BY <1>m, <1>2, <2>1, StaysQuiet DEF RungSnapshot, hives, history, ticking
  <1>3. CASE RungClear(d)
    <2>1. /\ Dst(d) \in Coll /\ Dst(d)[1] = Here(d)[1]
          /\ \A c \in Coll : c # Dst(d) => mem'[c] = mem[c] /\ Keeps(c)
      BY <1>3, LadderStores
    <2>2. /\ job'[d] = [job[d] EXCEPT !.pc = "law"]
          /\ \A e \in Dreamer : e # d => job'[e] = job[e]
      BY <1>3, JobGoes DEF RungClear, Running, TypedInv, JobsAreFormed
    <2>3. job[d].pc # "none" /\ job'[d].pc # "none" /\ job'[d].coll = Here(d)
      BY <1>0, <1>3, <2>2 DEF RungClear, Running, Jobs
    <2>4. touched \subseteq touched' /\ (Dst(d) \in touched' \/ (d = "loop" /\ Dst(d) = Here(d)))
      BY <1>3, <2>1, TouchesMarks DEF RungClear
    <2>5. /\ mode' = mode /\ learned' = learned /\ names' = names
          /\ loop' = loop /\ last_dreamed' = last_dreamed
      BY <1>3 DEF RungClear, ticking
    <2>. QED  BY <1>3, <2>1, <2>2, <2>3, <2>4, <2>5 DEF StaysHome
  <1>4. CASE RungWrite(d)
    <2>1. /\ Dst(d) \in Coll /\ Dst(d)[1] = Here(d)[1]
          /\ \A c \in Coll : c # Dst(d) => mem'[c] = mem[c] /\ Keeps(c)
          /\ Keeps(Dst(d))
      BY <1>4, LadderStores DEF Keeps
    <2>2. /\ job'[d] = [job[d] EXCEPT !.todo = Tail(@)]
          /\ \A e \in Dreamer : e # d => job'[e] = job[e]
      BY <1>4, TodoSteps DEF RungWrite, Running
    <2>3. job[d].pc # "none" /\ job'[d].pc # "none" /\ job'[d].coll = Here(d)
      BY <1>0, <1>4, <2>2 DEF RungWrite, Running, Jobs
    <2>4. touched \subseteq touched' /\ (Dst(d) \in touched' \/ (d = "loop" /\ Dst(d) = Here(d)))
      BY <1>4, <2>1, TouchesMarks DEF RungWrite
    <2>5. /\ mode' = mode /\ learned' = learned /\ names' = names
          /\ loop' = loop /\ last_dreamed' = last_dreamed
      BY <1>4 DEF RungWrite, ticking
    <2>. QED  BY <2>1, <2>2, <2>3, <2>4, <2>5 DEF StaysHome
  <1>5. CASE RungDone(d)
    <2>1. /\ job'[d].pc = "rung" /\ job'[d].coll = Here(d)
          /\ \A e \in Dreamer : e # d => job'[e] = job[e]
      BY <1>5, PassSteps DEF RungDone, Running
    <2>2. job[d].pc # "none" /\ job'[d].pc # "none" /\ job'[d].coll = Here(d)
      BY <1>5, <2>1 DEF RungDone, Running
    <2>. QED  BY <1>m, <1>5, <2>1, <2>2, StaysQuiet DEF RungDone, hives, history, ticking
  <1>. QED  BY <1>1, <1>2, <1>3, <1>4, <1>5

LEMMA FailsStaysHome ==
  ASSUME TypedInv, NEW d \in Dreamer, DreamFails(d)
  PROVE  StaysHome(d)
  <1>0. job[d] \in Jobs /\ Here(d) \in Coll /\ Here(d) = job[d].coll
        /\ Dst(d)[1] = Here(d)[1]
    BY JobsOf DEF Here
  <1>1. /\ job'[d] = [job[d] EXCEPT !.pc = "failed"]
        /\ \A e \in Dreamer : e # d => job'[e] = job[e]
    BY JobGoes DEF DreamFails
  <1>2. job[d].pc # "none" /\ job'[d].pc # "none" /\ job'[d].coll = Here(d)
    BY <1>0, <1>1 DEF DreamFails, Transacting, Jobs
  <1>3. PICK S \in SUBSET Coll : /\ StoreMoves(S) /\ S \subseteq Changing(d)
                                 /\ touched' = touched \cup S
    BY FailsTyped
  <1>4. \A c \in Changing(d) : c[1] = Here(d)[1]
    BY <1>0 DEF Changing
  <1>5. /\ mode' = mode /\ learned' = learned /\ names' = names
        /\ loop' = loop /\ last_dreamed' = last_dreamed
    BY DEF DreamFails, ticking
  <1>. QED  BY <1>1, <1>2, <1>3, <1>4, <1>5 DEF StaysHome, StoreMoves

LEMMA DreamsStayHome ==
  ASSUME TypedInv, NEW d \in Dreamer, DreamSteps(d) \/ DreamFails(d)
  PROVE  StaysHome(d)
  BY ReplayStaysHome, LadderStaysHome, FailsStaysHome DEF DreamSteps

(* Requests that change memory: a write, one that fails, a restart.        *)
LEMMA ClientWrites ==
  ASSUME TypedInv, NEW b \in Db, ClientWrite(b)
  PROVE  \E x \in Item :
            /\ learned' = [learned EXCEPT ![b] = @ \cup {x}]
            /\ Items(mem'[Base(b)]) = Items(mem[Base(b)]) \cup {x}
            /\ StoreMoves({Base(b)})
            /\ touched' = touched \cup {Base(b)}
  <1>. DEFINE x == Cardinality(learned[b]) + 1
  <1>1. x \in Item /\ {x} \in SUBSET Item
    BY LearnsNext DEF ClientWrite, TypedInv
  <1>2. /\ \E n \in written(Base(b), {x}) : Becomes(Base(b), n)
        /\ learned' = [learned EXCEPT ![b] = @ \cup {x}]
        /\ touched' = touched \cup {Base(b)}
    BY DEF ClientWrite
  <1>. HIDE DEF x
  <1>3. PICK n \in written(Base(b), {x}) : Becomes(Base(b), n)
    BY <1>2
  <1>4. Base(b) \in Coll
    BY Collections
  <1>5. StoreMoves({Base(b)}) /\ Items(mem'[Base(b)]) = Items(mem[Base(b)]) \cup {x}
    BY <1>1, <1>3, <1>4, StoreBecomes DEF TypedInv
  <1>. QED  BY <1>1, <1>2, <1>5

LEMMA ClientWritesFail ==
  ASSUME TypedInv, NEW b \in Db, ClientWriteFails(b)
  PROVE  /\ StoreMoves({Base(b)}) /\ learned' = learned
         /\ touched' = touched \cup {Base(b)}
  <1>1. Base(b) \in Coll /\ {Base(b)} \in SUBSET Coll
    BY Collections
  <1>. QED  BY <1>1, StoreRereads DEF ClientWriteFails, TypedInv

-----------------------------------------------------------------------------
(* No base loses what it acknowledged, but by a reread before the flush.   *)

BaseHolds == \A b \in Db : Base(b) \notin hurt => learned[b] \subseteq Items(mem[Base(b)])

LEMMA HoldsFlushed == StoreTyped /\ BaseHolds => FlushedIsKept
  BY Collections DEF StoreTyped, BaseHolds, FlushedIsKept

LEMMA HoldsInit == Init => BaseHolds
  <1>. SUFFICES ASSUME Init, NEW b \in Db PROVE learned[b] \subseteq Items(mem[Base(b)])
    BY DEF BaseHolds
  <1>1. learned[b] = {1} /\ mem[Base(b)] = <<{1}>>
    BY Collections DEF Init
  <1>2. 1 \in DOMAIN <<{1}>> /\ <<{1}>>[1] = {1}
    OBVIOUS
  <1>. QED  BY <1>1, <1>2, ItemsOf

LEMMA HoldsNext ==
  ASSUME TypedInv, BaseHolds, [Next]_vars
  PROVE  BaseHolds'
  <1>0. StoreTyped
    BY DEF TypedInv
  <1>1. ASSUME learned' = learned, \A b \in Db : Keeps(Base(b)) PROVE BaseHolds'
    BY <1>1 DEF BaseHolds, Keeps
  <1>2. ASSUME learned' = learned, NEW S, StoreMoves(S) PROVE BaseHolds'
    BY <1>1, <1>2, Collections DEF StoreMoves
  <1>3. ASSUME NEW d \in Dreamer, DreamSteps(d) \/ DreamFails(d)
        PROVE  BaseHolds'
    <2>1. learned' = learned
          /\ \A c \in Coll : Keeps(c) \/ (RungClear(d) /\ c = Dst(d))
      BY <1>3, DreamsStayHome DEF StaysHome
    <2>2. RungClear(d) => IsLevel(Dst(d))
      BY DstIsALevel DEF RungClear, Running
    <2>3. \A b \in Db : Keeps(Base(b))
      BY <2>1, <2>2, Collections
    <2>. QED  BY <1>1, <2>1, <2>3
  <1>4. ASSUME NEW b \in Db, ClientWrite(b) PROVE BaseHolds'
    <2>1. PICK x \in Item :
              /\ learned' = [learned EXCEPT ![b] = @ \cup {x}]
              /\ Items(mem'[Base(b)]) = Items(mem[Base(b)]) \cup {x}
              /\ StoreMoves({Base(b)})
      BY <1>4, ClientWrites
    <2>2. learned \in [Db -> SUBSET Item]
      BY DEF TypedInv, RestTyped
    <2>3. ASSUME NEW e \in Db, Base(e) \notin hurt'
          PROVE  learned'[e] \subseteq Items(mem'[Base(e)])
      <3>1. Keeps(Base(e))
        BY <2>1, Collections DEF StoreMoves
      <3>2. learned[e] \subseteq Items(mem[Base(e)])
            /\ Items(mem[Base(e)]) \subseteq Items(mem'[Base(e)])
        BY <2>3, <3>1 DEF Keeps, BaseHolds
      <3>3. learned'[e] = IF e = b THEN learned[e] \cup {x} ELSE learned[e]
        BY <2>1, <2>2
      <3>. QED  BY <2>1, <3>2, <3>3
    <2>. QED  BY <2>3 DEF BaseHolds
  <1>5. ASSUME NEW b \in Db, ClientWriteFails(b) PROVE BaseHolds'
    BY <1>2, <1>5, ClientWritesFail
  <1>6. CASE \/ LoopWakes \/ LoopSleeps \/ LoopLists \/ LoopListed \/ LoopSkips
             \/ LoopDreams \/ LoopSettles \/ LoopWarns
    <2>1. learned' = learned /\ UNCHANGED stored
      BY <1>6 DEF LoopWakes, LoopSleeps, LoopLists, LoopListed, LoopSkips,
                  LoopDreams, LoopSettles, LoopWarns, hives, history
    <2>. QED  BY <1>0, <1>2, <2>1, StoreRests
  <1>7. CASE \/ \E b \in Db, m \in Asked : Trigger(b, m)
             \/ TriggerNext \/ TriggerAnswers \/ Idles
    <2>1. learned' = learned /\ UNCHANGED stored
      BY <1>7 DEF Trigger, TriggerNext, TriggerAnswers, Idles, hives, history
    <2>. QED  BY <1>0, <1>2, <2>1, StoreRests
  <1>8. CASE Restart
    BY <1>0, <1>2, <1>8, StoreRereads DEF Restart
  <1>9. CASE UNCHANGED vars
    BY <1>0, <1>2, <1>9, StoreRests DEF vars, stored
  <1>. QED  BY <1>3, <1>4, <1>5, <1>6, <1>7, <1>8, <1>9
            DEF Next, LoopSteps, TriggerSteps, Requests, Triggers, Dreamer

(* Dreams write attractors back, unite locations and store the result only *)
(* when they end, fail half way and interleave with the writes of clients, *)
(* and with one another: a base loses an item it acknowledged only if its  *)
(* memory is put back to the store between a merge and the flush, and has  *)
(* every other one in the store once the merge is flushed.                 *)
THEOREM FlushedCorrect == Spec => []FlushedIsKept
  <1>. DEFINE IInv == TypedInv /\ BaseHolds
  <1>1. Init => IInv
    BY TypedInit, HoldsInit
  <1>2. IInv /\ [Next]_vars => IInv'
    BY TypedNext, HoldsNext
  <1>3. IInv => FlushedIsKept
    BY HoldsFlushed DEF TypedInv
  <1>. QED  BY <1>1, <1>2, <1>3, PTL DEF Spec

-----------------------------------------------------------------------------
(* The loop leaves alone what only its own dream has changed.              *)

(* The loop is dreaming while its job runs, and dreams what it named.      *)
LoopIsItsJob ==
    /\ (loop.pc = "dreaming") <=> (job["loop"].pc # "none")
    /\ loop.pc = "dreaming" => Here("loop") = loop.name

(* What nobody touched since the loop dreamed it is being dreamed, or has  *)
(* the count that the loop recorded for it.                                *)
SettledOrTouched ==
    \A c \in Coll : \/ c \in touched
                    \/ loop.pc = "dreaming" /\ loop.name = c
                    \/ last_dreamed[c] = Count(c)

QuietInv == TypedInv /\ LoopIsItsJob /\ SettledOrTouched

LEMMA QuietInit == Init => QuietInv
  BY TypedInit DEF Init, QuietInv, LoopIsItsJob, SettledOrTouched, Asleep, NoJob, Dreamer

LEMMA LoopStaysAwake ==
  ASSUME loop \in Loops,
         LoopWakes \/ LoopSleeps \/ LoopLists \/ LoopListed \/ LoopSkips
  PROVE  loop.pc # "dreaming" /\ loop'.pc # "dreaming"
  <1>1. CASE LoopWakes
    BY <1>1 DEF LoopWakes, Loops
  <1>2. CASE LoopSleeps
    BY <1>2 DEF LoopSleeps, Loops, Asleep
  <1>3. CASE LoopLists
    BY <1>3 DEF LoopLists, Loops
  <1>4. CASE LoopListed
    BY <1>4 DEF LoopListed, Loops
  <1>5. CASE LoopSkips
    BY <1>5 DEF LoopSkips, Loops
  <1>. QED  BY <1>1, <1>2, <1>3, <1>4, <1>5

LEMMA QuietNext ==
  ASSUME QuietInv, [Next]_vars
  PROVE  QuietInv'
  <1>0. TypedInv /\ TypedInv' /\ loop \in Loops /\ job["loop"] \in Jobs
        /\ job \in [Dreamer -> Jobs]
        /\ touched \subseteq Coll /\ last_dreamed \in [Coll -> -1 .. MaxLoc]
        /\ "loop" \in Dreamer /\ "trigger" \in Dreamer
    BY TypedNext DEF QuietInv, TypedInv, RestTyped, Loops, Dreamer
  <1>1. ASSUME NEW d \in Dreamer, DreamSteps(d) \/ DreamFails(d)
        PROVE  QuietInv'
    <2>1. StaysHome(d)
      BY <1>0, <1>1, DreamsStayHome
    <2>2. LoopIsItsJob'
      BY <1>0, <2>1 DEF StaysHome, QuietInv, LoopIsItsJob, Here
    <2>3. ASSUME NEW c \in Coll
          PROVE  \/ c \in touched' \/ (loop'.pc = "dreaming" /\ loop'.name = c)
                 \/ last_dreamed'[c] = Len(mem'[c])
      <3>0. /\ touched \subseteq touched' /\ loop' = loop /\ last_dreamed' = last_dreamed
            /\ mem'[c] # mem[c] => c \in touched' \/ (d = "loop" /\ c = Here(d))
            /\ job[d].pc # "none"
        BY <2>1 DEF StaysHome
      <3>1. CASE mem'[c] = mem[c]
        <4>1. \/ c \in touched \/ (loop.pc = "dreaming" /\ loop.name = c)
              \/ last_dreamed[c] = Len(mem[c])
          BY DEF QuietInv, SettledOrTouched, Count
        <4>. QED  BY <3>0, <3>1, <4>1
      <3>2. CASE d = "loop" /\ c = Here(d)
        BY <3>0, <3>2 DEF QuietInv, LoopIsItsJob
      <3>. QED  BY <3>0, <3>1, <3>2
    <2>4. SettledOrTouched'
      BY <2>3 DEF SettledOrTouched, Count
    <2>. QED  BY <1>0, <2>2, <2>4 DEF QuietInv
  <1>2. ASSUME NEW b \in Db, ClientWrite(b) \/ ClientWriteFails(b) PROVE QuietInv'
    <2>1. /\ \A c \in Coll : c # Base(b) => mem'[c] = mem[c]
          /\ touched' = touched \cup {Base(b)}
      BY <1>0, <1>2, ClientWrites, ClientWritesFail DEF StoreMoves
    <2>2. loop' = loop /\ last_dreamed' = last_dreamed /\ job' = job
      BY <1>2 DEF ClientWrite, ClientWriteFails
    <2>3. LoopIsItsJob'
      BY <2>2 DEF QuietInv, LoopIsItsJob, Here
    <2>4. ASSUME NEW c \in Coll
          PROVE  \/ c \in touched' \/ (loop'.pc = "dreaming" /\ loop'.name = c)
                 \/ last_dreamed'[c] = Len(mem'[c])
      <3>1. \/ c \in touched \/ (loop.pc = "dreaming" /\ loop.name = c)
            \/ last_dreamed[c] = Len(mem[c])
        BY DEF QuietInv, SettledOrTouched, Count
      <3>2. CASE c = Base(b)
        <4>1. c \in touched'
          BY <2>1, <3>2
        <4>. QED  BY <4>1
      <3>3. CASE c # Base(b)
        <4>1. mem'[c] = mem[c] /\ touched \subseteq touched'
          BY <2>1, <3>3
        <4>. QED  BY <2>2, <3>1, <4>1
      <3>. QED  BY <3>2, <3>3
    <2>5. SettledOrTouched'
      BY <2>4 DEF SettledOrTouched, Count
    <2>. QED  BY <1>0, <2>3, <2>5 DEF QuietInv
  (* The loop between two dreams.                                          *)
  <1>3. ASSUME loop.pc # "dreaming", loop'.pc # "dreaming", job' = job, mem' = mem,
               touched' = touched, last_dreamed' = last_dreamed
        PROVE  QuietInv'
    <2>1. LoopIsItsJob'
      BY <1>3 DEF QuietInv, LoopIsItsJob, Here
    <2>2. SettledOrTouched'
      BY <1>3 DEF QuietInv, SettledOrTouched, Count
    <2>. QED  BY <1>0, <2>1, <2>2 DEF QuietInv
  <1>4. CASE LoopWakes \/ LoopSleeps \/ LoopLists \/ LoopListed \/ LoopSkips
    <2>1. loop.pc # "dreaming" /\ loop'.pc # "dreaming"
      BY <1>0, <1>4, LoopStaysAwake
    <2>2. job' = job /\ mem' = mem /\ touched' = touched /\ last_dreamed' = last_dreamed
      BY <1>4 DEF LoopWakes, LoopSleeps, LoopLists, LoopListed, LoopSkips, hives, stored,
                  history
    <2>. QED  BY <1>3, <2>1, <2>2
  <1>5. CASE LoopDreams
    <2>1. PICK c \in loop.names :
            /\ loop' = [loop EXCEPT !.pc = "dreaming", !.names = @ \ {c},
                                    !.name = c, !.count = Count(c)]
            /\ Begun("loop", c, mode[c[1]])
            /\ touched' = touched \ {c}
      BY <1>5 DEF LoopDreams
    <2>2. c \in Coll /\ mode[c[1]] \in {"replay", "ladder"}
      BY <1>0, Collections DEF Loops, TypedInv, RestTyped
    <2>3. job'["loop"].pc # "none" /\ job'["loop"].coll = c
      BY <1>0, <2>1, <2>2, JobBegins
    <2>4. loop'.pc = "dreaming" /\ loop'.name = c
      BY <1>0, <2>1 DEF Loops
    <2>5. LoopIsItsJob'
      BY <2>3, <2>4 DEF LoopIsItsJob, Here
    <2>6. loop.pc # "dreaming" /\ last_dreamed' = last_dreamed /\ mem' = mem
      BY <1>5 DEF LoopDreams, hives, stored
    <2>7. SettledOrTouched'
      BY <2>1, <2>4, <2>6 DEF QuietInv, SettledOrTouched, Count
    <2>. QED  BY <1>0, <2>5, <2>7 DEF QuietInv
  <1>6. CASE LoopSettles \/ LoopWarns
    <2>1. loop.name \in Coll /\ loop'.pc = "collections" /\ job'["loop"].pc = "none"
      BY <1>0, <1>6 DEF LoopSettles, LoopWarns, Loops, NoJob
    <2>2. LoopIsItsJob'
      BY <2>1 DEF LoopIsItsJob
    <2>3. mem' = mem /\ touched \subseteq touched'
          /\ \A c \in Coll : c # loop.name => last_dreamed'[c] = last_dreamed[c]
      BY <1>0, <1>6 DEF LoopSettles, LoopWarns, hives, stored, history
    <2>4. loop.name \in touched' \/ last_dreamed'[loop.name] = Count(loop.name)
      BY <1>0, <1>6, <2>1 DEF LoopSettles, LoopWarns, settled
    <2>5. SettledOrTouched'
      BY <2>3, <2>4 DEF QuietInv, SettledOrTouched, Count
    <2>. QED  BY <1>0, <2>2, <2>5 DEF QuietInv
  (* The others' steps leave the loop where it is.                         *)
  <1>7. ASSUME loop' = loop, job'["loop"] = job["loop"], mem' = mem,
               touched' = touched, last_dreamed' = last_dreamed
        PROVE  QuietInv'
    <2>1. LoopIsItsJob'
      BY <1>7 DEF QuietInv, LoopIsItsJob, Here
    <2>2. SettledOrTouched'
      BY <1>7 DEF QuietInv, SettledOrTouched, Count
    <2>. QED  BY <1>0, <2>1, <2>2 DEF QuietInv
  <1>8. CASE TriggerNext
    <2>1. PICK c \in names : Begun("trigger", c, job["trigger"].mode)
      BY <1>8 DEF TriggerNext
    <2>2. job'["loop"] = job["loop"]
      BY <1>0, <2>1 DEF Begun
    <2>. QED  BY <1>7, <1>8, <2>2 DEF TriggerNext, hives, stored, history, ticking
  <1>9. CASE (\E b \in Db, m \in Asked : Trigger(b, m)) \/ TriggerAnswers
    <2>1. job'["loop"] = job["loop"]
      BY <1>0, <1>9 DEF Trigger, TriggerAnswers
    <2>. QED  BY <1>7, <1>9, <2>1 DEF Trigger, TriggerAnswers, hives, stored, history,
                                      ticking
  <1>10. CASE Idles \/ UNCHANGED vars
    BY <1>7, <1>10 DEF Idles, vars, hives, stored, history
  <1>11. CASE Restart
    <2>1. loop'.pc = "asleep" /\ job'["loop"].pc = "none" /\ touched' = Coll
      BY <1>0, <1>11 DEF Restart, Asleep, NoJob
    <2>. QED  BY <1>0, <2>1 DEF QuietInv, LoopIsItsJob, SettledOrTouched
  <1>. QED  BY <1>1, <1>2, <1>4, <1>5, <1>6, <1>8, <1>9, <1>10, <1>11
            DEF Next, LoopSteps, TriggerSteps, Requests, Triggers, Dreamer

(* The loop begins a dream of a collection only if a client, a dream asked *)
(* for by hand or another collection's dream changed it, a dream of it     *)
(* failed, or the process started, since it dreamed it last.               *)
THEOREM QuiescentCorrect == Spec => QuiescentIsLeftAlone
  <1>1. Init => QuietInv
    BY QuietInit
  <1>2. QuietInv /\ [Next]_vars => QuietInv'
    BY QuietNext
  <1>3. QuietInv /\ [Next]_vars =>
          [\A c \in Coll : (loop.pc = "collections" /\ loop'.pc = "dreaming"
                              /\ loop'.name = c) => c \in touched]_vars
    <2>. SUFFICES ASSUME QuietInv, Next, NEW c \in Coll, loop.pc = "collections",
                         loop'.pc = "dreaming", loop'.name = c
                  PROVE  c \in touched
      BY DEF vars
    <2>0. TypedInv /\ loop \in Loops
      BY DEF QuietInv, TypedInv, RestTyped, Loops
    <2>1. LoopDreams
      <3>1. ~(\E d \in Dreamer : DreamSteps(d) \/ DreamFails(d))
        BY <2>0, DreamsStayHome DEF StaysHome
      <3>2. ~(LoopWakes \/ LoopSleeps \/ LoopLists \/ LoopListed \/ LoopSkips
              \/ LoopSettles \/ LoopWarns)
        BY <2>0, LoopStaysAwake DEF LoopSettles, LoopWarns, Loops
      <3>3. ~(TriggerNext \/ TriggerAnswers \/ Requests \/ Triggers \/ Idles)
        BY <2>0 DEF TriggerNext, TriggerAnswers, Requests, Triggers, Idles,
                    ClientWrite, ClientWriteFails, Trigger, ticking
      <3>4. ~Restart
        BY DEF Restart, Asleep
      <3>. QED  BY <3>1, <3>2, <3>3, <3>4 DEF Next, LoopSteps, TriggerSteps, Dreamer
    <2>2. c \in loop.names /\ ~Settled(c)
      BY <2>0, <2>1 DEF LoopDreams, Loops
    <2>. QED  BY <2>2 DEF QuietInv, SettledOrTouched, Settled
  <1>. QED  BY <1>1, <1>2, <1>3, PTL DEF Spec, QuiescentIsLeftAlone

-----------------------------------------------------------------------------
(* The first level of a ladder.                                            *)

(* What a ladder has read and not yet written, before it clears the level. *)
JobReads(d) ==
    job[d].pass = 0 => /\ job[d].pc \in {"rung", "source"} => job[d].read = <<>>
                       /\ job[d].pc = "clear" => job[d].todo = job[d].read

(* What a ladder past that has put into the first level, and has still to. *)
Reading(d, b) ==
    IF job[d].pass = 0 THEN fed[b] \o job[d].todo = job[d].read
    ELSE fed[b] = job[d].read

(* A level that one ladder only has filled was given what that one read,   *)
(* and nobody is filling it once the ladder that did has ended.            *)
FilledByOne(b) ==
    /\ \A d \in Dreamer : Climbing(d, b) => Reading(d, b)
    /\ \A d, e \in Dreamer : Climbing(d, b) /\ Climbing(e, b) => d = e
    /\ dreamt[b] # <<>> => fed[b] = dreamt[b] /\ \A d \in Dreamer : ~Climbing(d, b)

LevelHolds(b) == <<b, 1>> \notin hurt => Items(fed[b]) \subseteq Items(mem[<<b, 1>>])

RungInv ==
    /\ TypedInv
    /\ \A d \in Dreamer : JobReads(d)
    /\ \A b \in Db : b \notin crossed => FilledByOne(b)
    /\ \A b \in Db : LevelHolds(b)

LEMMA RungInit == Init => RungInv
  <1>. SUFFICES ASSUME Init PROVE RungInv
    OBVIOUS
  <1>1. \A d \in Dreamer : job[d].pc = "none"
    BY DEF Init, NoJob
  <1>2. \A b \in Db : FilledByOne(b)
    BY <1>1 DEF Init, FilledByOne, Climbing
  <1>3. \A b \in Db : LevelHolds(b)
    BY NoItems DEF Init, LevelHolds
  <1>. QED  BY <1>1, <1>2, <1>3, TypedInit DEF RungInv, JobReads

LEMMA EmptyConcat ==
  ASSUME NEW s \in Locations
  PROVE  <<>> \o s = s /\ s \o <<>> = s
  BY ConcatEmptySeq DEF Locations

LEMMA MoveOne ==
  ASSUME NEW s \in Locations, NEW t \in Locations, t # <<>>
  PROVE  Append(s, Head(t)) \o Tail(t) = s \o t
  <1>1. s \in Seq(SUBSET Item) /\ t \in Seq(SUBSET Item) /\ Len(t) \in Nat \ {0}
        /\ Len(s) \in Nat
    BY DEF Locations
  <1>. DEFINE u == Append(s, Head(t))
              v == Tail(t)
  <1>2. u \in Seq(SUBSET Item) /\ v \in Seq(SUBSET Item) /\ Len(u) = Len(s) + 1
        /\ Len(v) = Len(t) - 1
    BY <1>1, TailItems, AppendItems DEF Locations
  <1>3. /\ \A i \in 1 .. Len(s) : u[i] = s[i]
        /\ u[Len(s) + 1] = t[1]
        /\ \A i \in 1 .. (Len(t) - 1) : v[i] = t[i + 1]
    BY <1>1
  <1>. HIDE DEF u, v
  <1>4. u \o v \in Seq(SUBSET Item) /\ s \o t \in Seq(SUBSET Item)
        /\ Len(u \o v) = Len(s) + Len(t) /\ Len(s \o t) = Len(s) + Len(t)
    BY <1>1, <1>2
  <1>5. ASSUME NEW i \in 1 .. (Len(s) + Len(t)) PROVE (u \o v)[i] = (s \o t)[i]
    <2>1. CASE i \in 1 .. Len(s)
      BY <1>1, <1>2, <1>3, <2>1
    <2>2. CASE i = Len(s) + 1
      BY <1>1, <1>2, <1>3, <2>2
    <2>3. CASE i > Len(s) + 1
      <3>1. i - (Len(s) + 1) \in 1 .. (Len(t) - 1)
        BY <1>1, <2>3
      <3>2. (u \o v)[i] = v[i - (Len(s) + 1)]
        BY <1>1, <1>2, <2>3
      <3>3. (s \o t)[i] = t[i - Len(s)]
        BY <1>1, <2>3
      <3>4. (i - (Len(s) + 1)) + 1 = i - Len(s)
        BY <1>1
      <3>. QED  BY <1>3, <3>1, <3>2, <3>3, <3>4
    <2>4. i \in 1 .. Len(s) \/ i = Len(s) + 1 \/ i > Len(s) + 1
      BY <1>1
    <2>. QED  BY <2>1, <2>2, <2>3, <2>4
  <1>6. u \o v = s \o t
    BY <1>4, <1>5, SeqEqual
  <1>. QED  BY <1>6 DEF u, v

(* A step that puts nothing into a first level, begins or ends no climb.   *)
LEMMA RungRests ==
  ASSUME RungInv, TypedInv', UNCHANGED climbed,
         \A d \in Dreamer : JobReads(d)',
         \A d \in Dreamer, b \in Db :
            Climbing(d, b)' => Climbing(d, b) /\ (Reading(d, b) => Reading(d, b)'),
         \A b \in Db : Keeps(<<b, 1>>)
  PROVE  RungInv'
  <1>1. fed' = fed /\ dreamt' = dreamt /\ crossed' = crossed
    BY DEF climbed
  <1>2. ASSUME NEW b \in Db, b \notin crossed' PROVE FilledByOne(b)'
    <2>1. FilledByOne(b)
      BY <1>1, <1>2 DEF RungInv
    <2>2. (\A d \in Dreamer : Climbing(d, b) => Reading(d, b))'
      BY <2>1 DEF FilledByOne
    <2>3. (\A d, e \in Dreamer : Climbing(d, b) /\ Climbing(e, b) => d = e)'
      BY <2>1 DEF FilledByOne
    <2>4. (dreamt[b] # <<>> => fed[b] = dreamt[b] /\ \A d \in Dreamer : ~Climbing(d, b))'
      BY <1>1, <2>1 DEF FilledByOne
    <2>. QED  BY <2>2, <2>3, <2>4 DEF FilledByOne
  <1>3. ASSUME NEW b \in Db PROVE LevelHolds(b)'
    BY <1>1 DEF RungInv, LevelHolds, Keeps
  <1>. QED  BY <1>2, <1>3 DEF RungInv

(* The jobs of a step, one dreamer's at most: what the others' say stays.  *)
LEMMA OthersRest ==
  ASSUME RungInv, fed' = fed, NEW d \in Dreamer, job'[d] = job[d]
  PROVE  /\ JobReads(d)'
         /\ \A b \in Db : /\ Climbing(d, b)' <=> Climbing(d, b)
                          /\ Reading(d, b)' <=> Reading(d, b)
  BY DEF RungInv, JobReads, Climbing, Reading, Here

(* A job that is in no climb, or begins one, has read nothing.             *)
LEMMA RestingJob ==
  ASSUME NEW d \in Dreamer,
         \/ job'[d].pc \in {"none", "replay", "write", "flush", "done", "failed"}
         \/ job'[d].pc = "rung" /\ job'[d].pass = 0 /\ job'[d].read = <<>>
  PROVE  JobReads(d)' /\ \A b \in Db : ~Climbing(d, b)'
  BY DEF JobReads, Climbing

(* Steps that leave the histories alone and every job where it is, but for *)
(* jobs that rest.                                                         *)
Rests(d) ==
    \/ job'[d] = job[d]
    \/ job'[d].pc \in {"none", "replay", "write", "flush", "done", "failed"}
    \/ job'[d].pc = "rung" /\ job'[d].pass = 0 /\ job'[d].read = <<>>

LEMMA AllRest ==
  ASSUME RungInv, TypedInv', UNCHANGED climbed, \A d \in Dreamer : Rests(d),
         \A c \in Coll : Keeps(c)
  PROVE  RungInv'
  <1>1. fed' = fed
    BY DEF climbed
  <1>2. ASSUME NEW d \in Dreamer
        PROVE  /\ JobReads(d)'
               /\ \A b \in Db : Climbing(d, b)' =>
                     Climbing(d, b) /\ (Reading(d, b) => Reading(d, b)')
    BY <1>1, OthersRest, RestingJob DEF Rests
  <1>3. \A b \in Db : Keeps(<<b, 1>>)
    BY Collections
  <1>. QED  BY <1>2, <1>3, RungRests


LEMMA OneMoves ==
  ASSUME RungInv, TypedInv', UNCHANGED climbed, NEW d \in Dreamer,
         \A e \in Dreamer : e # d => job'[e] = job[e],
         JobReads(d)',
         \A b \in Db :
            Climbing(d, b)' => Climbing(d, b) /\ (Reading(d, b) => Reading(d, b)'),
         \A b \in Db : Keeps(<<b, 1>>)
  PROVE  RungInv'
  <1>1. fed' = fed
    BY DEF climbed
  <1>2. ASSUME NEW e \in Dreamer
        PROVE  /\ JobReads(e)'
               /\ \A b \in Db : Climbing(e, b)' =>
                     Climbing(e, b) /\ (Reading(e, b) => Reading(e, b)')
    <2>1. CASE e = d
      BY <2>1
    <2>2. CASE e # d
      BY <1>1, <2>2, OthersRest
    <2>. QED  BY <2>1, <2>2
  <1>. QED  BY <1>2, RungRests

(* The steps of a ladder that leave the first level, and what is known of  *)
(* it, alone.                                                              *)
LEMMA ClimbRests ==
  ASSUME RungInv, TypedInv', NEW d \in Dreamer,
         \/ LadderRung(d) /\ ~Climbed(d)
         \/ RungSnapshot(d) \/ RungDone(d)
         \/ (RungClear(d) \/ RungWrite(d)) /\ job[d].pass > 0
  PROVE  RungInv'
  <1>0. /\ TypedInv /\ JobReads(d) /\ job[d] \in Jobs /\ job[d].pass \in Nat
        /\ \A b \in Db : fed[b] \in Locations
    <2>1. TypedInv
      BY DEF RungInv
    <2>2. job[d] \in Jobs
      BY <2>1, JobsOf
    <2>3. job[d].pass \in 0 .. Passes
      BY <2>2 DEF Jobs
    <2>. QED  BY <2>1, <2>2, <2>3, DreamingAssumption DEF RungInv, TypedInv, RestTyped
  <1>1. CASE LadderRung(d) /\ ~Climbed(d)
    <2>1. /\ job'[d] = [job[d] EXCEPT !.pc = "source"] /\ job[d].pc = "rung"
          /\ \A e \in Dreamer : e # d => job'[e] = job[e]
      BY <1>0, <1>1, JobGoes, JobsOf, DreamingAssumption
         DEF LadderRung, Climbed, Jobs, Running
    <2>2. UNCHANGED climbed /\ UNCHANGED stored
      BY <1>1 DEF LadderRung, climbed
    <2>3. \A b \in Db : Keeps(<<b, 1>>)
      BY <2>2 DEF stored, Keeps
    <2>4. JobReads(d)' /\ \A b \in Db :
            Climbing(d, b)' => Climbing(d, b) /\ (Reading(d, b) => Reading(d, b)')
      BY <1>0, <2>1, <2>2 DEF JobReads, Climbing, Reading, Here, climbed, Jobs
    <2>. QED  BY <2>1, <2>2, <2>3, <2>4, OneMoves
  <1>2. CASE RungSnapshot(d)
    <2>1. /\ job'[d].pc = "clear" /\ job'[d].coll = Here(d)
          /\ job'[d].pass = job[d].pass /\ job'[d].todo = mem[Src(d)]
          /\ job'[d].read = IF job[d].pass = 0 THEN mem[Src(d)] ELSE job[d].read
          /\ \A e \in Dreamer : e # d => job'[e] = job[e]
          /\ job[d].pc = "source"
      BY <1>0, <1>2, RungReads DEF RungSnapshot, Running
    <2>2. UNCHANGED climbed /\ UNCHANGED stored
      BY <1>2 DEF RungSnapshot, history, hives, stored
    <2>3. \A b \in Db : Keeps(<<b, 1>>)
      BY <2>2 DEF stored, Keeps
    <2>4. JobReads(d)'
      BY <2>1 DEF JobReads
    <2>5. ASSUME NEW b \in Db, Climbing(d, b)'
          PROVE  Climbing(d, b) /\ (Reading(d, b) => Reading(d, b)')
      <3>1. job[d].pass > 0 /\ Here(d)[1] = b
        BY <2>1, <2>5 DEF Climbing, Here
      <3>2. job[d].pass # 0
        BY <1>0, <3>1
      <3>3. job'[d].read = job[d].read /\ fed'[b] = fed[b]
        BY <2>1, <2>2, <3>2 DEF climbed
      <3>4. Reading(d, b) => Reading(d, b)'
        BY <2>1, <3>2, <3>3 DEF Reading
      <3>. QED  BY <2>1, <3>1, <3>4 DEF Climbing
    <2>. QED  BY <2>1, <2>2, <2>3, <2>4, <2>5, OneMoves
  <1>3. CASE RungDone(d)
    <2>1. /\ job'[d].pc = "rung" /\ job'[d].pass = job[d].pass + 1
          /\ job'[d].coll = Here(d) /\ job'[d].read = job[d].read
          /\ \A e \in Dreamer : e # d => job'[e] = job[e]
          /\ job[d].pc = "law" /\ job[d].todo = <<>>
      BY <1>0, <1>3, PassSteps DEF RungDone, Running
    <2>2. UNCHANGED climbed /\ UNCHANGED stored
      BY <1>3 DEF RungDone, history, hives, stored
    <2>3. \A b \in Db : Keeps(<<b, 1>>)
      BY <2>2 DEF stored, Keeps
    <2>4. job[d].pass + 1 # 0 /\ job[d].pass + 1 > 0
      BY <1>0
    <2>5. \A b \in Db : fed[b] \o <<>> = fed[b] /\ fed'[b] = fed[b]
      BY <1>0, <2>2, EmptyConcat DEF climbed
    <2>6. JobReads(d)'
      BY <2>1, <2>4 DEF JobReads
    <2>7. ASSUME NEW b \in Db, Climbing(d, b)'
          PROVE  Climbing(d, b) /\ (Reading(d, b) => Reading(d, b)')
      <3>1. Climbing(d, b)
        BY <2>1, <2>7 DEF Climbing, Here
      <3>2. Reading(d, b) => fed[b] = job[d].read
        BY <2>1, <2>5 DEF Reading
      <3>3. Reading(d, b)' <=> fed'[b] = job'[d].read
        BY <2>1, <2>4 DEF Reading
      <3>. QED  BY <2>1, <2>5, <3>1, <3>2, <3>3
    <2>. QED  BY <2>1, <2>2, <2>3, <2>6, <2>7, OneMoves
  <1>4. CASE (RungClear(d) \/ RungWrite(d)) /\ job[d].pass > 0
    <2>0. /\ job[d].pc \in {"clear", "law"}
          /\ job[d].pass # 0 /\ Dst(d) # <<Here(d)[1], 1>> /\ Dst(d)[1] = Here(d)[1]
      <3>1. job[d].pc \in {"clear", "law"}
        BY <1>4 DEF RungClear, RungWrite, Running
      <3>2. job[d].pass # 0
        BY <1>0, <1>4
      <3>. QED  BY <1>0, <3>1, <3>2, DstIsALevel
    <2>1. \A b \in Db : Keeps(<<b, 1>>)
      <3>. TAKE b \in Db
      <3>1. <<b, 1>> # Dst(d)
        BY <2>0
      <3>2. <<b, 1>> \in Coll
        BY Collections
      <3>. QED  BY <1>0, <1>4, <3>1, <3>2, LadderStores
    <2>2. UNCHANGED climbed
      BY <1>4, <2>0 DEF RungClear, RungWrite, Refilled, climbed
    <2>3. /\ \A e \in Dreamer : e # d => job'[e] = job[e]
          /\ job'[d].pc = "law" /\ job'[d].coll = Here(d)
          /\ job'[d].pass = job[d].pass /\ job'[d].read = job[d].read
      <3>1. CASE RungClear(d)
        <4>1. job[d].pass < Passes
          BY <1>0, <2>0, DstIsALevel
        <4>2. /\ job'[d] = [job[d] EXCEPT !.pc = "law"]
              /\ \A e \in Dreamer : e # d => job'[e] = job[e]
          BY <1>0, <3>1, <4>1, JobGoes DEF RungClear
        <4>. QED  BY <1>0, <4>2 DEF Jobs, Here
      <3>2. CASE RungWrite(d)
        <4>1. /\ job'[d] = [job[d] EXCEPT !.todo = Tail(@)]
              /\ \A e \in Dreamer : e # d => job'[e] = job[e]
              /\ job[d].pc = "law"
          BY <1>0, <3>2, TodoSteps DEF RungWrite, Running
        <4>. QED  BY <1>0, <4>1 DEF Jobs, Here
      <3>. QED  BY <1>4, <3>1, <3>2
    <2>4. JobReads(d)' /\ \A b \in Db :
            Climbing(d, b)' => Climbing(d, b) /\ (Reading(d, b) => Reading(d, b)')
      BY <1>4, <2>0, <2>2, <2>3 DEF JobReads, Climbing, Reading, Here, climbed
    <2>. QED  BY <2>1, <2>2, <2>3, <2>4, OneMoves
  <1>. QED  BY <1>1, <1>2, <1>3, <1>4

(* A ladder that is up.                                                    *)
LEMMA LadderEnds ==
  ASSUME RungInv, TypedInv', NEW d \in Dreamer, NEW b \in Db, b = Here(d)[1],
         LadderRung(d), Climbed(d)
  PROVE  RungInv'
  <1>0. /\ TypedInv /\ JobReads(d) /\ job[d] \in Jobs /\ b \in Db
        /\ job[d].pass \in Nat /\ dreamt \in [Db -> Locations]
    <2>1. TypedInv
      BY DEF RungInv
    <2>2. job[d] \in Jobs /\ b \in Db
      BY <2>1, JobsOf
    <2>3. job[d].pass \in 0 .. Passes
      BY <2>2 DEF Jobs
    <2>. QED  BY <2>1, <2>2, <2>3, DreamingAssumption DEF RungInv, TypedInv, RestTyped
  <1>1. /\ job'[d].pc = "done"
        /\ \A e \in Dreamer : e # d => job'[e] = job[e]
        /\ job[d].pc = "rung"
    <2>1. Goes(d, "done") /\ job[d].pc = "rung"
      BY DEF LadderRung, Running
    <2>2. /\ job'[d] = [job[d] EXCEPT !.pc = "done"]
          /\ \A e \in Dreamer : e # d => job'[e] = job[e]
      BY <1>0, <2>1, JobGoes
    <2>. QED  BY <1>0, <2>1, <2>2 DEF Jobs
  <1>2. /\ dreamt' = [dreamt EXCEPT ![b] = job[d].read]
        /\ fed' = fed /\ crossed' = crossed /\ UNCHANGED stored
    BY DEF LadderRung
  <1>3. JobReads(d)' /\ \A a \in Db : ~Climbing(d, a)'
    BY <1>1, RestingJob
  <1>4. ASSUME NEW e \in Dreamer, e # d
        PROVE  JobReads(e)' /\ \A a \in Db : /\ Climbing(e, a)' <=> Climbing(e, a)
                                             /\ Reading(e, a)' <=> Reading(e, a)
    BY <1>1, <1>2, <1>4, OthersRest
  <1>5. ASSUME NEW a \in Db, a \notin crossed' PROVE FilledByOne(a)'
    <2>1. FilledByOne(a)
      BY <1>2, <1>5 DEF RungInv
    <2>2. \A e \in Dreamer : Climbing(e, a)' => e # d /\ Climbing(e, a) /\ Reading(e, a)'
      BY <1>3, <1>4, <2>1 DEF FilledByOne
    <2>3. CASE a = b /\ job[d].pass = 0
      <3>1. dreamt'[a] = <<>>
        BY <1>0, <1>1, <1>2, <2>3 DEF JobReads
      <3>. QED  BY <2>1, <2>2, <3>1 DEF FilledByOne
    <2>4. CASE a = b /\ job[d].pass # 0
      <3>1. Climbing(d, a)
        BY <1>0, <1>1, <2>4 DEF Climbing
      <3>2. fed[a] = job[d].read /\ \A e \in Dreamer : Climbing(e, a) => e = d
        BY <2>1, <2>4, <3>1 DEF FilledByOne, Reading
      <3>3. fed'[a] = dreamt'[a]
        BY <1>0, <1>2, <2>4, <3>2
      <3>4. \A e \in Dreamer : ~Climbing(e, a)'
        BY <2>2, <3>2
      <3>. QED  BY <3>3, <3>4 DEF FilledByOne
    <2>5. CASE a # b
      <3>1. dreamt'[a] = dreamt[a] /\ fed'[a] = fed[a]
        BY <1>0, <1>2, <2>5
      <3>. QED  BY <2>1, <2>2, <3>1 DEF FilledByOne
    <2>. QED  BY <2>3, <2>4, <2>5
  <1>6. ASSUME NEW a \in Db PROVE LevelHolds(a)'
    BY <1>2 DEF RungInv, LevelHolds, stored
  <1>. QED  BY <1>3, <1>4, <1>5, <1>6 DEF RungInv

(* A ladder that clears the first level.                                   *)
LEMMA LevelCleared ==
  ASSUME RungInv, TypedInv', NEW d \in Dreamer, NEW b \in Db, b = Here(d)[1],
         RungClear(d), job[d].pass = 0
  PROVE  RungInv'
  <1>0. /\ TypedInv /\ JobReads(d) /\ job[d] \in Jobs /\ b \in Db /\ job[d].pc = "clear"
        /\ fed \in [Db -> Locations] /\ dreamt \in [Db -> Locations]
        /\ job[d].read \in Locations /\ Dst(d) = <<b, 1>> /\ job[d].pass < Passes
    <2>1. TypedInv /\ job[d].pc = "clear"
      BY DEF RungInv, RungClear, Running
    <2>2. job[d] \in Jobs /\ b \in Db
      BY <2>1, JobsOf
    <2>. QED  BY <2>1, <2>2, DstIsALevel DEF RungInv, TypedInv, RestTyped, Jobs, Locations
  <1>1. /\ job'[d] = [job[d] EXCEPT !.pc = "law"]
        /\ \A e \in Dreamer : e # d => job'[e] = job[e]
    BY <1>0, JobGoes DEF RungClear
  <1>2. /\ fed' = [fed EXCEPT ![b] = <<>>] /\ dreamt' = [dreamt EXCEPT ![b] = <<>>]
        /\ crossed' = IF \E e \in Dreamer \ {d} : Climbing(e, b)
                      THEN crossed \cup {b} ELSE crossed \ {b}
    BY DEF RungClear, Refilled
  <1>3. \A c \in Coll : c # Dst(d) => Keeps(c)
    BY <1>0, LadderStores
  <1>4. job'[d].pc = "law" /\ job'[d].pass = 0 /\ job'[d].todo = job[d].read
        /\ job'[d].read = job[d].read /\ job'[d].coll = Here(d)
    BY <1>0, <1>1 DEF JobReads, Jobs, Here
  <1>5. JobReads(d)' /\ (\A a \in Db : Climbing(d, a)' => a = b) /\ Reading(d, b)'
    <2>1. <<>> \o job[d].read = job[d].read
      BY <1>0, EmptyConcat
    <2>2. fed'[b] = <<>>
      BY <1>0, <1>2
    <2>3. Reading(d, b)'
      BY <1>4, <2>1, <2>2 DEF Reading
    <2>. QED  BY <1>4, <2>3 DEF JobReads, Climbing, Here
  <1>6. ASSUME NEW e \in Dreamer, e # d
        PROVE  JobReads(e)' /\ \A a \in Db : Climbing(e, a)' <=> Climbing(e, a)
    BY <1>1, <1>6 DEF RungInv, JobReads, Climbing, Here
  <1>7. ASSUME NEW a \in Db, a \notin crossed' PROVE FilledByOne(a)'
    <2>1. CASE a = b
      <3>1. \A e \in Dreamer : Climbing(e, a)' => e = d
        BY <1>2, <1>6, <1>7, <2>1
      <3>2. dreamt'[a] = <<>>
        BY <1>0, <1>2, <2>1
      <3>. QED  BY <1>5, <2>1, <3>1, <3>2 DEF FilledByOne
    <2>2. CASE a # b
      <3>1. a \notin crossed /\ fed'[a] = fed[a] /\ dreamt'[a] = dreamt[a]
        BY <1>0, <1>2, <1>7, <2>2
      <3>2. FilledByOne(a)
        BY <3>1 DEF RungInv
      <3>3. \A e \in Dreamer : Climbing(e, a)' => e # d /\ Climbing(e, a)
        BY <1>5, <1>6, <2>2
      <3>4. \A e \in Dreamer : e # d => (Reading(e, a)' <=> Reading(e, a))
        BY <1>1, <3>1 DEF Reading
      <3>. QED  BY <3>1, <3>2, <3>3, <3>4 DEF FilledByOne
    <2>. QED  BY <2>1, <2>2
  <1>8. ASSUME NEW a \in Db PROVE LevelHolds(a)'
    <2>1. CASE a = b
      <3>1. fed'[a] = <<>>
        BY <1>0, <1>2, <2>1
      <3>. QED  BY <3>1, NoItems DEF LevelHolds
    <2>2. CASE a # b
      <3>1. <<a, 1>> # Dst(d) /\ <<a, 1>> \in Coll
        BY <1>0, <2>2, Collections
      <3>2. Keeps(<<a, 1>>) /\ fed'[a] = fed[a]
        BY <1>0, <1>2, <1>3, <2>2, <3>1
      <3>. QED  BY <3>2 DEF RungInv, LevelHolds, Keeps
    <2>. QED  BY <2>1, <2>2
  <1>. QED  BY <1>5, <1>6, <1>7, <1>8 DEF RungInv

(* A law written into the first level.                                     *)
LEMMA LevelFed ==
  ASSUME RungInv, TypedInv', NEW d \in Dreamer, NEW b \in Db, b = Here(d)[1],
         RungWrite(d), job[d].pass = 0
  PROVE  RungInv'
  <1>. DEFINE todo == job[d].todo
  <1>0. /\ TypedInv /\ JobReads(d) /\ job[d] \in Jobs /\ b \in Db /\ job[d].pc = "law"
        /\ fed \in [Db -> Locations] /\ todo \in Locations /\ todo # <<>>
        /\ Dst(d) = <<b, 1>>
    <2>1. TypedInv /\ job[d].pc = "law"
      BY DEF RungInv, RungWrite, Running
    <2>2. job[d] \in Jobs /\ b \in Db
      BY <2>1, JobsOf
    <2>. QED  BY <2>1, <2>2, DstIsALevel
              DEF RungInv, TypedInv, RestTyped, Jobs, Locations, RungWrite
  <1>1. /\ job'[d] = [job[d] EXCEPT !.todo = Tail(@)]
        /\ \A e \in Dreamer : e # d => job'[e] = job[e]
        /\ Head(todo) \in SUBSET Item
    BY <1>0, TodoSteps DEF RungWrite
  <1>2. /\ fed' = [fed EXCEPT ![b] = Append(@, Head(todo))]
        /\ dreamt' = dreamt /\ crossed' = crossed
    BY DEF RungWrite
  <1>3. /\ \A c \in Coll : c # Dst(d) => Keeps(c)
        /\ hurt' = hurt
        /\ Items(mem'[Dst(d)]) = Items(mem[Dst(d)]) \cup Head(todo)
    BY <1>0, LadderStores
  <1>4. job'[d].pc = "law" /\ job'[d].pass = 0 /\ job'[d].todo = Tail(todo)
        /\ job'[d].read = job[d].read /\ job'[d].coll = Here(d)
    BY <1>0, <1>1 DEF Jobs, Here
  <1>s. fed[b] \in Locations /\ fed'[b] = Append(fed[b], Head(todo))
        /\ \A a \in Db : a # b => fed'[a] = fed[a]
    BY <1>0, <1>2
  <1>. HIDE DEF todo
  <1>5. /\ JobReads(d)' /\ \A a \in Db : Climbing(d, a)' => a = b
        /\ Climbing(d, b) /\ (Reading(d, b) => Reading(d, b)')
    <2>1. Append(fed[b], Head(todo)) \o Tail(todo) = fed[b] \o todo
      BY <1>0, <1>s, MoveOne
    <2>2. Reading(d, b) => Reading(d, b)'
      BY <1>4, <1>s, <2>1 DEF Reading, todo
    <2>. QED  BY <1>0, <1>4, <2>2 DEF JobReads, Climbing, Here
  <1>6. ASSUME NEW e \in Dreamer, e # d
        PROVE  JobReads(e)' /\ \A a \in Db : Climbing(e, a)' <=> Climbing(e, a)
    BY <1>1, <1>6 DEF RungInv, JobReads, Climbing, Here
  <1>7. ASSUME NEW a \in Db, a \notin crossed' PROVE FilledByOne(a)'
    <2>0. FilledByOne(a)
      BY <1>2, <1>7 DEF RungInv
    <2>1. CASE a = b
      <3>1. \A e \in Dreamer : Climbing(e, a) => e = d
        BY <1>5, <2>0, <2>1 DEF FilledByOne
      <3>2. \A e \in Dreamer : Climbing(e, a)' => e = d
        BY <1>6, <3>1
      <3>3. dreamt'[a] = <<>> /\ Reading(d, a)'
        BY <1>2, <1>5, <2>0, <2>1 DEF FilledByOne
      <3>. QED  BY <3>2, <3>3 DEF FilledByOne
    <2>2. CASE a # b
      <3>1. fed'[a] = fed[a] /\ dreamt'[a] = dreamt[a]
        BY <1>2, <1>s, <2>2
      <3>3. \A e \in Dreamer : Climbing(e, a)' => e # d /\ Climbing(e, a)
        BY <1>5, <1>6, <2>2
      <3>4. \A e \in Dreamer : e # d => (Reading(e, a)' <=> Reading(e, a))
        BY <1>1, <3>1 DEF Reading
      <3>. QED  BY <2>0, <3>1, <3>3, <3>4 DEF FilledByOne
    <2>. QED  BY <2>1, <2>2
  <1>f. Items(fed'[b]) = Items(fed[b]) \cup Head(todo)
    <2>1. Items(Append(fed[b], Head(todo))) = Items(fed[b]) \cup Head(todo)
      BY <1>1, <1>s, AppendItems
    <2>. QED  BY <1>s, <2>1
  <1>8. ASSUME NEW a \in Db PROVE LevelHolds(a)'
    <2>0. LevelHolds(a)
      BY DEF RungInv
    <2>1. CASE a = b
      <3>1. Items(fed'[a]) = Items(fed[a]) \cup Head(todo)
        BY <1>f, <2>1
      <3>. QED  BY <1>0, <1>3, <2>0, <2>1, <3>1 DEF LevelHolds
    <2>2. CASE a # b
      <3>1. <<a, 1>> # Dst(d) /\ <<a, 1>> \in Coll
        BY <1>0, <2>2, Collections
      <3>2. Keeps(<<a, 1>>) /\ fed'[a] = fed[a]
        BY <1>3, <1>s, <2>2, <3>1
      <3>. QED  BY <2>0, <3>2 DEF LevelHolds, Keeps
    <2>. QED  BY <2>1, <2>2
  <1>. QED  BY <1>5, <1>6, <1>7, <1>8 DEF RungInv

(* The steps that neither feed a first level nor climb.                    *)
LEMMA RungNext ==
  ASSUME RungInv, [Next]_vars
  PROVE  RungInv'
  <1>0. /\ TypedInv /\ TypedInv' /\ StoreTyped /\ job \in [Dreamer -> Jobs]
        /\ "loop" \in Dreamer /\ "trigger" \in Dreamer
    BY TypedNext DEF RungInv, TypedInv, RestTyped, Dreamer
  <1>1. ASSUME NEW d \in Dreamer, UNCHANGED climbed, NEW S, StoreMoves(S),
               \A e \in Dreamer : e # d => job'[e] = job[e], Rests(d)
        PROVE  RungInv'
    BY <1>0, <1>1, AllRest DEF Rests, StoreMoves
  <1>2. ASSUME UNCHANGED climbed, NEW S, StoreMoves(S), UNCHANGED job
        PROVE  RungInv'
    BY <1>0, <1>2, AllRest DEF Rests, StoreMoves
  <1>3. ASSUME NEW d \in Dreamer,
               \/ ReplaySnapshot(d) \/ ReplayWrite(d) \/ ReplayMerge(d) \/ ReplayFlush(d)
        PROVE  RungInv'
    <2>1. StoreMoves({Here(d)})
      BY <1>0, <1>3, ReplayStores
    <2>2. UNCHANGED climbed
      BY <1>3 DEF ReplaySnapshot, ReplayWrite, ReplayMerge, ReplayFlush, history
    <2>3. /\ job'[d].pc \in {"replay", "write", "flush", "done"}
          /\ \A e \in Dreamer : e # d => job'[e] = job[e]
      <3>0. job[d] \in Jobs
        BY <1>0
      <3>1. CASE ReplaySnapshot(d)
        BY <1>0, <3>1, SnapshotSteps
      <3>2. CASE ReplayWrite(d)
        <4>1. /\ job'[d] = [job[d] EXCEPT !.todo = Tail(@)] /\ job[d].pc = "write"
              /\ \A e \in Dreamer : e # d => job'[e] = job[e]
          BY <1>0, <3>2, TodoSteps DEF ReplayWrite, Running
        <4>2. job'[d].pc = job[d].pc
          BY <3>0, <4>1 DEF Jobs
        <4>. QED  BY <4>1, <4>2
      <3>3. CASE ReplayMerge(d)
        BY <1>0, <3>3, PassSteps DEF ReplayMerge, Running
      <3>4. CASE ReplayFlush(d)
        <4>1. /\ job'[d] = [job[d] EXCEPT !.pc = "done"]
              /\ \A e \in Dreamer : e # d => job'[e] = job[e]
          BY <1>0, <3>4, JobGoes DEF ReplayFlush
        <4>. QED  BY <3>0, <4>1 DEF Jobs
      <3>. QED  BY <1>3, <3>1, <3>2, <3>3, <3>4
    <2>. QED  BY <1>1, <2>1, <2>2, <2>3 DEF Rests
  <1>4. ASSUME NEW d \in Dreamer,
               \/ LadderRung(d) \/ RungSnapshot(d) \/ RungClear(d) \/ RungWrite(d)
               \/ RungDone(d)
        PROVE  RungInv'
    <2>1. Here(d)[1] \in Db /\ job[d].pass \in Nat
      <3>1. job[d] \in Jobs /\ Here(d)[1] \in Db
        BY <1>0, JobsOf
      <3>. QED  BY <3>1, DreamingAssumption DEF Jobs
    <2>2. job[d].pass = 0 \/ job[d].pass > 0
      BY <2>1
    <2>. QED  BY <1>0, <1>4, <2>1, <2>2, ClimbRests, LadderEnds, LevelCleared, LevelFed
  <1>5. ASSUME NEW d \in Dreamer, DreamFails(d) PROVE RungInv'
    <2>1. PICK S \in SUBSET Coll : StoreMoves(S)
      BY <1>0, <1>5, FailsTyped
    <2>2. UNCHANGED climbed
      BY <1>5 DEF DreamFails
    <2>3. job'[d].pc = "failed" /\ \A e \in Dreamer : e # d => job'[e] = job[e]
      <3>1. /\ job'[d] = [job[d] EXCEPT !.pc = "failed"]
            /\ \A e \in Dreamer : e # d => job'[e] = job[e]
        BY <1>0, <1>5, JobGoes DEF DreamFails
      <3>2. job[d] \in Jobs
        BY <1>0
      <3>. QED  BY <3>1, <3>2 DEF Jobs
    <2>. QED  BY <1>1, <2>1, <2>2, <2>3 DEF Rests
  <1>6. CASE LoopWakes \/ LoopSleeps \/ LoopLists \/ LoopListed \/ LoopSkips \/ Idles
    <2>1. UNCHANGED climbed /\ UNCHANGED stored /\ UNCHANGED job
      BY <1>6 DEF LoopWakes, LoopSleeps, LoopLists, LoopListed, LoopSkips, Idles,
                  hives, stored, history
    <2>. QED  BY <1>0, <1>2, <2>1, StoreRests
  <1>7. ASSUME NEW d \in Dreamer, UNCHANGED climbed, UNCHANGED stored,
               NEW c \in Coll, NEW m \in {"replay", "ladder"}, Begun(d, c, m)
        PROVE  RungInv'
    <2>1. job' = [job EXCEPT ![d] = [NoJob EXCEPT !.coll = c, !.mode = m,
                     !.pc = IF m = "ladder" THEN "rung" ELSE "replay"]]
      BY <1>7 DEF Begun
    <2>2. Rests(d) /\ \A e \in Dreamer : e # d => job'[e] = job[e]
      BY <1>0, <2>1 DEF Rests, NoJob
    <2>. QED  BY <1>0, <1>1, <1>7, <2>2, StoreRests
  <1>8. CASE LoopDreams
    <2>1. PICK c \in loop.names : Begun("loop", c, mode[c[1]])
      BY <1>8 DEF LoopDreams
    <2>2. c \in Coll /\ mode[c[1]] \in {"replay", "ladder"}
      BY <1>0, Collections DEF TypedInv, RestTyped
    <2>3. UNCHANGED climbed /\ UNCHANGED stored
      BY <1>8 DEF LoopDreams, hives, stored
    <2>. QED  BY <1>0, <1>7, <2>1, <2>2, <2>3
  <1>9. CASE TriggerNext
    <2>1. PICK c \in names : Begun("trigger", c, job["trigger"].mode)
      BY <1>9 DEF TriggerNext
    <2>2. c \in Coll /\ job["trigger"].mode \in {"replay", "ladder"}
      BY <1>0 DEF TypedInv, RestTyped, Jobs
    <2>3. UNCHANGED climbed /\ UNCHANGED stored
      BY <1>9 DEF TriggerNext, hives, stored, history
    <2>. QED  BY <1>0, <1>7, <2>1, <2>2, <2>3
  <1>10. ASSUME NEW d \in Dreamer, UNCHANGED climbed, UNCHANGED stored,
                job' = [job EXCEPT ![d] = NoJob]
         PROVE  RungInv'
    <2>1. Rests(d) /\ \A e \in Dreamer : e # d => job'[e] = job[e]
      BY <1>0, <1>10 DEF Rests, NoJob
    <2>. QED  BY <1>0, <1>1, <1>10, <2>1, StoreRests
  <1>11. CASE LoopSettles \/ LoopWarns
    BY <1>0, <1>10, <1>11 DEF LoopSettles, LoopWarns, hives, stored, history
  <1>12. CASE TriggerAnswers
    BY <1>0, <1>10, <1>12 DEF TriggerAnswers, hives, stored, history
  <1>13. CASE \E b \in Db, m \in Asked : Trigger(b, m)
    <2>1. PICK b \in Db, m \in Asked : Trigger(b, m)
      BY <1>13
    <2>2. UNCHANGED climbed /\ UNCHANGED stored
      BY <2>1 DEF Trigger, hives, stored, history
    <2>3. Rests("trigger") /\ \A e \in Dreamer : e # "trigger" => job'[e] = job[e]
      <3>1. job' = [job EXCEPT !["trigger"].mode = m] /\ job["trigger"].pc = "none"
        BY <2>1 DEF Trigger, Running
      <3>2. job'["trigger"].pc = "none"
        BY <1>0, <3>1 DEF Jobs
      <3>. QED  BY <1>0, <3>1, <3>2 DEF Rests
    <2>. QED  BY <1>0, <1>1, <2>2, <2>3, StoreRests
  <1>14. ASSUME NEW b \in Db, ClientWrite(b) \/ ClientWriteFails(b) PROVE RungInv'
    <2>1. StoreMoves({Base(b)})
      BY <1>0, <1>14, ClientWrites, ClientWritesFail
    <2>2. UNCHANGED climbed /\ UNCHANGED job
      BY <1>14 DEF ClientWrite, ClientWriteFails
    <2>. QED  BY <1>2, <2>1, <2>2
  <1>15. CASE Restart
    <2>1. StoreMoves(Coll)
      BY <1>0, <1>15, StoreRereads DEF Restart
    <2>2. UNCHANGED climbed /\ \A d \in Dreamer : Rests(d)
      BY <1>15 DEF Restart, Rests, NoJob
    <2>. QED  BY <1>0, <2>1, <2>2, AllRest DEF StoreMoves
  <1>16. CASE UNCHANGED vars
    BY <1>0, <1>2, <1>16, StoreRests DEF vars, stored, climbed
  <1>. QED  BY <1>3, <1>4, <1>5, <1>6, <1>8, <1>9, <1>11, <1>12, <1>13, <1>14, <1>15,
               <1>16
            DEF Next, LoopSteps, TriggerSteps, DreamSteps, Requests, Triggers, Dreamer

(* A ladder that ends well gave its first level what it had read of the    *)
(* base, once and in order, whatever dreams failed there before and        *)
(* whoever writes meanwhile; the level holds it all.  Ladders triggered by *)
(* hand included, but for levels that two of them filled at once.          *)
THEOREM RungCorrect == Spec => []RungIsExact
  <1>1. Init => RungInv
    BY RungInit
  <1>2. RungInv /\ [Next]_vars => RungInv'
    BY RungNext
  <1>3. RungInv => RungIsExact
    BY DEF RungInv, FilledByOne, LevelHolds, RungIsExact
  <1>. QED  BY <1>1, <1>2, <1>3, PTL DEF Spec

=============================================================================
