-------------------------- MODULE CollectionProofs --------------------------
(***************************************************************************)
(* Proofs about a collection, for every value of the constants.            *)
(***************************************************************************)
EXTENDS Collection, FiniteSetTheorems, TLAPS

-----------------------------------------------------------------------------
(* What an adaptive write of `v` to the memory `m` may do.                 *)

Fresh(m) == \A l \in m.ids : l < m.next_id

CreatedOne(m, r) ==
    /\ r.created = {m.next_id}
    /\ m.next_id \in LocId
    /\ r.memory.next_id = m.next_id + 1

CreatedNone(m, r) ==
    /\ r.created = {}
    /\ r.memory.next_id = m.next_id

Wrote(m, v, r) ==
    /\ r.memory \in Memory
    /\ r.modified \subseteq m.ids
    /\ CreatedOne(m, r) \/ CreatedNone(m, r)
    /\ r.memory.ids = m.ids \cup r.created
    /\ r.memory.doc_next_id = m.doc_next_id
    /\ r.memory.version = m.version
    /\ \A l \in LocId \ r.created :
         /\ m.mix[l] \subseteq r.memory.mix[l]
         /\ r.memory.mix[l] \subseteq m.mix[l] \cup {v}
         /\ l \notin r.modified => r.memory.mix[l] = m.mix[l]
    /\ \A l \in r.created : \A x \in r.memory.mix[l] :
         x = v \/ \E k \in m.ids : x \in m.mix[k]
    /\ Fresh(m) => \E l \in r.memory.ids : v \in r.memory.mix[l]
    /\ Touched(r) # {}
    /\ ~Competitive => /\ r.modified = {}
                       /\ \A l \in r.created : r.memory.mix[l] = {v}

(* Adding a location keeps a memory well formed.                           *)
LEMMA PushType ==
    ASSUME NEW m \in Memory, Room(m), NEW content \in SUBSET Vector
    PROVE  /\ push_location(m, content) \in Memory
           /\ m.next_id \in LocId
           /\ push_location(m, content).ids = m.ids \cup {m.next_id}
           /\ push_location(m, content).next_id = m.next_id + 1
           /\ push_location(m, content).doc_next_id = m.doc_next_id
           /\ push_location(m, content).version = m.version
           /\ \A l \in LocId : push_location(m, content).mix[l] =
                IF l = m.next_id THEN content ELSE m.mix[l]
<1>1. m.next_id \in LocId
  BY ConstantsAssumption DEF Memory, Room, LocId
<1>2. [l \in LocId |-> IF l = m.next_id THEN content ELSE m.mix[l]] \in Mix
  BY DEF Memory, Mix
<1> DEFINE mix == [l \in LocId |-> IF l = m.next_id THEN content ELSE m.mix[l]]
<1>3. push_location(m, content) =
        [m EXCEPT !.ids = m.ids \cup {m.next_id}, !.mix = mix,
                  !.next_id = m.next_id + 1]
  BY DEF push_location
<1>4. mix \in Mix /\ m.ids \cup {m.next_id} \in SUBSET LocId
  BY <1>1, <1>2 DEF Memory
<1>5. m.next_id + 1 \in 0 .. MaxLoc
  BY <1>1, ConstantsAssumption DEF LocId
<1> HIDE DEF mix
<1>6. push_location(m, content) \in Memory
  BY <1>3, <1>4, <1>5 DEF Memory
<1>7. push_location(m, content).mix = mix
  BY <1>3 DEF Memory
<1>8. \A l \in LocId : mix[l] = IF l = m.next_id THEN content ELSE m.mix[l]
  BY DEF mix
<1> QED
  BY <1>1, <1>3, <1>6, <1>7, <1>8 DEF Memory

(* So does adding a vector to some locations.                              *)
LEMMA AccumulateType ==
    ASSUME NEW m \in Memory, NEW v \in Vector, NEW J \in SUBSET m.ids
    PROVE  /\ accumulate(m, J, v) \in Memory
           /\ accumulate(m, J, v).ids = m.ids
           /\ accumulate(m, J, v).next_id = m.next_id
           /\ accumulate(m, J, v).doc_next_id = m.doc_next_id
           /\ accumulate(m, J, v).version = m.version
           /\ \A l \in LocId : accumulate(m, J, v).mix[l] =
                IF l \in J THEN m.mix[l] \cup {v} ELSE m.mix[l]
<1>1. [l \in LocId |-> IF l \in J THEN m.mix[l] \cup {v} ELSE m.mix[l]] \in Mix
  BY DEF Memory, Mix
<1> QED
  BY <1>1 DEF accumulate, Memory

(* A new location holding the vector alone: an append, a cold start or a   *)
(* novelty spawn.                                                          *)
LEMMA PushWrote ==
    ASSUME NEW m \in Memory, NEW v \in Vector, Room(m),
           NEW S \in SUBSET m.ids, Competitive \/ S = {}
    PROVE  Wrote(m, v, Result(push_location(m, {v}), S, {m.next_id}))
<1> DEFINE r == Result(push_location(m, {v}), S, {m.next_id})
<1>1. r.modified = S /\ r.created = {m.next_id}
  BY DEF Result
<1>2. r.memory = push_location(m, {v})
  BY DEF Result
<1>3. /\ r.memory \in Memory
      /\ m.next_id \in LocId
      /\ r.memory.ids = m.ids \cup {m.next_id}
      /\ r.memory.next_id = m.next_id + 1
      /\ r.memory.doc_next_id = m.doc_next_id
      /\ r.memory.version = m.version
      /\ \A l \in LocId : r.memory.mix[l] =
           IF l = m.next_id THEN {v} ELSE m.mix[l]
  <2>1. {v} \in SUBSET Vector
    OBVIOUS
  <2> HIDE DEF r
  <2> QED
    BY <1>2, <2>1, PushType
<1> HIDE DEF r
<1>4. CreatedOne(m, r)
  BY <1>1, <1>3 DEF CreatedOne
<1>5. \A l \in LocId \ r.created : r.memory.mix[l] = m.mix[l]
  BY <1>1, <1>3
<1>6. \A l \in r.created : r.memory.mix[l] = {v}
  BY <1>1, <1>3
<1>7. \E l \in r.memory.ids : v \in r.memory.mix[l]
  BY <1>1, <1>3, <1>6
<1>8. Wrote(m, v, r)
  BY <1>1, <1>3, <1>4, <1>5, <1>6, <1>7 DEF Wrote, Touched
<1> QED
  BY <1>8 DEF r

(* An append, a spawn, a join, a split: every write is a Wrote.            *)
LEMMA JoinWrote ==
    ASSUME NEW m \in Memory, NEW v \in Vector, NEW S \in SUBSET m.ids,
           NEW J \in SUBSET S, J # {}, Competitive
    PROVE  Wrote(m, v, Result(accumulate(m, J, v), S, {}))
<1> DEFINE r == Result(accumulate(m, J, v), S, {})
<1>1. r.modified = S /\ r.created = {}
  BY DEF Result
<1>2. r.memory = accumulate(m, J, v)
  BY DEF Result
<1>3. /\ r.memory \in Memory
      /\ r.memory.ids = m.ids
      /\ r.memory.next_id = m.next_id
      /\ r.memory.doc_next_id = m.doc_next_id
      /\ r.memory.version = m.version
      /\ \A l \in LocId : r.memory.mix[l] =
           IF l \in J THEN m.mix[l] \cup {v} ELSE m.mix[l]
  BY <1>2, AccumulateType
<1> HIDE DEF r
<1>4. CreatedNone(m, r)
  BY <1>1, <1>3 DEF CreatedNone
<1>5. PICK j \in J : TRUE
  OBVIOUS
<1>6. j \in r.memory.ids /\ v \in r.memory.mix[j]
  BY <1>3, <1>5 DEF Memory
<1>7. Wrote(m, v, r)
  BY <1>1, <1>3, <1>4, <1>5, <1>6 DEF Wrote, Touched
<1> QED
  BY <1>7 DEF r

LEMMA SplitWrote ==
    ASSUME NEW m \in Memory, NEW v \in Vector, NEW S \in SUBSET m.ids,
           NEW w \in S, NEW J \in SUBSET S, J # {}, Room(m), Competitive
    PROVE  Wrote(m, v, Result(Split(accumulate(m, J, v), w), S, {m.next_id}))
<1> DEFINE a == accumulate(m, J, v)
           r == Result(Split(a, w), S, {m.next_id})
<1>1. r.modified = S /\ r.created = {m.next_id}
  BY DEF Result
<1>2. r.memory = push_location(a, a.mix[w])
  BY DEF Result, Split
<1>3. /\ a \in Memory
      /\ a.ids = m.ids
      /\ a.next_id = m.next_id
      /\ a.doc_next_id = m.doc_next_id
      /\ a.version = m.version
      /\ \A l \in LocId : a.mix[l] =
           IF l \in J THEN m.mix[l] \cup {v} ELSE m.mix[l]
  BY AccumulateType
<1> HIDE DEF a, r
<1>4. Room(a) /\ w \in LocId /\ a.mix[w] \in SUBSET Vector
  BY <1>3 DEF Room, Memory, Mix
<1>5. /\ r.memory \in Memory
      /\ m.next_id \in LocId
      /\ r.memory.ids = m.ids \cup {m.next_id}
      /\ r.memory.next_id = m.next_id + 1
      /\ r.memory.doc_next_id = m.doc_next_id
      /\ r.memory.version = m.version
      /\ \A l \in LocId : r.memory.mix[l] =
           IF l = m.next_id THEN a.mix[w] ELSE a.mix[l]
  BY <1>2, <1>3, <1>4, PushType
<1>6. CreatedOne(m, r)
  BY <1>1, <1>5 DEF CreatedOne
<1>7. \A l \in LocId \ r.created :
        /\ m.mix[l] \subseteq r.memory.mix[l]
        /\ r.memory.mix[l] \subseteq m.mix[l] \cup {v}
        /\ l \notin r.modified => r.memory.mix[l] = m.mix[l]
  BY <1>1, <1>3, <1>5
<1>8. \A l \in r.created : \A x \in r.memory.mix[l] :
        x = v \/ \E k \in m.ids : x \in m.mix[k]
  <2>1. \A l \in r.created : r.memory.mix[l] = a.mix[w]
    BY <1>1, <1>5
  <2>2. \A x \in a.mix[w] : x = v \/ x \in m.mix[w]
    BY <1>3, <1>4
  <2> QED
    BY <2>1, <2>2
<1>9. Fresh(m) => \E l \in r.memory.ids : v \in r.memory.mix[l]
  <2>1. PICK j \in J : TRUE
    OBVIOUS
  <2>2. j \in m.ids /\ j \in LocId /\ v \in a.mix[j]
    BY <1>3, <2>1 DEF Memory
  <2>3. Fresh(m) => j # m.next_id
    BY <2>2 DEF Fresh, Memory, LocId
  <2> QED
    BY <1>5, <2>2, <2>3
<1>10. Wrote(m, v, r)
  BY <1>1, <1>5, <1>6, <1>7, <1>8, <1>9 DEF Wrote, Touched
<1> QED
  BY <1>10 DEF r, a

LEMMA AdaptiveWrite ==
    ASSUME NEW m \in Memory, NEW v \in Vector, NEW gate \in BOOLEAN,
           NEW r \in adaptive_write_two(m, v, gate)
    PROVE  Wrote(m, v, r)
<1>1. \A S \in Activations(m) : S \in SUBSET m.ids
  BY DEF Activations
<1>2. \A S \in SUBSET m.ids, w \in m.ids :
        \A J \in Joined(S, w, gate) : w \in S => J \in SUBSET S /\ J # {}
  BY DEF Joined
<1>3. CASE r \in Appends(m, v)
  <2>1. Room(m) /\ r = Result(push_location(m, {v}), {}, {m.next_id})
    BY <1>3 DEF Appends
  <2> QED
    BY <2>1, PushWrote
<1>4. CASE r \in Spawns(m, v) /\ Competitive
  <2>1. PICK S \in Activations(m) :
          Room(m) /\ r = Result(push_location(m, {v}), S, {m.next_id})
    BY <1>4 DEF Spawns
  <2> QED
    BY <1>1, <1>4, <2>1, PushWrote
<1>5. CASE r \in Joins(m, v, gate) /\ Competitive
  <2>1. PICK S \in Activations(m) :
          r \in UNION {{Result(accumulate(m, J, v), S, {}) :
                          J \in Joined(S, w, gate)} : w \in S}
    BY <1>5, Zenon DEF Joins
  <2>2. PICK w \in S : r \in {Result(accumulate(m, J, v), S, {}) :
                                J \in Joined(S, w, gate)}
    BY <2>1, Zenon
  <2>3. PICK J \in Joined(S, w, gate) : r = Result(accumulate(m, J, v), S, {})
    BY <2>2
  <2>4. S \in SUBSET m.ids /\ w \in m.ids
    BY <1>1
  <2>5. J \in SUBSET S /\ J # {}
    BY <1>2, <2>4
  <2> QED
    BY <1>5, <2>3, <2>4, <2>5, JoinWrote
<1>6. CASE r \in Splits(m, v, gate) /\ Competitive
  <2>1. PICK S \in Activations(m) :
          r \in UNION {{Result(Split(accumulate(m, J, v), w), S, {m.next_id}) :
                          J \in {I \in Joined(S, w, gate) : Room(m)}} : w \in S}
    BY <1>6, Zenon DEF Splits
  <2>2. PICK w \in S :
          r \in {Result(Split(accumulate(m, J, v), w), S, {m.next_id}) :
                    J \in {I \in Joined(S, w, gate) : Room(m)}}
    BY <2>1, Zenon
  <2>3. PICK J \in {I \in Joined(S, w, gate) : Room(m)} :
          r = Result(Split(accumulate(m, J, v), w), S, {m.next_id})
    BY <2>2
  <2>4. S \in SUBSET m.ids /\ w \in m.ids
    BY <1>1
  <2>5. J \in SUBSET S /\ J # {} /\ Room(m)
    BY <1>2, <2>4
  <2> QED
    BY <1>6, <2>3, <2>4, <2>5, SplitWrote
<1> QED
  BY <1>3, <1>4, <1>5, <1>6 DEF adaptive_write_two

-----------------------------------------------------------------------------
(* The operations on the records keep them well formed; what each does to  *)
(* the locations is all the safety proofs below need of it.                *)

SameLocations(s, t) ==
    t.ids = s.ids /\ t.mix = s.mix

LEMMA PutLocations ==
    ASSUME NEW s \in Records, NEW S \in SUBSET LocId, NEW mix \in Mix
    PROVE  /\ put_locations(s, S, mix) \in Records
           /\ put_locations(s, S, mix).ids = s.ids \cup S
           /\ put_locations(s, S, mix).next_id = s.next_id
           /\ \A l \in LocId : put_locations(s, S, mix).mix[l] =
                IF l \in S THEN mix[l] ELSE s.mix[l]
<1> DEFINE f == [l \in LocId |-> IF l \in S THEN mix[l] ELSE s.mix[l]]
<1>1. f \in Mix /\ \A l \in LocId : f[l] = IF l \in S THEN mix[l] ELSE s.mix[l]
  BY DEF Mix, Records
<1>2. put_locations(s, S, mix) = [s EXCEPT !.ids = s.ids \cup S, !.mix = f]
  BY DEF put_locations
<1> HIDE DEF f
<1> QED
  BY <1>1, <1>2 DEF Records

LEMMA DeleteLocations ==
    ASSUME NEW s \in Records, NEW S \in SUBSET LocId
    PROVE  /\ delete_locations(s, S) \in Records
           /\ delete_locations(s, S).ids = s.ids \ S
           /\ delete_locations(s, S).next_id = s.next_id
           /\ \A l \in LocId : delete_locations(s, S).mix[l] =
                IF l \in S THEN {} ELSE s.mix[l]
<1> DEFINE f == [l \in LocId |-> IF l \in S THEN {} ELSE s.mix[l]]
<1>1. f \in Mix /\ \A l \in LocId : f[l] = IF l \in S THEN {} ELSE s.mix[l]
  BY DEF Mix, Records
<1>2. delete_locations(s, S) = [s EXCEPT !.ids = s.ids \ S, !.mix = f]
  BY DEF delete_locations
<1> HIDE DEF f
<1> QED
  BY <1>1, <1>2 DEF Records

LEMMA PutCounters ==
    ASSUME NEW s \in Records, NEW m \in Memory
    PROVE  /\ put_counters(s, m) \in Records
           /\ put_next_id(s, m) \in Records
           /\ SameLocations(s, put_counters(s, m))
           /\ SameLocations(s, put_next_id(s, m))
           /\ put_counters(s, m).next_id = m.next_id
           /\ put_next_id(s, m).next_id = m.next_id
BY DEF put_counters, put_next_id, SameLocations, Records, Memory

LEMMA PutDocument ==
    ASSUME NEW s \in Records, NEW d \in DocId, NEW doc \in Document
    PROVE  /\ put_document(s, d, doc) \in Records
           /\ SameLocations(s, put_document(s, d, doc))
<1> DEFINE f == [e \in DocId |-> IF e = d THEN doc ELSE s.docs[e]]
<1>1. f \in [DocId -> Document]
  BY DEF Records
<1>2. put_document(s, d, doc) = [s EXCEPT !.docs = f]
  BY DEF put_document
<1> HIDE DEF f
<1> QED
  BY <1>1, <1>2 DEF Records, SameLocations

LEMMA AppendDoc ==
    ASSUME NEW s \in Records, NEW S, NEW d \in DocId
    PROVE  /\ append_doc_to_locations(s, S, d) \in Records
           /\ SameLocations(s, append_doc_to_locations(s, S, d))
<1> DEFINE f == [l \in LocId |-> IF l \in S THEN s.posts[l] \cup {d}
                                            ELSE s.posts[l]]
<1>1. f \in [LocId -> SUBSET DocId]
  BY DEF Records
<1>2. append_doc_to_locations(s, S, d) = [s EXCEPT !.posts = f]
  BY DEF append_doc_to_locations
<1> HIDE DEF f
<1> QED
  BY <1>1, <1>2 DEF Records, SameLocations

LEMMA NoDocumentType == LocId # {} /\ 0 \in LocId /\ NoDocument \in Document
BY ConstantsAssumption DEF LocId, NoDocument, Document

LEMMA DeleteDocumentType ==
    ASSUME NEW s \in Records, NEW d \in DocId
    PROVE  /\ delete_document_everywhere(s, d) \in Records
           /\ SameLocations(s, delete_document_everywhere(s, d))
           /\ delete_document_everywhere(s, d).next_id = s.next_id
<1> DEFINE f == [e \in DocId |-> IF e = d THEN NoDocument ELSE s.docs[e]]
           g == [l \in LocId |-> s.posts[l] \ {d}]
<1>1. f \in [DocId -> Document] /\ g \in [LocId -> SUBSET DocId]
  BY NoDocumentType DEF Records
<1>2. delete_document_everywhere(s, d) = [s EXCEPT !.docs = f, !.posts = g]
  BY DEF delete_document_everywhere
<1> HIDE DEF f, g
<1> QED
  BY <1>1, <1>2 DEF Records, SameLocations

LEMMA Materialize ==
    ASSUME NEW s \in Records, NEW m \in Memory
    PROVE  /\ materialize_document_refs(s, m) \in Records
           /\ SameLocations(s, materialize_document_refs(s, m))
           /\ materialize_document_refs(s, m).next_id = s.next_id
<1> DEFINE f ==
        [d \in DocId |-> IF /\ s.docs[d].kind = "ref"
                            /\ Resolvable(m, s.docs[d])
                         THEN Inline(resolve_document(m, s.docs[d]))
                         ELSE s.docs[d]]
<1>1. \A x \in SUBSET Vector : Inline(x) \in Document
  BY NoDocumentType DEF Inline, Document
<1>2. ASSUME NEW d \in DocId
      PROVE  resolve_document(m, s.docs[d]) \in SUBSET Vector
  <2>1. s.docs[d] \in Document
    BY DEF Records
  <2>2. s.docs[d].at \in LocId /\ s.docs[d].vec \in SUBSET Vector
    BY <2>1 DEF Document
  <2>3. m.mix[s.docs[d].at] \in SUBSET Vector
    BY <2>2 DEF Memory, Mix
  <2> QED
    BY <2>2, <2>3 DEF resolve_document
<1>3. f \in [DocId -> Document]
  BY <1>1, <1>2 DEF Records
<1>4. materialize_document_refs(s, m) = [s EXCEPT !.docs = f]
  BY DEF materialize_document_refs
<1> HIDE DEF f
<1> QED
  BY <1>3, <1>4 DEF Records, SameLocations

LEMMA Migrate ==
    ASSUME NEW s \in Records, NEW ids \in SUBSET LocId, NEW p \in Plans(ids)
    PROVE  /\ migrate_postings(s, p) \in Records
           /\ SameLocations(s, migrate_postings(s, p))
           /\ migrate_postings(s, p).next_id = s.next_id
<1> DEFINE f ==
        [l \in LocId |->
            IF l \in Removed(p) THEN {}
            ELSE s.posts[l] \cup UNION {s.posts[r] : r \in Absorbed(p, l)}]
<1>1. \A l \in LocId : Absorbed(p, l) \subseteq LocId
  BY DEF Absorbed, Plans
<1>2. \A l \in LocId : UNION {s.posts[r] : r \in Absorbed(p, l)} \subseteq DocId
  BY <1>1 DEF Records
<1>3. f \in [LocId -> SUBSET DocId]
  BY <1>2 DEF Records
<1>4. migrate_postings(s, p) = [s EXCEPT !.posts = f]
  BY DEF migrate_postings
<1> HIDE DEF f
<1> QED
  BY <1>3, <1>4 DEF Records, SameLocations

(* The memory after consolidation: every surviving location keeps its own  *)
(* writes, and nothing is lost or invented.                                *)
LEMMA KnnMerge ==
    ASSUME NEW m \in Memory, NEW p \in Plans(m.ids)
    PROVE  /\ knn_merge(m, p) \in Memory
           /\ Removed(p) \subseteq m.ids
           /\ knn_merge(m, p).ids = m.ids \ Removed(p)
           /\ knn_merge(m, p).next_id = m.next_id
           /\ \A l \in m.ids \ Removed(p) :
                m.mix[l] \subseteq knn_merge(m, p).mix[l]
           /\ \A l \in LocId : \A x \in knn_merge(m, p).mix[l] :
                \E k \in m.ids : x \in m.mix[k]
           /\ \A k \in m.ids : \A x \in m.mix[k] :
                \E l \in m.ids \ Removed(p) : x \in knn_merge(m, p).mix[l]
           /\ Removed(p) = {} =>
                \A l \in m.ids : knn_merge(m, p).mix[l] = m.mix[l]
<1> DEFINE f == [l \in LocId |-> UNION {m.mix[r] : r \in Absorbed(p, l)}]
<1>1. /\ DOMAIN p = m.ids
      /\ \A l \in m.ids : p[l] \in m.ids /\ p[p[l]] = p[l]
  BY DEF Plans
<1>2. m.ids \subseteq LocId
  BY DEF Memory
<1>3. \A l : Absorbed(p, l) = {r \in m.ids : p[r] = l}
  BY <1>1 DEF Absorbed
<1>4. \A l \in LocId : \A x : x \in f[l] <=>
        \E k \in m.ids : p[k] = l /\ x \in m.mix[k]
  BY <1>3
<1>5. f \in Mix
  <2>1. \A l \in LocId : f[l] \in SUBSET Vector
    BY <1>2, <1>4 DEF Memory, Mix
  <2>2. f = [l \in LocId |-> f[l]]
    OBVIOUS
  <2> HIDE DEF f
  <2> QED
    BY <2>1, <2>2 DEF Mix
<1>6. knn_merge(m, p) = [m EXCEPT !.ids = m.ids \ Removed(p), !.mix = f]
  BY DEF knn_merge
<1> HIDE DEF f
<1>7. /\ knn_merge(m, p) \in Memory
      /\ knn_merge(m, p).ids = m.ids \ Removed(p)
      /\ knn_merge(m, p).next_id = m.next_id
      /\ knn_merge(m, p).mix = f
  BY <1>5, <1>6 DEF Memory
<1>8. Removed(p) = {l \in m.ids : p[l] # l}
  BY <1>1 DEF Removed
<1>9. \A l \in m.ids \ Removed(p) : m.mix[l] \subseteq f[l]
  BY <1>2, <1>4, <1>8
<1>10. \A l \in LocId : \A x \in f[l] : \E k \in m.ids : x \in m.mix[k]
  BY <1>4
<1>11. \A k \in m.ids : p[k] \in m.ids \ Removed(p)
  BY <1>1, <1>8
<1>12. ASSUME NEW k \in m.ids, NEW x \in m.mix[k]
       PROVE  \E l \in m.ids \ Removed(p) : x \in f[l]
  <2>1. p[k] \in LocId /\ x \in f[p[k]]
    BY <1>1, <1>2, <1>4
  <2> QED
    BY <1>11, <2>1
<1>13. ASSUME Removed(p) = {}, NEW l \in m.ids
       PROVE  f[l] = m.mix[l]
  <2>1. \A k \in m.ids : p[k] = k
    BY <1>8, <1>13
  <2>2. \A x : x \in f[l] <=> x \in m.mix[l]
    BY <1>2, <1>4, <2>1
  <2> QED
    BY <2>2
<1> QED
  BY <1>7, <1>8, <1>9, <1>10, <1>12, <1>13

LEMMA BumpType ==
    ASSUME inner \in Memory, CanBump, NEW m \in Memory
    PROVE  /\ Bump(m) \in Memory
           /\ Bump(m).valid = m.valid
           /\ Bump(m).ids = m.ids
           /\ Bump(m).mix = m.mix
           /\ Bump(m).next_id = m.next_id
<1>1. inner.version + 1 \in 0 .. MaxVersion
  BY ConstantsAssumption DEF CanBump, Memory
<1> QED
  BY <1>1 DEF Bump, Memory

(* A failed call leaves the committed memory, or an unusable one.          *)
LEMMA RollbackType ==
    ASSUME NEW m \in Memory, NEW s \in Records, Rollback(m, s)
    PROVE  /\ inner' \in Memory
           /\ inner'.valid =>
                /\ inner'.ids = s.ids
                /\ inner'.mix = s.mix
                /\ inner'.next_id = s.next_id
<1>1. CASE inner' = [load(s) EXCEPT !.version = m.version]
  <2>1. inner' = [valid |-> TRUE, ids |-> s.ids, mix |-> s.mix,
                  next_id |-> s.next_id, doc_next_id |-> s.doc_next_id,
                  version |-> m.version]
    BY <1>1 DEF load
  <2> QED
    BY <2>1 DEF Memory, Records
<1>2. CASE inner' = [m EXCEPT !.valid = FALSE]
  BY <1>2 DEF Memory
<1> QED
  BY <1>1, <1>2 DEF Rollback

LEMMA LoadType ==
    ASSUME NEW s \in Records
    PROVE  load(s) \in Memory
BY ConstantsAssumption DEF load, Memory, Records

LEMMA NewType ==
    ASSUME NEW s \in Records
    PROVE  /\ new_memory \in Memory
           /\ new_records(s) \in Records
<1>1. Seeds \subseteq LocId /\ L0 \in 0 .. MaxLoc
  BY ConstantsAssumption DEF Seeds, LocId
<1>2. [l \in LocId |-> {}] \in Mix
  BY DEF Mix
<1>3. [l \in LocId |-> IF l \in Seeds THEN {} ELSE s.mix[l]] \in Mix
  BY DEF Mix, Records
<1>4. new_memory \in Memory
  BY <1>1, <1>2, ConstantsAssumption DEF new_memory, Memory
<1>5. new_records(s) \in Records
  BY <1>1, <1>3 DEF new_records, Records
<1> QED
  BY <1>4, <1>5

(* Acknowledging new vectors keeps the history well formed.                *)
LEMMA AcknowledgeOne ==
    ASSUME TypeOK, written + 1 <= MaxWrite
    PROVE  /\ written + 1 \in Vector
           /\ Acknowledge({written + 1}) =>
                /\ written' \in 0 .. MaxWrite
                /\ learned' \in SUBSET Vector
<1>1. written + 1 \in Vector
  BY ConstantsAssumption DEF TypeOK, Vector
<1>2. Cardinality({written + 1}) = 1
  BY FS_Singleton
<1>3. ASSUME Acknowledge({written + 1})
      PROVE  written' \in 0 .. MaxWrite /\ learned' \in SUBSET Vector
  <2>1. written' = written + 1
    BY <1>2, <1>3, Zenon DEF Acknowledge
  <2>2. learned' = learned \cup {written + 1}
    BY <1>3, Zenon DEF Acknowledge
  <2> QED
    BY <1>1, <2>1, <2>2, ConstantsAssumption DEF TypeOK
<1> QED
  BY <1>1, <1>3

LEMMA AcknowledgeTwo ==
    ASSUME TypeOK, written + 2 <= MaxWrite
    PROVE  /\ written + 1 \in Vector /\ written + 2 \in Vector
           /\ Acknowledge({written + 1, written + 2}) =>
                /\ written' \in 0 .. MaxWrite
                /\ learned' \in SUBSET Vector
<1>1. written \in Nat /\ written + 1 # written + 2
  BY DEF TypeOK
<1>2. written + 1 \in Vector /\ written + 2 \in Vector
  BY ConstantsAssumption DEF TypeOK, Vector
<1>3. IsFiniteSet({written + 1}) /\ Cardinality({written + 1}) = 1
  BY FS_Singleton
<1>4. {written + 1, written + 2} = {written + 1} \cup {written + 2}
  OBVIOUS
<1>5. Cardinality({written + 1} \cup {written + 2}) = 2
  BY <1>1, <1>3, FS_AddElement
<1>6. ASSUME Acknowledge({written + 1, written + 2})
      PROVE  written' \in 0 .. MaxWrite /\ learned' \in SUBSET Vector
  <2>1. written' = written + 2
    BY <1>4, <1>5, <1>6, Zenon DEF Acknowledge
  <2>2. learned' = learned \cup {written + 1, written + 2}
    BY <1>6, Zenon DEF Acknowledge
  <2> QED
    BY <1>2, <2>1, <2>2, ConstantsAssumption DEF TypeOK
<1> QED
  BY <1>2, <1>6

-----------------------------------------------------------------------------
(* Every call keeps the types.  One lemma per call that writes records.    *)

LEMMA CommitsType ==
    ASSUME inner \in Memory, CanBump, NEW m \in Memory, NEW s \in Records,
           NEW new, Commits(m, s, new)
    PROVE  inner' \in Memory /\ store' \in Records
BY BumpType DEF Commits

LEMMA FailsType ==
    ASSUME TypeOK, CanBump, NEW m \in Memory, NEW s \in Records, Fails(m, s)
    PROVE  /\ inner' \in Memory
           /\ store' \in Records
           /\ written' \in 0 .. MaxWrite
           /\ learned' \in SUBSET Vector
           /\ acked' \in [DocId -> SUBSET Vector]
<1>1. Bump(m) \in Memory
  BY BumpType DEF TypeOK
<1>2. inner' \in Memory
  BY <1>1, RollbackType DEF Fails
<1> QED
  BY <1>2 DEF Fails, TypeOK

LEMMA PutMemory ==
    ASSUME NEW s \in Records, NEW S \in SUBSET LocId, NEW m \in Memory
    PROVE  /\ put_locations(s, S, m.mix) \in Records
           /\ put_locations(s, S, m.mix).ids = s.ids \cup S
           /\ \A l \in LocId : put_locations(s, S, m.mix).mix[l] =
                IF l \in S THEN m.mix[l] ELSE s.mix[l]
<1> DEFINE mix == m.mix
           p == put_locations(s, S, mix)
<1>1. mix \in Mix
  BY DEF Memory
<1> HIDE DEF mix, p
<1>2. /\ p \in Records
      /\ p.ids = s.ids \cup S
      /\ \A l \in LocId : p.mix[l] = IF l \in S THEN mix[l] ELSE s.mix[l]
  BY <1>1, PutLocations DEF p
<1> QED
  BY <1>2 DEF mix, p

LEMMA SavedType ==
    ASSUME NEW s \in Records, NEW S \in SUBSET LocId, NEW m \in Memory
    PROVE  /\ saved(s, S, m) \in Records
           /\ saved(s, S, m).ids = s.ids \cup S
           /\ saved(s, S, m).next_id = m.next_id
           /\ \A l \in LocId :
                /\ l \in S => saved(s, S, m).mix[l] = m.mix[l]
                /\ l \notin S => saved(s, S, m).mix[l] = s.mix[l]
<1> DEFINE p == put_locations(s, S, m.mix)
<1>1. /\ p \in Records
      /\ p.ids = s.ids \cup S
      /\ \A l \in LocId : p.mix[l] = IF l \in S THEN m.mix[l] ELSE s.mix[l]
  BY PutMemory
<1>2. saved(s, S, m) = put_next_id(p, m)
  BY DEF saved
<1> HIDE DEF p
<1>3. /\ put_next_id(p, m) \in Records
      /\ SameLocations(p, put_next_id(p, m))
      /\ put_next_id(p, m).next_id = m.next_id
  BY <1>1, PutCounters
<1> QED
  BY <1>1, <1>2, <1>3 DEF SameLocations

LEMMA FiledType ==
    ASSUME NEW s \in Records, NEW r, NEW d \in DocId, NEW doc \in Document
    PROVE  /\ filed(s, r, d, doc) \in Records
           /\ SameLocations(s, filed(s, r, d, doc))
BY PutDocument, AppendDoc DEF filed, SameLocations

(* What a write touches is a set of locations.                             *)
LEMMA TouchedType ==
    ASSUME NEW m \in Memory, NEW v \in Vector, NEW r, Wrote(m, v, r)
    PROVE  /\ r.memory \in Memory
           /\ r.memory.mix \in Mix
           /\ r.modified \in SUBSET LocId
           /\ r.created \in SUBSET LocId
           /\ Touched(r) \in SUBSET LocId
<1>1. r.memory \in Memory /\ r.modified \in SUBSET LocId /\ r.created \in SUBSET LocId
  BY DEF Wrote, CreatedOne, CreatedNone, Memory
<1> QED
  BY <1>1 DEF Touched, Memory

LEMMA WriteOneType ==
    ASSUME TypeOK, NEW gate \in BOOLEAN, WriteOne(gate)
    PROVE  TypeOK'
<1> DEFINE v == written + 1
<1>1. inner \in Memory /\ store \in Records /\ CanBump /\ written + 1 <= MaxWrite
  BY DEF TypeOK, WriteOne
<1>2. v \in Vector
  BY <1>1, AcknowledgeOne
<1>3. PICK r \in adaptive_write_two(inner, v, gate) :
        \/ /\ Commits(r.memory, saved(store, Touched(r), r.memory), {v})
           /\ UNCHANGED acked
        \/ Fails(r.memory, store)
  BY DEF WriteOne
<1>4. Wrote(inner, v, r)
  BY <1>1, <1>2, <1>3, AdaptiveWrite
<1>5. r.memory \in Memory /\ saved(store, Touched(r), r.memory) \in Records
  BY <1>1, <1>2, <1>4, TouchedType, SavedType
<1>6. CASE /\ Commits(r.memory, saved(store, Touched(r), r.memory), {v})
           /\ UNCHANGED acked
  BY <1>1, <1>5, <1>6, CommitsType, AcknowledgeOne
     DEF Commits, TypeOK, WriteOne, clientVars
<1>7. CASE Fails(r.memory, store)
  BY <1>1, <1>5, <1>7, FailsType DEF TypeOK, WriteOne, clientVars
<1> QED
  BY <1>3, <1>6, <1>7

LEMMA WriteBatchType ==
    ASSUME TypeOK, WriteBatch
    PROVE  TypeOK'
<1> DEFINE v == written + 1
           u == written + 2
<1>1. inner \in Memory /\ store \in Records /\ CanBump /\ written + 2 <= MaxWrite
  BY DEF TypeOK, WriteBatch
<1>2. v \in Vector /\ u \in Vector
  BY <1>1, AcknowledgeTwo
<1> DEFINE Does(r1, r2) ==
        \/ Commits(r2.memory, saved_batch(store, r1, r2), {v, u}) /\ UNCHANGED acked
        \/ Fails(r2.memory, store)
<1>12. PICK r1 \in adaptive_write(inner, v) :
        \E r2 \in adaptive_write(r1.memory, u) : Does(r1, r2)
  BY DEF WriteBatch
<1>3. PICK r2 \in adaptive_write(r1.memory, u) : Does(r1, r2)
  BY <1>12
<1>4. Wrote(inner, v, r1)
  BY <1>1, <1>2, <1>12, AdaptiveWrite DEF adaptive_write
<1>5. Wrote(r1.memory, u, r2)
  BY <1>1, <1>2, <1>3, <1>4, TouchedType, AdaptiveWrite DEF adaptive_write
<1>6. r2.memory \in Memory /\ r2.created \in SUBSET LocId
  BY <1>1, <1>2, <1>4, <1>5, TouchedType
<1>7. put_locations(store, r1.modified \cup r2.modified, r2.memory.mix) \in Records
  <2>1. r1.memory \in Memory /\ r1.modified \in SUBSET LocId
    BY <1>1, <1>2, <1>4, TouchedType
  <2>2. r2.memory.mix \in Mix /\ r2.modified \in SUBSET LocId
    BY <1>2, <1>5, <2>1, TouchedType
  <2> DEFINE T == r1.modified \cup r2.modified
             mix == r2.memory.mix
  <2>3. T \in SUBSET LocId /\ mix \in Mix
    BY <2>1, <2>2
  <2> HIDE DEF T, mix
  <2>4. put_locations(store, T, mix) \in Records
    BY <1>1, <2>3, PutLocations
  <2> QED
    BY <2>4 DEF T, mix
<1>8. put_locations(
        put_locations(store, r1.modified \cup r2.modified, r2.memory.mix),
        r1.created, r1.memory.mix) \in Records
  BY <1>1, <1>2, <1>4, <1>7, TouchedType, PutLocations
<1>9. saved_batch(store, r1, r2) \in Records
  BY <1>6, <1>8, SavedType DEF saved_batch
<1>10. CASE /\ Commits(r2.memory, saved_batch(store, r1, r2), {v, u})
            /\ UNCHANGED acked
  BY <1>1, <1>6, <1>9, <1>10, CommitsType, AcknowledgeTwo
     DEF Commits, TypeOK, WriteBatch, clientVars
<1>11. CASE Fails(r2.memory, store)
  BY <1>1, <1>6, <1>11, FailsType DEF TypeOK, WriteBatch, clientVars
<1> QED
  BY <1>3, <1>10, <1>11

LEMMA DocumentOfType ==
    ASSUME NEW v \in Vector, NEW r, r.created \in SUBSET LocId,
           NEW doc \in DocumentOf(r, v)
    PROVE  doc \in Document
BY NoDocumentType DEF DocumentOf, Document, Inline, Ref

LEMMA WithDocIdType ==
    ASSUME NEW m \in Memory, m.doc_next_id < MaxDoc
    PROVE  /\ WithDocId(m) \in Memory
           /\ WithDocId(m).ids = m.ids
           /\ WithDocId(m).mix = m.mix
           /\ WithDocId(m).next_id = m.next_id
           /\ WithDocId(m).doc_next_id = m.doc_next_id + 1
<1>1. m.doc_next_id + 1 \in 0 .. MaxDoc
  BY ConstantsAssumption DEF Memory
<1> QED
  BY <1>1 DEF WithDocId, Memory

LEMMA WriteWithMetadataType ==
    ASSUME TypeOK, WriteWithMetadata
    PROVE  TypeOK'
<1> DEFINE v == written + 1
           d == inner.doc_next_id
           M(r) == WithDocId(r.memory)
           s(r, doc) ==
             filed(put_locations(store, Touched(r), M(r).mix), r, d, doc)
           Does(r, doc) ==
             \/ /\ Commits(M(r), put_counters(s(r, doc), M(r)), {v})
                /\ acked' = [acked EXCEPT ![d] = {v}]
             \/ Fails(M(r), store)
<1>1. inner \in Memory /\ store \in Records /\ CanBump /\ written + 1 <= MaxWrite
  BY DEF TypeOK, WriteWithMetadata
<1>2. v \in Vector
  BY <1>1, AcknowledgeOne
<1>3. d \in DocId /\ inner.doc_next_id < MaxDoc
  BY <1>1, ConstantsAssumption DEF WriteWithMetadata, Memory, DocId
<1>4. PICK r \in adaptive_write(inner, v) :
        \E doc \in DocumentOf(r, v) : Does(r, doc)
  BY Zenon DEF WriteWithMetadata
<1>5. PICK doc \in DocumentOf(r, v) : Does(r, doc)
  BY <1>4
<1>6. Wrote(inner, v, r)
  BY <1>1, <1>2, <1>4, AdaptiveWrite DEF adaptive_write
<1>7. /\ r.memory \in Memory /\ r.memory.doc_next_id < MaxDoc
      /\ Touched(r) \in SUBSET LocId /\ r.created \in SUBSET LocId
  BY <1>1, <1>2, <1>3, <1>6, TouchedType DEF Wrote
<1>8. M(r) \in Memory /\ M(r).mix \in Mix
  BY <1>7, WithDocIdType DEF Memory
<1>9. doc \in Document
  BY <1>2, <1>5, <1>7, DocumentOfType
<1>10. put_counters(s(r, doc), M(r)) \in Records
  <2> DEFINE p == put_locations(store, Touched(r), M(r).mix)
  <2>1. p \in Records
    BY <1>1, <1>7, <1>8, PutMemory
  <2> HIDE DEF p, M
  <2>2. filed(p, r, d, doc) \in Records
    BY <1>3, <1>9, <2>1, FiledType
  <2> QED
    BY <1>8, <2>2, PutCounters DEF p
<1>11. CASE /\ Commits(M(r), put_counters(s(r, doc), M(r)), {v})
            /\ acked' = [acked EXCEPT ![d] = {v}]
  <2> HIDE DEF M, s
  <2>1. inner' \in Memory /\ store' \in Records
    BY <1>1, <1>8, <1>10, <1>11, CommitsType
  <2>2. written' \in 0 .. MaxWrite /\ learned' \in SUBSET Vector
    BY <1>1, <1>11, AcknowledgeOne DEF Commits
  <2>3. acked' \in [DocId -> SUBSET Vector]
    BY <1>2, <1>3, <1>11 DEF TypeOK
  <2> QED
    BY <2>1, <2>2, <2>3 DEF TypeOK, WriteWithMetadata, clientVars
<1>12. CASE Fails(M(r), store)
  BY <1>1, <1>8, <1>12, FailsType DEF TypeOK, WriteWithMetadata, clientVars
<1> QED
  BY <1>5, <1>11, <1>12

LEMMA WriteBatchWithMetadataType ==
    ASSUME TypeOK, WriteBatchWithMetadata
    PROVE  TypeOK'
<1> DEFINE v == written + 1
           u == written + 2
           d == inner.doc_next_id
           M(r2) == WithDocId(r2.memory)
           s(r1, r2, doc1, doc2) ==
             filed(filed(put_locations(store, Touched(r1) \cup Touched(r2),
                                       M(r2).mix), r1, d, doc1),
                   r2, d + 1, doc2)
           Does(r1, r2, doc1, doc2) ==
             \/ /\ Commits(M(r2), put_counters(s(r1, r2, doc1, doc2), M(r2)),
                           {v, u})
                /\ acked' = [acked EXCEPT ![d] = {v}, ![d + 1] = {u}]
             \/ Fails(M(r2), store)
<1>1. inner \in Memory /\ store \in Records /\ CanBump /\ written + 2 <= MaxWrite
  BY DEF TypeOK, WriteBatchWithMetadata
<1>2. v \in Vector /\ u \in Vector
  BY <1>1, AcknowledgeTwo
<1>3. d \in DocId /\ d + 1 \in DocId /\ inner.doc_next_id + 1 < MaxDoc
  BY <1>1, ConstantsAssumption DEF WriteBatchWithMetadata, Memory, DocId
<1>4. PICK r1 \in adaptive_write(inner, v) :
        \E r2 \in adaptive_write(WithDocId(r1.memory), u) :
        \E doc1 \in DocumentOf(r1, v) :
        \E doc2 \in DocumentOf(r2, u) : Does(r1, r2, doc1, doc2)
  BY Zenon DEF WriteBatchWithMetadata
<1>5. PICK r2 \in adaptive_write(WithDocId(r1.memory), u) :
        \E doc1 \in DocumentOf(r1, v) :
        \E doc2 \in DocumentOf(r2, u) : Does(r1, r2, doc1, doc2)
  BY <1>4
<1>6. PICK doc1 \in DocumentOf(r1, v), doc2 \in DocumentOf(r2, u) :
        Does(r1, r2, doc1, doc2)
  BY <1>5
<1>7. Wrote(inner, v, r1)
  BY <1>1, <1>2, <1>4, AdaptiveWrite DEF adaptive_write
<1>8. /\ r1.memory \in Memory /\ r1.memory.doc_next_id = d
      /\ Touched(r1) \in SUBSET LocId /\ r1.created \in SUBSET LocId
  BY <1>1, <1>2, <1>7, TouchedType DEF Wrote
<1>9. WithDocId(r1.memory) \in Memory /\ WithDocId(r1.memory).doc_next_id = d + 1
  <2>1. r1.memory.doc_next_id < MaxDoc
    BY <1>3, <1>8, ConstantsAssumption DEF DocId
  <2> QED
    BY <1>8, <2>1, WithDocIdType
<1>10. Wrote(WithDocId(r1.memory), u, r2)
  BY <1>2, <1>5, <1>9, AdaptiveWrite DEF adaptive_write
<1>11. /\ r2.memory \in Memory /\ r2.memory.doc_next_id = d + 1
       /\ Touched(r2) \in SUBSET LocId /\ r2.created \in SUBSET LocId
  BY <1>2, <1>9, <1>10, TouchedType DEF Wrote
<1>12. M(r2) \in Memory /\ M(r2).mix \in Mix
  BY <1>3, <1>11, WithDocIdType DEF Memory
<1>13. doc1 \in Document /\ doc2 \in Document
  BY <1>2, <1>6, <1>8, <1>11, DocumentOfType
<1>14. put_counters(s(r1, r2, doc1, doc2), M(r2)) \in Records
  <2>1. Touched(r1) \cup Touched(r2) \in SUBSET LocId
    BY <1>8, <1>11
  <2> DEFINE p == put_locations(store, Touched(r1) \cup Touched(r2), M(r2).mix)
             q == filed(p, r1, d, doc1)
  <2>2. p \in Records
    BY <1>1, <1>12, <2>1, PutMemory
  <2> HIDE DEF p, M
  <2>3. q \in Records
    BY <1>3, <1>13, <2>2, FiledType
  <2> HIDE DEF q
  <2>4. filed(q, r2, d + 1, doc2) \in Records
    BY <1>3, <1>13, <2>3, FiledType
  <2> QED
    BY <1>12, <2>4, PutCounters DEF p, q
<1>15. CASE /\ Commits(M(r2), put_counters(s(r1, r2, doc1, doc2), M(r2)), {v, u})
            /\ acked' = [acked EXCEPT ![d] = {v}, ![d + 1] = {u}]
  <2> HIDE DEF M, s
  <2>1. inner' \in Memory /\ store' \in Records
    BY <1>1, <1>12, <1>14, <1>15, CommitsType
  <2>2. written' \in 0 .. MaxWrite /\ learned' \in SUBSET Vector
    BY <1>1, <1>15, AcknowledgeTwo DEF Commits
  <2>3. acked' \in [DocId -> SUBSET Vector]
    BY <1>2, <1>3, <1>15 DEF TypeOK
  <2> QED
    BY <2>1, <2>2, <2>3 DEF TypeOK, WriteBatchWithMetadata, clientVars
<1>16. CASE Fails(M(r2), store)
  BY <1>1, <1>12, <1>16, FailsType DEF TypeOK, WriteBatchWithMetadata, clientVars
<1> QED
  BY <1>6, <1>15, <1>16

LEMMA DocumentCallsType ==
    ASSUME TypeOK, NEW d \in DocId
    PROVE  /\ DeleteDocument(d) => TypeOK'
           /\ GetDocument(d) => TypeOK'
           /\ ResolveFetched => TypeOK'
<1>1. store \in Records /\ inner \in Memory /\ reader \in Reader
  BY DEF TypeOK
<1>2. DeleteDocument(d) => TypeOK'
  BY <1>1, DeleteDocumentType DEF DeleteDocument, TypeOK
<1>3. store.docs[d] \in Document /\ acked[d] \in SUBSET Vector
  BY <1>1 DEF Records, TypeOK
<1>4. GetDocument(d) => TypeOK'
  <2>1. [phase |-> "fetched", doc |-> store.docs[d], want |-> acked[d],
         got |-> {}] \in Reader
    BY <1>3 DEF Reader
  <2> QED
    BY <2>1 DEF GetDocument, TypeOK
<1>5. ResolveFetched => TypeOK'
  <2>1. reader.doc \in Document
    BY <1>1 DEF Reader
  <2>2. reader.doc.at \in LocId /\ reader.doc.vec \in SUBSET Vector
    BY <2>1 DEF Document
  <2>3. inner.mix[reader.doc.at] \in SUBSET Vector
    BY <1>1, <2>2 DEF Memory, Mix
  <2>4. resolve_document(inner, reader.doc) \in SUBSET Vector
    BY <2>2, <2>3 DEF resolve_document
  <2>5. NoReader \in Reader
    BY NoDocumentType DEF NoReader, Reader
  <2> QED
    BY <1>1, <2>4, <2>5 DEF ResolveFetched, TypeOK, Reader
<1> QED
  BY <1>2, <1>4, <1>5

(* The records of a consolidation under the plan `p`.                      *)
LEMMA ConsolidatedRecords ==
    ASSUME TypeOK, NEW p \in Plans(inner.ids)
    PROVE  LET s == materialize_document_refs(store, inner)
               t == delete_locations(migrate_postings(s, p), Removed(p))
           IN /\ s \in Records
              /\ SameLocations(store, s)
              /\ s.next_id = store.next_id
              /\ t \in Records
              /\ t.ids = store.ids \ Removed(p)
              /\ t.next_id = store.next_id
              /\ \A l \in LocId : t.mix[l] =
                   IF l \in Removed(p) THEN {} ELSE store.mix[l]
<1> DEFINE s == materialize_document_refs(store, inner)
           u == migrate_postings(s, p)
<1>1. store \in Records /\ inner \in Memory /\ inner.ids \in SUBSET LocId
  BY DEF TypeOK, Memory
<1>2. s \in Records /\ SameLocations(store, s) /\ s.next_id = store.next_id
  BY <1>1, Materialize
<1> HIDE DEF s
<1>3. u \in Records /\ SameLocations(s, u) /\ u.next_id = s.next_id
  BY <1>1, <1>2, Migrate
<1>4. Removed(p) \in SUBSET LocId
  BY <1>1, KnnMerge
<1> HIDE DEF u
<1>5. /\ delete_locations(u, Removed(p)) \in Records
      /\ delete_locations(u, Removed(p)).ids = u.ids \ Removed(p)
      /\ delete_locations(u, Removed(p)).next_id = u.next_id
      /\ \A l \in LocId : delete_locations(u, Removed(p)).mix[l] =
           IF l \in Removed(p) THEN {} ELSE u.mix[l]
  BY <1>3, <1>4, DeleteLocations
<1>6. /\ delete_locations(u, Removed(p)).ids = store.ids \ Removed(p)
      /\ \A l \in LocId : delete_locations(u, Removed(p)).mix[l] =
           IF l \in Removed(p) THEN {} ELSE store.mix[l]
  BY <1>2, <1>3, <1>5 DEF SameLocations
<1> QED
  BY <1>2, <1>3, <1>5, <1>6 DEF u, s

LEMMA MergeType ==
    ASSUME TypeOK, Merge
    PROVE  TypeOK'
<1> DEFINE s == materialize_document_refs(store, inner)
           t(p) == delete_locations(migrate_postings(s, p), Removed(p))
<1>1. inner \in Memory /\ CanBump
  BY DEF TypeOK, Merge
<1>2. PICK p \in Plans(inner.ids) :
        \/ Commits(knn_merge(inner, p), t(p), {}) /\ UNCHANGED acked
        \/ Removed(p) # {} /\ Fails(knn_merge(inner, p), s)
  BY Zenon DEF Merge
<1>3. knn_merge(inner, p) \in Memory /\ s \in Records /\ t(p) \in Records
  BY <1>1, KnnMerge, ConsolidatedRecords
<1> HIDE DEF s, t
<1>4. CASE Commits(knn_merge(inner, p), t(p), {}) /\ UNCHANGED acked
  <2>1. inner' \in Memory /\ store' \in Records
    BY <1>1, <1>3, <1>4, CommitsType
  <2>2. written' = written + 0 /\ learned' = learned
    BY <1>4, FS_EmptySet DEF Commits, Acknowledge
  <2> QED
    BY <1>4, <2>1, <2>2 DEF TypeOK, Merge, clientVars
<1>5. CASE Fails(knn_merge(inner, p), s)
  BY <1>1, <1>3, <1>5, FailsType DEF TypeOK, Merge, clientVars
<1> QED
  BY <1>2, <1>4, <1>5

LEMMA CompressedRecords ==
    ASSUME TypeOK, NEW p \in Plans(inner.ids), Removed(p) # {}
    PROVE  LET s == materialize_document_refs(store, inner)
               m == knn_merge(inner, p)
               t == compressed_records(s, m, p)
           IN /\ t \in Records
              /\ t.ids = (store.ids \ Removed(p)) \cup m.ids
              /\ t.next_id = store.next_id
              /\ \A l \in LocId : l \in m.ids => t.mix[l] = m.mix[l]
<1> DEFINE s == materialize_document_refs(store, inner)
           m == knn_merge(inner, p)
           u == delete_locations(migrate_postings(s, p), Removed(p))
<1>1. inner \in Memory
  BY DEF TypeOK
<1>2. m \in Memory
  BY <1>1, KnnMerge
<1>3. u \in Records /\ u.ids = store.ids \ Removed(p) /\ u.next_id = store.next_id
  BY ConsolidatedRecords
<1>4. compressed_records(s, m, p) = put_locations(u, m.ids, m.mix)
  BY DEF compressed_records
<1> HIDE DEF s, m, u
<1> DEFINE S == m.ids
           mix == m.mix
<1>5. S \in SUBSET LocId /\ mix \in Mix
  BY <1>2 DEF Memory
<1> HIDE DEF S, mix
<1>6. /\ put_locations(u, S, mix) \in Records
      /\ put_locations(u, S, mix).ids = u.ids \cup S
      /\ put_locations(u, S, mix).next_id = u.next_id
      /\ \A l \in LocId : put_locations(u, S, mix).mix[l] =
           IF l \in S THEN mix[l] ELSE u.mix[l]
  <2> DEFINE q == put_locations(u, S, mix)
  <2> HIDE DEF q
  <2>1. q \in Records
    BY <1>3, <1>5, PutLocations DEF q
  <2>2. q.ids = u.ids \cup S
    BY <1>3, <1>5, PutLocations DEF q
  <2>4. q.next_id = u.next_id
    BY <1>3, <1>5, PutLocations DEF q
  <2>3. \A l \in LocId : q.mix[l] = IF l \in S THEN mix[l] ELSE u.mix[l]
    BY <1>3, <1>5, PutLocations DEF q
  <2> QED
    BY <2>1, <2>2, <2>3, <2>4 DEF q
<1>7. \A l \in LocId : l \in S => put_locations(u, S, mix).mix[l] = mix[l]
  BY <1>6
<1> QED
  BY <1>3, <1>4, <1>6, <1>7 DEF s, m, S, mix

LEMMA CompressType ==
    ASSUME TypeOK, Compress
    PROVE  TypeOK'
<1> DEFINE s == materialize_document_refs(store, inner)
           m(p) == knn_merge(inner, p)
<1>1. inner \in Memory
  BY DEF TypeOK
<1>2. PICK p \in Plans(inner.ids) :
        \/ inner' = m(p) /\ store' = compressed_records(s, m(p), p)
        \/ Removed(p) # {} /\ Rollback(m(p), s) /\ store' = s
  BY Zenon DEF Compress
<1>3. m(p) \in Memory /\ s \in Records
  BY <1>1, KnnMerge, ConsolidatedRecords
<1>4. compressed_records(s, m(p), p) \in Records
  <2>1. CASE Removed(p) = {}
    BY <1>3, <2>1 DEF compressed_records
  <2>2. CASE Removed(p) # {}
    BY <2>2, CompressedRecords
  <2> QED
    BY <2>1, <2>2
<1> HIDE DEF s, m
<1>5. inner' \in Memory /\ store' \in Records
  BY <1>2, <1>3, <1>4, RollbackType
<1> QED
  BY <1>5 DEF TypeOK, Compress

-----------------------------------------------------------------------------
LEMMA LoadedType ==
    ASSUME TypeOK, NEW S \in SUBSET LocId,
           written + Cardinality(Loaded(S)) <= MaxWrite
    PROVE  /\ Loaded(S) \in SUBSET Vector
           /\ written + Cardinality(Loaded(S)) \in 0 .. MaxWrite
<1>1. written \in Nat /\ MaxWrite \in Nat /\ written <= MaxWrite
  BY ConstantsAssumption DEF TypeOK
<1>2. CASE S = {}
  BY <1>1, <1>2, FS_EmptySet DEF Loaded
<1>3. CASE S # {}
  <2>1. Loaded(S) = {written + 1} /\ Cardinality(Loaded(S)) = 1
    BY <1>3, FS_Singleton DEF Loaded
  <2>2. written + 1 <= MaxWrite
    BY <2>1
  <2>3. written + 1 \in Vector /\ written + 1 \in 0 .. MaxWrite
    BY <1>1, <2>2 DEF Vector
  <2> QED
    BY <2>1, <2>3
<1> QED
  BY <1>2, <1>3

(* What a wholesale replacement makes of the memory and of the records.    *)
LEMMA ReplaceEffect ==
    ASSUME TypeOK, CanBump, NEW S \in SUBSET LocId, NEW n \in 0 .. MaxLoc,
           written + Cardinality(Loaded(S)) <= MaxWrite, Replace(S, n)
    PROVE  /\ inner' \in Memory
           /\ store' \in Records
           /\ \/ /\ inner'.ids = S
                 /\ inner'.next_id = n
                 /\ \A l \in LocId :
                      inner'.mix[l] = IF l \in S THEN Loaded(S) ELSE {}
                 /\ store'.ids = (store.ids \ inner.ids) \cup S
                 /\ store'.next_id = n
                 /\ \A l \in S : store'.mix[l] = inner'.mix[l]
                 /\ learned' = Loaded(S)
                 /\ written' = written + Cardinality(Loaded(S))
                 /\ UNCHANGED acked
              \/ /\ inner'.valid =>
                      /\ inner'.ids = store'.ids
                      /\ inner'.mix = store'.mix
                      /\ inner'.next_id = store'.next_id
                 /\ SameLocations(store, store')
                 /\ store'.next_id = store.next_id
                 /\ UNCHANGED <<written, learned, acked>>
<1> DEFINE mix == [l \in LocId |-> IF l \in S THEN Loaded(S) ELSE {}]
           m   == [inner EXCEPT !.ids = S, !.mix = mix, !.next_id = n]
           s   == materialize_document_refs(store, inner)
           t   == delete_locations(s, inner.ids)
<1>1. inner \in Memory /\ store \in Records
  BY DEF TypeOK
<1>2. mix \in Mix
  BY LoadedType DEF Mix
<1>3. \A l \in LocId : mix[l] = IF l \in S THEN Loaded(S) ELSE {}
  OBVIOUS
<1>4. \/ /\ inner' = Bump(m)
         /\ store' = saved(t, S, m)
         /\ learned' = Loaded(S)
         /\ written' = written + Cardinality(Loaded(S))
         /\ UNCHANGED acked
      \/ Fails(inner, s)
  BY Zenon DEF Replace
<1> HIDE DEF mix
<1>5. m \in Memory /\ m.ids = S /\ m.mix = mix /\ m.next_id = n
  BY <1>1, <1>2 DEF Memory
<1>6. s \in Records /\ SameLocations(store, s) /\ s.next_id = store.next_id
  BY <1>1, Materialize
<1> HIDE DEF m, s
<1>7. t \in Records /\ t.ids = s.ids \ inner.ids
  BY <1>1, <1>6, DeleteLocations DEF Memory
<1> HIDE DEF t
<1>8. CASE /\ inner' = Bump(m)
           /\ store' = saved(t, S, m)
           /\ learned' = Loaded(S)
           /\ written' = written + Cardinality(Loaded(S))
           /\ UNCHANGED acked
  <2>1. /\ inner' \in Memory /\ inner'.ids = S /\ inner'.next_id = n
        /\ inner'.mix = mix
    BY <1>1, <1>5, <1>8, BumpType
  <2>2. store' \in Records
    BY <1>5, <1>7, <1>8, SavedType
  <2>3. store'.ids = t.ids \cup S
    <3>1. m \in Memory /\ t \in Records /\ S \in SUBSET LocId
      BY <1>5, <1>7
    <3>2. saved(t, S, m).ids = t.ids \cup S
      BY <3>1, SavedType
    <3> QED
      BY <1>8, <3>2
  <2>6. store'.next_id = n
    BY <1>5, <1>7, <1>8, SavedType
  <2>4. \A l \in LocId : l \in S => store'.mix[l] = m.mix[l]
    BY <1>5, <1>7, <1>8, SavedType
  <2>5. store'.ids = (store.ids \ inner.ids) \cup S
    BY <1>6, <1>7, <2>3 DEF SameLocations
  <2> QED
    BY <1>3, <1>5, <1>8, <2>1, <2>2, <2>4, <2>5, <2>6
<1>9. CASE Fails(inner, s)
  <2>1. Bump(inner) \in Memory
    BY <1>1, BumpType
  <2>2. Rollback(Bump(inner), s) /\ store' = s
        /\ UNCHANGED <<written, learned, acked>>
    BY <1>9 DEF Fails
  <2> QED
    BY <1>6, <2>1, <2>2, RollbackType
<1> QED
  BY <1>4, <1>8, <1>9

LEMMA ReplaceType ==
    ASSUME TypeOK, NEW S \in SUBSET LocId, NEW n \in 0 .. MaxLoc
    PROVE  /\ LoadSnapshot(S, n) => TypeOK'
           /\ LoadSnapshotChecked(S, n) => TypeOK'
<1>1. NoSnapshot \in Snapshot
  BY ConstantsAssumption DEF NoSnapshot, Snapshot, Mix
<1>2. ASSUME CanBump, written + Cardinality(Loaded(S)) <= MaxWrite,
             Replace(S, n), snap' \in Snapshot, UNCHANGED reader
      PROVE  TypeOK'
  <2>1. inner' \in Memory /\ store' \in Records
    BY <1>2, ReplaceEffect
  <2>2. /\ written' \in 0 .. MaxWrite
        /\ learned' \in SUBSET Vector
        /\ acked' \in [DocId -> SUBSET Vector]
    BY <1>2, ReplaceEffect, LoadedType DEF TypeOK
  <2> QED
    BY <1>2, <2>1, <2>2 DEF TypeOK
<1> QED
  BY <1>1, <1>2 DEF LoadSnapshot, LoadSnapshotChecked, clientVars, TypeOK

LEMMA SnapshotType ==
    ASSUME TypeOK
    PROVE  /\ SnapshotVersioned => TypeOK'
           /\ LoadConflict => TypeOK'
<1>1. NoSnapshot \in Snapshot
  BY ConstantsAssumption DEF NoSnapshot, Snapshot, Mix
<1>2. [taken |-> TRUE, version |-> inner.version,
       ids |-> inner.ids, mix |-> inner.mix] \in Snapshot
  BY DEF TypeOK, Memory, Snapshot
<1> QED
  BY <1>1, <1>2 DEF SnapshotVersioned, LoadConflict, TypeOK

LEMMA LifecycleType ==
    ASSUME TypeOK, Lifecycle
    PROVE  TypeOK'
<1>1. inner \in Memory /\ store \in Records /\ inner.ids \in SUBSET LocId
  BY DEF TypeOK, Memory
<1>2. NoSnapshot \in Snapshot
  BY ConstantsAssumption DEF NoSnapshot, Snapshot, Mix
<1>3. NoReader \in Reader
  BY NoDocumentType DEF NoReader, Reader
<1>4. CASE Flush
  <2>1. saved(store, inner.ids, inner) \in Records
    BY <1>1, SavedType
  <2> QED
    BY <1>4, <2>1 DEF Flush, TypeOK
<1>5. CASE Reopen
  BY <1>1, <1>2, <1>3, <1>5, LoadType DEF Reopen, TypeOK
<1>6. CASE ReopenByCreate
  BY <1>1, <1>2, <1>3, <1>6, NewType DEF ReopenByCreate, TypeOK
<1> QED
  BY <1>4, <1>5, <1>6 DEF Lifecycle

LEMMA InitType == Init => TypeOK
<1> SUFFICES ASSUME Init PROVE TypeOK
  OBVIOUS
<1>1. NoRecords \in Records
  BY NoDocumentType, ConstantsAssumption DEF NoRecords, Records, Mix
<1>2. inner \in Memory /\ store \in Records
  BY <1>1, NewType DEF Init
<1>3. snap \in Snapshot
  BY ConstantsAssumption DEF Init, NoSnapshot, Snapshot, Mix
<1>4. reader \in Reader
  BY NoDocumentType DEF Init, NoReader, Reader
<1> QED
  BY <1>2, <1>3, <1>4, ConstantsAssumption DEF Init, TypeOK

LEMMA NextType ==
    ASSUME TypeOK, [Next]_vars
    PROVE  TypeOK'
<1>1. CASE Write \/ WriteTwo
  BY <1>1, WriteOneType DEF Write, WriteTwo
<1>2. CASE WriteWithMetadata \/ WriteBatchWithMetadata
  BY <1>2, WriteWithMetadataType, WriteBatchWithMetadataType
<1>3. CASE WriteBatch
  BY <1>3, WriteBatchType
<1>4. CASE Deletes \/ Fetches
  <2>1. 0 \in DocId
    BY ConstantsAssumption DEF DocId
  <2>2. ResolveFetched => TypeOK'
    BY <2>1, DocumentCallsType
  <2>3. \A d \in DocId : DeleteDocument(d) \/ GetDocument(d) => TypeOK'
    BY DocumentCallsType
  <2> QED
    BY <1>4, <2>2, <2>3 DEF Deletes, Fetches
<1>5. CASE Merge \/ Compress
  BY <1>5, MergeType, CompressType
<1>6. CASE Lifecycle
  BY <1>6, LifecycleType
<1>7. CASE Replacements
  BY <1>7, ReplaceType, SnapshotType DEF Replacements
<1>8. CASE UNCHANGED vars
  BY <1>8 DEF vars, TypeOK
<1> QED
  BY <1>1, <1>2, <1>3, <1>4, <1>5, <1>6, <1>7, <1>8
     DEF Next, Common, Writes

(* Every reachable state is well typed: in particular every location and   *)
(* document id stays within the counters' range through writes, splits,    *)
(* merges, failed transactions, wholesale replacement and restarts         *)
(* (collection.rs, write 648 .. load_snapshot_checked 2613).               *)
THEOREM TypeCorrect == Spec => []TypeOK
<1>1. Init => TypeOK
  BY InitType
<1>2. TypeOK /\ [Next]_vars => TypeOK'
  BY NextType
<1> QED
  BY <1>1, <1>2, PTL DEF Spec

-----------------------------------------------------------------------------
(* What the calls do to the contents.  After a call that wrote the vectors *)
(* `V`, touching the locations `T` of the memory `m`, the memory is `m2`:   *)
(* nothing else changed, nothing was invented and, if location ids are     *)
(* fresh, nothing was lost.                                                *)
Absorbs(m, V, T, m2) ==
    /\ m2.ids = m.ids \cup T
    /\ \A l \in LocId \ T : m2.mix[l] = m.mix[l]
    /\ \A l \in m2.ids : \A x \in m2.mix[l] :
         x \in V \/ \E k \in m.ids : x \in m.mix[k]
    /\ Fresh(m) =>
         /\ Fresh(m2)
         /\ \A l \in m.ids : m.mix[l] \subseteq m2.mix[l]
         /\ \A x \in V : \E l \in m2.ids : x \in m2.mix[l]
         /\ ~Competitive => \A l \in T : l \notin m.ids

LEMMA WroteAbsorbs ==
    ASSUME NEW m \in Memory, NEW v \in Vector, NEW r, Wrote(m, v, r)
    PROVE  Absorbs(m, {v}, Touched(r), r.memory)
<1>1. /\ r.memory \in Memory /\ r.modified \subseteq m.ids
      /\ m.ids \subseteq LocId /\ m.next_id \in Int
      /\ \A l \in LocId : l \in Int
  BY ConstantsAssumption DEF Wrote, Memory, LocId
<1>2. r.memory.ids = m.ids \cup Touched(r)
  BY <1>1 DEF Wrote, Touched
<1>3. \A l \in LocId \ Touched(r) : r.memory.mix[l] = m.mix[l]
  BY DEF Wrote, Touched
<1>4. \A l \in r.memory.ids : \A x \in r.memory.mix[l] :
         x \in {v} \/ \E k \in m.ids : x \in m.mix[k]
  BY <1>1 DEF Wrote
<1>5. ASSUME Fresh(m)
      PROVE  /\ Fresh(r.memory)
             /\ \A l \in m.ids : m.mix[l] \subseteq r.memory.mix[l]
             /\ \A x \in {v} : \E l \in r.memory.ids : x \in r.memory.mix[l]
             /\ ~Competitive => \A l \in Touched(r) : l \notin m.ids
  <2>1. CASE CreatedOne(m, r)
    <3>1. \A l \in m.ids : l \notin r.created
      BY <1>1, <1>5, <2>1 DEF CreatedOne, Fresh
    <3>2. Fresh(r.memory)
      <4> SUFFICES ASSUME NEW l \in r.memory.ids
                   PROVE  l < m.next_id + 1
        BY <2>1 DEF CreatedOne, Fresh
      <4>1. l \in m.ids \/ l = m.next_id
        BY <2>1 DEF CreatedOne, Wrote
      <4> QED
        BY <1>1, <1>5, <4>1 DEF Fresh
    <3> QED
      BY <1>1, <1>5, <3>1, <3>2 DEF Wrote, Touched
  <2>2. CASE CreatedNone(m, r)
    <3>1. r.memory.ids = m.ids /\ r.memory.next_id = m.next_id
      BY <2>2 DEF CreatedNone, Wrote
    <3> QED
      BY <1>1, <1>5, <2>2, <3>1 DEF CreatedNone, Wrote, Fresh, Touched
  <2> QED
    BY <2>1, <2>2 DEF Wrote
<1> QED
  BY <1>2, <1>3, <1>4, <1>5 DEF Absorbs

(* One write after another.                                                *)
LEMMA AbsorbsTwo ==
    ASSUME NEW m \in Memory, NEW m1 \in Memory, NEW m2 \in Memory,
           NEW V, NEW W, NEW T, NEW U,
           Absorbs(m, V, T, m1), Absorbs(m1, W, U, m2)
    PROVE  Absorbs(m, V \cup W, T \cup U, m2)
<1>1. m2.ids = m.ids \cup (T \cup U)
  BY DEF Absorbs
<1>2. \A l \in LocId \ (T \cup U) : m2.mix[l] = m.mix[l]
  BY DEF Absorbs
<1>3. \A l \in m2.ids : \A x \in m2.mix[l] :
         x \in V \cup W \/ \E k \in m.ids : x \in m.mix[k]
  BY DEF Absorbs
<1>4. ASSUME Fresh(m)
      PROVE  /\ Fresh(m2)
             /\ \A l \in m.ids : m.mix[l] \subseteq m2.mix[l]
             /\ \A x \in V \cup W : \E l \in m2.ids : x \in m2.mix[l]
             /\ ~Competitive => \A l \in T \cup U : l \notin m.ids
  <2>1. Fresh(m1) /\ Fresh(m2)
    BY <1>4 DEF Absorbs
  <2>2. \A l \in m.ids : l \in m1.ids /\ m.mix[l] \subseteq m1.mix[l]
    BY <1>4 DEF Absorbs
  <2>3. \A l \in m1.ids : l \in m2.ids /\ m1.mix[l] \subseteq m2.mix[l]
    BY <2>1 DEF Absorbs
  <2>4. \A x \in V : \E l \in m1.ids : x \in m1.mix[l]
    BY <1>4 DEF Absorbs
  <2>5. \A x \in W : \E l \in m2.ids : x \in m2.mix[l]
    BY <2>1 DEF Absorbs
  <2>6. ~Competitive => /\ \A l \in T : l \notin m.ids
                        /\ \A l \in U : l \notin m1.ids
    BY <1>4, <2>1 DEF Absorbs
  <2> QED
    BY <2>1, <2>2, <2>3, <2>4, <2>5, <2>6
<1> QED
  BY <1>1, <1>2, <1>3, <1>4 DEF Absorbs

(* Taking a document id is no change of the locations.                     *)
LEMMA AbsorbsWithDocId ==
    ASSUME NEW m, NEW V, NEW T, NEW m2 \in Memory
    PROVE  /\ Absorbs(m, V, T, m2) => Absorbs(m, V, T, WithDocId(m2))
           /\ WithDocId(m2).ids = m2.ids
           /\ WithDocId(m2).mix = m2.mix
           /\ WithDocId(m2).next_id = m2.next_id
<1>1. /\ WithDocId(m2).ids = m2.ids
      /\ WithDocId(m2).mix = m2.mix
      /\ WithDocId(m2).next_id = m2.next_id
  BY DEF WithDocId, Memory
<1> QED
  BY <1>1 DEF Absorbs, Fresh

(* The records `s` after the locations `T` of the memory `m2` were stored. *)
Stored(s, T, m2, s2) ==
    /\ s2.ids = s.ids \cup T
    /\ s2.next_id = m2.next_id
    /\ \A l \in T : s2.mix[l] = m2.mix[l]
    /\ \A l \in LocId \ T : s2.mix[l] = s.mix[l]

(* The same, but a stored location may lag behind the memory.              *)
PartlyStored(s, T, m2, s2) ==
    /\ s2.ids = s.ids \cup T
    /\ s2.next_id = m2.next_id
    /\ \A l \in T : s2.mix[l] \subseteq m2.mix[l]
    /\ \A l \in LocId \ T : s2.mix[l] = s.mix[l]

(* A committed write of the vectors `V`.                                   *)
CommittedWrite(V, T, m2) ==
    /\ Absorbs(inner, V, T, m2)
    /\ inner'.ids = m2.ids
    /\ inner'.mix = m2.mix
    /\ inner'.next_id = m2.next_id
    /\ learned' = learned \cup V

(* A call that failed, or changed no location: the store holds the same    *)
(* locations and the memory is unchanged, reloaded or unusable.            *)
NothingCommitted ==
    /\ SameLocations(store, store')
    /\ store'.next_id = store.next_id
    /\ learned' = learned
    /\ \/ inner' = inner
       \/ inner'.valid =>
            /\ inner'.ids = store'.ids
            /\ inner'.mix = store'.mix
            /\ inner'.next_id = store'.next_id

DurableWrite ==
    \E V \in SUBSET Vector, T \in SUBSET LocId, m2 \in Memory :
        CommittedWrite(V, T, m2) /\ Stored(store, T, m2, store')

PartlyDurableWrite ==
    \E V \in SUBSET Vector, T \in SUBSET LocId, m2 \in Memory :
        CommittedWrite(V, T, m2) /\ PartlyStored(store, T, m2, store')

LEMMA DurableIsPartly == DurableWrite => PartlyDurableWrite
BY DEF DurableWrite, PartlyDurableWrite, Stored, PartlyStored

(* Storing locations, seen as a relation between records.                  *)
Puts(s, T, m, t) ==
    /\ t.ids = s.ids \cup T
    /\ \A l \in T : t.mix[l] = m.mix[l]
    /\ \A l \in LocId \ T : t.mix[l] = s.mix[l]

LEMMA PutsMemory ==
    ASSUME NEW s \in Records, NEW T \in SUBSET LocId, NEW m \in Memory
    PROVE  /\ put_locations(s, T, m.mix) \in Records
           /\ Puts(s, T, m, put_locations(s, T, m.mix))
<1> DEFINE t == put_locations(s, T, m.mix)
           f == [l \in LocId |-> IF l \in T THEN m.mix[l] ELSE s.mix[l]]
<1>1. t \in Records /\ t.ids = s.ids \cup T
  BY PutMemory
<1>2. t.mix = f
  BY DEF put_locations, Records
<1>3. \A l \in LocId : f[l] = IF l \in T THEN m.mix[l] ELSE s.mix[l]
  OBVIOUS
<1> HIDE DEF t, f
<1>4. Puts(s, T, m, t)
  BY <1>1, <1>2, <1>3 DEF Puts
<1> QED
  BY <1>1, <1>4 DEF t

LEMMA StoredSaved ==
    ASSUME NEW s \in Records, NEW T \in SUBSET LocId, NEW m \in Memory
    PROVE  /\ saved(s, T, m) \in Records
           /\ Stored(s, T, m, saved(s, T, m))
<1> DEFINE t == put_locations(s, T, m.mix)
<1>1. t \in Records /\ Puts(s, T, m, t)
  BY PutsMemory
<1>2. saved(s, T, m) = put_next_id(t, m)
  BY DEF saved
<1> HIDE DEF t
<1>3. /\ put_next_id(t, m) \in Records
      /\ SameLocations(t, put_next_id(t, m))
      /\ put_next_id(t, m).next_id = m.next_id
  BY <1>1, PutCounters
<1> QED
  BY <1>1, <1>2, <1>3 DEF Stored, Puts, SameLocations

LEMMA FiledLocations ==
    ASSUME NEW s \in Records, NEW r, Touched(r) \in SUBSET LocId,
           NEW d \in DocId, NEW doc \in Document
    PROVE  /\ filed(s, r, d, doc) \in Records
           /\ SameLocations(s, filed(s, r, d, doc))
<1> DEFINE q == put_document(s, d, doc)
<1>1. q \in Records /\ SameLocations(s, q)
  BY PutDocument
<1> HIDE DEF q
<1>2. /\ append_doc_to_locations(q, Touched(r), d) \in Records
      /\ SameLocations(q, append_doc_to_locations(q, Touched(r), d))
  BY <1>1, AppendDoc
<1> QED
  BY <1>1, <1>2 DEF filed, Indexed, SameLocations, q

LEMMA StoredFiled ==
    ASSUME NEW s \in Records, NEW T \in SUBSET LocId, NEW m \in Memory,
           NEW t \in Records, SameLocations(put_locations(s, T, m.mix), t)
    PROVE  Stored(s, T, m, put_counters(t, m))
<1>1. t.ids = s.ids \cup T
  BY PutMemory DEF SameLocations
<1>2. \A l \in LocId : t.mix[l] = IF l \in T THEN m.mix[l] ELSE s.mix[l]
  <2> DEFINE q == put_locations(s, T, m.mix)
  <2>1. \A l \in LocId : q.mix[l] = IF l \in T THEN m.mix[l] ELSE s.mix[l]
    BY PutMemory
  <2>2. t.mix = q.mix
    BY DEF SameLocations
  <2> HIDE DEF q
  <2> QED
    BY <2>1, <2>2
<1>3. /\ put_counters(t, m).ids = t.ids
      /\ put_counters(t, m).mix = t.mix
      /\ put_counters(t, m).next_id = m.next_id
  BY PutCounters DEF SameLocations
<1> QED
  BY <1>1, <1>2, <1>3 DEF Stored

LEMMA CommitsEffect ==
    ASSUME TypeOK, CanBump, NEW m \in Memory, NEW s, NEW V, NEW T,
           Commits(m, s, V), Absorbs(inner, V, T, m)
    PROVE  CommittedWrite(V, T, m) /\ store' = s
BY BumpType DEF TypeOK, Commits, Acknowledge, CommittedWrite

LEMMA FailsEffect ==
    ASSUME TypeOK, CanBump, NEW m \in Memory, NEW s \in Records, Fails(m, s),
           SameLocations(store, s), s.next_id = store.next_id
    PROVE  NothingCommitted
<1>1. Bump(m) \in Memory
  BY BumpType DEF TypeOK
<1>2. Rollback(Bump(m), s) /\ store' = s /\ learned' = learned
  BY DEF Fails
<1> QED
  BY <1>1, <1>2, RollbackType DEF NothingCommitted

LEMMA FailsUnchanged ==
    ASSUME TypeOK, CanBump, NEW m \in Memory, Fails(m, store)
    PROVE  NothingCommitted
BY FailsEffect DEF TypeOK, SameLocations

LEMMA WriteOneEffect ==
    ASSUME TypeOK, NEW gate \in BOOLEAN, WriteOne(gate)
    PROVE  DurableWrite \/ NothingCommitted
<1> DEFINE v == written + 1
<1>1. inner \in Memory /\ store \in Records /\ CanBump /\ written + 1 <= MaxWrite
  BY DEF TypeOK, WriteOne
<1>2. v \in Vector
  BY <1>1, AcknowledgeOne
<1>3. PICK r \in adaptive_write_two(inner, v, gate) :
        \/ Commits(r.memory, saved(store, Touched(r), r.memory), {v})
        \/ Fails(r.memory, store)
  BY DEF WriteOne
<1>4. Wrote(inner, v, r)
  BY <1>1, <1>2, <1>3, AdaptiveWrite
<1>5. r.memory \in Memory /\ Touched(r) \in SUBSET LocId
  BY <1>1, <1>2, <1>4, TouchedType
<1>6. Absorbs(inner, {v}, Touched(r), r.memory)
  BY <1>1, <1>2, <1>4, WroteAbsorbs
<1> DEFINE T == Touched(r)
           m == r.memory
<1> HIDE DEF T, m, v
<1>7. CASE Commits(m, saved(store, T, m), {v})
  <2>1. CommittedWrite({v}, T, m) /\ store' = saved(store, T, m)
    BY <1>1, <1>5, <1>6, <1>7, CommitsEffect DEF T, m
  <2>2. Stored(store, T, m, store')
    BY <1>1, <1>5, <2>1, StoredSaved DEF T, m
  <2> QED
    BY <1>2, <1>5, <2>1, <2>2 DEF DurableWrite, T, m
<1>8. CASE Fails(m, store)
  BY <1>1, <1>5, <1>8, FailsUnchanged DEF m
<1> QED
  BY <1>3, <1>7, <1>8 DEF T, m

LEMMA WriteBatchEffect ==
    ASSUME TypeOK, WriteBatch
    PROVE  PartlyDurableWrite \/ NothingCommitted
<1> DEFINE v == written + 1
           u == written + 2
           Does(r1, r2) ==
             \/ Commits(r2.memory, saved_batch(store, r1, r2), {v, u})
             \/ Fails(r2.memory, store)
<1>1. inner \in Memory /\ store \in Records /\ CanBump /\ written + 2 <= MaxWrite
  BY DEF TypeOK, WriteBatch
<1>2. v \in Vector /\ u \in Vector
  BY <1>1, AcknowledgeTwo
<1>3. PICK r1 \in adaptive_write(inner, v) :
        \E r2 \in adaptive_write(r1.memory, u) : Does(r1, r2)
  BY DEF WriteBatch
<1>4. PICK r2 \in adaptive_write(r1.memory, u) : Does(r1, r2)
  BY <1>3
<1>5. Wrote(inner, v, r1)
  BY <1>1, <1>2, <1>3, AdaptiveWrite DEF adaptive_write
<1>6. r1.memory \in Memory /\ r1.modified \in SUBSET LocId /\ r1.created \in SUBSET LocId
  BY <1>1, <1>2, <1>5, TouchedType
<1>7. Wrote(r1.memory, u, r2)
  BY <1>2, <1>4, <1>6, AdaptiveWrite DEF adaptive_write
<1>8. r2.memory \in Memory /\ r2.modified \in SUBSET LocId /\ r2.created \in SUBSET LocId
  BY <1>2, <1>6, <1>7, TouchedType
<1> DEFINE T1 == Touched(r1)
           T2 == Touched(r2)
           m1 == r1.memory
           m2 == r2.memory
           S  == r1.modified \cup r2.modified
<1>9. Absorbs(inner, {v}, T1, m1) /\ Absorbs(m1, {u}, T2, m2)
  BY <1>1, <1>2, <1>5, <1>6, <1>7, WroteAbsorbs
<1>10. m1 \in Memory /\ m2 \in Memory /\ S \in SUBSET LocId
       /\ T1 \cup T2 = (S \cup r1.created) \cup r2.created
       /\ T1 \cup T2 \in SUBSET LocId
  BY <1>6, <1>8 DEF Touched
<1> HIDE DEF T1, T2, m1, m2, S
<1>11. Absorbs(inner, {v} \cup {u}, T1 \cup T2, m2)
  BY <1>1, <1>9, <1>10, AbsorbsTwo
<1>12. {v} \cup {u} = {v, u}
  OBVIOUS
<1>13. PartlyStored(store, T1 \cup T2, m2, saved_batch(store, r1, r2))
  <2> DEFINE p == put_locations(store, S, m2.mix)
             q == put_locations(p, r1.created, m1.mix)
  <2>1. p \in Records /\ Puts(store, S, m2, p)
    BY <1>1, <1>10, PutsMemory
  <2> HIDE DEF p
  <2>3. q \in Records /\ Puts(p, r1.created, m1, q)
    BY <1>6, <1>10, <2>1, PutsMemory
  <2> HIDE DEF q
  <2> DEFINE t == saved(q, r2.created, m2)
  <2>5. Stored(q, r2.created, m2, t)
    BY <1>8, <1>10, <2>3, StoredSaved
  <2>6. t = saved_batch(store, r1, r2)
    BY DEF saved_batch, t, q, p, S, m1, m2
  <2> HIDE DEF t
  <2>7. t.ids = store.ids \cup (T1 \cup T2) /\ t.next_id = m2.next_id
    BY <1>10, <2>1, <2>3, <2>5 DEF Stored, Puts
  <2>8. \A l \in LocId \ (T1 \cup T2) : t.mix[l] = store.mix[l]
    BY <1>10, <2>1, <2>3, <2>5 DEF Stored, Puts
  <2>9. \A l \in LocId \ r2.created : m1.mix[l] \subseteq m2.mix[l]
    BY <1>7 DEF Wrote, m1, m2
  <2>10. \A l \in T1 \cup T2 : t.mix[l] \subseteq m2.mix[l]
    <3> SUFFICES ASSUME NEW l \in T1 \cup T2
                 PROVE  t.mix[l] \subseteq m2.mix[l]
      OBVIOUS
    <3>1. l \in LocId
      BY <1>10
    <3>2. CASE l \in r2.created
      BY <2>5, <3>2 DEF Stored
    <3>3. CASE l \notin r2.created /\ l \in r1.created
      BY <2>3, <2>5, <2>9, <3>1, <3>3 DEF Stored, Puts
    <3>4. CASE l \notin r2.created /\ l \notin r1.created
      BY <1>10, <2>1, <2>3, <2>5, <3>1, <3>4 DEF Stored, Puts
    <3> QED
      BY <3>2, <3>3, <3>4
  <2> QED
    BY <2>6, <2>7, <2>8, <2>10 DEF PartlyStored
<1>14. CASE Commits(m2, saved_batch(store, r1, r2), {v, u})
  <2> DEFINE t == saved_batch(store, r1, r2)
             T == T1 \cup T2
  <2> HIDE DEF t, T
  <2>1. CommittedWrite({v, u}, T, m2) /\ store' = t
    BY <1>1, <1>10, <1>11, <1>12, <1>14, CommitsEffect DEF t, T
  <2> QED
    BY <1>2, <1>10, <1>13, <2>1 DEF PartlyDurableWrite, t, T
<1>15. CASE Fails(m2, store)
  BY <1>1, <1>10, <1>15, FailsUnchanged
<1> QED
  BY <1>4, <1>14, <1>15 DEF m2

LEMMA WriteWithMetadataEffect ==
    ASSUME TypeOK, WriteWithMetadata
    PROVE  DurableWrite \/ NothingCommitted
<1> DEFINE v == written + 1
           d == inner.doc_next_id
           M(r) == WithDocId(r.memory)
           t(r, doc) ==
             filed(put_locations(store, Touched(r), M(r).mix), r, d, doc)
           Does(r, doc) ==
             \/ Commits(M(r), put_counters(t(r, doc), M(r)), {v})
             \/ Fails(M(r), store)
<1>1. inner \in Memory /\ store \in Records /\ CanBump /\ written + 1 <= MaxWrite
  BY DEF TypeOK, WriteWithMetadata
<1>2. v \in Vector
  BY <1>1, AcknowledgeOne
<1>3. d \in DocId /\ inner.doc_next_id < MaxDoc
  BY <1>1, ConstantsAssumption DEF WriteWithMetadata, Memory, DocId
<1>4. PICK r \in adaptive_write(inner, v) :
        \E doc \in DocumentOf(r, v) : Does(r, doc)
  BY Zenon DEF WriteWithMetadata
<1>5. PICK doc \in DocumentOf(r, v) : Does(r, doc)
  BY <1>4
<1>6. Wrote(inner, v, r)
  BY <1>1, <1>2, <1>4, AdaptiveWrite DEF adaptive_write
<1>7. /\ r.memory \in Memory /\ r.memory.doc_next_id < MaxDoc
      /\ Touched(r) \in SUBSET LocId /\ r.created \in SUBSET LocId
  BY <1>1, <1>2, <1>3, <1>6, TouchedType DEF Wrote
<1>8. M(r) \in Memory
  BY <1>7, WithDocIdType
<1>9. doc \in Document
  BY <1>2, <1>5, <1>7, DocumentOfType
<1> DEFINE T == Touched(r)
           m == M(r)
<1>10. Absorbs(inner, {v}, T, m)
  <2>1. Absorbs(inner, {v}, T, r.memory)
    BY <1>1, <1>2, <1>6, WroteAbsorbs
  <2> QED
    BY <1>7, <2>1, AbsorbsWithDocId
<1> DEFINE s == t(r, doc)
<1>11. s \in Records /\ SameLocations(put_locations(store, T, m.mix), s)
  <2> DEFINE p == put_locations(store, T, m.mix)
  <2>1. p \in Records
    BY <1>1, <1>7, <1>8, PutsMemory
  <2> HIDE DEF p, M, m
  <2>2. filed(p, r, d, doc) \in Records /\ SameLocations(p, filed(p, r, d, doc))
    BY <1>3, <1>7, <1>9, <2>1, FiledLocations
  <2> QED
    BY <2>2 DEF p, m
<1> HIDE DEF s, t, m, T, M
<1>12. T \in SUBSET LocId /\ m \in Memory
  BY <1>7, <1>8 DEF T, m
<1>13. Stored(store, T, m, put_counters(s, m))
  BY <1>1, <1>11, <1>12, StoredFiled
<1>14. CASE Commits(m, put_counters(s, m), {v})
  <2>1. CommittedWrite({v}, T, m) /\ store' = put_counters(s, m)
    BY <1>1, <1>10, <1>12, <1>14, CommitsEffect
  <2> QED
    BY <1>2, <1>12, <1>13, <2>1 DEF DurableWrite
<1>15. CASE Fails(m, store)
  BY <1>1, <1>12, <1>15, FailsUnchanged
<1> QED
  BY <1>5, <1>14, <1>15 DEF m, s

LEMMA WriteBatchWithMetadataEffect ==
    ASSUME TypeOK, WriteBatchWithMetadata
    PROVE  DurableWrite \/ NothingCommitted
<1> DEFINE v == written + 1
           u == written + 2
           d == inner.doc_next_id
           M(r2) == WithDocId(r2.memory)
           t(r1, r2, doc1, doc2) ==
             filed(filed(put_locations(store, Touched(r1) \cup Touched(r2),
                                       M(r2).mix), r1, d, doc1),
                   r2, d + 1, doc2)
           Does(r1, r2, doc1, doc2) ==
             \/ Commits(M(r2), put_counters(t(r1, r2, doc1, doc2), M(r2)), {v, u})
             \/ Fails(M(r2), store)
<1>1. inner \in Memory /\ store \in Records /\ CanBump /\ written + 2 <= MaxWrite
  BY DEF TypeOK, WriteBatchWithMetadata
<1>2. v \in Vector /\ u \in Vector
  BY <1>1, AcknowledgeTwo
<1>3. d \in DocId /\ d + 1 \in DocId /\ inner.doc_next_id + 1 < MaxDoc
      /\ d + 2 <= MaxDoc
  BY <1>1, ConstantsAssumption DEF WriteBatchWithMetadata, Memory, DocId
<1>4. PICK r1 \in adaptive_write(inner, v) :
        \E r2 \in adaptive_write(WithDocId(r1.memory), u) :
        \E doc1 \in DocumentOf(r1, v), doc2 \in DocumentOf(r2, u) :
           Does(r1, r2, doc1, doc2)
  BY Zenon DEF WriteBatchWithMetadata
<1>5. PICK r2 \in adaptive_write(WithDocId(r1.memory), u) :
        \E doc1 \in DocumentOf(r1, v), doc2 \in DocumentOf(r2, u) :
           Does(r1, r2, doc1, doc2)
  BY <1>4
<1>6. PICK doc1 \in DocumentOf(r1, v), doc2 \in DocumentOf(r2, u) :
        Does(r1, r2, doc1, doc2)
  BY <1>5
<1>7. Wrote(inner, v, r1)
  BY <1>1, <1>2, <1>4, AdaptiveWrite DEF adaptive_write
<1>8. /\ r1.memory \in Memory /\ r1.memory.doc_next_id = d
      /\ Touched(r1) \in SUBSET LocId /\ r1.created \in SUBSET LocId
  BY <1>1, <1>2, <1>7, TouchedType DEF Wrote
<1> DEFINE m1 == WithDocId(r1.memory)
<1>9. m1 \in Memory /\ m1.doc_next_id = d + 1
  <2>1. r1.memory.doc_next_id < MaxDoc
    BY <1>3, <1>8, ConstantsAssumption DEF DocId
  <2> QED
    BY <1>8, <2>1, WithDocIdType
<1>10. Wrote(m1, u, r2)
  BY <1>2, <1>5, <1>9, AdaptiveWrite DEF adaptive_write
<1>11. /\ r2.memory \in Memory /\ r2.memory.doc_next_id = d + 1
       /\ Touched(r2) \in SUBSET LocId /\ r2.created \in SUBSET LocId
  BY <1>2, <1>9, <1>10, TouchedType DEF Wrote
<1> DEFINE T == Touched(r1) \cup Touched(r2)
           m == M(r2)
<1>12. m \in Memory /\ T \in SUBSET LocId
  BY <1>3, <1>8, <1>11, WithDocIdType
<1>13. doc1 \in Document /\ doc2 \in Document
  BY <1>2, <1>6, <1>8, <1>11, DocumentOfType
<1>14. Absorbs(inner, {v, u}, T, m)
  <2>1. Absorbs(inner, {v}, Touched(r1), m1)
    <3>1. Absorbs(inner, {v}, Touched(r1), r1.memory)
      BY <1>1, <1>2, <1>7, WroteAbsorbs
    <3> QED
      BY <1>8, <3>1, AbsorbsWithDocId
  <2>2. Absorbs(m1, {u}, Touched(r2), m)
    <3>1. Absorbs(m1, {u}, Touched(r2), r2.memory)
      BY <1>2, <1>9, <1>10, WroteAbsorbs
    <3> QED
      BY <1>11, <3>1, AbsorbsWithDocId
  <2> HIDE DEF m1, M, m
  <2>3. Absorbs(inner, {v} \cup {u}, T, m)
    BY <1>1, <1>9, <1>12, <2>1, <2>2, AbsorbsTwo
  <2>4. {v} \cup {u} = {v, u}
    OBVIOUS
  <2> QED
    BY <2>3, <2>4
<1> DEFINE s == t(r1, r2, doc1, doc2)
<1>15. s \in Records /\ SameLocations(put_locations(store, T, m.mix), s)
  <2> DEFINE p == put_locations(store, T, m.mix)
             q == filed(p, r1, d, doc1)
  <2>1. p \in Records
    BY <1>1, <1>12, PutsMemory
  <2> HIDE DEF p, M, m, T
  <2>2. q \in Records /\ SameLocations(p, q)
    BY <1>3, <1>8, <1>13, <2>1, FiledLocations
  <2> HIDE DEF q
  <2>3. filed(q, r2, d + 1, doc2) \in Records
        /\ SameLocations(q, filed(q, r2, d + 1, doc2))
    BY <1>3, <1>11, <1>13, <2>2, FiledLocations
  <2>4. s = filed(q, r2, d + 1, doc2)
    BY DEF q, p, m, T
  <2> QED
    BY <2>2, <2>3, <2>4 DEF p, SameLocations
<1> HIDE DEF s, t, m, T, M
<1>16. Stored(store, T, m, put_counters(s, m))
  BY <1>1, <1>12, <1>15, StoredFiled
<1>17. CASE Commits(m, put_counters(s, m), {v, u})
  <2>1. CommittedWrite({v, u}, T, m) /\ store' = put_counters(s, m)
    BY <1>1, <1>12, <1>14, <1>17, CommitsEffect
  <2> QED
    BY <1>2, <1>12, <1>16, <2>1 DEF DurableWrite
<1>18. CASE Fails(m, store)
  BY <1>1, <1>12, <1>18, FailsUnchanged
<1> QED
  BY <1>6, <1>17, <1>18 DEF m, s

(* No other call of the document interface touches a location.             *)
LEMMA OtherEffect ==
    ASSUME TypeOK,
           Deletes \/ Fetches \/ SnapshotVersioned \/ LoadConflict
             \/ UNCHANGED vars
    PROVE  /\ SameLocations(store, store')
           /\ store'.next_id = store.next_id
           /\ learned' = learned
           /\ inner' = inner
<1>1. CASE Deletes
  <2>1. PICK d \in DocId : DeleteDocument(d)
    BY <1>1 DEF Deletes
  <2>2. store' = delete_document_everywhere(store, d)
    BY <2>1 DEF DeleteDocument
  <2>3. /\ delete_document_everywhere(store, d).ids = store.ids
        /\ delete_document_everywhere(store, d).mix = store.mix
        /\ delete_document_everywhere(store, d).next_id = store.next_id
    BY DEF delete_document_everywhere, TypeOK, Records
  <2> QED
    BY <2>1, <2>2, <2>3 DEF DeleteDocument, SameLocations
<1>2. CASE Fetches
  BY <1>2 DEF Fetches, GetDocument, ResolveFetched, SameLocations
<1>3. CASE SnapshotVersioned \/ LoadConflict \/ UNCHANGED vars
  BY <1>3 DEF SnapshotVersioned, LoadConflict, vars, SameLocations
<1> QED
  BY <1>1, <1>2, <1>3

(* What the consolidations do: the memory becomes the merged one, and the  *)
(* records lose the removed locations.  merge stops there; compress stores *)
(* every survivor as well.                                                 *)
Consolidated(m2, R) ==
    /\ m2.ids = inner.ids \ R
    /\ inner'.ids = m2.ids
    /\ inner'.mix = m2.mix
    /\ inner'.next_id = inner.next_id
    /\ store'.next_id = store.next_id
    /\ learned' = learned
    /\ \A l \in m2.ids : inner.mix[l] \subseteq m2.mix[l]
    /\ \A l \in m2.ids : \A x \in m2.mix[l] : \E k \in inner.ids : x \in inner.mix[k]
    /\ \A k \in inner.ids : \A x \in inner.mix[k] : \E l \in m2.ids : x \in m2.mix[l]

MergedOnly(m2, R) ==
    /\ Consolidated(m2, R)
    /\ store'.ids = store.ids \ R
    /\ \A l \in store'.ids : store'.mix[l] = store.mix[l]

MergedAndStored(m2, R) ==
    /\ Consolidated(m2, R)
    /\ store'.ids = (store.ids \ R) \cup m2.ids
    /\ \A l \in m2.ids : store'.mix[l] = m2.mix[l]

LEMMA ConsolidatedEffect ==
    ASSUME TypeOK, NEW p \in Plans(inner.ids),
           inner'.ids = knn_merge(inner, p).ids,
           inner'.mix = knn_merge(inner, p).mix,
           inner'.next_id = knn_merge(inner, p).next_id,
           learned' = learned,
           store'.next_id = store.next_id
    PROVE  Consolidated(knn_merge(inner, p), Removed(p))
<1>1. inner \in Memory /\ inner.ids \in SUBSET LocId
  BY DEF TypeOK, Memory
<1> QED
  BY <1>1, KnnMerge DEF Consolidated

LEMMA MergeEffect ==
    ASSUME TypeOK, Merge
    PROVE  \/ NothingCommitted
           \/ \E m2 \in Memory, R \in SUBSET LocId : MergedOnly(m2, R)
<1> DEFINE s == materialize_document_refs(store, inner)
           t(p) == delete_locations(migrate_postings(s, p), Removed(p))
           m(p) == knn_merge(inner, p)
<1>1. /\ inner \in Memory /\ store \in Records /\ inner.ids \in SUBSET LocId
      /\ CanBump
  BY DEF TypeOK, Memory, Merge
<1>2. s \in Records /\ SameLocations(store, s) /\ s.next_id = store.next_id
  BY <1>1, Materialize
<1>3. PICK p \in Plans(inner.ids) :
        Commits(m(p), t(p), {}) \/ Fails(m(p), s)
  BY Zenon DEF Merge
<1> DEFINE m2 == m(p)
           R  == Removed(p)
           t2 == t(p)
<1>4. m2 \in Memory /\ R \in SUBSET LocId
  BY <1>1, KnnMerge
<1>5. t2.ids = store.ids \ R /\ t2.next_id = store.next_id
  BY ConsolidatedRecords
<1>6. \A l \in LocId : l \notin R => t2.mix[l] = store.mix[l]
  BY ConsolidatedRecords
<1>7. CASE Commits(m2, t2, {})
  <2> HIDE DEF t, m, s
  <2>1. /\ inner'.ids = m2.ids /\ inner'.mix = m2.mix
        /\ inner'.next_id = m2.next_id
    BY <1>1, <1>4, <1>7, BumpType DEF Commits
  <2>2. store' = t2 /\ learned' = learned
    BY <1>7 DEF Commits, Acknowledge
  <2>3. Consolidated(m2, R)
    BY <1>5, <2>1, <2>2, ConsolidatedEffect DEF m
  <2>4. \A l \in store'.ids : l \in LocId /\ l \notin R
    BY <1>1, <1>5, <2>2 DEF Records
  <2>5. MergedOnly(m2, R)
    BY <1>5, <1>6, <2>2, <2>3, <2>4 DEF MergedOnly
  <2> QED
    BY <1>4, <2>5
<1>8. CASE Fails(m2, s)
  <2> HIDE DEF m, s
  <2> QED
    BY <1>1, <1>2, <1>4, <1>8, FailsEffect
<1> QED
  BY <1>3, <1>7, <1>8

LEMMA CompressEffect ==
    ASSUME TypeOK, Compress
    PROVE  \/ NothingCommitted
           \/ \E m2 \in Memory, R \in SUBSET LocId : MergedAndStored(m2, R)
           \/ \E m2 \in Memory : /\ Consolidated(m2, {})
                                 /\ SameLocations(store, store')
                                 /\ \A l \in inner.ids : m2.mix[l] = inner.mix[l]
<1> DEFINE s == materialize_document_refs(store, inner)
           m(p) == knn_merge(inner, p)
<1>1. /\ inner \in Memory /\ store \in Records /\ inner.ids \in SUBSET LocId
      /\ learned' = learned
  BY DEF TypeOK, Memory, Compress
<1>2. s \in Records /\ SameLocations(store, s) /\ s.next_id = store.next_id
  BY <1>1, Materialize
<1>3. PICK p \in Plans(inner.ids) :
        \/ inner' = m(p) /\ store' = compressed_records(s, m(p), p)
        \/ Rollback(m(p), s) /\ store' = s
  BY Zenon DEF Compress
<1> DEFINE m2 == m(p)
           R  == Removed(p)
<1>4. m2 \in Memory /\ R \in SUBSET LocId
  BY <1>1, KnnMerge
<1>5. CASE inner' = m2 /\ store' = compressed_records(s, m2, p) /\ R = {}
  <2>1. store' = s
    BY <1>5 DEF compressed_records
  <2>2. Consolidated(m2, R)
    BY <1>1, <1>2, <1>5, <2>1, ConsolidatedEffect
  <2>3. \A l \in inner.ids : m2.mix[l] = inner.mix[l]
    BY <1>1, <1>5, KnnMerge
  <2> HIDE DEF m, s
  <2> QED
    BY <1>2, <1>4, <1>5, <2>1, <2>2, <2>3
<1>6. CASE inner' = m2 /\ store' = compressed_records(s, m2, p) /\ R # {}
  <2> DEFINE t2 == compressed_records(s, m2, p)
  <2>1. t2.ids = (store.ids \ R) \cup m2.ids /\ t2.next_id = store.next_id
    BY <1>6, CompressedRecords
  <2>2. \A l \in LocId : l \in m2.ids => t2.mix[l] = m2.mix[l]
    BY <1>6, CompressedRecords
  <2>3. \A l \in m2.ids : l \in LocId
    BY <1>4 DEF Memory
  <2> HIDE DEF t2
  <2>4. store' = t2
    BY <1>6 DEF t2
  <2>5. Consolidated(m2, R)
    BY <1>1, <1>6, <2>1, <2>4, ConsolidatedEffect
  <2> HIDE DEF m, s
  <2>6. MergedAndStored(m2, R)
    BY <2>1, <2>2, <2>3, <2>4, <2>5 DEF MergedAndStored
  <2> QED
    BY <1>4, <2>6
<1>7. CASE Rollback(m2, s) /\ store' = s
  <2> HIDE DEF m, s
  <2> QED
    BY <1>1, <1>2, <1>4, <1>7, RollbackType DEF NothingCommitted
<1> QED
  BY <1>3, <1>5, <1>6, <1>7

-----------------------------------------------------------------------------
(* MemoryIsCommitted, strengthened: what the store holds was acknowledged, *)
(* so that a reload can only bring back acknowledged contents.             *)
StoreIsLearned == Content(store.ids, store.mix) \subseteq learned

CommittedInv == TypeOK /\ MemoryIsCommitted /\ StoreIsLearned

LEMMA ContentMember ==
    ASSUME NEW S, NEW f, NEW x
    PROVE  x \in Content(S, f) <=> \E l \in S : x \in f[l]
BY Zenon DEF Content

LEMMA NothingCommittedKeeps ==
    ASSUME CommittedInv, TypeOK', NothingCommitted
    PROVE  CommittedInv'
<1>1. store'.ids = store.ids /\ store'.mix = store.mix
      /\ store'.next_id = store.next_id /\ learned' = learned
  BY DEF NothingCommitted, SameLocations
<1>2. Content(store'.ids, store'.mix) = Content(store.ids, store.mix)
  BY <1>1
<1>3. StoreIsLearned'
  BY <1>1, <1>2 DEF CommittedInv, StoreIsLearned
<1>4. MemoryIsCommitted'
  <2>1. CASE inner' = inner
    BY <1>1, <2>1 DEF CommittedInv, MemoryIsCommitted
  <2>2. CASE inner'.valid => /\ inner'.ids = store'.ids
                             /\ inner'.mix = store'.mix
                             /\ inner'.next_id = store'.next_id
    BY <1>1, <1>2, <2>2 DEF CommittedInv, MemoryIsCommitted, StoreIsLearned
  <2> QED
    BY <2>1, <2>2 DEF NothingCommitted
<1> QED
  BY <1>3, <1>4 DEF CommittedInv

LEMMA PartlyDurableWriteKeeps ==
    ASSUME CommittedInv, Usable, TypeOK', PartlyDurableWrite
    PROVE  CommittedInv'
<1>1. PICK V \in SUBSET Vector, T \in SUBSET LocId, m2 \in Memory :
        CommittedWrite(V, T, m2) /\ PartlyStored(store, T, m2, store')
  BY DEF PartlyDurableWrite
<1>2. /\ inner.ids = store.ids /\ inner.next_id = store.next_id
      /\ \A l \in inner.ids : store.mix[l] \subseteq inner.mix[l]
      /\ Content(inner.ids, inner.mix) \subseteq learned
      /\ inner.ids \subseteq LocId
  BY DEF CommittedInv, MemoryIsCommitted, Usable, TypeOK, Memory
<1>3. /\ inner'.ids = inner.ids \cup T /\ inner'.mix = m2.mix
      /\ store'.ids = inner.ids \cup T /\ inner'.next_id = store'.next_id
      /\ learned' = learned \cup V
  BY <1>1, <1>2 DEF CommittedWrite, Absorbs, PartlyStored
<1>4. \A l \in inner'.ids : store'.mix[l] \subseteq inner'.mix[l]
  BY <1>1, <1>2, <1>3 DEF CommittedWrite, Absorbs, PartlyStored
<1>5. Content(inner'.ids, inner'.mix) \subseteq learned'
  <2> SUFFICES ASSUME NEW x \in Content(inner'.ids, inner'.mix)
               PROVE  x \in learned'
    OBVIOUS
  <2>1. PICK l \in inner'.ids : x \in inner'.mix[l]
    BY ContentMember
  <2>2. x \in V \/ \E k \in inner.ids : x \in inner.mix[k]
    BY <1>1, <1>3, <2>1 DEF CommittedWrite, Absorbs
  <2>3. (\E k \in inner.ids : x \in inner.mix[k]) => x \in learned
    BY <1>2, ContentMember
  <2> QED
    BY <1>3, <2>2, <2>3
<1>6. Content(store'.ids, store'.mix) \subseteq learned'
  <2> SUFFICES ASSUME NEW x \in Content(store'.ids, store'.mix)
               PROVE  x \in learned'
    OBVIOUS
  <2>1. PICK l \in store'.ids : x \in store'.mix[l]
    BY ContentMember
  <2>2. x \in Content(inner'.ids, inner'.mix)
    BY <1>3, <1>4, <2>1, ContentMember
  <2> QED
    BY <1>5, <2>2
<1> QED
  BY <1>3, <1>4, <1>5, <1>6
     DEF CommittedInv, MemoryIsCommitted, StoreIsLearned

LEMMA ConsolidationKeeps ==
    ASSUME CommittedInv, TypeOK', Merge \/ Compress
    PROVE  CommittedInv'
<1>1. /\ inner.ids = store.ids /\ inner.next_id = store.next_id
      /\ \A l \in inner.ids : store.mix[l] \subseteq inner.mix[l]
      /\ Content(inner.ids, inner.mix) \subseteq learned
      /\ Content(store.ids, store.mix) \subseteq learned
      /\ inner.ids \subseteq LocId
      /\ TypeOK
  BY DEF CommittedInv, MemoryIsCommitted, StoreIsLearned, Usable, Merge,
         Compress, TypeOK, Memory
<1>2. ASSUME NEW m2 \in Memory, NEW R \in SUBSET LocId, Consolidated(m2, R),
             store'.ids = m2.ids,
             \A l \in m2.ids : store'.mix[l] \subseteq m2.mix[l]
      PROVE  CommittedInv'
  <2>1. /\ inner'.ids = store'.ids /\ inner'.next_id = store'.next_id
        /\ \A l \in inner'.ids : store'.mix[l] \subseteq inner'.mix[l]
        /\ learned' = learned
    BY <1>1, <1>2 DEF Consolidated
  <2>2. \A l \in inner'.ids : \A x \in inner'.mix[l] : x \in learned
    <3> SUFFICES ASSUME NEW l \in inner'.ids, NEW x \in inner'.mix[l]
                 PROVE  x \in learned
      OBVIOUS
    <3>1. \E k \in inner.ids : x \in inner.mix[k]
      BY <1>2 DEF Consolidated
    <3> QED
      BY <1>1, <3>1, ContentMember
  <2>3. Content(inner'.ids, inner'.mix) \subseteq learned'
    BY <2>1, <2>2, ContentMember
  <2>4. Content(store'.ids, store'.mix) \subseteq learned'
    BY <2>1, <2>2, ContentMember
  <2> QED
    BY <2>1, <2>3, <2>4 DEF CommittedInv, MemoryIsCommitted, StoreIsLearned
<1>3. CASE NothingCommitted
  BY <1>3, NothingCommittedKeeps
<1>4. ASSUME NEW m2 \in Memory, NEW R \in SUBSET LocId, MergedOnly(m2, R)
      PROVE  CommittedInv'
  <2>1. Consolidated(m2, R) /\ store'.ids = m2.ids
    BY <1>1, <1>4 DEF MergedOnly, Consolidated
  <2>2. \A l \in m2.ids : store'.mix[l] \subseteq m2.mix[l]
    BY <1>1, <1>4, <2>1 DEF MergedOnly, Consolidated
  <2> QED
    BY <1>2, <2>1, <2>2
<1>5. ASSUME NEW m2 \in Memory, NEW R \in SUBSET LocId, MergedAndStored(m2, R)
      PROVE  CommittedInv'
  <2>1. Consolidated(m2, R) /\ store'.ids = m2.ids
    BY <1>1, <1>5 DEF MergedAndStored, Consolidated
  <2>2. \A l \in m2.ids : store'.mix[l] \subseteq m2.mix[l]
    BY <1>5 DEF MergedAndStored
  <2> QED
    BY <1>2, <2>1, <2>2
<1>6. ASSUME NEW m2 \in Memory, Consolidated(m2, {}), SameLocations(store, store')
      PROVE  CommittedInv'
  <2>1. store'.ids = m2.ids
    BY <1>1, <1>6 DEF Consolidated, SameLocations
  <2>2. \A l \in m2.ids : store'.mix[l] \subseteq m2.mix[l]
    BY <1>1, <1>6 DEF Consolidated, SameLocations
  <2> QED
    BY <1>2, <1>6, <2>1, <2>2
<1> QED
  BY <1>1, <1>3, <1>4, <1>5, <1>6, MergeEffect, CompressEffect

LEMMA ReplaceKeeps ==
    ASSUME CommittedInv, TypeOK', NEW S \in SUBSET LocId, NEW n \in 0 .. MaxLoc,
           LoadSnapshot(S, n) \/ LoadSnapshotChecked(S, n)
    PROVE  CommittedInv'
<1>1. /\ CanBump /\ Usable /\ Replace(S, n)
      /\ written + Cardinality(Loaded(S)) <= MaxWrite
      /\ TypeOK
  BY DEF LoadSnapshot, LoadSnapshotChecked, CommittedInv
<1>2. inner.ids = store.ids /\ inner.next_id = store.next_id
  BY <1>1 DEF CommittedInv, MemoryIsCommitted, Usable
<1>3. CASE NothingCommitted
  BY <1>3, NothingCommittedKeeps
<1>4. CASE /\ inner'.ids = S
           /\ inner'.next_id = n
           /\ \A l \in LocId :
                inner'.mix[l] = IF l \in S THEN Loaded(S) ELSE {}
           /\ store'.ids = (store.ids \ inner.ids) \cup S
           /\ store'.next_id = n
           /\ \A l \in S : store'.mix[l] = inner'.mix[l]
           /\ learned' = Loaded(S)
  <2>1. inner'.ids = store'.ids /\ inner'.next_id = store'.next_id
    BY <1>2, <1>4
  <2>2. \A l \in inner'.ids : store'.mix[l] \subseteq inner'.mix[l]
    BY <1>4
  <2>3. \A l \in inner'.ids : inner'.mix[l] \subseteq learned'
    BY <1>4
  <2>4. Content(inner'.ids, inner'.mix) \subseteq learned'
    BY <2>3, ContentMember
  <2>5. Content(store'.ids, store'.mix) \subseteq learned'
    BY <2>1, <2>2, <2>3, ContentMember
  <2> QED
    BY <2>1, <2>2, <2>4, <2>5 DEF CommittedInv, MemoryIsCommitted, StoreIsLearned
<1> QED
  BY <1>1, <1>3, <1>4, ReplaceEffect DEF NothingCommitted

LEMMA NewEffect ==
    ASSUME NEW s \in Records, s.ids = {}
    PROVE  /\ new_records(s).ids = Seeds
           /\ new_records(s).next_id = L0
           /\ \A l \in Seeds : new_records(s).mix[l] = {}
           /\ new_memory.ids = Seeds
           /\ new_memory.next_id = L0
           /\ new_memory.valid
           /\ \A l \in Seeds : new_memory.mix[l] = {}
<1>1. Seeds \subseteq LocId
  BY ConstantsAssumption DEF Seeds, LocId
<1> QED
  BY <1>1 DEF new_records, new_memory, Records

LEMMA LifecycleKeeps ==
    ASSUME CommittedInv, TypeOK', Lifecycle
    PROVE  CommittedInv'
<1>1. TypeOK /\ inner \in Memory /\ store \in Records
      /\ inner.ids \in SUBSET LocId /\ store.ids \in SUBSET LocId
  BY DEF CommittedInv, TypeOK, Memory, Records
<1>2. CASE Flush
  <2> DEFINE t == saved(store, inner.ids, inner)
             S == inner.ids
  <2>1. Stored(store, S, inner, t)
    BY <1>1, StoredSaved
  <2> HIDE DEF t, S
  <2>2. /\ store' = t /\ inner' = inner /\ learned' = learned /\ inner.valid
        /\ inner.ids = S
    BY <1>2 DEF Flush, Usable, t, S
  <2>3. /\ inner.ids = store.ids
        /\ Content(inner.ids, inner.mix) \subseteq learned
    BY <2>2 DEF CommittedInv, MemoryIsCommitted
  <2>4. /\ store'.ids = inner'.ids /\ store'.next_id = inner'.next_id
        /\ \A l \in inner'.ids : store'.mix[l] = inner'.mix[l]
    BY <2>1, <2>2, <2>3 DEF Stored
  <2>5. Content(store'.ids, store'.mix) \subseteq learned'
    BY <2>2, <2>3, <2>4, ContentMember
  <2> QED
    BY <2>2, <2>3, <2>4, <2>5 DEF CommittedInv, MemoryIsCommitted, StoreIsLearned
<1>3. CASE Reopen
  <2>1. /\ inner'.ids = store.ids /\ inner'.mix = store.mix
        /\ inner'.next_id = store.next_id /\ store' = store
        /\ learned' = learned
    BY <1>3 DEF Reopen, load
  <2> QED
    BY <2>1 DEF CommittedInv, MemoryIsCommitted, StoreIsLearned
<1>4. CASE ReopenByCreate
  <2>1. /\ inner' = new_memory /\ store' = new_records(store)
        /\ learned' = learned /\ store.ids = {}
    BY <1>4 DEF ReopenByCreate
  <2>2. /\ store'.ids = Seeds /\ store'.next_id = L0
        /\ \A l \in Seeds : store'.mix[l] = {}
        /\ inner'.ids = Seeds /\ inner'.next_id = L0
        /\ \A l \in Seeds : inner'.mix[l] = {}
    BY <1>1, <2>1, NewEffect
  <2>3. /\ Content(store'.ids, store'.mix) \subseteq learned'
        /\ Content(inner'.ids, inner'.mix) \subseteq learned'
    BY <2>2, ContentMember
  <2> QED
    BY <2>2, <2>3 DEF CommittedInv, MemoryIsCommitted, StoreIsLearned
<1> QED
  BY <1>2, <1>3, <1>4 DEF Lifecycle

LEMMA OtherKeeps ==
    ASSUME CommittedInv, TypeOK',
           Deletes \/ Fetches \/ SnapshotVersioned \/ LoadConflict
             \/ UNCHANGED vars
    PROVE  CommittedInv'
BY OtherEffect, NothingCommittedKeeps DEF CommittedInv, NothingCommitted

LEMMA CommittedInit == Init => CommittedInv
<1> SUFFICES ASSUME Init PROVE CommittedInv
  OBVIOUS
<1>1. NoRecords \in Records
  BY NoDocumentType, ConstantsAssumption DEF NoRecords, Records, Mix
<1>2. NoRecords.ids = {}
  BY DEF NoRecords
<1>3. /\ store.ids = Seeds /\ store.next_id = L0
      /\ \A l \in Seeds : store.mix[l] = {}
      /\ inner.ids = Seeds /\ inner.next_id = L0
      /\ \A l \in Seeds : inner.mix[l] = {}
  BY <1>1, <1>2, NewEffect DEF Init
<1>4. /\ Content(store.ids, store.mix) \subseteq learned
      /\ Content(inner.ids, inner.mix) \subseteq learned
  BY <1>3, ContentMember
<1> QED
  BY <1>3, <1>4, InitType DEF CommittedInv, MemoryIsCommitted, StoreIsLearned

LEMMA CommittedStep ==
    ASSUME CommittedInv, [Next]_vars
    PROVE  CommittedInv'
<1>1. TypeOK /\ TypeOK'
  BY NextType DEF CommittedInv
<1>2. CASE Write \/ WriteTwo
  BY <1>1, <1>2, WriteOneEffect, DurableIsPartly, PartlyDurableWriteKeeps,
     NothingCommittedKeeps DEF Write, WriteTwo, WriteOne
<1>3. CASE WriteWithMetadata \/ WriteBatchWithMetadata
  BY <1>1, <1>3, WriteWithMetadataEffect, WriteBatchWithMetadataEffect,
     DurableIsPartly, PartlyDurableWriteKeeps, NothingCommittedKeeps
     DEF WriteWithMetadata, WriteBatchWithMetadata
<1>4. CASE WriteBatch
  BY <1>1, <1>4, WriteBatchEffect, PartlyDurableWriteKeeps,
     NothingCommittedKeeps DEF WriteBatch
<1>5. CASE Merge \/ Compress
  BY <1>1, <1>5, ConsolidationKeeps
<1>6. CASE Lifecycle
  BY <1>1, <1>6, LifecycleKeeps
<1>7. CASE Deletes \/ Fetches \/ SnapshotVersioned \/ LoadConflict
             \/ UNCHANGED vars
  BY <1>1, <1>7, OtherKeeps
<1>8. ASSUME NEW S \in SUBSET LocId, NEW n \in 0 .. MaxLoc,
             LoadSnapshot(S, n) \/ LoadSnapshotChecked(S, n)
      PROVE  CommittedInv'
  BY <1>1, <1>8, ReplaceKeeps
<1> QED
  BY <1>2, <1>3, <1>4, <1>5, <1>6, <1>7, <1>8
     DEF Next, Common, Writes, Replacements

(* Whatever sequence of writes, batches, merges, compressions, loads,      *)
(* failed transactions, failed reloads and restarts: a usable memory holds *)
(* the committed locations and id counter, has forgotten nothing that is   *)
(* stored and holds nothing that was never acknowledged (AtomicMutation,   *)
(* collection.rs 388-444, and every caller of it).                         *)
THEOREM CommittedCorrect == Spec => []MemoryIsCommitted
<1>1. Init => CommittedInv
  BY CommittedInit
<1>2. CommittedInv /\ [Next]_vars => CommittedInv'
  BY CommittedStep
<1>3. CommittedInv => MemoryIsCommitted
  BY DEF CommittedInv
<1> QED
  BY <1>1, <1>2, <1>3, PTL DEF Spec

-----------------------------------------------------------------------------
(* LearnedIsDurable, for the calls that store what they change: the memory *)
(* and the store agree on the contents too, and no location's id can be    *)
(* handed out again.                                                       *)
StoreIsCurrent ==
    inner.valid =>
        /\ inner.ids = store.ids
        /\ inner.next_id = store.next_id
        /\ \A l \in inner.ids : store.mix[l] = inner.mix[l]

StoreIsFresh == \A l \in store.ids : l < store.next_id

DurableInv == TypeOK /\ StoreIsCurrent /\ StoreIsFresh /\ LearnedIsDurable

LEMMA NothingCommittedDurable ==
    ASSUME DurableInv, TypeOK', NothingCommitted
    PROVE  DurableInv'
<1>1. store'.ids = store.ids /\ store'.mix = store.mix
      /\ store'.next_id = store.next_id /\ learned' = learned
  BY DEF NothingCommitted, SameLocations
<1>2. StoreIsFresh'
  BY <1>1 DEF DurableInv, StoreIsFresh
<1>3. LearnedIsDurable'
  <2>1. Content(store'.ids, store'.mix) = Content(store.ids, store.mix)
    BY <1>1
  <2> QED
    BY <1>1, <2>1 DEF DurableInv, LearnedIsDurable
<1>4. StoreIsCurrent'
  BY <1>1 DEF DurableInv, StoreIsCurrent, NothingCommitted
<1> QED
  BY <1>2, <1>3, <1>4 DEF DurableInv

LEMMA DurableWriteDurable ==
    ASSUME DurableInv, Usable, TypeOK', DurableWrite
    PROVE  DurableInv'
<1>1. PICK V \in SUBSET Vector, T \in SUBSET LocId, m2 \in Memory :
        CommittedWrite(V, T, m2) /\ Stored(store, T, m2, store')
  BY DEF DurableWrite
<1>2. /\ inner.ids = store.ids /\ inner.next_id = store.next_id
      /\ \A l \in inner.ids : store.mix[l] = inner.mix[l]
      /\ inner.ids \subseteq LocId /\ Fresh(inner)
      /\ learned \subseteq Content(store.ids, store.mix)
  BY DEF DurableInv, StoreIsCurrent, StoreIsFresh, LearnedIsDurable, Usable,
         TypeOK, Memory, Fresh
<1>3. /\ inner'.ids = m2.ids /\ inner'.mix = m2.mix /\ inner'.next_id = m2.next_id
      /\ store'.ids = m2.ids /\ store'.next_id = m2.next_id
      /\ m2.ids = inner.ids \cup T
      /\ learned' = learned \cup V
  BY <1>1, <1>2 DEF CommittedWrite, Absorbs, Stored
<1>4. \A l \in m2.ids : store'.mix[l] = m2.mix[l]
  BY <1>1, <1>2, <1>3 DEF CommittedWrite, Absorbs, Stored
<1>5. /\ Fresh(m2)
      /\ \A l \in inner.ids : inner.mix[l] \subseteq m2.mix[l]
      /\ \A x \in V : \E l \in m2.ids : x \in m2.mix[l]
  BY <1>1, <1>2 DEF CommittedWrite, Absorbs
<1>6. LearnedIsDurable'
  <2> SUFFICES ASSUME NEW x \in learned'
               PROVE  x \in Content(store'.ids, store'.mix)
    BY DEF LearnedIsDurable
  <2>1. CASE x \in V
    BY <1>3, <1>4, <1>5, <2>1, ContentMember
  <2>2. CASE x \in learned
    <3>1. PICK l \in store.ids : x \in store.mix[l]
      BY <1>2, <2>2, ContentMember
    <3>2. l \in m2.ids /\ x \in m2.mix[l]
      BY <1>2, <1>3, <1>5, <3>1
    <3> QED
      BY <1>3, <1>4, <3>2, ContentMember
  <2> QED
    BY <1>3, <2>1, <2>2
<1> QED
  BY <1>3, <1>4, <1>5, <1>6 DEF DurableInv, StoreIsCurrent, StoreIsFresh, Fresh

LEMMA CompressDurable ==
    ASSUME DurableInv, TypeOK', Compress
    PROVE  DurableInv'
<1>1. /\ inner.ids = store.ids /\ inner.next_id = store.next_id
      /\ \A l \in inner.ids : store.mix[l] = inner.mix[l]
      /\ \A l \in store.ids : l < store.next_id
      /\ learned \subseteq Content(store.ids, store.mix)
      /\ inner.ids \subseteq LocId
      /\ TypeOK
  BY DEF DurableInv, StoreIsCurrent, StoreIsFresh, LearnedIsDurable, Usable,
         Compress, TypeOK, Memory
<1>2. ASSUME NEW m2 \in Memory, NEW R \in SUBSET LocId, Consolidated(m2, R),
             store'.ids = m2.ids, \A l \in m2.ids : store'.mix[l] = m2.mix[l]
      PROVE  DurableInv'
  <2>1. /\ inner'.ids = store'.ids /\ inner'.next_id = store'.next_id
        /\ store'.next_id = store.next_id
        /\ \A l \in inner'.ids : store'.mix[l] = inner'.mix[l]
        /\ store'.ids \subseteq store.ids
        /\ learned' = learned
    BY <1>1, <1>2 DEF Consolidated
  <2>2. LearnedIsDurable'
    <3> SUFFICES ASSUME NEW x \in learned
                 PROVE  x \in Content(store'.ids, store'.mix)
      BY <2>1 DEF LearnedIsDurable
    <3>1. PICK k \in inner.ids : x \in inner.mix[k]
      BY <1>1, ContentMember
    <3>2. PICK l \in m2.ids : x \in m2.mix[l]
      BY <1>2, <3>1 DEF Consolidated
    <3> QED
      BY <1>2, <3>2, ContentMember
  <2> QED
    BY <1>1, <2>1, <2>2 DEF DurableInv, StoreIsCurrent, StoreIsFresh
<1>3. CASE NothingCommitted
  BY <1>3, NothingCommittedDurable
<1>4. ASSUME NEW m2 \in Memory, NEW R \in SUBSET LocId, MergedAndStored(m2, R)
      PROVE  DurableInv'
  <2>1. Consolidated(m2, R) /\ store'.ids = m2.ids
    BY <1>1, <1>4 DEF MergedAndStored, Consolidated
  <2> QED
    BY <1>2, <1>4, <2>1 DEF MergedAndStored
<1>5. ASSUME NEW m2 \in Memory, Consolidated(m2, {}), SameLocations(store, store'),
             \A l \in inner.ids : m2.mix[l] = inner.mix[l]
      PROVE  DurableInv'
  <2>1. store'.ids = m2.ids
    BY <1>1, <1>5 DEF Consolidated, SameLocations
  <2>2. \A l \in m2.ids : store'.mix[l] = m2.mix[l]
    BY <1>1, <1>5 DEF Consolidated, SameLocations
  <2> QED
    BY <1>2, <1>5, <2>1, <2>2
<1> QED
  BY <1>1, <1>3, <1>4, <1>5, CompressEffect

LEMMA ReplaceDurable ==
    ASSUME DurableInv, TypeOK', NEW S \in SUBSET LocId, NEW n \in 0 .. MaxLoc,
           LoadSnapshot(S, n) \/ LoadSnapshotChecked(S, n)
    PROVE  DurableInv'
<1>1. /\ CanBump /\ Usable /\ Replace(S, n) /\ IsNextId(n, S)
      /\ written + Cardinality(Loaded(S)) <= MaxWrite
      /\ TypeOK
  BY DEF LoadSnapshot, LoadSnapshotChecked, DurableInv
<1>2. inner.ids = store.ids
  BY <1>1 DEF DurableInv, StoreIsCurrent, Usable
<1>3. CASE NothingCommitted
  BY <1>3, NothingCommittedDurable
<1>4. CASE /\ inner'.ids = S
           /\ inner'.next_id = n
           /\ \A l \in LocId :
                inner'.mix[l] = IF l \in S THEN Loaded(S) ELSE {}
           /\ store'.ids = (store.ids \ inner.ids) \cup S
           /\ store'.next_id = n
           /\ \A l \in S : store'.mix[l] = inner'.mix[l]
           /\ learned' = Loaded(S)
  <2>1. store'.ids = S
    BY <1>2, <1>4
  <2>2. \A l \in S : store'.mix[l] = Loaded(S)
    BY <1>4
  <2>3. LearnedIsDurable'
    <3> SUFFICES ASSUME NEW x \in Loaded(S)
                 PROVE  x \in Content(store'.ids, store'.mix)
      BY <1>4 DEF LearnedIsDurable
    <3>1. S # {}
      BY DEF Loaded
    <3>2. PICK l \in S : x \in store'.mix[l]
      BY <2>2, <3>1
    <3> QED
      BY <2>1, <3>2, ContentMember
  <2>4. StoreIsFresh'
    BY <1>1, <1>4, <2>1 DEF StoreIsFresh, IsNextId
  <2> QED
    BY <1>4, <2>1, <2>3, <2>4 DEF DurableInv, StoreIsCurrent
<1> QED
  BY <1>1, <1>3, <1>4, ReplaceEffect DEF NothingCommitted

LEMMA LifecycleDurable ==
    ASSUME DurableInv, TypeOK', Lifecycle
    PROVE  DurableInv'
<1>1. TypeOK /\ inner \in Memory /\ store \in Records
      /\ inner.ids \in SUBSET LocId /\ store.ids \in SUBSET LocId
  BY DEF DurableInv, TypeOK, Memory, Records
<1>2. CASE Flush
  <2> DEFINE t == saved(store, inner.ids, inner)
             S == inner.ids
  <2>1. Stored(store, S, inner, t)
    BY <1>1, StoredSaved
  <2> HIDE DEF t, S
  <2>2. /\ store' = t /\ inner' = inner /\ learned' = learned /\ inner.valid
        /\ inner.ids = S
    BY <1>2 DEF Flush, Usable, t, S
  <2>3. /\ store'.ids = store.ids /\ store'.next_id = store.next_id
        /\ \A l \in store.ids : store'.mix[l] = store.mix[l]
        /\ StoreIsCurrent'
    BY <2>1, <2>2 DEF Stored, DurableInv, StoreIsCurrent
  <2>4. LearnedIsDurable'
    <3> SUFFICES ASSUME NEW x \in learned
                 PROVE  x \in Content(store'.ids, store'.mix)
      BY <2>2 DEF LearnedIsDurable
    <3>1. PICK l \in store.ids : x \in store.mix[l]
      BY ContentMember DEF DurableInv, LearnedIsDurable
    <3> QED
      BY <2>3, <3>1, ContentMember
  <2> QED
    BY <2>3, <2>4 DEF DurableInv, StoreIsFresh
<1>3. CASE Reopen
  <2>1. /\ inner'.ids = store.ids /\ inner'.mix = store.mix
        /\ inner'.next_id = store.next_id /\ store' = store
        /\ learned' = learned
    BY <1>3 DEF Reopen, load
  <2> QED
    BY <2>1 DEF DurableInv, StoreIsCurrent, StoreIsFresh, LearnedIsDurable
<1>4. CASE ReopenByCreate
  <2>1. /\ inner' = new_memory /\ store' = new_records(store)
        /\ learned' = learned /\ store.ids = {}
    BY <1>4 DEF ReopenByCreate
  <2>2. /\ store'.ids = Seeds /\ store'.next_id = L0
        /\ \A l \in Seeds : store'.mix[l] = {}
        /\ inner'.ids = Seeds /\ inner'.next_id = L0
        /\ \A l \in Seeds : inner'.mix[l] = {}
    BY <1>1, <2>1, NewEffect
  <2>3. learned = {}
    BY <2>1, ContentMember DEF DurableInv, LearnedIsDurable
  <2>4. \A l \in Seeds : l < L0
    BY ConstantsAssumption DEF Seeds
  <2> QED
    BY <2>1, <2>2, <2>3, <2>4
       DEF DurableInv, StoreIsCurrent, StoreIsFresh, LearnedIsDurable
<1> QED
  BY <1>2, <1>3, <1>4 DEF Lifecycle

LEMMA DurableInit == Init => DurableInv
<1> SUFFICES ASSUME Init PROVE DurableInv
  OBVIOUS
<1>1. NoRecords \in Records
  BY NoDocumentType, ConstantsAssumption DEF NoRecords, Records, Mix
<1>2. NoRecords.ids = {}
  BY DEF NoRecords
<1>3. /\ store.ids = Seeds /\ store.next_id = L0
      /\ \A l \in Seeds : store.mix[l] = {}
      /\ inner.ids = Seeds /\ inner.next_id = L0
      /\ \A l \in Seeds : inner.mix[l] = {}
  BY <1>1, <1>2, NewEffect DEF Init
<1>4. \A l \in Seeds : l < L0
  BY ConstantsAssumption DEF Seeds
<1>5. learned = {}
  BY DEF Init
<1> QED
  BY <1>3, <1>4, <1>5, InitType
     DEF DurableInv, StoreIsCurrent, StoreIsFresh, LearnedIsDurable

LEMMA DurableStep ==
    ASSUME DurableInv, [DurableNext]_vars
    PROVE  DurableInv'
<1>1. TypeOK /\ TypeOK'
  BY NextType DEF DurableInv, DurableNext, Next
<1>2. CASE Write \/ WriteTwo
  BY <1>1, <1>2, WriteOneEffect, DurableWriteDurable,
     NothingCommittedDurable DEF Write, WriteTwo, WriteOne
<1>3. CASE WriteWithMetadata \/ WriteBatchWithMetadata
  BY <1>1, <1>3, WriteWithMetadataEffect, WriteBatchWithMetadataEffect,
     DurableWriteDurable, NothingCommittedDurable
     DEF WriteWithMetadata, WriteBatchWithMetadata
<1>4. CASE Compress
  BY <1>1, <1>4, CompressDurable
<1>5. CASE Lifecycle
  BY <1>1, <1>5, LifecycleDurable
<1>6. CASE Deletes \/ SnapshotVersioned \/ LoadConflict \/ UNCHANGED vars
  BY <1>1, <1>6, OtherEffect, NothingCommittedDurable DEF NothingCommitted
<1>7. ASSUME NEW S \in SUBSET LocId, NEW n \in 0 .. MaxLoc,
             LoadSnapshot(S, n) \/ LoadSnapshotChecked(S, n)
      PROVE  DurableInv'
  BY <1>1, <1>7, ReplaceDurable
<1> QED
  BY <1>2, <1>3, <1>4, <1>5, <1>6, <1>7
     DEF DurableNext, Common, Writes, Replacements

(* Every acknowledged write survives a restart at any moment, as long as   *)
(* clients use the calls that store every location they change: write,     *)
(* write_two, the two metadata writes, compress, load_snapshot, deletes    *)
(* and flush (collection.rs 648-819, 1513-1935, 2529-2613).                *)
THEOREM DurableCorrect == DurableSpec => []LearnedIsDurable
<1>1. Init => DurableInv
  BY DurableInit
<1>2. DurableInv /\ [DurableNext]_vars => DurableInv'
  BY DurableStep
<1>3. DurableInv => LearnedIsDurable
  BY DEF DurableInv
<1> QED
  BY <1>1, <1>2, <1>3, PTL DEF DurableSpec

-----------------------------------------------------------------------------
(* DocumentsExact.  A document that keeps its vector holds the one it was  *)
(* acknowledged with; one that refers to a location is in a plain          *)
(* collection, and the location is stored, holds that vector alone, and    *)
(* is the same in a usable memory.  No location of a plain collection is   *)
(* ever written a second time, since a new one takes an id above all the   *)
(* stored ones (StoreIsFresh), and every call that removes or replaces     *)
(* locations materialises the references first.                            *)
DocumentIsKept(d) ==
    LET doc == store.docs[d]
    IN /\ (doc.kind = "none") <=> (acked[d] = {})
       /\ doc.kind = "inline" => doc.vec = acked[d]
       /\ doc.kind = "ref" =>
            /\ ~Competitive
            /\ doc.at \in store.ids
            /\ store.mix[doc.at] = acked[d]
            /\ inner.valid => inner.mix[doc.at] = acked[d]

DocumentsAreKept == \A d \in DocId : DocumentIsKept(d)

PostingsAreKept == \A l \in LocId : \A d \in store.posts[l] : acked[d] # {}

LocationsInv == CommittedInv /\ StoreIsFresh

DocumentsInv == LocationsInv /\ DocumentsAreKept /\ PostingsAreKept

(* Location ids stay fresh in every call, the ones of DurableSpec or not.  *)
LEMMA FreshWrite ==
    ASSUME LocationsInv, Usable, PartlyDurableWrite
    PROVE  StoreIsFresh'
<1>1. PICK V \in SUBSET Vector, T \in SUBSET LocId, m2 \in Memory :
        CommittedWrite(V, T, m2) /\ PartlyStored(store, T, m2, store')
  BY DEF PartlyDurableWrite
<1>2. /\ inner.ids = store.ids /\ inner.next_id = store.next_id
      /\ Fresh(inner)
  BY DEF LocationsInv, CommittedInv, MemoryIsCommitted, Usable, StoreIsFresh,
         Fresh
<1>3. Fresh(m2) /\ m2.ids = inner.ids \cup T
  BY <1>1, <1>2 DEF CommittedWrite, Absorbs
<1>4. store'.ids = store.ids \cup T /\ store'.next_id = m2.next_id
  BY <1>1 DEF PartlyStored
<1> QED
  BY <1>2, <1>3, <1>4 DEF StoreIsFresh, Fresh

LEMMA FreshReplace ==
    ASSUME LocationsInv, NEW S \in SUBSET LocId, NEW n \in 0 .. MaxLoc,
           LoadSnapshot(S, n) \/ LoadSnapshotChecked(S, n)
    PROVE  StoreIsFresh'
<1>1. /\ CanBump /\ Usable /\ Replace(S, n) /\ IsNextId(n, S)
      /\ written + Cardinality(Loaded(S)) <= MaxWrite
      /\ TypeOK
  BY DEF LoadSnapshot, LoadSnapshotChecked, LocationsInv, CommittedInv
<1>2. inner.ids = store.ids
  BY <1>1 DEF LocationsInv, CommittedInv, MemoryIsCommitted, Usable
<1>3. \/ store'.ids = (store.ids \ inner.ids) \cup S /\ store'.next_id = n
      \/ SameLocations(store, store') /\ store'.next_id = store.next_id
  BY <1>1, ReplaceEffect
<1>4. CASE store'.ids = (store.ids \ inner.ids) \cup S /\ store'.next_id = n
  <2>1. store'.ids = S /\ store'.next_id = n
    BY <1>2, <1>4
  <2> QED
    BY <1>1, <2>1 DEF StoreIsFresh, IsNextId
<1>5. CASE SameLocations(store, store') /\ store'.next_id = store.next_id
  BY <1>5 DEF LocationsInv, StoreIsFresh, SameLocations
<1> QED
  BY <1>3, <1>4, <1>5

LEMMA FreshConsolidation ==
    ASSUME LocationsInv, Merge \/ Compress
    PROVE  StoreIsFresh'
<1>1. TypeOK /\ StoreIsFresh /\ inner.ids = store.ids
  BY DEF LocationsInv, CommittedInv, MemoryIsCommitted, Usable, Merge, Compress
<1>2. CASE NothingCommitted
  BY <1>1, <1>2 DEF NothingCommitted, SameLocations, StoreIsFresh
<1>3. ASSUME NEW m2 \in Memory, NEW R \in SUBSET LocId,
             Consolidated(m2, R), store'.ids \subseteq store.ids
      PROVE  StoreIsFresh'
  BY <1>1, <1>3 DEF Consolidated, StoreIsFresh
<1>4. ASSUME NEW m2 \in Memory, NEW R \in SUBSET LocId, MergedOnly(m2, R)
      PROVE  StoreIsFresh'
  <2>1. Consolidated(m2, R) /\ store'.ids \subseteq store.ids
    BY <1>4 DEF MergedOnly
  <2> QED
    BY <1>3, <2>1
<1>5. ASSUME NEW m2 \in Memory, NEW R \in SUBSET LocId, MergedAndStored(m2, R)
      PROVE  StoreIsFresh'
  <2>1. Consolidated(m2, R) /\ store'.ids \subseteq store.ids
    BY <1>1, <1>5 DEF MergedAndStored, Consolidated
  <2> QED
    BY <1>3, <2>1
<1>6. ASSUME NEW m2 \in Memory, Consolidated(m2, {}), SameLocations(store, store')
      PROVE  StoreIsFresh'
  <2>1. store'.ids \subseteq store.ids
    BY <1>6 DEF SameLocations
  <2> QED
    BY <1>3, <1>6, <2>1
<1> QED
  BY <1>1, <1>2, <1>4, <1>5, <1>6, MergeEffect, CompressEffect

LEMMA FreshLifecycle ==
    ASSUME LocationsInv, Lifecycle
    PROVE  StoreIsFresh'
<1>1. TypeOK /\ StoreIsFresh /\ store \in Records /\ inner \in Memory
      /\ inner.ids \in SUBSET LocId
  BY DEF LocationsInv, CommittedInv, TypeOK, Memory
<1>2. CASE Flush
  <2> DEFINE t == saved(store, inner.ids, inner)
             S == inner.ids
  <2>0. Stored(store, S, inner, t)
    BY <1>1, StoredSaved
  <2> HIDE DEF t, S
  <2>1. t.ids = store.ids \cup inner.ids /\ t.next_id = inner.next_id
    BY <2>0 DEF Stored, S
  <2>2. store' = t /\ inner.ids = store.ids /\ inner.next_id = store.next_id
    BY <1>2 DEF Flush, Usable, LocationsInv, CommittedInv, MemoryIsCommitted, t
  <2> QED
    BY <1>1, <2>1, <2>2 DEF StoreIsFresh
<1>3. CASE Reopen
  BY <1>1, <1>3 DEF Reopen, StoreIsFresh
<1>4. CASE ReopenByCreate
  <2>1. store' = new_records(store) /\ store.ids = {}
    BY <1>4 DEF ReopenByCreate
  <2>2. store'.ids = Seeds /\ store'.next_id = L0
    BY <1>1, <2>1, NewEffect
  <2>3. \A l \in Seeds : l < L0
    BY ConstantsAssumption DEF Seeds
  <2> QED
    BY <2>2, <2>3 DEF StoreIsFresh
<1> QED
  BY <1>2, <1>3, <1>4 DEF Lifecycle

LEMMA LocationsInit == Init => LocationsInv
<1> SUFFICES ASSUME Init PROVE LocationsInv
  OBVIOUS
<1>1. NoRecords \in Records /\ NoRecords.ids = {}
  BY NoDocumentType, ConstantsAssumption DEF NoRecords, Records, Mix
<1>2. store.ids = Seeds /\ store.next_id = L0
  BY <1>1, NewEffect DEF Init
<1>3. \A l \in Seeds : l < L0
  BY ConstantsAssumption DEF Seeds
<1> QED
  BY <1>2, <1>3, CommittedInit DEF LocationsInv, StoreIsFresh

LEMMA LocationsStep ==
    ASSUME LocationsInv, [Next]_vars
    PROVE  LocationsInv'
<1>1. TypeOK /\ CommittedInv'
  BY CommittedStep DEF LocationsInv, CommittedInv
<1>2. CASE NothingCommitted
  BY <1>1, <1>2 DEF NothingCommitted, SameLocations, StoreIsFresh, LocationsInv
<1>3. CASE Usable /\ PartlyDurableWrite
  BY <1>1, <1>3, FreshWrite DEF LocationsInv
<1>4. CASE Writes \/ WriteBatch
  BY <1>1, <1>2, <1>3, <1>4, WriteOneEffect, WriteBatchEffect,
     WriteWithMetadataEffect, WriteBatchWithMetadataEffect, DurableIsPartly
     DEF Writes, Write, WriteTwo, WriteOne, WriteBatch, WriteWithMetadata,
         WriteBatchWithMetadata
<1>5. CASE Merge \/ Compress
  BY <1>1, <1>5, FreshConsolidation DEF LocationsInv
<1>6. CASE Lifecycle
  BY <1>1, <1>6, FreshLifecycle DEF LocationsInv
<1>7. CASE Deletes \/ Fetches \/ SnapshotVersioned \/ LoadConflict
             \/ UNCHANGED vars
  <2>1. SameLocations(store, store') /\ store'.next_id = store.next_id
    BY <1>1, <1>7, OtherEffect
  <2> QED
    BY <1>1, <2>1 DEF LocationsInv, StoreIsFresh, SameLocations
<1>8. ASSUME NEW S \in SUBSET LocId, NEW n \in 0 .. MaxLoc,
             LoadSnapshot(S, n) \/ LoadSnapshotChecked(S, n)
      PROVE  LocationsInv'
  BY <1>1, <1>8, FreshReplace DEF LocationsInv
<1> QED
  BY <1>4, <1>5, <1>6, <1>7, <1>8 DEF Next, Common, Replacements

-----------------------------------------------------------------------------
(* What the operations on the records do to the documents.                 *)

SameDocuments(s, t) ==
    t.docs = s.docs /\ t.posts = s.posts /\ t.doc_next_id = s.doc_next_id

LEMMA LocationCalls ==
    ASSUME NEW s \in Records, NEW S, NEW mix, NEW m
    PROVE  /\ SameDocuments(s, put_locations(s, S, mix))
           /\ SameDocuments(s, delete_locations(s, S))
           /\ SameDocuments(s, put_next_id(s, m))
           /\ put_counters(s, m).docs = s.docs
           /\ put_counters(s, m).posts = s.posts
           /\ put_counters(s, m).doc_next_id = m.doc_next_id
BY DEF SameDocuments, put_locations, delete_locations, put_next_id,
       put_counters, Records

LEMMA SavedDocuments ==
    ASSUME NEW s \in Records, NEW S \in SUBSET LocId, NEW m \in Memory
    PROVE  SameDocuments(s, saved(s, S, m))
<1> DEFINE t == put_locations(s, S, m.mix)
<1>1. t \in Records /\ SameDocuments(s, t)
  BY PutsMemory, LocationCalls
<1>2. saved(s, S, m) = put_next_id(t, m)
  BY DEF saved
<1> HIDE DEF t
<1>3. SameDocuments(t, put_next_id(t, m))
  BY <1>1, LocationCalls
<1> QED
  BY <1>1, <1>2, <1>3 DEF SameDocuments

(* The records `t` are the records `s` with the document `doc` filed under *)
(* the id `d` and posted on the locations `T`.                             *)
Filed(s, d, doc, T, t) ==
    /\ \A e \in DocId : t.docs[e] = IF e = d THEN doc ELSE s.docs[e]
    /\ \A l \in LocId : t.posts[l] = IF l \in T THEN s.posts[l] \cup {d}
                                               ELSE s.posts[l]
    /\ t.doc_next_id = s.doc_next_id

LEMMA FiledDocuments ==
    ASSUME NEW s \in Records, NEW r, NEW d \in DocId, NEW doc \in Document
    PROVE  Filed(s, d, doc, Touched(r), filed(s, r, d, doc))
<1> DEFINE f == [e \in DocId |-> IF e = d THEN doc ELSE s.docs[e]]
           q == put_document(s, d, doc)
           g == [l \in LocId |-> IF l \in Indexed(r) THEN q.posts[l] \cup {d}
                                                     ELSE q.posts[l]]
           t == filed(s, r, d, doc)
<1>1. q \in Records
  BY PutDocument
<1>2. q = [s EXCEPT !.docs = f]
  BY DEF put_document
<1>3. t = [q EXCEPT !.posts = g]
  BY DEF filed, append_doc_to_locations
<1>4. \A e \in DocId : f[e] = IF e = d THEN doc ELSE s.docs[e]
  OBVIOUS
<1>5. \A l \in LocId : g[l] = IF l \in Touched(r) THEN q.posts[l] \cup {d}
                                                 ELSE q.posts[l]
  BY DEF Indexed
<1> HIDE DEF f, q, g, t
<1>6. q.docs = f /\ q.posts = s.posts /\ q.doc_next_id = s.doc_next_id
  BY <1>2 DEF Records
<1>7. t.docs = q.docs /\ t.posts = g /\ t.doc_next_id = q.doc_next_id
  BY <1>1, <1>3 DEF Records
<1> QED
  BY <1>4, <1>5, <1>6, <1>7 DEF Filed, t

(* Every reference that can be resolved becomes a copy of what it refers   *)
(* to; nothing else changes.                                               *)
Materialised(s, m, t) ==
    /\ \A d \in DocId :
         IF s.docs[d].kind = "ref" /\ s.docs[d].at \in m.ids
         THEN /\ t.docs[d].kind = "inline"
              /\ t.docs[d].vec = m.mix[s.docs[d].at]
         ELSE t.docs[d] = s.docs[d]
    /\ t.doc_next_id = s.doc_next_id

LEMMA MaterialisedDocuments ==
    ASSUME NEW s \in Records, NEW m \in Memory
    PROVE  /\ Materialised(s, m, materialize_document_refs(s, m))
           /\ materialize_document_refs(s, m).posts = s.posts
<1> DEFINE f ==
        [d \in DocId |-> IF /\ s.docs[d].kind = "ref"
                            /\ Resolvable(m, s.docs[d])
                         THEN Inline(resolve_document(m, s.docs[d]))
                         ELSE s.docs[d]]
           t == materialize_document_refs(s, m)
<1>1. t = [s EXCEPT !.docs = f]
  BY DEF materialize_document_refs
<1>2. ASSUME NEW d \in DocId
      PROVE  IF s.docs[d].kind = "ref" /\ s.docs[d].at \in m.ids
             THEN f[d].kind = "inline" /\ f[d].vec = m.mix[s.docs[d].at]
             ELSE f[d] = s.docs[d]
  BY DEF Resolvable, resolve_document, Inline
<1> HIDE DEF f, t
<1>3. t.docs = f /\ t.posts = s.posts /\ t.doc_next_id = s.doc_next_id
  BY <1>1 DEF Records
<1> QED
  BY <1>2, <1>3 DEF Materialised, t

(* Posting lists travel with the locations: none gains a document that was *)
(* nowhere, and no document leaves the lists of the surviving locations.   *)
LEMMA MigratedPostings ==
    ASSUME NEW s \in Records, NEW ids \in SUBSET LocId, NEW p \in Plans(ids)
    PROVE  LET t == migrate_postings(s, p)
           IN /\ t.docs = s.docs /\ t.doc_next_id = s.doc_next_id
              /\ \A l \in LocId : \A d \in t.posts[l] :
                   \E k \in LocId : d \in s.posts[k]
              /\ \A k \in ids : \A d \in s.posts[k] :
                   \E l \in ids \ Removed(p) : d \in t.posts[l]
<1> DEFINE f ==
        [l \in LocId |->
            IF l \in Removed(p) THEN {}
            ELSE s.posts[l] \cup UNION {s.posts[r] : r \in Absorbed(p, l)}]
           t == migrate_postings(s, p)
<1>1. t = [s EXCEPT !.posts = f]
  BY DEF migrate_postings
<1>2. /\ DOMAIN p = ids
      /\ \A l \in ids : p[l] \in ids /\ p[p[l]] = p[l]
  BY DEF Plans
<1>3. \A l : Absorbed(p, l) = {r \in ids : p[r] = l}
  BY <1>2 DEF Absorbed
<1>4. Removed(p) = {l \in ids : p[l] # l}
  BY <1>2 DEF Removed
<1>5. \A l \in LocId : \A d : d \in f[l] <=>
        /\ l \notin Removed(p)
        /\ d \in s.posts[l] \/ \E k \in ids : p[k] = l /\ d \in s.posts[k]
  BY <1>3
<1> HIDE DEF f, t
<1>6. t.docs = s.docs /\ t.doc_next_id = s.doc_next_id /\ t.posts = f
  BY <1>1 DEF Records
<1>7. \A l \in LocId : \A d \in f[l] : \E k \in LocId : d \in s.posts[k]
  BY <1>5
<1>8. ASSUME NEW k \in ids, NEW d \in s.posts[k]
      PROVE  \E l \in ids \ Removed(p) : d \in f[l]
  <2>1. p[k] \in ids /\ p[k] \notin Removed(p) /\ p[k] \in LocId
    BY <1>2, <1>4
  <2>2. d \in f[p[k]]
    BY <1>5, <2>1
  <2> QED
    BY <2>1, <2>2
<1> QED
  BY <1>6, <1>7, <1>8 DEF t

(* The counters through a commit and through a rollback.                   *)
LEMMA BumpCounter ==
    ASSUME inner \in Memory, CanBump, NEW m \in Memory
    PROVE  /\ Bump(m).doc_next_id = m.doc_next_id
           /\ Bump(m).version = inner.version + 1
BY DEF Bump, Memory

LEMMA RollbackCounter ==
    ASSUME NEW m \in Memory, NEW s \in Records, Rollback(m, s)
    PROVE  /\ inner'.valid => inner'.doc_next_id = s.doc_next_id
           /\ inner'.version = m.version
<1>1. CASE inner' = [load(s) EXCEPT !.version = m.version]
  BY <1>1 DEF load
<1>2. CASE inner' = [m EXCEPT !.valid = FALSE]
  BY <1>2 DEF Memory
<1> QED
  BY <1>1, <1>2 DEF Rollback

LEMMA KnnMergeCounter ==
    ASSUME NEW m \in Memory, NEW p
    PROVE  /\ knn_merge(m, p).doc_next_id = m.doc_next_id
           /\ knn_merge(m, p).version = m.version
BY DEF knn_merge, Memory

-----------------------------------------------------------------------------
(* What the calls do to the documents.  In a plain collection a write      *)
(* leaves every stored location as it was.                                 *)
Steady ==
    ~Competitive => \A l \in store.ids :
        (inner.valid => inner.mix[l] = store.mix[l]) =>
            /\ l \in store'.ids
            /\ store'.mix[l] = store.mix[l]
            /\ inner'.valid => inner'.mix[l] = store.mix[l]

(* The documents under the ids `D` are new, the others unchanged.          *)
Files(D) ==
    /\ Steady
    /\ \A d \in DocId \ D : store'.docs[d] = store.docs[d] /\ acked'[d] = acked[d]
    /\ \A d \in D : DocumentIsKept(d)' /\ acked'[d] # {}
    /\ \A l \in LocId : /\ store'.posts[l] \subseteq store.posts[l] \cup D
                        /\ store.posts[l] \subseteq store'.posts[l]

(* References have become copies, and posting lists may have moved.        *)
Materialises ==
    /\ Usable
    /\ Materialised(store, inner, store')
    /\ acked' = acked
    /\ \A l \in LocId : \A d \in store'.posts[l] :
         \E k \in LocId : d \in store.posts[k]

LEMMA FilesKeeps ==
    ASSUME DocumentsInv, LocationsInv', NEW D \in SUBSET DocId, Files(D)
    PROVE  DocumentsInv'
<1>1. \A d \in DocId \ D : DocumentIsKept(d)'
  <2> SUFFICES ASSUME NEW d \in DocId \ D
               PROVE  DocumentIsKept(d)'
    OBVIOUS
  <2>1. DocumentIsKept(d)
    BY DEF DocumentsInv, DocumentsAreKept
  <2>2. store'.docs[d] = store.docs[d] /\ acked'[d] = acked[d]
    BY DEF Files
  <2>3. ASSUME store.docs[d].kind = "ref"
        PROVE  LET at == store.docs[d].at
               IN /\ ~Competitive
                  /\ at \in store'.ids
                  /\ store'.mix[at] = acked[d]
                  /\ inner'.valid => inner'.mix[at] = acked[d]
    BY <2>1, <2>3 DEF DocumentIsKept, Files, Steady
  <2> QED
    BY <2>1, <2>2, <2>3 DEF DocumentIsKept
<1>2. DocumentsAreKept'
  BY <1>1 DEF Files, DocumentsAreKept
<1>3. PostingsAreKept'
  BY DEF Files, DocumentsInv, PostingsAreKept, LocationsInv, CommittedInv,
         TypeOK, Records
<1> QED
  BY <1>2, <1>3 DEF DocumentsInv

LEMMA MaterialisesKeeps ==
    ASSUME DocumentsInv, LocationsInv', Materialises
    PROVE  DocumentsInv'
<1>1. inner.ids = store.ids
  BY DEF DocumentsInv, LocationsInv, CommittedInv, MemoryIsCommitted,
         Materialises, Usable
<1>2. \A d \in DocId : DocumentIsKept(d)'
  <2> SUFFICES ASSUME NEW d \in DocId
               PROVE  DocumentIsKept(d)'
    OBVIOUS
  <2>1. DocumentIsKept(d) /\ acked'[d] = acked[d] /\ inner.valid
    BY DEF DocumentsInv, DocumentsAreKept, Materialises, Usable
  <2>2. CASE store.docs[d].kind = "ref"
    <3>1. /\ store.docs[d].at \in inner.ids
          /\ inner.mix[store.docs[d].at] = acked[d]
      BY <1>1, <2>1, <2>2 DEF DocumentIsKept
    <3>2. store'.docs[d].kind = "inline" /\ store'.docs[d].vec = acked[d]
      BY <2>2, <3>1 DEF Materialises, Materialised
    <3> QED
      BY <2>1, <2>2, <3>2 DEF DocumentIsKept
  <2>3. CASE store.docs[d].kind # "ref"
    <3>1. store'.docs[d] = store.docs[d]
      BY <2>3 DEF Materialises, Materialised
    <3> QED
      BY <2>1, <2>3, <3>1 DEF DocumentIsKept
  <2> QED
    BY <2>2, <2>3
<1>3. PostingsAreKept'
  BY DEF Materialises, DocumentsInv, PostingsAreKept
<1> QED
  BY <1>2, <1>3 DEF DocumentsInv, DocumentsAreKept

LEMMA WriteIsSteady ==
    ASSUME LocationsInv, Usable, PartlyDurableWrite
    PROVE  Steady
<1>1. PICK V \in SUBSET Vector, T \in SUBSET LocId, m2 \in Memory :
        CommittedWrite(V, T, m2) /\ PartlyStored(store, T, m2, store')
  BY DEF PartlyDurableWrite
<1>2. /\ inner.ids = store.ids /\ Fresh(inner) /\ store.ids \subseteq LocId
      /\ inner.valid
  BY DEF LocationsInv, CommittedInv, MemoryIsCommitted, Usable, StoreIsFresh,
         Fresh, TypeOK, Records
<1>3. ~Competitive => \A l \in store.ids : l \notin T
  BY <1>1, <1>2 DEF CommittedWrite, Absorbs
<1>4. \A l \in LocId \ T : inner'.mix[l] = inner.mix[l]
  BY <1>1 DEF CommittedWrite, Absorbs
<1>5. /\ store'.ids = store.ids \cup T
      /\ \A l \in LocId \ T : store'.mix[l] = store.mix[l]
  BY <1>1 DEF PartlyStored
<1> QED
  BY <1>2, <1>3, <1>4, <1>5 DEF Steady

LEMMA NothingIsSteady ==
    ASSUME NothingCommitted
    PROVE  Steady
BY DEF NothingCommitted, SameLocations, Steady

(* The document counter and the posting lists, which the calls of          *)
(* IndexSpec keep in step, and the mutation counter.                       *)
CounterIsCommitted == inner.valid => inner.doc_next_id = store.doc_next_id

Bumped == inner'.version = inner.version + 1

Counts(D) ==
    /\ store.ids \subseteq store'.ids
    /\ CounterIsCommitted => CounterIsCommitted'
    /\ D = {} => store'.doc_next_id = store.doc_next_id
    /\ D # {} => inner.valid
    /\ CounterIsCommitted => store.doc_next_id <= store'.doc_next_id
    /\ \A d \in D : /\ inner.doc_next_id <= d /\ d < store'.doc_next_id
                    /\ \E l \in store'.ids : d \in store'.posts[l]

LEMMA CountsNothing ==
    ASSUME TypeOK, TypeOK', store.ids \subseteq store'.ids,
           CounterIsCommitted => CounterIsCommitted',
           store'.doc_next_id = store.doc_next_id
    PROVE  Counts({})
BY ConstantsAssumption DEF Counts, TypeOK, Records

LEMMA FilesNothing ==
    ASSUME Steady, SameDocuments(store, store'), acked' = acked
    PROVE  Files({})
BY DEF Files, SameDocuments

LEMMA FailsDocuments ==
    ASSUME LocationsInv, TypeOK', CanBump, NEW m \in Memory, Fails(m, store)
    PROVE  Files({}) /\ Counts({}) /\ Bumped
<1>1. TypeOK /\ inner \in Memory /\ store \in Records
  BY DEF LocationsInv, CommittedInv, TypeOK
<1>2. Steady
  BY <1>1, FailsUnchanged, NothingIsSteady
<1>3. Bump(m) \in Memory
  BY <1>1, BumpType
<1>4. store' = store /\ acked' = acked /\ Rollback(Bump(m), store)
  BY DEF Fails
<1>5. inner'.valid => inner'.doc_next_id = store.doc_next_id
  BY <1>1, <1>3, <1>4, RollbackCounter
<1>6. CounterIsCommitted'
  BY <1>4, <1>5 DEF CounterIsCommitted
<1>7. Bumped
  BY <1>1, <1>3, <1>4, BumpCounter, RollbackCounter DEF Bumped
<1> QED
  BY <1>1, <1>2, <1>4, <1>6, <1>7, FilesNothing, CountsNothing DEF SameDocuments

LEMMA CommitsDocuments ==
    ASSUME LocationsInv, TypeOK', CanBump, Steady, NEW m \in Memory,
           NEW s \in Records, NEW V, Commits(m, s, V), acked' = acked,
           SameDocuments(store, s), store.ids \subseteq s.ids,
           m.doc_next_id = inner.doc_next_id, Usable
    PROVE  Files({}) /\ Counts({}) /\ Bumped
<1>1. TypeOK /\ inner \in Memory
  BY DEF LocationsInv, CommittedInv, TypeOK
<1>2. inner' = Bump(m) /\ store' = s
  BY DEF Commits
<1>3. inner'.doc_next_id = inner.doc_next_id /\ Bumped
  BY <1>1, <1>2, BumpCounter DEF Bumped
<1>4. CounterIsCommitted => CounterIsCommitted'
  BY <1>2, <1>3 DEF CounterIsCommitted, SameDocuments, Usable
<1> QED
  BY <1>1, <1>2, <1>3, <1>4, FilesNothing, CountsNothing DEF SameDocuments

LEMMA WriteIsSteadyToo ==
    ASSUME LocationsInv, Writes \/ WriteBatch
    PROVE  Steady
<1>1. TypeOK
  BY DEF LocationsInv, CommittedInv
<1> QED
  BY <1>1, WriteOneEffect, WriteBatchEffect, WriteWithMetadataEffect,
     WriteBatchWithMetadataEffect, DurableIsPartly, WriteIsSteady,
     NothingIsSteady
     DEF Writes, Write, WriteTwo, WriteOne, WriteBatch, WriteWithMetadata,
         WriteBatchWithMetadata

LEMMA WriteOneDocuments ==
    ASSUME LocationsInv, TypeOK', NEW gate \in BOOLEAN, WriteOne(gate), Steady
    PROVE  Files({}) /\ Counts({}) /\ Bumped
<1> DEFINE v == written + 1
<1>1. /\ TypeOK /\ inner \in Memory /\ store \in Records /\ CanBump
      /\ written + 1 <= MaxWrite /\ Usable
  BY DEF LocationsInv, CommittedInv, TypeOK, WriteOne
<1>2. v \in Vector
  BY <1>1, AcknowledgeOne
<1>3. PICK r \in adaptive_write_two(inner, v, gate) :
        \/ /\ Commits(r.memory, saved(store, Touched(r), r.memory), {v})
           /\ UNCHANGED acked
        \/ Fails(r.memory, store)
  BY DEF WriteOne
<1>4. Wrote(inner, v, r)
  BY <1>1, <1>2, <1>3, AdaptiveWrite
<1>5. r.memory \in Memory /\ Touched(r) \in SUBSET LocId
  BY <1>1, <1>2, <1>4, TouchedType
<1> DEFINE T == Touched(r)
           m == r.memory
           s == saved(store, T, m)
<1>6. m.doc_next_id = inner.doc_next_id
  BY <1>4 DEF Wrote
<1> HIDE DEF T, m, v
<1>7. s \in Records /\ Stored(store, T, m, s) /\ SameDocuments(store, s)
  BY <1>1, <1>5, StoredSaved, SavedDocuments DEF T, m
<1> HIDE DEF s
<1>8. CASE Commits(m, s, {v}) /\ UNCHANGED acked
  BY <1>1, <1>5, <1>6, <1>7, <1>8, CommitsDocuments DEF Stored, m
<1>9. CASE Fails(m, store)
  BY <1>1, <1>5, <1>9, FailsDocuments DEF m
<1> QED
  BY <1>3, <1>8, <1>9 DEF T, m, s

LEMMA WriteBatchDocuments ==
    ASSUME LocationsInv, TypeOK', WriteBatch, Steady
    PROVE  Files({}) /\ Counts({}) /\ Bumped
<1> DEFINE v == written + 1
           u == written + 2
           Does(r1, r2) ==
             \/ /\ Commits(r2.memory, saved_batch(store, r1, r2), {v, u})
                /\ UNCHANGED acked
             \/ Fails(r2.memory, store)
<1>1. /\ TypeOK /\ inner \in Memory /\ store \in Records /\ CanBump
      /\ written + 2 <= MaxWrite /\ Usable
  BY DEF LocationsInv, CommittedInv, TypeOK, WriteBatch
<1>2. v \in Vector /\ u \in Vector
  BY <1>1, AcknowledgeTwo
<1>3. PICK r1 \in adaptive_write(inner, v) :
        \E r2 \in adaptive_write(r1.memory, u) : Does(r1, r2)
  BY DEF WriteBatch
<1>4. PICK r2 \in adaptive_write(r1.memory, u) : Does(r1, r2)
  BY <1>3
<1>5. Wrote(inner, v, r1)
  BY <1>1, <1>2, <1>3, AdaptiveWrite DEF adaptive_write
<1>6. r1.memory \in Memory /\ r1.modified \in SUBSET LocId /\ r1.created \in SUBSET LocId
  BY <1>1, <1>2, <1>5, TouchedType
<1>7. Wrote(r1.memory, u, r2)
  BY <1>2, <1>4, <1>6, AdaptiveWrite DEF adaptive_write
<1>8. r2.memory \in Memory /\ r2.modified \in SUBSET LocId /\ r2.created \in SUBSET LocId
  BY <1>2, <1>6, <1>7, TouchedType
<1> DEFINE m1 == r1.memory
           m2 == r2.memory
           S  == r1.modified \cup r2.modified
           s  == saved_batch(store, r1, r2)
<1>9. m1 \in Memory /\ m2 \in Memory /\ S \in SUBSET LocId
      /\ m2.doc_next_id = inner.doc_next_id
  BY <1>5, <1>6, <1>7, <1>8 DEF Wrote
<1>10. s \in Records /\ SameDocuments(store, s) /\ store.ids \subseteq s.ids
  <2> HIDE DEF m1, m2, S
  <2> DEFINE p == put_locations(store, S, m2.mix)
             q == put_locations(p, r1.created, m1.mix)
  <2>1. p \in Records /\ Puts(store, S, m2, p) /\ SameDocuments(store, p)
    BY <1>1, <1>9, PutsMemory, LocationCalls
  <2> HIDE DEF p
  <2>2. q \in Records /\ Puts(p, r1.created, m1, q) /\ SameDocuments(p, q)
    BY <1>6, <1>9, <2>1, PutsMemory, LocationCalls
  <2> HIDE DEF q
  <2>3. LET t == saved(q, r2.created, m2)
        IN t \in Records /\ Stored(q, r2.created, m2, t) /\ SameDocuments(q, t)
    BY <1>8, <1>9, <2>2, StoredSaved, SavedDocuments
  <2>4. s = saved(q, r2.created, m2)
    BY DEF saved_batch, q, p, S, m1, m2
  <2> HIDE DEF s
  <2> QED
    BY <2>1, <2>2, <2>3, <2>4 DEF Puts, Stored, SameDocuments
<1> HIDE DEF m1, m2, S, s
<1>11. CASE Commits(m2, s, {v, u}) /\ UNCHANGED acked
  BY <1>1, <1>9, <1>10, <1>11, CommitsDocuments
<1>12. CASE Fails(m2, store)
  BY <1>1, <1>9, <1>12, FailsDocuments
<1> QED
  BY <1>4, <1>11, <1>12 DEF m2, s

(* The document of a write holds its vector, or refers to a location that  *)
(* holds it and nothing else.                                              *)
LEMMA NewDocument ==
    ASSUME NEW v \in Vector, NEW r, NEW doc \in DocumentOf(r, v),
           NEW d \in DocId, store'.docs[d] = doc, acked'[d] = {v},
           ~Competitive => \A l \in r.created :
              l \in store'.ids /\ store'.mix[l] = {v} /\ inner'.mix[l] = {v}
    PROVE  DocumentIsKept(d)' /\ acked'[d] # {}
<1>1. CASE Competitive
  <2>1. doc = Inline({v})
    BY <1>1 DEF DocumentOf
  <2> QED
    BY <2>1 DEF DocumentIsKept, Inline
<1>2. CASE ~Competitive
  <2>1. PICK l \in r.created : doc = Ref(l)
    BY <1>2 DEF DocumentOf
  <2>2. doc.kind = "ref" /\ doc.at = l
    BY <2>1 DEF Ref
  <2> QED
    BY <1>2, <2>2 DEF DocumentIsKept
<1> QED
  BY <1>1, <1>2

(* A commit of records in which the documents `D` were filed.              *)
LEMMA CommitsFiled ==
    ASSUME LocationsInv, TypeOK', Steady, Usable, CanBump,
           NEW m \in Memory, NEW t \in Records, NEW V,
           Commits(m, put_counters(t, m), V), NEW T \in SUBSET LocId,
           Stored(store, T, m, put_counters(t, m)),
           NEW D \in SUBSET DocId, D # {},
           inner.doc_next_id <= m.doc_next_id,
           \A d \in D : inner.doc_next_id <= d /\ d < m.doc_next_id,
           \A d \in DocId \ D : t.docs[d] = store.docs[d] /\ acked'[d] = acked[d],
           \A d \in D : DocumentIsKept(d)' /\ acked'[d] # {},
           \A l \in LocId : /\ t.posts[l] \subseteq store.posts[l] \cup D
                            /\ store.posts[l] \subseteq t.posts[l],
           \A d \in D : \E l \in T : d \in t.posts[l]
    PROVE  Files(D) /\ Counts(D)
<1>1. TypeOK /\ inner \in Memory
  BY DEF LocationsInv, CommittedInv, TypeOK
<1> DEFINE s == put_counters(t, m)
<1>2. s.docs = t.docs /\ s.posts = t.posts /\ s.doc_next_id = m.doc_next_id
  BY LocationCalls
<1>3. inner' = Bump(m) /\ store' = s
  BY DEF Commits
<1> HIDE DEF s
<1>4. inner'.doc_next_id = m.doc_next_id
  BY <1>1, <1>3, BumpCounter
<1>5. Files(D)
  BY <1>2, <1>3 DEF Files
<1>6. store'.ids = store.ids \cup T
  BY <1>3 DEF Stored, s
<1>7. CounterIsCommitted'
  BY <1>2, <1>3, <1>4 DEF CounterIsCommitted
<1>8. CounterIsCommitted => store.doc_next_id <= store'.doc_next_id
  BY <1>2, <1>3 DEF CounterIsCommitted, Usable
<1>9. Counts(D)
  BY <1>2, <1>3, <1>6, <1>7, <1>8 DEF Counts, Usable
<1> QED
  BY <1>5, <1>9

LEMMA WriteWithMetadataDocuments ==
    ASSUME LocationsInv, TypeOK', WriteWithMetadata, Steady
    PROVE  \E D \in SUBSET DocId : Files(D) /\ Counts(D) /\ Bumped
<1> DEFINE M(r) == WithDocId(r.memory)
           t(r, doc, e) ==
             filed(put_locations(store, Touched(r), M(r).mix), r, e, doc)
           Does(r, doc, e, w) ==
             \/ /\ Commits(M(r), put_counters(t(r, doc, e), M(r)), {w})
                /\ acked' = [acked EXCEPT ![e] = {w}]
             \/ Fails(M(r), store)
<1>1. /\ TypeOK /\ inner \in Memory /\ store \in Records /\ CanBump
      /\ written + 1 <= MaxWrite /\ Usable
  BY DEF LocationsInv, CommittedInv, TypeOK, WriteWithMetadata
<1>2. PICK v \in Vector : v = written + 1
  BY <1>1, AcknowledgeOne
<1>3. PICK d \in DocId : d = inner.doc_next_id /\ inner.doc_next_id < MaxDoc
  BY <1>1, ConstantsAssumption DEF WriteWithMetadata, Memory, DocId
<1>4. PICK r \in adaptive_write(inner, written + 1) :
        \E doc \in DocumentOf(r, written + 1) :
           Does(r, doc, inner.doc_next_id, written + 1)
  BY Zenon DEF WriteWithMetadata
<1>5. PICK doc \in DocumentOf(r, v) : Does(r, doc, d, v)
  <2> HIDE DEF Does
  <2> QED
    BY <1>2, <1>3, <1>4
<1>0. r \in adaptive_write(inner, v)
  BY <1>2, <1>4
<1>6. Wrote(inner, v, r)
  BY <1>0, <1>1, AdaptiveWrite DEF adaptive_write
<1>7. /\ r.memory \in Memory /\ r.memory.doc_next_id = d
      /\ Touched(r) \in SUBSET LocId /\ r.created \in SUBSET LocId
  BY <1>1, <1>3, <1>6, TouchedType DEF Wrote
<1> DEFINE T == Touched(r)
           m == M(r)
           s == t(r, doc, d)
           p == put_locations(store, T, m.mix)
<1>8. m \in Memory /\ m.mix = r.memory.mix /\ m.doc_next_id = d + 1
  BY <1>3, <1>7, WithDocIdType
<1>9. doc \in Document
  BY <1>2, <1>5, <1>7, DocumentOfType
<1> HIDE DEF M, m, T
<1>10. p \in Records /\ SameDocuments(store, p) /\ T \in SUBSET LocId
  BY <1>1, <1>7, <1>8, PutsMemory, LocationCalls DEF T
<1>11. s = filed(p, r, d, doc)
  BY DEF p, T, m
<1> HIDE DEF p, s, t
<1>12. /\ s \in Records /\ SameLocations(p, s)
       /\ Filed(p, d, doc, T, s)
  BY <1>3, <1>7, <1>9, <1>10, <1>11, FiledLocations, FiledDocuments DEF T
<1>13. Stored(store, T, m, put_counters(s, m))
  BY <1>1, <1>8, <1>10, <1>12, StoredFiled DEF p
<1>14. CASE Commits(m, put_counters(s, m), {v}) /\ acked' = [acked EXCEPT ![d] = {v}]
  <2>1. /\ acked'[d] = {v}
        /\ \A e \in DocId \ {d} : acked'[e] = acked[e]
    BY <1>1, <1>3, <1>14 DEF TypeOK
  <2>2. /\ s.docs[d] = doc
        /\ \A e \in DocId \ {d} : s.docs[e] = store.docs[e]
        /\ \A l \in LocId : s.posts[l] = IF l \in T THEN store.posts[l] \cup {d}
                                                   ELSE store.posts[l]
    BY <1>3, <1>10, <1>12 DEF Filed, SameDocuments
  <2>3. inner'.mix = m.mix
    BY <1>1, <1>8, <1>14, BumpType DEF Commits
  <2>4. store' = put_counters(s, m)
    BY <1>14 DEF Commits
  <2>5. store'.docs = s.docs
    BY <1>12, <2>4, LocationCalls
  <2>6. ~Competitive => \A l \in r.created :
          l \in store'.ids /\ store'.mix[l] = {v} /\ inner'.mix[l] = {v}
    BY <1>6, <1>8, <1>13, <2>3, <2>4 DEF Wrote, Stored, T, Touched
  <2>7. DocumentIsKept(d)' /\ acked'[d] # {}
    BY <1>2, <1>3, <1>5, <2>1, <2>2, <2>5, <2>6, NewDocument
  <2>8. \E l \in T : d \in s.posts[l]
    BY <1>6, <1>10, <2>2 DEF Wrote, T
  <2>9. \A l \in LocId : /\ s.posts[l] \subseteq store.posts[l] \cup {d}
                         /\ store.posts[l] \subseteq s.posts[l]
    BY <2>2
  <2>10. /\ inner.doc_next_id <= m.doc_next_id
         /\ inner.doc_next_id <= d /\ d < m.doc_next_id
    BY <1>3, <1>8 DEF DocId
  <2> DEFINE D == {d}
  <2>11. D \in SUBSET DocId /\ D # {}
    BY <1>3
  <2>12. /\ \A e \in DocId \ D : s.docs[e] = store.docs[e] /\ acked'[e] = acked[e]
         /\ \A e \in D : DocumentIsKept(e)' /\ acked'[e] # {}
         /\ \A l \in LocId : /\ s.posts[l] \subseteq store.posts[l] \cup D
                             /\ store.posts[l] \subseteq s.posts[l]
         /\ \A e \in D : inner.doc_next_id <= e /\ e < m.doc_next_id
         /\ \A e \in D : \E l \in T : e \in s.posts[l]
    <3>1. \A e \in D : e = d
      OBVIOUS
    <3>2. D = {d}
      OBVIOUS
    <3> HIDE DEF D
    <3>3. \A e \in D : DocumentIsKept(e)' /\ acked'[e] # {}
      BY <2>7, <3>1
    <3>4. \A e \in DocId \ D : s.docs[e] = store.docs[e] /\ acked'[e] = acked[e]
      BY <2>1, <2>2, <3>2
    <3>5. /\ \A e \in D : inner.doc_next_id <= e /\ e < m.doc_next_id
          /\ \A e \in D : \E l \in T : e \in s.posts[l]
      BY <2>8, <2>10, <3>1
    <3> QED
      BY <2>9, <3>2, <3>3, <3>4, <3>5
  <2> HIDE DEF D
  <2>13. Files(D) /\ Counts(D)
    BY <1>1, <1>8, <1>10, <1>12, <1>13, <1>14, <2>10, <2>11, <2>12, CommitsFiled
  <2>14. Bumped
    BY <1>1, <1>8, <1>14, BumpCounter DEF Commits, Bumped
  <2> QED
    BY <2>11, <2>13, <2>14
<1>15. CASE Fails(m, store)
  <2>1. Files({}) /\ Counts({}) /\ Bumped
    BY <1>1, <1>8, <1>15, FailsDocuments
  <2> QED
    BY <2>1
<1> QED
  BY <1>5, <1>14, <1>15 DEF m, s, M

LEMMA WriteBatchWithMetadataDocuments ==
    ASSUME LocationsInv, TypeOK', WriteBatchWithMetadata, Steady
    PROVE  \E D \in SUBSET DocId : Files(D) /\ Counts(D) /\ Bumped
<1> DEFINE M(r2) == WithDocId(r2.memory)
           t(r1, r2, doc1, doc2, e) ==
             filed(filed(put_locations(store, Touched(r1) \cup Touched(r2),
                                       M(r2).mix), r1, e, doc1),
                   r2, e + 1, doc2)
           Does(r1, r2, doc1, doc2, e, w) ==
             \/ /\ Commits(M(r2), put_counters(t(r1, r2, doc1, doc2, e), M(r2)),
                           {w + 1, w + 2})
                /\ acked' = [acked EXCEPT ![e] = {w + 1}, ![e + 1] = {w + 2}]
             \/ Fails(M(r2), store)
<1>1. /\ TypeOK /\ inner \in Memory /\ store \in Records /\ CanBump
      /\ written + 2 <= MaxWrite /\ Usable
  BY DEF LocationsInv, CommittedInv, TypeOK, WriteBatchWithMetadata
<1>2. PICK w : w = written
  OBVIOUS
<1> DEFINE v == w + 1
           u == w + 2
<1>3. v \in Vector /\ u \in Vector /\ v = written + 1 /\ u = written + 2
  BY <1>1, <1>2, AcknowledgeTwo
<1>4. PICK d \in DocId : /\ d = inner.doc_next_id
                         /\ d + 1 \in DocId /\ d + 1 < MaxDoc /\ d + 2 <= MaxDoc
  BY <1>1, ConstantsAssumption DEF WriteBatchWithMetadata, Memory, DocId
<1>5. PICK r1 \in adaptive_write(inner, written + 1) :
        \E r2 \in adaptive_write(WithDocId(r1.memory), written + 2) :
        \E doc1 \in DocumentOf(r1, written + 1),
           doc2 \in DocumentOf(r2, written + 2) :
           Does(r1, r2, doc1, doc2, inner.doc_next_id, written)
  BY Zenon DEF WriteBatchWithMetadata
<1>6. /\ r1 \in adaptive_write(inner, v)
      /\ \E r2 \in adaptive_write(WithDocId(r1.memory), u) :
         \E doc1 \in DocumentOf(r1, v), doc2 \in DocumentOf(r2, u) :
           Does(r1, r2, doc1, doc2, d, w)
  <2> HIDE DEF Does
  <2> QED
    BY <1>2, <1>3, <1>4, <1>5
<1>7. PICK r2 \in adaptive_write(WithDocId(r1.memory), u) :
        \E doc1 \in DocumentOf(r1, v), doc2 \in DocumentOf(r2, u) :
           Does(r1, r2, doc1, doc2, d, w)
  BY <1>6
<1>8. PICK doc1 \in DocumentOf(r1, v), doc2 \in DocumentOf(r2, u) :
        Does(r1, r2, doc1, doc2, d, w)
  BY <1>7
<1> HIDE DEF v, u
<1>9. Wrote(inner, v, r1)
  BY <1>1, <1>3, <1>6, AdaptiveWrite DEF adaptive_write
<1>10. /\ r1.memory \in Memory /\ r1.memory.doc_next_id = d
       /\ Touched(r1) \in SUBSET LocId /\ r1.created \in SUBSET LocId
  BY <1>1, <1>3, <1>4, <1>9, TouchedType DEF Wrote
<1> DEFINE m1 == WithDocId(r1.memory)
<1>11. m1 \in Memory /\ m1.doc_next_id = d + 1
       /\ m1.mix = r1.memory.mix /\ m1.ids = r1.memory.ids
       /\ m1.next_id = r1.memory.next_id
  <2>1. r1.memory.doc_next_id < MaxDoc
    BY <1>4, <1>10, ConstantsAssumption DEF DocId
  <2> QED
    BY <1>10, <2>1, WithDocIdType
<1>12. Wrote(m1, u, r2)
  BY <1>3, <1>7, <1>11, AdaptiveWrite DEF adaptive_write
<1>13. /\ r2.memory \in Memory /\ r2.memory.doc_next_id = d + 1
       /\ Touched(r2) \in SUBSET LocId /\ r2.created \in SUBSET LocId
  BY <1>3, <1>11, <1>12, TouchedType DEF Wrote
<1> DEFINE T == Touched(r1) \cup Touched(r2)
           m == M(r2)
           s == t(r1, r2, doc1, doc2, d)
           p == put_locations(store, T, m.mix)
           q == filed(p, r1, d, doc1)
<1>14. /\ m \in Memory /\ m.mix = r2.memory.mix /\ m.doc_next_id = d + 2
       /\ T \in SUBSET LocId
  <2>1. r2.memory.doc_next_id < MaxDoc /\ d + 1 + 1 = d + 2
    BY <1>4, <1>13, ConstantsAssumption DEF DocId
  <2>2. M(r2) \in Memory /\ M(r2).mix = r2.memory.mix
        /\ M(r2).doc_next_id = d + 1 + 1
    BY <1>13, <2>1, WithDocIdType
  <2> QED
    BY <1>10, <1>13, <2>1, <2>2
<1>15. doc1 \in Document /\ doc2 \in Document
  BY <1>3, <1>8, <1>10, <1>13, DocumentOfType
<1> HIDE DEF M, m, T, m1
<1>16. p \in Records /\ SameDocuments(store, p)
  BY <1>1, <1>14, PutsMemory, LocationCalls
<1>17. s = filed(q, r2, d + 1, doc2)
  BY DEF q, p, T, m
<1> HIDE DEF p, s, t
<1>18. /\ q \in Records /\ SameLocations(p, q)
       /\ Filed(p, d, doc1, Touched(r1), q)
  BY <1>4, <1>10, <1>15, <1>16, FiledLocations, FiledDocuments
<1> HIDE DEF q
<1>19. /\ s \in Records /\ SameLocations(q, s)
       /\ Filed(q, d + 1, doc2, Touched(r2), s)
  BY <1>4, <1>13, <1>15, <1>17, <1>18, FiledLocations, FiledDocuments
<1>20. Stored(store, T, m, put_counters(s, m))
  <2>1. SameLocations(p, s)
    BY <1>18, <1>19 DEF SameLocations
  <2> QED
    BY <1>1, <1>14, <1>19, <2>1, StoredFiled DEF p
<1>21. CASE /\ Commits(m, put_counters(s, m), {v, u})
            /\ acked' = [acked EXCEPT ![d] = {v}, ![d + 1] = {u}]
  <2>0. d # d + 1
    BY <1>4 DEF DocId
  <2>1. /\ acked'[d] = {v} /\ acked'[d + 1] = {u}
        /\ \A e \in DocId \ {d, d + 1} : acked'[e] = acked[e]
    BY <1>1, <1>4, <1>21, <2>0 DEF TypeOK
  <2>2. /\ s.docs[d] = doc1 /\ s.docs[d + 1] = doc2
        /\ \A e \in DocId \ {d, d + 1} : s.docs[e] = store.docs[e]
    BY <1>4, <1>16, <1>18, <1>19, <2>0 DEF Filed, SameDocuments
  <2>3. /\ \A l \in LocId : /\ s.posts[l] \subseteq store.posts[l] \cup {d, d + 1}
                            /\ store.posts[l] \subseteq s.posts[l]
        /\ \A l \in Touched(r1) : d \in s.posts[l]
        /\ \A l \in Touched(r2) : d + 1 \in s.posts[l]
    <3>1. \A l \in LocId : q.posts[l] = IF l \in Touched(r1)
                             THEN store.posts[l] \cup {d} ELSE store.posts[l]
      BY <1>16, <1>18 DEF Filed, SameDocuments
    <3>2. \A l \in LocId : s.posts[l] = IF l \in Touched(r2)
                             THEN q.posts[l] \cup {d + 1} ELSE q.posts[l]
      BY <1>19 DEF Filed
    <3> QED
      BY <1>10, <1>13, <3>1, <3>2
  <2>4. inner'.mix = m.mix
    BY <1>1, <1>14, <1>21, BumpType DEF Commits
  <2>5. store' = put_counters(s, m)
    BY <1>21 DEF Commits
  <2>6. store'.docs = s.docs
    BY <1>19, <2>5, LocationCalls
  <2>7. ~Competitive => \A l \in r2.created :
          l \in store'.ids /\ store'.mix[l] = {u} /\ inner'.mix[l] = {u}
    BY <1>12, <1>14, <1>20, <2>4, <2>5 DEF Wrote, Stored, T, Touched
  <2>8. ~Competitive => \A l \in r1.created :
          l \in store'.ids /\ store'.mix[l] = {v} /\ inner'.mix[l] = {v}
    <3> SUFFICES ASSUME ~Competitive, NEW l \in r1.created
                 PROVE  l \in store'.ids /\ store'.mix[l] = {v} /\ inner'.mix[l] = {v}
      OBVIOUS
    <3>1. r1.memory.mix[l] = {v} /\ l \in LocId /\ l \in T
      BY <1>9, <1>10 DEF Wrote, T, Touched
    <3>2. l = inner.next_id /\ m1.next_id = inner.next_id + 1
      BY <1>9, <1>11 DEF Wrote, CreatedOne, CreatedNone
    <3>3. l \notin r2.created
      BY <1>12, <3>1, <3>2, ConstantsAssumption
         DEF Wrote, CreatedOne, CreatedNone, LocId
    <3>4. r2.modified = {}
      BY <1>12 DEF Wrote
    <3>5. r2.memory.mix[l] = m1.mix[l]
      BY <1>12, <3>1, <3>3, <3>4 DEF Wrote
    <3> QED
      BY <1>11, <1>14, <1>20, <2>4, <2>5, <3>1, <3>5 DEF Stored
  <2>9. DocumentIsKept(d)' /\ acked'[d] # {}
    BY <1>3, <1>4, <1>8, <2>1, <2>2, <2>6, <2>8, NewDocument
  <2> DEFINE f == d + 1
  <2>10. f \in DocId /\ acked'[f] = {u} /\ store'.docs[f] = doc2
    BY <1>4, <2>1, <2>2, <2>6
  <2>11. DocumentIsKept(f)' /\ acked'[f] # {}
    <3> HIDE DEF f
    <3> QED
      BY <1>3, <1>8, <2>7, <2>10, NewDocument
  <2> DEFINE D == {d, f}
  <2>12. D \in SUBSET DocId /\ D # {} /\ \A e \in D : e = d \/ e = f
    BY <1>4
  <2>13. /\ inner.doc_next_id <= m.doc_next_id
         /\ inner.doc_next_id <= d /\ d < m.doc_next_id
         /\ inner.doc_next_id <= f /\ f < m.doc_next_id
    BY <1>4, <1>14 DEF DocId
  <2>14. \A e \in DocId \ D : s.docs[e] = store.docs[e] /\ acked'[e] = acked[e]
    BY <2>1, <2>2
  <2>15. \A l \in LocId : /\ s.posts[l] \subseteq store.posts[l] \cup D
                          /\ store.posts[l] \subseteq s.posts[l]
    BY <2>3
  <2>16. (\E l \in T : d \in s.posts[l]) /\ (\E l \in T : f \in s.posts[l])
    BY <1>9, <1>12, <2>3 DEF Wrote, T
  <2> HIDE DEF f, D
  <2>17. /\ \A e \in D : DocumentIsKept(e)' /\ acked'[e] # {}
         /\ \A e \in D : inner.doc_next_id <= e /\ e < m.doc_next_id
         /\ \A e \in D : \E l \in T : e \in s.posts[l]
    <3>1. \A e \in D : DocumentIsKept(e)' /\ acked'[e] # {}
      BY <2>9, <2>11, <2>12
    <3>2. \A e \in D : inner.doc_next_id <= e /\ e < m.doc_next_id
      BY <2>12, <2>13
    <3>3. \A e \in D : \E l \in T : e \in s.posts[l]
      BY <2>12, <2>16
    <3> QED
      BY <3>1, <3>2, <3>3
  <2>18. Files(D) /\ Counts(D)
    BY <1>1, <1>14, <1>19, <1>20, <1>21, <2>12, <2>13, <2>14, <2>15, <2>17,
       CommitsFiled
  <2>19. Bumped
    BY <1>1, <1>14, <1>21, BumpCounter DEF Commits, Bumped
  <2> QED
    BY <2>12, <2>18, <2>19
<1>22. CASE Fails(m, store)
  <2>1. Files({}) /\ Counts({}) /\ Bumped
    BY <1>1, <1>14, <1>22, FailsDocuments
  <2> QED
    BY <2>1
<1> QED
  BY <1>8, <1>21, <1>22 DEF m, s, M, v, u

(* Consolidation moves posting lists and keeps the counter; what it does   *)
(* to the posting lists of live locations matters to IndexSpec only.       *)
Regroups ==
    /\ store'.doc_next_id = store.doc_next_id
    /\ CounterIsCommitted => CounterIsCommitted'
    /\ \A k \in store.ids : \A d \in store.posts[k] :
         \E l \in store'.ids : d \in store'.posts[l]
    /\ store'.ids = {} => store.ids = {}

LEMMA FailsMaterialised ==
    ASSUME LocationsInv, Usable, NEW m \in Memory,
           Rollback(m, materialize_document_refs(store, inner)),
           store' = materialize_document_refs(store, inner), acked' = acked
    PROVE  Materialises /\ Regroups /\ inner'.version = m.version
<1> DEFINE s == materialize_document_refs(store, inner)
<1>1. inner \in Memory /\ store \in Records
  BY DEF LocationsInv, CommittedInv, TypeOK
<1>2. s \in Records /\ SameLocations(store, s)
  BY <1>1, Materialize
<1>3. Materialised(store, inner, s) /\ s.posts = store.posts
  BY <1>1, MaterialisedDocuments
<1> HIDE DEF s
<1>4. /\ inner'.valid => inner'.doc_next_id = s.doc_next_id
      /\ inner'.version = m.version
  BY <1>2, RollbackCounter DEF s
<1>5. store' = s
  BY DEF s
<1> QED
  BY <1>2, <1>3, <1>4, <1>5
     DEF Materialises, Materialised, Regroups, CounterIsCommitted, SameLocations

(* The records and the memory of a consolidation that removes something,   *)
(* or stores nothing else.                                                 *)
LEMMA ConsolidatedDocuments ==
    ASSUME LocationsInv, Usable, NEW p \in Plans(inner.ids),
           inner'.doc_next_id = knn_merge(inner, p).doc_next_id,
           acked' = acked,
           LET s == materialize_document_refs(store, inner)
               t == delete_locations(migrate_postings(s, p), Removed(p))
           IN SameDocuments(t, store') /\ t.ids \subseteq store'.ids
    PROVE  Materialises /\ Regroups
<1> DEFINE s == materialize_document_refs(store, inner)
           u == migrate_postings(s, p)
           t == delete_locations(u, Removed(p))
<1>1. /\ TypeOK /\ inner \in Memory /\ store \in Records
      /\ inner.ids = store.ids /\ inner.ids \in SUBSET LocId
  BY DEF LocationsInv, CommittedInv, MemoryIsCommitted, Usable, TypeOK, Memory
<1>2. s \in Records /\ Materialised(store, inner, s) /\ s.posts = store.posts
  BY <1>1, Materialize, MaterialisedDocuments
<1>3. t.ids = store.ids \ Removed(p)
  BY <1>1, ConsolidatedRecords
<1> HIDE DEF s
<1>4. /\ u.docs = s.docs /\ u.doc_next_id = s.doc_next_id
      /\ \A l \in LocId : \A d \in u.posts[l] : \E k \in LocId : d \in s.posts[k]
      /\ \A k \in inner.ids : \A d \in s.posts[k] :
           \E l \in inner.ids \ Removed(p) : d \in u.posts[l]
  BY <1>1, <1>2, MigratedPostings
<1>5. u \in Records
  BY <1>1, <1>2, Migrate
<1> HIDE DEF u
<1>6. SameDocuments(u, t)
  BY <1>5, LocationCalls
<1> HIDE DEF t
<1>7. SameDocuments(t, store') /\ t.ids \subseteq store'.ids
  BY DEF t, u, s
<1>8. /\ store'.docs = s.docs /\ store'.doc_next_id = s.doc_next_id
      /\ store'.posts = u.posts
  BY <1>4, <1>6, <1>7 DEF SameDocuments
<1>9. Materialises
  BY <1>2, <1>4, <1>8 DEF Materialises, Materialised
<1>10. inner'.doc_next_id = inner.doc_next_id
  BY <1>1, KnnMergeCounter
<1>11. CounterIsCommitted => CounterIsCommitted'
  BY <1>2, <1>8, <1>10 DEF CounterIsCommitted, Usable, Materialised
<1>12. \A k \in store.ids : \A d \in store.posts[k] :
         \E l \in store'.ids : d \in store'.posts[l]
  BY <1>1, <1>2, <1>3, <1>4, <1>7, <1>8
<1>13. store'.ids = {} => store.ids = {}
  <2>1. \A l \in inner.ids : p[l] \in inner.ids \ Removed(p)
    BY DEF Plans, Removed
  <2> QED
    BY <1>1, <1>3, <1>7, <2>1
<1> QED
  BY <1>2, <1>8, <1>9, <1>11, <1>12, <1>13 DEF Regroups, Materialised

LEMMA MergeDocuments ==
    ASSUME LocationsInv, Merge
    PROVE  Materialises /\ Regroups /\ Bumped
<1> DEFINE s == materialize_document_refs(store, inner)
           t(p) == delete_locations(migrate_postings(s, p), Removed(p))
           m(p) == knn_merge(inner, p)
<1>1. /\ inner \in Memory /\ CanBump /\ Usable /\ TypeOK
      /\ store \in Records
  BY DEF LocationsInv, CommittedInv, TypeOK, Merge
<1>2. PICK p \in Plans(inner.ids) :
        \/ Commits(m(p), t(p), {}) /\ UNCHANGED acked
        \/ Fails(m(p), s)
  BY Zenon DEF Merge
<1>3. m(p) \in Memory
  BY <1>1, KnnMerge
<1>4. CASE Commits(m(p), t(p), {}) /\ UNCHANGED acked
  <2>1. inner' = Bump(m(p)) /\ store' = t(p) /\ acked' = acked
    BY <1>4 DEF Commits
  <2>2. inner'.doc_next_id = m(p).doc_next_id /\ Bumped
    <3> HIDE DEF m, t
    <3> QED
      BY <1>1, <1>3, <2>1, BumpCounter DEF Bumped
  <2>3. SameDocuments(t(p), store') /\ t(p).ids \subseteq store'.ids
    <3> HIDE DEF t
    <3> QED
      BY <2>1 DEF SameDocuments
  <2> QED
    BY <1>1, <2>1, <2>2, <2>3, ConsolidatedDocuments
<1>5. CASE Fails(m(p), s)
  <2>1. Rollback(Bump(m(p)), s) /\ store' = s /\ acked' = acked
    BY <1>5 DEF Fails
  <2>2. Bump(m(p)) \in Memory /\ Bump(m(p)).version = inner.version + 1
    <3> HIDE DEF m
    <3> QED
      BY <1>1, <1>3, BumpType, BumpCounter
  <2> HIDE DEF m
  <2> QED
    BY <1>1, <2>1, <2>2, FailsMaterialised DEF Bumped
<1> QED
  BY <1>2, <1>4, <1>5

LEMMA CompressDocuments ==
    ASSUME LocationsInv, Compress
    PROVE  Materialises /\ Regroups
<1> DEFINE s == materialize_document_refs(store, inner)
           t(p) == delete_locations(migrate_postings(s, p), Removed(p))
           m(p) == knn_merge(inner, p)
<1>1. /\ inner \in Memory /\ Usable /\ TypeOK /\ store \in Records
      /\ acked' = acked /\ inner.ids = store.ids
  BY DEF LocationsInv, CommittedInv, MemoryIsCommitted, Usable, TypeOK, Compress
<1>2. PICK p \in Plans(inner.ids) :
        \/ inner' = m(p) /\ store' = compressed_records(s, m(p), p)
        \/ Rollback(m(p), s) /\ store' = s
  BY Zenon DEF Compress
<1>3. m(p) \in Memory
  BY <1>1, KnnMerge
<1>4. CASE Rollback(m(p), s) /\ store' = s
  <2> HIDE DEF m
  <2> QED
    BY <1>1, <1>3, <1>4, FailsMaterialised
<1>5. CASE inner' = m(p) /\ store' = compressed_records(s, m(p), p) /\ Removed(p) = {}
  <2>1. store' = s
    BY <1>5 DEF compressed_records
  <2>2. s \in Records /\ SameLocations(store, s)
        /\ Materialised(store, inner, s) /\ s.posts = store.posts
    BY <1>1, Materialize, MaterialisedDocuments
  <2>3. inner'.doc_next_id = inner.doc_next_id
    BY <1>1, <1>5, KnnMergeCounter
  <2>4. store.posts \in [LocId -> SUBSET DocId] /\ store.ids \subseteq LocId
    BY <1>1 DEF Records
  <2> HIDE DEF s
  <2>5. store'.posts = store.posts /\ store'.ids = store.ids
        /\ store'.doc_next_id = store.doc_next_id
    BY <2>1, <2>2 DEF SameLocations, Materialised
  <2>6. Materialises
    BY <1>1, <2>1, <2>2, <2>5 DEF Materialises
  <2>7. CounterIsCommitted => CounterIsCommitted'
    BY <1>1, <2>3, <2>5 DEF CounterIsCommitted, Usable
  <2>8. Regroups
    BY <2>4, <2>5, <2>7 DEF Regroups
  <2> QED
    BY <2>6, <2>8
<1>6. CASE inner' = m(p) /\ store' = compressed_records(s, m(p), p) /\ Removed(p) # {}
  <2>1. store' = put_locations(t(p), m(p).ids, m(p).mix)
    BY <1>6 DEF compressed_records
  <2>2. t(p) \in Records
    BY <1>1, ConsolidatedRecords
  <2>3. SameDocuments(t(p), store') /\ t(p).ids \subseteq store'.ids
    <3>1. m(p).ids \in SUBSET LocId
      BY <1>3 DEF Memory
    <3> DEFINE a == t(p)
               b == m(p)
               I == b.ids
               f == b.mix
    <3> HIDE DEF t, m, a, b
    <3>2. a \in Records /\ b \in Memory /\ I \in SUBSET LocId
      BY <1>3, <2>2, <3>1 DEF a, b
    <3> HIDE DEF I
    <3>3. Puts(a, I, b, put_locations(a, I, f))
      BY <3>2, PutsMemory
    <3> HIDE DEF f
    <3>4. SameDocuments(a, put_locations(a, I, f))
      BY <3>2, LocationCalls
    <3> QED
      BY <2>1, <3>3, <3>4 DEF Puts, a, b, I, f
  <2>4. inner'.doc_next_id = m(p).doc_next_id
    BY <1>6
  <2> QED
    BY <1>1, <2>3, <2>4, ConsolidatedDocuments
<1> QED
  BY <1>2, <1>4, <1>5, <1>6

LEMMA ReplaceDocuments ==
    ASSUME LocationsInv, NEW S \in SUBSET LocId, NEW n \in 0 .. MaxLoc,
           LoadSnapshot(S, n) \/ LoadSnapshotChecked(S, n)
    PROVE  Materialises /\ Bumped
<1> DEFINE mix == [l \in LocId |-> IF l \in S THEN Loaded(S) ELSE {}]
           m   == [inner EXCEPT !.ids = S, !.mix = mix, !.next_id = n]
           s   == materialize_document_refs(store, inner)
           t   == delete_locations(s, inner.ids)
<1>1. /\ CanBump /\ Usable /\ Replace(S, n)
      /\ written + Cardinality(Loaded(S)) <= MaxWrite
      /\ TypeOK /\ inner \in Memory /\ store \in Records
      /\ inner.ids \in SUBSET LocId
  BY DEF LoadSnapshot, LoadSnapshotChecked, LocationsInv, CommittedInv, TypeOK,
         Memory
<1>2. /\ acked' = acked
      /\ \/ inner' = Bump(m) /\ store' = saved(t, S, m)
         \/ Rollback(Bump(inner), s) /\ store' = s
  BY <1>1, Zenon DEF Replace, Fails
<1>3. mix \in Mix
  BY <1>1, LoadedType DEF Mix
<1> HIDE DEF mix
<1>4. m \in Memory
  BY <1>1, <1>3 DEF Memory
<1>5. s \in Records /\ Materialised(store, inner, s) /\ s.posts = store.posts
  BY <1>1, Materialize, MaterialisedDocuments
<1>6. CASE Rollback(Bump(inner), s) /\ store' = s
  <2>1. Bump(inner) \in Memory /\ Bump(inner).version = inner.version + 1
    BY <1>1, BumpType, BumpCounter
  <2> QED
    BY <1>1, <1>2, <1>6, <2>1, FailsMaterialised DEF Bumped
<1> HIDE DEF m, s
<1>7. t \in Records /\ SameDocuments(s, t)
  BY <1>1, <1>5, DeleteLocations, LocationCalls
<1> HIDE DEF t
<1>8. SameDocuments(t, saved(t, S, m))
  BY <1>4, <1>7, SavedDocuments
<1>9. CASE inner' = Bump(m) /\ store' = saved(t, S, m)
  <2>1. SameDocuments(s, store')
    BY <1>7, <1>8, <1>9 DEF SameDocuments
  <2>2. Bumped
    BY <1>1, <1>4, <1>9, BumpCounter DEF Bumped
  <2> QED
    BY <1>1, <1>2, <1>5, <2>1, <2>2 DEF SameDocuments, Materialises, Materialised
<1> QED
  BY <1>2, <1>6, <1>9

LEMMA LifecycleDocuments ==
    ASSUME LocationsInv, Lifecycle
    PROVE  Files({})
<1>1. /\ inner \in Memory /\ store \in Records /\ inner.ids \in SUBSET LocId
      /\ store.ids \in SUBSET LocId
  BY DEF LocationsInv, CommittedInv, TypeOK, Memory, Records
<1>2. CASE Flush
  <2> DEFINE t == saved(store, inner.ids, inner)
             S == inner.ids
  <2>1. SameDocuments(store, t) /\ Stored(store, S, inner, t)
    BY <1>1, SavedDocuments, StoredSaved
  <2> HIDE DEF t, S
  <2>2. /\ store' = t /\ inner' = inner /\ acked' = acked /\ inner.valid
        /\ store.ids = S
    BY <1>2 DEF Flush, Usable, LocationsInv, CommittedInv, MemoryIsCommitted,
                t, S
  <2>3. Steady
    BY <1>1, <2>1, <2>2 DEF Steady, Stored
  <2> QED
    BY <2>1, <2>2, <2>3, FilesNothing
<1>3. CASE Reopen
  <2>1. inner'.mix = store.mix /\ store' = store /\ acked' = acked
    BY <1>3 DEF Reopen, load
  <2> QED
    BY <2>1, FilesNothing DEF Steady, SameDocuments
<1>4. CASE ReopenByCreate
  <2>1. store' = new_records(store) /\ store.ids = {} /\ acked' = acked
    BY <1>4 DEF ReopenByCreate
  <2>2. SameDocuments(store, new_records(store))
    BY <1>1 DEF new_records, SameDocuments, Records
  <2> QED
    BY <2>1, <2>2, FilesNothing DEF Steady
<1> QED
  BY <1>2, <1>3, <1>4 DEF Lifecycle

LEMMA DeleteDocuments ==
    ASSUME NEW s \in Records, NEW d \in DocId
    PROVE  LET t == delete_document_everywhere(s, d)
           IN /\ t.ids = s.ids /\ t.mix = s.mix /\ t.doc_next_id = s.doc_next_id
              /\ t.docs[d].kind = "none"
              /\ \A e \in DocId \ {d} : t.docs[e] = s.docs[e]
              /\ \A l \in LocId : t.posts[l] = s.posts[l] \ {d}
<1> DEFINE f == [e \in DocId |-> IF e = d THEN NoDocument ELSE s.docs[e]]
           g == [l \in LocId |-> s.posts[l] \ {d}]
           t == delete_document_everywhere(s, d)
<1>1. t = [s EXCEPT !.docs = f, !.posts = g]
  BY DEF delete_document_everywhere
<1>2. /\ f[d].kind = "none" /\ \A e \in DocId \ {d} : f[e] = s.docs[e]
      /\ \A l \in LocId : g[l] = s.posts[l] \ {d}
  BY DEF NoDocument
<1> HIDE DEF f, g, t
<1>3. /\ t.ids = s.ids /\ t.mix = s.mix /\ t.doc_next_id = s.doc_next_id
      /\ t.docs = f /\ t.posts = g
  BY <1>1 DEF Records
<1> QED
  BY <1>2, <1>3 DEF t

LEMMA DeleteKeeps ==
    ASSUME DocumentsInv, LocationsInv', Deletes
    PROVE  DocumentsInv'
<1>1. PICK d \in DocId : DeleteDocument(d)
  BY DEF Deletes
<1>2. /\ store' = delete_document_everywhere(store, d)
      /\ acked' = [acked EXCEPT ![d] = {}] /\ inner' = inner
  BY <1>1 DEF DeleteDocument
<1>3. TypeOK /\ store \in Records
  BY DEF DocumentsInv, LocationsInv, CommittedInv, TypeOK
<1>4. /\ store'.ids = store.ids /\ store'.mix = store.mix
      /\ store'.docs[d].kind = "none"
      /\ \A e \in DocId \ {d} : store'.docs[e] = store.docs[e]
      /\ \A l \in LocId : store'.posts[l] = store.posts[l] \ {d}
  BY <1>2, <1>3, DeleteDocuments
<1>5. acked'[d] = {} /\ \A e \in DocId \ {d} : acked'[e] = acked[e]
  BY <1>2, <1>3 DEF TypeOK
<1>6. DocumentIsKept(d)'
  BY <1>4, <1>5 DEF DocumentIsKept
<1>7. ASSUME NEW e \in DocId, e # d PROVE DocumentIsKept(e)'
  <2>1. DocumentIsKept(e)
    BY DEF DocumentsInv, DocumentsAreKept
  <2> QED
    BY <1>2, <1>4, <1>5, <1>7, <2>1 DEF DocumentIsKept
<1>8. DocumentsAreKept'
  BY <1>6, <1>7 DEF DocumentsAreKept
<1>9. PostingsAreKept'
  BY <1>3, <1>4, <1>5 DEF DocumentsInv, PostingsAreKept, TypeOK, Records
<1> QED
  BY <1>8, <1>9 DEF DocumentsInv

LEMMA DocumentsInit == Init => DocumentsInv
<1> SUFFICES ASSUME Init PROVE DocumentsInv
  OBVIOUS
<1>1. NoRecords \in Records
  BY NoDocumentType, ConstantsAssumption DEF NoRecords, Records, Mix
<1>2. store.docs = NoRecords.docs /\ store.posts = NoRecords.posts
  BY <1>1 DEF Init, new_records, Records
<1>3. /\ \A d \in DocId : store.docs[d] = NoDocument /\ acked[d] = {}
      /\ \A l \in LocId : store.posts[l] = {}
  BY <1>2 DEF NoRecords, Init
<1> QED
  BY <1>3, LocationsInit
     DEF DocumentsInv, DocumentsAreKept, DocumentIsKept, PostingsAreKept,
         NoDocument

LEMMA DocumentsStep ==
    ASSUME DocumentsInv, [Next]_vars
    PROVE  DocumentsInv'
<1>1. LocationsInv /\ LocationsInv' /\ TypeOK'
  BY LocationsStep DEF DocumentsInv, LocationsInv, CommittedInv
<1>2. CASE \E D \in SUBSET DocId : Files(D)
  BY <1>1, <1>2, FilesKeeps
<1>3. CASE Materialises
  BY <1>1, <1>3, MaterialisesKeeps
<1>4. CASE Writes \/ WriteBatch
  <2>1. Steady
    BY <1>1, <1>4, WriteIsSteadyToo
  <2>2. \E D \in SUBSET DocId : Files(D)
    BY <1>1, <1>4, <2>1, WriteOneDocuments, WriteBatchDocuments,
       WriteWithMetadataDocuments, WriteBatchWithMetadataDocuments
       DEF Writes, Write, WriteTwo
  <2> QED
    BY <1>2, <2>2
<1>5. CASE Merge \/ Compress
  BY <1>1, <1>3, <1>5, MergeDocuments, CompressDocuments
<1>6. CASE Lifecycle
  BY <1>1, <1>2, <1>6, LifecycleDocuments
<1>7. CASE Deletes
  BY <1>1, <1>7, DeleteKeeps
<1>8. CASE Fetches \/ SnapshotVersioned \/ LoadConflict \/ UNCHANGED vars
  <2>1. inner' = inner /\ store' = store /\ acked' = acked
    BY <1>8 DEF Fetches, GetDocument, ResolveFetched, SnapshotVersioned,
                LoadConflict, vars
  <2>2. Files({})
    <3>1. store.posts \in [LocId -> SUBSET DocId]
      BY <1>1 DEF LocationsInv, CommittedInv, TypeOK, Records
    <3> QED
      BY <2>1, <3>1 DEF Files, Steady
  <2> QED
    BY <1>2, <2>2
<1>9. ASSUME NEW S \in SUBSET LocId, NEW n \in 0 .. MaxLoc,
             LoadSnapshot(S, n) \/ LoadSnapshotChecked(S, n)
      PROVE  DocumentsInv'
  BY <1>1, <1>3, <1>9, ReplaceDocuments
<1> QED
  BY <1>4, <1>5, <1>6, <1>7, <1>8, <1>9 DEF Next, Common, Replacements

(* Whatever sequence of writes, deletions, consolidations, replacements,   *)
(* failed transactions and restarts, in either write mode: a document is   *)
(* stored exactly while it is acknowledged, it resolves in a usable memory *)
(* to the vector it was acknowledged with, and no posting list names a     *)
(* deleted one (collection.rs, write_with_metadata 1656, delete_document   *)
(* 2020, materialize_document_refs 1969).                                  *)
THEOREM DocumentsCorrect == Spec => []DocumentsExact
<1>1. Init => DocumentsInv
  BY DocumentsInit
<1>2. DocumentsInv /\ [Next]_vars => DocumentsInv'
  BY DocumentsStep
<1>3. DocumentsInv => DocumentsExact
  <2> SUFFICES ASSUME DocumentsInv PROVE DocumentsExact
    OBVIOUS
  <2>1. inner.valid => inner.ids = store.ids
    BY DEF DocumentsInv, LocationsInv, CommittedInv, MemoryIsCommitted
  <2>2. \A d \in DocId : store.docs[d].kind \in {"none", "inline", "ref"}
    BY DEF DocumentsInv, LocationsInv, CommittedInv, TypeOK, Records, Document
  <2> QED
    BY <2>1, <2>2 DEF DocumentsExact, DocumentsInv, DocumentsAreKept,
       DocumentIsKept, PostingsAreKept, Resolvable, resolve_document
<1> QED
  BY <1>1, <1>2, <1>3, PTL DEF Spec

-----------------------------------------------------------------------------
(* The ids and the posting lists, for every call but wholesale             *)
(* replacement: the document counter is above every stored id, the memory  *)
(* and the store agree on it, a collection without locations has given out *)
(* no document id (or create_collection would give it out again), and each *)
(* document is posted on a stored location.                                *)
NumbersInUse ==
    \A d \in DocId : store.docs[d].kind # "none" => d < store.doc_next_id

EmptyIsNew == store.ids = {} => store.doc_next_id = 0

PostedOnStored ==
    \A d \in DocId : acked[d] # {} => \E l \in store.ids : d \in store.posts[l]

IndexInv ==
    /\ DocumentsInv
    /\ NumbersInUse
    /\ CounterIsCommitted
    /\ EmptyIsNew
    /\ PostedOnStored

LEMMA CountsKeeps ==
    ASSUME IndexInv, DocumentsInv', NEW D \in SUBSET DocId, Files(D), Counts(D)
    PROVE  IndexInv' /\ NoOverwrite
<1>1. /\ TypeOK /\ store \in Records /\ store' \in Records
      /\ store.ids \subseteq LocId /\ store'.doc_next_id \in Int
      /\ store.doc_next_id \in Int
  BY ConstantsAssumption
     DEF IndexInv, DocumentsInv, LocationsInv, CommittedInv, TypeOK, Records
<1>2. CounterIsCommitted /\ CounterIsCommitted'
      /\ store.doc_next_id <= store'.doc_next_id
  BY DEF IndexInv, Counts
<1>3. \A d \in DocId \ D : /\ store'.docs[d] = store.docs[d]
                           /\ acked'[d] = acked[d]
  BY DEF Files
<1>4. NumbersInUse'
  <2> SUFFICES ASSUME NEW d \in DocId, store'.docs[d].kind # "none"
               PROVE  d < store'.doc_next_id
    BY DEF NumbersInUse
  <2>1. CASE d \in D
    BY <2>1 DEF Counts
  <2>2. CASE d \notin D
    BY <1>1, <1>2, <1>3, <2>2 DEF IndexInv, NumbersInUse, DocId
  <2> QED
    BY <2>1, <2>2
<1>5. EmptyIsNew'
  <2> SUFFICES ASSUME store'.ids = {}
               PROVE  store'.doc_next_id = 0
    BY DEF EmptyIsNew
  <2>1. store.ids = {} /\ D = {}
    BY DEF Counts
  <2> QED
    BY <2>1 DEF Counts, IndexInv, EmptyIsNew
<1>6. PostedOnStored'
  <2> SUFFICES ASSUME NEW d \in DocId, acked'[d] # {}
               PROVE  \E l \in store'.ids : d \in store'.posts[l]
    BY DEF PostedOnStored
  <2>1. CASE d \in D
    BY <2>1 DEF Counts
  <2>2. CASE d \notin D
    <3>1. PICK l \in store.ids : d \in store.posts[l]
      BY <1>3, <2>2 DEF IndexInv, PostedOnStored
    <3> QED
      BY <1>1, <3>1 DEF Counts, Files
  <2> QED
    BY <2>1, <2>2
<1>7. NoOverwrite
  <2> SUFFICES ASSUME NEW d \in DocId, acked[d] # {}
               PROVE  acked'[d] \in {acked[d], {}}
    BY DEF NoOverwrite
  <2>1. d < store.doc_next_id
    BY DEF IndexInv, NumbersInUse, DocumentsInv, DocumentsAreKept,
           DocumentIsKept
  <2>2. d \notin D
    <3> SUFFICES ASSUME d \in D PROVE FALSE
      OBVIOUS
    <3>1. inner.valid /\ inner.doc_next_id <= d
      BY DEF Counts
    <3> QED
      BY <1>1, <1>2, <2>1, <3>1 DEF CounterIsCommitted, DocId
  <2> QED
    BY <1>3, <2>2
<1> QED
  BY <1>2, <1>4, <1>5, <1>6, <1>7 DEF IndexInv

LEMMA RegroupsKeeps ==
    ASSUME IndexInv, DocumentsInv', Materialises, Regroups
    PROVE  IndexInv' /\ NoOverwrite
<1>1. acked' = acked /\ store'.doc_next_id = store.doc_next_id
  BY DEF Materialises, Regroups
<1>2. NumbersInUse'
  <2> SUFFICES ASSUME NEW d \in DocId, store'.docs[d].kind # "none"
               PROVE  d < store'.doc_next_id
    BY DEF NumbersInUse
  <2>1. store.docs[d].kind # "none"
    BY DEF Materialises, Materialised
  <2> QED
    BY <1>1, <2>1 DEF IndexInv, NumbersInUse
<1>3. EmptyIsNew'
  BY <1>1 DEF IndexInv, EmptyIsNew, Regroups
<1>4. CounterIsCommitted'
  BY DEF IndexInv, Regroups
<1>5. PostedOnStored'
  BY <1>1 DEF IndexInv, PostedOnStored, Regroups
<1> QED
  BY <1>1, <1>2, <1>3, <1>4, <1>5 DEF IndexInv, NoOverwrite

LEMMA LifecycleIndex ==
    ASSUME IndexInv, DocumentsInv', Lifecycle
    PROVE  IndexInv' /\ NoOverwrite
<1>1. /\ LocationsInv /\ TypeOK /\ TypeOK'
      /\ inner \in Memory /\ store \in Records
      /\ inner.ids \in SUBSET LocId
  BY DEF IndexInv, DocumentsInv, LocationsInv, CommittedInv, TypeOK, Memory
<1>2. Files({})
  BY <1>1, LifecycleDocuments
<1>3. CASE Flush
  <2> DEFINE t == saved(store, inner.ids, inner)
             S == inner.ids
  <2>1. SameDocuments(store, t) /\ Stored(store, S, inner, t)
    BY <1>1, SavedDocuments, StoredSaved
  <2> HIDE DEF t, S
  <2>2. store' = t /\ inner' = inner
    BY <1>3 DEF Flush, t
  <2>3. /\ store.ids \subseteq store'.ids
        /\ CounterIsCommitted => CounterIsCommitted'
        /\ store'.doc_next_id = store.doc_next_id
    BY <2>1, <2>2 DEF Stored, SameDocuments, CounterIsCommitted
  <2>4. Counts({})
    BY <1>1, <2>3, CountsNothing
  <2> QED
    BY <1>2, <2>4, CountsKeeps
<1>4. CASE Reopen
  <2>1. inner'.doc_next_id = store.doc_next_id /\ store' = store
    BY <1>4 DEF Reopen, load
  <2>2. CounterIsCommitted'
    BY <2>1 DEF CounterIsCommitted
  <2>3. Counts({})
    BY <1>1, <2>1, <2>2, CountsNothing
  <2> QED
    BY <1>2, <2>3, CountsKeeps
<1>5. CASE ReopenByCreate
  <2>1. /\ store' = new_records(store) /\ inner' = new_memory /\ store.ids = {}
    BY <1>5 DEF ReopenByCreate
  <2>2. store'.doc_next_id = store.doc_next_id
    BY <1>1, <2>1 DEF new_records, Records
  <2>3. store.doc_next_id = 0 /\ inner'.doc_next_id = 0
    BY <2>1 DEF IndexInv, EmptyIsNew, new_memory
  <2>4. CounterIsCommitted'
    BY <2>2, <2>3 DEF CounterIsCommitted
  <2>5. Counts({})
    BY <1>1, <2>1, <2>2, <2>4, CountsNothing
  <2> QED
    BY <1>2, <2>5, CountsKeeps
<1> QED
  BY <1>3, <1>4, <1>5 DEF Lifecycle

LEMMA DeleteIndex ==
    ASSUME IndexInv, DocumentsInv', Deletes
    PROVE  IndexInv' /\ NoOverwrite
<1>1. PICK d \in DocId : DeleteDocument(d)
  BY DEF Deletes
<1>2. /\ store' = delete_document_everywhere(store, d)
      /\ acked' = [acked EXCEPT ![d] = {}] /\ inner' = inner
  BY <1>1 DEF DeleteDocument
<1>3. TypeOK /\ store \in Records /\ store.ids \subseteq LocId
  BY DEF IndexInv, DocumentsInv, LocationsInv, CommittedInv, TypeOK, Records
<1>4. /\ store'.ids = store.ids /\ store'.doc_next_id = store.doc_next_id
      /\ store'.docs[d].kind = "none"
      /\ \A e \in DocId \ {d} : store'.docs[e] = store.docs[e]
      /\ \A l \in LocId : store'.posts[l] = store.posts[l] \ {d}
  BY <1>2, <1>3, DeleteDocuments
<1>5. acked'[d] = {} /\ \A e \in DocId \ {d} : acked'[e] = acked[e]
  BY <1>2, <1>3 DEF TypeOK
<1>6. NumbersInUse'
  BY <1>4 DEF IndexInv, NumbersInUse
<1>7. EmptyIsNew' /\ CounterIsCommitted'
  BY <1>2, <1>4 DEF IndexInv, EmptyIsNew, CounterIsCommitted
<1>8. PostedOnStored'
  <2> SUFFICES ASSUME NEW e \in DocId, acked'[e] # {}
               PROVE  \E l \in store'.ids : e \in store'.posts[l]
    BY DEF PostedOnStored
  <2>1. e # d /\ acked[e] # {}
    BY <1>5
  <2>2. PICK l \in store.ids : e \in store.posts[l]
    BY <2>1 DEF IndexInv, PostedOnStored
  <2> QED
    BY <1>3, <1>4, <2>1, <2>2
<1>9. NoOverwrite
  BY <1>5 DEF NoOverwrite
<1> QED
  BY <1>6, <1>7, <1>8, <1>9 DEF IndexInv

LEMMA IndexInit == Init => IndexInv
<1> SUFFICES ASSUME Init PROVE IndexInv
  OBVIOUS
<1>1. NoRecords \in Records
  BY NoDocumentType, ConstantsAssumption DEF NoRecords, Records, Mix
<1>2. store.docs = NoRecords.docs /\ store.doc_next_id = 0
  BY <1>1 DEF Init, new_records, Records, NoRecords
<1>3. \A d \in DocId : store.docs[d].kind = "none" /\ acked[d] = {}
  BY <1>2 DEF NoRecords, Init, NoDocument
<1>4. inner.doc_next_id = 0
  BY DEF Init, new_memory
<1> QED
  BY <1>2, <1>3, <1>4, DocumentsInit
     DEF IndexInv, NumbersInUse, CounterIsCommitted, EmptyIsNew, PostedOnStored

LEMMA IndexStep ==
    ASSUME IndexInv, [IndexNext]_vars
    PROVE  IndexInv' /\ [NoOverwrite]_vars
<1>1. DocumentsInv' /\ LocationsInv /\ TypeOK'
  <2>1. DocumentsInv /\ [Next]_vars
    BY DEF IndexInv, IndexNext, Next
  <2> QED
    BY <2>1, DocumentsStep DEF DocumentsInv, LocationsInv, CommittedInv
<1>2. CASE \E D \in SUBSET DocId : Files(D) /\ Counts(D)
  BY <1>1, <1>2, CountsKeeps
<1>3. CASE Writes \/ WriteBatch
  <2>1. Steady
    BY <1>1, <1>3, WriteIsSteadyToo
  <2>2. \E D \in SUBSET DocId : Files(D) /\ Counts(D)
    BY <1>1, <1>3, <2>1, WriteOneDocuments, WriteBatchDocuments,
       WriteWithMetadataDocuments, WriteBatchWithMetadataDocuments
       DEF Writes, Write, WriteTwo
  <2> QED
    BY <1>2, <2>2
<1>4. CASE Merge \/ Compress
  BY <1>1, <1>4, MergeDocuments, CompressDocuments, RegroupsKeeps
<1>5. CASE Lifecycle
  BY <1>1, <1>5, LifecycleIndex
<1>6. CASE Deletes
  BY <1>1, <1>6, DeleteIndex
<1>7. CASE Fetches \/ UNCHANGED vars
  <2>1. inner' = inner /\ store' = store /\ acked' = acked
    BY <1>7 DEF Fetches, GetDocument, ResolveFetched, vars
  <2> QED
    BY <1>1, <2>1 DEF IndexInv, NumbersInUse, CounterIsCommitted, EmptyIsNew,
       PostedOnStored, NoOverwrite
<1> QED
  BY <1>3, <1>4, <1>5, <1>6, <1>7 DEF IndexNext, Common

(* As long as no content is replaced wholesale: the next location id and   *)
(* the next document id are above all that are in use, through failures,   *)
(* consolidation and restarts (EAMInner::next_id and doc_next_id,          *)
(* collection.rs; Hive::create_collection, hive.rs 91).                    *)
THEOREM FreshIdsCorrect == IndexSpec => []IdsAreFresh
<1>1. Init => IndexInv
  BY IndexInit
<1>2. IndexInv /\ [IndexNext]_vars => IndexInv'
  BY IndexStep
<1>3. IndexInv => IdsAreFresh
  BY DEF IndexInv, DocumentsInv, LocationsInv, CommittedInv,
         MemoryIsCommitted, StoreIsFresh, NumbersInUse, CounterIsCommitted,
         IdsAreFresh
<1> QED
  BY <1>1, <1>2, <1>3, PTL DEF IndexSpec

(* Over the same calls, every acknowledged document is in the posting list *)
(* of a live location, wherever consolidation has taken the location it    *)
(* was written to (write_with_metadata, collection.rs 1656; the migration  *)
(* of posting lists in merge and compress).                                *)
THEOREM ReachableCorrect == IndexSpec => []DocumentsReachable
<1>1. Init => IndexInv
  BY IndexInit
<1>2. IndexInv /\ [IndexNext]_vars => IndexInv'
  BY IndexStep
<1>3. IndexInv => DocumentsReachable
  BY DEF IndexInv, DocumentsInv, LocationsInv, CommittedInv,
         MemoryIsCommitted, PostedOnStored, DocumentsReachable
<1> QED
  BY <1>1, <1>2, <1>3, PTL DEF IndexSpec

(* And no step gives an acknowledged document's id to another vector: it   *)
(* keeps the one it has, or is deleted (collection.rs, doc_next_id).       *)
THEOREM StableCorrect == IndexSpec => DocumentIdsAreStable
<1>1. Init => IndexInv
  BY IndexInit
<1>2. IndexInv /\ [IndexNext]_vars => IndexInv'
  BY IndexStep
<1>3. IndexInv /\ [IndexNext]_vars => [NoOverwrite]_vars
  BY IndexStep
<1> QED
  BY <1>1, <1>2, <1>3, PTL DEF IndexSpec, DocumentIdsAreStable

-----------------------------------------------------------------------------
(* VersionWitnessesState.  A snapshot is never ahead of the mutation       *)
(* counter, and every call that changes a location moves the counter, a    *)
(* failed one too: compress alone does not.                                *)
SnapshotIsCurrent ==
    snap.taken =>
        /\ snap.version <= inner.version
        /\ (inner.valid /\ snap.version = inner.version) =>
              snap.ids = inner.ids /\ snap.mix = inner.mix

VersionInv == LocationsInv /\ SnapshotIsCurrent

LEMMA BumpedKeeps ==
    ASSUME VersionInv, Bumped, UNCHANGED snap \/ snap' = NoSnapshot
    PROVE  SnapshotIsCurrent'
<1>1. snap.version \in Int /\ inner.version \in Int
  BY ConstantsAssumption
     DEF VersionInv, LocationsInv, CommittedInv, TypeOK, Memory, Snapshot
<1>2. CASE snap' = NoSnapshot
  BY <1>2 DEF SnapshotIsCurrent, NoSnapshot
<1>3. CASE UNCHANGED snap
  <2> SUFFICES ASSUME snap'.taken
               PROVE  snap'.version < inner'.version
    BY <1>1, <1>3 DEF SnapshotIsCurrent, Bumped
  <2>1. snap.version <= inner.version
    BY <1>3 DEF VersionInv, SnapshotIsCurrent
  <2> QED
    BY <1>1, <1>3, <2>1 DEF Bumped
<1> QED
  BY <1>2, <1>3

LEMMA VersionStep ==
    ASSUME VersionInv, [VersionedNext]_vars
    PROVE  VersionInv'
<1>1. LocationsInv /\ LocationsInv' /\ TypeOK'
  <2>1. LocationsInv /\ [Next]_vars
    BY DEF VersionInv, VersionedNext, Next
  <2> QED
    BY <2>1, LocationsStep DEF LocationsInv, CommittedInv
<1>2. CASE Bumped /\ (UNCHANGED snap \/ snap' = NoSnapshot)
  BY <1>1, <1>2, BumpedKeeps DEF VersionInv
<1>3. CASE UNCHANGED <<inner, snap>>
  BY <1>1, <1>3 DEF VersionInv, SnapshotIsCurrent
<1>4. CASE snap' = NoSnapshot
  BY <1>1, <1>4 DEF VersionInv, SnapshotIsCurrent, NoSnapshot
<1>5. CASE Writes \/ WriteBatch
  <2>1. Steady
    BY <1>1, <1>5, WriteIsSteadyToo
  <2>2. Bumped
    BY <1>1, <1>5, <2>1, WriteOneDocuments, WriteBatchDocuments,
       WriteWithMetadataDocuments, WriteBatchWithMetadataDocuments
       DEF Writes, Write, WriteTwo
  <2>3. UNCHANGED snap
    BY <1>5 DEF Writes, Write, WriteTwo, WriteOne, WriteWithMetadata,
       WriteBatchWithMetadata, WriteBatch, clientVars
  <2> QED
    BY <1>2, <2>2, <2>3
<1>6. CASE Merge
  <2>1. Bumped /\ UNCHANGED snap
    BY <1>1, <1>6, MergeDocuments DEF Merge, clientVars
  <2> QED
    BY <1>2, <2>1
<1>7. CASE Deletes \/ Flush \/ UNCHANGED vars
  BY <1>3, <1>7 DEF Deletes, DeleteDocument, Flush, vars
<1>8. CASE Reopen \/ ReopenByCreate \/ LoadConflict
  BY <1>4, <1>8 DEF Reopen, ReopenByCreate, LoadConflict
<1>9. CASE SnapshotVersioned
  <2>1. /\ inner' = inner
        /\ snap' = [taken |-> TRUE, version |-> inner.version,
                    ids |-> inner.ids, mix |-> inner.mix]
    BY <1>9 DEF SnapshotVersioned
  <2>2. inner.version \in Int
    BY <1>1, ConstantsAssumption DEF LocationsInv, CommittedInv, TypeOK, Memory
  <2> QED
    BY <1>1, <2>1, <2>2 DEF VersionInv, SnapshotIsCurrent
<1>10. ASSUME NEW S \in SUBSET LocId, NEW n \in 0 .. MaxLoc,
              LoadSnapshot(S, n) \/ LoadSnapshotChecked(S, n)
       PROVE  VersionInv'
  <2>1. Bumped
    BY <1>1, <1>10, ReplaceDocuments
  <2>2. UNCHANGED snap \/ snap' = NoSnapshot
    BY <1>10 DEF LoadSnapshot, LoadSnapshotChecked, clientVars
  <2> QED
    BY <1>2, <2>1, <2>2
<1> QED
  BY <1>5, <1>6, <1>7, <1>8, <1>9, <1>10
     DEF VersionedNext, Common, Lifecycle, Replacements

(* Among all calls but compress: a client whose snapshot has the version   *)
(* the memory has now has a snapshot of the memory as it is, so that the   *)
(* check of load_snapshot_checked (collection.rs 2542) refuses every stale *)
(* replacement.                                                            *)
THEOREM VersionCorrect == VersionedSpec => []VersionWitnessesState
<1>1. Init => VersionInv
  BY LocationsInit DEF VersionInv, SnapshotIsCurrent, Init, NoSnapshot
<1>2. VersionInv /\ [VersionedNext]_vars => VersionInv'
  BY VersionStep
<1>3. VersionInv => VersionWitnessesState
  BY DEF VersionInv, SnapshotIsCurrent, VersionWitnessesState
<1> QED
  BY <1>1, <1>2, <1>3, PTL DEF VersionedSpec

=============================================================================
