----------------------------- MODULE Collection -----------------------------
(***************************************************************************)
(* One HeatherDB collection: the in-memory associative memory (EAMInner,   *)
(* behind an RwLock) and the records LMDB holds for it.  Every mutating    *)
(* call takes the write lock, changes the memory, commits one LMDB         *)
(* transaction and releases the lock, so a call is one action; what can    *)
(* interleave is the calls themselves, the two halves of get_document, the *)
(* snapshot -> compute -> load_snapshot cycle of a client, transaction     *)
(* failures, and a restart between any two of them.                        *)
(*                                                                         *)
(* Data abstraction.  Each write carries a vector of its own, named by a   *)
(* write number.  A hard location is the set of writes accumulated in it   *)
(* (its counter; in a plain collection also its address).  Similarity is   *)
(* not modelled: which locations a write activates, joins or splits and    *)
(* which locations a merge pairs up are nondeterministic choices.          *)
(***************************************************************************)
EXTENDS Integers, FiniteSets

CONSTANTS
    Competitive,  \* config.competitive: adaptive memory, or verbatim append
    K,            \* config.k: locations a competitive write activates
    L0,           \* config.l_0: random locations a new collection starts with
    MaxLoc,       \* bound: location ids are 0 .. MaxLoc-1
    MaxWrite,     \* bound: vectors written in a behaviour
    MaxDoc,       \* bound: document ids are 0 .. MaxDoc-1
    MaxVersion    \* bound: the in-process mutation counter

ASSUME ConstantsAssumption ==
    /\ Competitive \in BOOLEAN
    /\ K \in Nat \ {0}
    /\ L0 \in Nat
    /\ MaxLoc \in Nat \ {0}
    /\ L0 <= MaxLoc
    /\ MaxWrite \in Nat
    /\ MaxDoc \in Nat \ {0}
    /\ MaxVersion \in Nat

LocId  == 0 .. MaxLoc - 1
Vector == 1 .. MaxWrite
DocId  == 0 .. MaxDoc - 1

VARIABLES
    inner,    \* EAMInner, the state behind the RwLock
    store,    \* the collection's records in LMDB
    written,  \* how many vectors clients have written
    learned,  \* history: acknowledged writes no later load has replaced
    acked,    \* history: the vector acknowledged under each document id
    snap,     \* a client's snapshot, held between reading and loading
    reader    \* a get_document call between its two halves

vars == <<inner, store, written, learned, acked, snap, reader>>

Mix == [LocId -> SUBSET Vector]

Memory ==
    [valid : BOOLEAN, ids : SUBSET LocId, mix : Mix, next_id : 0 .. MaxLoc,
     doc_next_id : 0 .. MaxDoc, version : 0 .. MaxVersion]

(* A document keeps its vector, or refers to the location that holds it.   *)
Document ==
    [kind : {"none", "inline", "ref"}, vec : SUBSET Vector, at : LocId]

NoDocument == [kind |-> "none", vec |-> {}, at |-> 0]
Inline(x)  == [kind |-> "inline", vec |-> x, at |-> 0]
Ref(l)     == [kind |-> "ref", vec |-> {}, at |-> l]

Records ==
    [ids : SUBSET LocId, mix : Mix, next_id : 0 .. MaxLoc,
     doc_next_id : 0 .. MaxDoc, docs : [DocId -> Document],
     posts : [LocId -> SUBSET DocId]]

NoSnapshot == [taken |-> FALSE, version |-> 0, ids |-> {},
               mix |-> [l \in LocId |-> {}]]

Snapshot == [taken : BOOLEAN, version : 0 .. MaxVersion,
             ids : SUBSET LocId, mix : Mix]

NoReader == [phase |-> "idle", doc |-> NoDocument, want |-> {}, got |-> {}]

Reader == [phase : {"idle", "fetched", "answered", "corrupt"}, doc : Document,
           want : SUBSET Vector, got : SUBSET Vector]

-----------------------------------------------------------------------------
(* Opening a collection.                                                   *)

(* Collection::load: the memory is what LMDB holds; the mutation counter   *)
(* starts again at 0.  (Definitions named X_... or X_without_... just      *)
(* before a definition X are slips that X must not make; nothing in the    *)
(* specification uses them, they show that the properties would notice.)   *)
load_without_counter(s) ==
    [valid |-> TRUE, ids |-> s.ids, mix |-> s.mix, next_id |-> s.next_id,
     doc_next_id |-> 0, version |-> 0]

load(s) ==
    [valid |-> TRUE, ids |-> s.ids, mix |-> s.mix, next_id |-> s.next_id,
     doc_next_id |-> s.doc_next_id, version |-> 0]

(* Collection::new: L0 random locations nothing has been written to.  The  *)
(* document counter starts at 0 in memory and is not persisted.            *)
Seeds == 0 .. L0 - 1

new_memory ==
    [valid |-> TRUE, ids |-> Seeds, mix |-> [l \in LocId |-> {}],
     next_id |-> L0, doc_next_id |-> 0, version |-> 0]

new_records(s) ==
    [s EXCEPT !.ids = s.ids \cup Seeds,
              !.mix = [l \in LocId |-> IF l \in Seeds THEN {} ELSE s.mix[l]],
              !.next_id = L0]

NoRecords ==
    [ids |-> {}, mix |-> [l \in LocId |-> {}], next_id |-> 0,
     doc_next_id |-> 0, docs |-> [d \in DocId |-> NoDocument],
     posts |-> [l \in LocId |-> {}]]

Init ==
    /\ inner = new_memory
    /\ store = new_records(NoRecords)
    /\ written = 0
    /\ learned = {}
    /\ acked = [d \in DocId |-> {}]
    /\ snap = NoSnapshot
    /\ reader = NoReader

-----------------------------------------------------------------------------
(* The adaptive write, as the set of results it may have.  A result is the *)
(* memory after the write, the locations it activated (all of them are     *)
(* persisted and indexed) and the locations it created.                    *)

Result(m, modified, created) ==
    [memory |-> m, modified |-> modified, created |-> created]

accumulate(m, joined, v) ==
    [m EXCEPT !.mix = [l \in LocId |-> IF l \in joined
                                       THEN m.mix[l] \cup {v} ELSE m.mix[l]]]

push_location(m, content) ==
    [m EXCEPT !.ids = m.ids \cup {m.next_id},
              !.mix = [l \in LocId |-> IF l = m.next_id
                                       THEN content ELSE m.mix[l]],
              !.next_id = m.next_id + 1]

Room(m) == m.next_id < MaxLoc

(* The k nearest locations of some vector.                                 *)
Activations(m) ==
    {S \in SUBSET m.ids :
        Cardinality(S) = IF Cardinality(m.ids) < K
                         THEN Cardinality(m.ids) ELSE K}

(* What a join adds to: the winner alone under the gate, otherwise every   *)
(* activated location with a positive weight.                              *)
Joined(S, winner, gate) ==
    IF gate THEN {{winner}} ELSE (SUBSET S) \ {{}}

Appends(m, v) ==
    IF Room(m) THEN {Result(push_location(m, {v}), {}, {m.next_id})} ELSE {}

Joins(m, v, gate) ==
    UNION {UNION {{Result(accumulate(m, J, v), S, {}) :
                      J \in Joined(S, w, gate)} : w \in S} :
               S \in Activations(m)}

Spawns(m, v) ==
    {Result(push_location(m, {v}), S, {m.next_id}) :
        S \in {T \in Activations(m) : Room(m)}}

(* A saturated winner hands half of its counter to a new location.         *)
Split(m, w) == push_location(m, m.mix[w])

Splits(m, v, gate) ==
    UNION {UNION {{Result(Split(accumulate(m, J, v), w), S, {m.next_id}) :
                      J \in {I \in Joined(S, w, gate) : Room(m)}} : w \in S} :
               S \in Activations(m)}

(* adaptive_write_two: append verbatim, seed an empty memory, join, spawn  *)
(* on novelty, or join and split an overloaded winner.                     *)
adaptive_write_two(m, v, gate) ==
    IF ~Competitive \/ m.ids = {}
    THEN Appends(m, v)
    ELSE Joins(m, v, gate) \cup Spawns(m, v) \cup Splits(m, v, gate)

adaptive_write(m, v) == adaptive_write_two(m, v, FALSE)

-----------------------------------------------------------------------------
(* LMDB records inside a write transaction.                                *)

put_locations(s, S, mix) ==
    [s EXCEPT !.ids = s.ids \cup S,
              !.mix = [l \in LocId |-> IF l \in S THEN mix[l] ELSE s.mix[l]]]

delete_locations(s, S) ==
    [s EXCEPT !.ids = s.ids \ S,
              !.mix = [l \in LocId |-> IF l \in S THEN {} ELSE s.mix[l]]]

put_counters(s, m) ==
    [s EXCEPT !.next_id = m.next_id, !.doc_next_id = m.doc_next_id]

(* A location write persists next_id but not the document counter.         *)
put_next_id(s, m) == [s EXCEPT !.next_id = m.next_id]

put_document(s, d, doc) ==
    [s EXCEPT !.docs = [e \in DocId |-> IF e = d THEN doc ELSE s.docs[e]]]

append_doc_to_locations(s, S, d) ==
    [s EXCEPT !.posts = [l \in LocId |-> IF l \in S
                                         THEN s.posts[l] \cup {d}
                                         ELSE s.posts[l]]]

delete_document_only(s, d) ==
    [s EXCEPT !.docs = [e \in DocId |-> IF e = d THEN NoDocument
                                                 ELSE s.docs[e]]]

delete_document_everywhere(s, d) ==
    [s EXCEPT !.docs = [e \in DocId |-> IF e = d THEN NoDocument
                                                 ELSE s.docs[e]],
              !.posts = [l \in LocId |-> s.posts[l] \ {d}]]

(* The vector of a stored document, its location looked up in `m`.         *)
Resolvable(m, doc) == doc.kind = "ref" => doc.at \in m.ids

resolve_document(m, doc) ==
    IF doc.kind = "ref" THEN m.mix[doc.at] ELSE doc.vec

materialize_nothing(s, m) == s

(* Every document that refers to a location gets its own copy of the       *)
(* vector; a dangling reference is left as it is.                          *)
materialize_document_refs(s, m) ==
    [s EXCEPT !.docs =
        [d \in DocId |-> IF /\ s.docs[d].kind = "ref"
                            /\ Resolvable(m, s.docs[d])
                         THEN Inline(resolve_document(m, s.docs[d]))
                         ELSE s.docs[d]]]

-----------------------------------------------------------------------------
(* The lock, and the guard object that holds it through a mutation.        *)

(* write_inner / read_inner refuse a collection whose recovery failed.     *)
Usable == inner.valid

(* version += 1, within the bound.                                         *)
CanBump == inner.version < MaxVersion

Bump_twice(m) == [m EXCEPT !.version = inner.version + 2]

Bump(m) == [m EXCEPT !.version = inner.version + 1]

Rollback_keeps_memory(m, s) == inner' = m

Rollback_resets_version(m, s) ==
    \/ inner' = load(s)
    \/ inner' = [m EXCEPT !.valid = FALSE]

(* AtomicMutation::drop after an error: `m` is the memory the failed call  *)
(* had already changed.  It is replaced by what `s` holds, keeping the     *)
(* mutation counter; if the store cannot be read the collection is marked  *)
(* invalid, changed memory and all.                                        *)
Rollback(m, s) ==
    \/ inner' = [load(s) EXCEPT !.version = m.version]
    \/ inner' = [m EXCEPT !.valid = FALSE]

clientVars == <<snap, reader>>

(* What a call that acknowledges the vectors `new` does to the history.    *)
Acknowledge(new) ==
    /\ learned' = learned \cup new
    /\ written' = written + Cardinality(new)

(* A call that commits: the memory `m`, the records `s`, the vectors `new`  *)
(* acknowledged.                                                           *)
Commits(m, s, new) ==
    /\ inner' = Bump(m)
    /\ store' = s
    /\ Acknowledge(new)

(* A call whose transaction fails after it made the memory `m`, `s` being   *)
(* what the store then holds.                                              *)
Fails(m, s) ==
    /\ Rollback(Bump(m), s)
    /\ store' = s
    /\ UNCHANGED <<written, learned, acked>>

-----------------------------------------------------------------------------
(* Vector writes.                                                          *)

(* The locations a write joined and the ones it created: all of them are   *)
(* stored, and all of them list the write's document, if it has one.       *)
Touched(r) == r.modified \cup r.created

saved(s, S, m) == put_next_id(put_locations(s, S, m.mix), m)

WriteOne(gate) ==
    /\ Usable /\ CanBump /\ written + 1 <= MaxWrite
    /\ \E r \in adaptive_write_two(inner, written + 1, gate) :
         \/ /\ Commits(r.memory, saved(store, Touched(r), r.memory),
                       {written + 1})
            /\ UNCHANGED acked
         \/ Fails(r.memory, store)
    /\ UNCHANGED clientVars

Write == WriteOne(FALSE)

WriteTwo == WriteOne(TRUE)

(* Every activated location is stored in its final state, then the copy    *)
(* each new location had when it was created.                              *)
saved_batch(s, r1, r2) ==
    saved(put_locations(
            put_locations(s, r1.modified \cup r2.modified, r2.memory.mix),
            r1.created, r1.memory.mix),
          r2.created, r2.memory)

(* write_batch, of two vectors.                                            *)
WriteBatch ==
    /\ Usable /\ CanBump /\ written + 2 <= MaxWrite
    /\ \E r1 \in adaptive_write(inner, written + 1) :
       \E r2 \in adaptive_write(r1.memory, written + 2) :
         \/ /\ Commits(r2.memory, saved_batch(store, r1, r2),
                       {written + 1, written + 2})
            /\ UNCHANGED acked
         \/ Fails(r2.memory, store)
    /\ UNCHANGED clientVars

-----------------------------------------------------------------------------
(* Writes that keep a document.                                            *)

(* A plain write's vector is its new location's address.                   *)
DocumentOf(r, v) ==
    IF Competitive THEN {Inline({v})} ELSE {Ref(l) : l \in r.created}

Indexed_joined_only(r) == r.modified

Indexed(r) == Touched(r)

WithDocId_stuck(m) == m

WithDocId(m) == [m EXCEPT !.doc_next_id = m.doc_next_id + 1]

(* The document `doc` of the write `r`, under the id `d`.                  *)
filed(s, r, d, doc) ==
    append_doc_to_locations(put_document(s, d, doc), Indexed(r), d)

WriteWithMetadata ==
    /\ Usable /\ CanBump /\ written + 1 <= MaxWrite
    /\ inner.doc_next_id < MaxDoc
    /\ \E r \in adaptive_write(inner, written + 1) :
       \E doc \in DocumentOf(r, written + 1) :
         LET d == inner.doc_next_id
             m == WithDocId(r.memory)
             s == filed(put_locations(store, Touched(r), m.mix), r, d, doc)
         IN \/ /\ Commits(m, put_counters(s, m), {written + 1})
               /\ acked' = [acked EXCEPT ![d] = {written + 1}]
            \/ Fails(m, store)
    /\ UNCHANGED clientVars

(* Two documents: the second write sees what the first one did; every      *)
(* touched location is stored once, in its final state.                    *)
WriteBatchWithMetadata ==
    /\ Usable /\ CanBump /\ written + 2 <= MaxWrite
    /\ inner.doc_next_id + 1 < MaxDoc
    /\ \E r1 \in adaptive_write(inner, written + 1) :
       \E r2 \in adaptive_write(WithDocId(r1.memory), written + 2) :
       \E doc1 \in DocumentOf(r1, written + 1) :
       \E doc2 \in DocumentOf(r2, written + 2) :
         LET d == inner.doc_next_id
             m == WithDocId(r2.memory)
             s == filed(filed(put_locations(store, Touched(r1) \cup Touched(r2),
                                            m.mix), r1, d, doc1),
                        r2, d + 1, doc2)
         IN \/ /\ Commits(m, put_counters(s, m), {written + 1, written + 2})
               /\ acked' = [acked EXCEPT ![d] = {written + 1},
                                         ![d + 1] = {written + 2}]
            \/ Fails(m, store)
    /\ UNCHANGED clientVars

(* delete_document: the write lock, one transaction, nothing in memory.    *)
DeleteDocument(d) ==
    /\ Usable
    /\ store.docs[d].kind # "none"
    /\ store' = delete_document_everywhere(store, d)
    /\ acked' = [acked EXCEPT ![d] = {}]
    /\ UNCHANGED <<inner, written, learned, snap, reader>>

(* get_document reads the record first and takes the lock afterwards.      *)
GetDocument(d) ==
    /\ reader.phase # "fetched"
    /\ store.docs[d].kind # "none"
    /\ reader' = [phase |-> "fetched", doc |-> store.docs[d],
                  want |-> acked[d], got |-> {}]
    /\ UNCHANGED <<inner, store, written, learned, acked, snap>>

ResolveFetched ==
    /\ reader.phase = "fetched"
    /\ reader' = IF ~inner.valid THEN NoReader
                 ELSE IF Resolvable(inner, reader.doc)
                 THEN [reader EXCEPT !.phase = "answered",
                          !.got = resolve_document(inner, reader.doc)]
                 ELSE [reader EXCEPT !.phase = "corrupt"]
    /\ UNCHANGED <<inner, store, written, learned, acked, snap>>

-----------------------------------------------------------------------------
(* Consolidation.  A plan names the location each location ends up in:     *)
(* knn_merge may remove a survivor of an earlier pair, and its posting     *)
(* lists travel along the chain to the last survivor.                      *)

Plans(ids) ==
    {p \in [ids -> ids] : \A l \in ids : p[p[l]] = p[l]}

Removed(p) == {l \in DOMAIN p : p[l] # l}

Absorbed(p, l) == {r \in DOMAIN p : p[r] = l}

knn_merge(m, p) ==
    [m EXCEPT !.ids = m.ids \ Removed(p),
              !.mix = [l \in LocId |-> UNION {m.mix[r] : r \in Absorbed(p, l)}]]

migrate_postings(s, p) ==
    [s EXCEPT !.posts =
        [l \in LocId |->
            IF l \in Removed(p) THEN {}
            ELSE s.posts[l] \cup UNION {s.posts[r] : r \in Absorbed(p, l)}]]

(* merge: the removed locations are deleted and their posting lists        *)
(* migrate; the locations that absorbed them are not written.              *)
Merge ==
    /\ Usable /\ CanBump
    /\ \E p \in Plans(inner.ids) :
         LET m == knn_merge(inner, p)
             s == materialize_document_refs(store, inner)
         IN \/ /\ Commits(m, delete_locations(migrate_postings(s, p),
                                            Removed(p)), {})
               /\ UNCHANGED acked
            \/ Removed(p) # {} /\ Fails(m, s)
    /\ UNCHANGED clientVars

compressed_records_survivors_kept(s, m, p) ==
    delete_locations(migrate_postings(s, p), Removed(p))

(* The transaction of compress, when it removed anything.                  *)
compressed_records(s, m, p) ==
    IF Removed(p) = {} THEN s
    ELSE put_locations(
           delete_locations(migrate_postings(s, p), Removed(p)), m.ids, m.mix)

(* compress: stops at two locations, stores every location, and leaves the *)
(* mutation counter alone.                                                 *)
Compress ==
    /\ Usable
    /\ \E p \in Plans(inner.ids) :
         LET m == knn_merge(inner, p)
             s == materialize_document_refs(store, inner)
         IN /\ Removed(p) # {} => Cardinality(m.ids) >= 2
            /\ \/ /\ inner' = m
                  /\ store' = compressed_records(s, m, p)
               \/ Removed(p) # {} /\ Rollback(m, s) /\ store' = s
    /\ UNCHANGED <<written, learned, acked, snap, reader>>

(* flush, under the read lock.                                             *)
Flush ==
    /\ Usable
    /\ store' = saved(store, inner.ids, inner)
    /\ UNCHANGED <<inner, written, learned, acked, snap, reader>>

-----------------------------------------------------------------------------
(* Wholesale replacement: bulk_load, the algebra operations, a cleared     *)
(* ladder rung.                                                            *)

SnapshotVersioned ==
    /\ Usable
    /\ ~snap.taken
    /\ snap' = [taken |-> TRUE, version |-> inner.version,
                ids |-> inner.ids, mix |-> inner.mix]
    /\ UNCHANGED <<inner, store, written, learned, acked, reader>>

(* max(location ids) + 1, or 0                                             *)
IsNextId(n, S) == (\A l \in S : l < n) /\ (n = 0 \/ n - 1 \in S)

Loaded(S) == IF S = {} THEN {} ELSE {written + 1}

(* Old locations out, new ones in, posting lists and documents untouched   *)
(* except that references are materialised first.                          *)
Replace(S, n) ==
    LET mix == [l \in LocId |-> IF l \in S THEN Loaded(S) ELSE {}]
        m   == [inner EXCEPT !.ids = S, !.mix = mix, !.next_id = n]
        s   == materialize_document_refs(store, inner)
    IN \/ /\ inner' = Bump(m)
          /\ store' = saved(delete_locations(s, inner.ids), S, m)
          /\ learned' = Loaded(S)
          /\ written' = written + Cardinality(Loaded(S))
          /\ UNCHANGED acked
       \/ Fails(inner, s)

LoadSnapshot(S, n) ==
    /\ Usable /\ CanBump
    /\ IsNextId(n, S) /\ written + Cardinality(Loaded(S)) <= MaxWrite
    /\ Replace(S, n)
    /\ UNCHANGED clientVars

(* load_snapshot_checked with the version of the client's snapshot.        *)
LoadSnapshotChecked(S, n) ==
    /\ Usable /\ CanBump /\ snap.taken
    /\ IsNextId(n, S) /\ written + Cardinality(Loaded(S)) <= MaxWrite
    /\ inner.version = snap.version
    /\ Replace(S, n)
    /\ snap' = NoSnapshot
    /\ UNCHANGED reader

LoadConflict ==
    /\ Usable /\ snap.taken /\ inner.version # snap.version
    /\ snap' = NoSnapshot
    /\ UNCHANGED <<inner, store, written, learned, acked, reader>>

-----------------------------------------------------------------------------
(* The process dies, at any moment; the next one opens the collection by   *)
(* Hive::get_collection (load) or Hive::create_collection, which takes one *)
(* without locations for a new one.                                        *)

Reopen ==
    /\ inner' = load(store)
    /\ store' = store
    /\ snap' = NoSnapshot /\ reader' = NoReader
    /\ UNCHANGED <<written, learned, acked>>

ReopenByCreate ==
    /\ store.ids = {}
    /\ inner' = new_memory
    /\ store' = new_records(store)
    /\ snap' = NoSnapshot /\ reader' = NoReader
    /\ UNCHANGED <<written, learned, acked>>

-----------------------------------------------------------------------------
Writes == Write \/ WriteTwo \/ WriteWithMetadata \/ WriteBatchWithMetadata

Deletes == \E d \in DocId : DeleteDocument(d)

Fetches == ResolveFetched \/ \E d \in DocId : GetDocument(d)

Replacements ==
    \/ SnapshotVersioned
    \/ LoadConflict
    \/ \E S \in SUBSET LocId, n \in 0 .. MaxLoc :
         LoadSnapshot(S, n) \/ LoadSnapshotChecked(S, n)

Lifecycle == Flush \/ Reopen \/ ReopenByCreate

Common == Writes \/ Deletes \/ Lifecycle

Next == Common \/ Fetches \/ WriteBatch \/ Merge \/ Compress \/ Replacements

Spec == Init /\ [][Next]_vars

(* The parts of the interface over which each guarantee below is made.     *)

(* everything except the two calls that leave the store behind the memory  *)
DurableNext == Common \/ Compress \/ Replacements
DurableSpec == Init /\ [][DurableNext]_vars

(* one of those two                                                        *)
BatchSpec == Init /\ [][Common \/ WriteBatch]_vars

(* everything except wholesale replacement, which is documented to orphan  *)
(* posting lists                                                           *)
IndexNext == Common \/ Fetches \/ WriteBatch \/ Merge \/ Compress
IndexSpec == Init /\ [][IndexNext]_vars

(* everything except compress                                              *)
VersionedNext == Common \/ WriteBatch \/ Merge \/ Replacements
VersionedSpec == Init /\ [][VersionedNext]_vars

-----------------------------------------------------------------------------
Content(ids, mix) == UNION {mix[l] : l \in ids}

TypeOK ==
    /\ inner \in Memory
    /\ store \in Records
    /\ written \in 0 .. MaxWrite
    /\ learned \in SUBSET Vector
    /\ acked \in [DocId -> SUBSET Vector]
    /\ snap \in Snapshot
    /\ reader \in Reader

(* Outside a call, a usable memory is the committed one: the same          *)
(* locations, the same id counter, nothing in the store that the memory    *)
(* has forgotten and nothing in memory that was never acknowledged.  It    *)
(* is what AtomicMutation's reload is for ("a failed batch leaves no ...   *)
(* changed learned state").                                                *)
MemoryIsCommitted ==
    inner.valid =>
        /\ inner.ids = store.ids
        /\ inner.next_id = store.next_id
        /\ \A l \in inner.ids : store.mix[l] \subseteq inner.mix[l]
        /\ Content(inner.ids, inner.mix) \subseteq learned

(* Every acknowledged write is part of some stored location, so a restart  *)
(* at any moment finds it again.                                           *)
LearnedIsDurable == learned \subseteq Content(store.ids, store.mix)

(* A new location id is never the id of a live location, and a new         *)
(* document id is above every id in use by a stored document or posting.   *)
IdsAreFresh ==
    inner.valid =>
        /\ \A l \in inner.ids : l < inner.next_id
        /\ \A d \in DocId : store.docs[d].kind # "none"
                             => d < inner.doc_next_id

(* The stored documents are exactly the acknowledged ones, each resolves   *)
(* to the vector it was acknowledged with, and no posting list names any   *)
(* other document (delete_document leaves none behind).                    *)
DocumentsExact ==
    /\ \A d \in DocId : (store.docs[d].kind = "none") <=> (acked[d] = {})
    /\ \A l \in LocId : \A d \in store.posts[l] : acked[d] # {}
    /\ inner.valid => \A d \in DocId :
          acked[d] # {} => /\ Resolvable(inner, store.docs[d])
                           /\ resolve_document(inner, store.docs[d]) = acked[d]

(* Every stored document is in the posting list of some live location:     *)
(* query_documents can reach it ("stored, counted by stats, unreachable"   *)
(* is what the comment in write_with_metadata rules out).                  *)
DocumentsReachable ==
    inner.valid => \A d \in DocId :
        acked[d] # {} => \E l \in inner.ids : d \in store.posts[l]

(* An unchanged mutation counter means unchanged locations: what           *)
(* load_snapshot_checked relies on to refuse a stale replace.              *)
VersionWitnessesState ==
    (inner.valid /\ snap.taken /\ snap.version = inner.version) =>
        /\ snap.ids = inner.ids
        /\ snap.mix = inner.mix

(* A by-id read that succeeds answers with the vector acknowledged under   *)
(* that id when its record was read, whatever comes between the two halves *)
(* of get_document ("each successful read observes coherent collection     *)
(* state").  It holds where every document is inline, trivially; the       *)
(* documents of a plain collection break it.                               *)
FetchIsCoherent == reader.phase = "answered" => reader.got = reader.want

(* A document id, once acknowledged, keeps its vector until it is deleted. *)
NoOverwrite == \A d \in DocId : acked[d] # {} => acked'[d] \in {acked[d], {}}

DocumentIdsAreStable == [][NoOverwrite]_vars

=============================================================================
