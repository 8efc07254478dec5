# HeatherDB in TLA+

A verification development of HeatherDB: TLA+ modules translated from the Rust
source, TLC configurations that check them on small instances, and theorems
about them proved with TLAPS. Line numbers are those of the modelled commit;
`PROJECT.json` maps every definition to the lines it stands for.

## The system

HeatherDB is a multi-database associative vector store. A **server** process
owns a data directory; each **database** (`db/<name>/`) is an LMDB environment
served by a **Hive**; a Hive has named **collections**; a collection is an
in-memory associative memory (*hard locations*: an address, an accumulated
counter, an id) backed by LMDB records, plus documents and posting lists that
tie documents to locations.

| Component | State | Operations | Interacts with | What makes it correct |
|---|---|---|---|---|
| Collection (`collection.rs`, `write.rs`, `merge.rs`) | memory (locations, id counters, mutation counter, validity) behind one RwLock; LMDB records | write, write_two, write_batch, write_with_metadata, write_batch_with_metadata, get/delete_document, query_documents, merge, compress, flush, snapshot, load_snapshot(_checked), reads | Store (one transaction per mutation), Hive (opened by it), dream loop and algebra routes (snapshot, compute, load) | memory = committed state outside a call; acknowledged writes and documents durable, resolvable, reachable; ids never reused; the mutation counter witnesses change |
| Store (`store.rs`, `codec.rs`) | six LMDB tables of one environment | put/delete of locations, documents, postings, counters; registry; audit | everything in a database | a transaction is all or nothing; deletion leaves nothing behind |
| Hive (`hive.rs`) | registry (LMDB), object cache (RwLock) | create, get, get_or_create, drop | requests keep the `Arc<Collection>` they get | one object per registered collection; cache follows registry; ids never reused |
| Databases (`server.rs`, `db_config.rs`) | map of mounted Hives, refused names, directories and `db.toml`, `_trash/` | open (mount, refuse, upgrade, default), create, drop, purge | requests keep the `Arc<Hive>` | what is mounted is what is saved; newer formats untouched; a drop is the only way to lose data, of a directory that keeps its name |
| Audit log (`audit.rs` in both crates) | buffer and sequence in memory, rows in LMDB | record, flush, prune, query | every handler; flush task; shutdown | no record lost or stored twice short of a kill or a failed transaction; keys never reused; rows leave by retention |
| Sessions, users, authentication (`tokens.rs`, `users.rs`, `auth.rs`) | token and user tables in memory and LMDB | mint, verify, revoke, gc, set_password, delete | middleware of each request | revocation and deletion final, across a restart too |
| Dreaming (`dream.rs`) | none of its own | replay + merge in place; ladder: clear a level and refill it | Collection, Hive, from a background task | nothing acknowledged is lost; a level holds each law of its source once |
| Algebra (`heather_algebra`) | none | bind, compose, permute, routing over snapshots | routes: snapshot, compute, load with version check | a stale result is refused; sums, bindings and merges are what they should be |
| Reads (`read.rs`, `nearest.rs`, `scan.rs`, `vec_ops.rs`) | none | reconstruction, k-nearest | under the collection's read lock | the exact k nearest after rescoring |
| Backup, restore, verify (`backup.rs`, `verify.rs`) | archives, snapshot directories | backup create, restore, snapshot create/delete, verify | engine lock, the files of an engine that may run | a snapshot holds one transaction, whole; a restore puts back what was saved and nothing else |
| HTTP routes (`routes.rs`, `routes_db.rs`, `limits.rs`) | none; the time limit | look up, refuse, run the engine's calls in a blocking task, answer | Hive, Collection, algebra; the task outlives the handler | a call takes effect once or not at all, and the client is told which |
| CLI, main, configuration | process set-up | start-up, shutdown | all of the above | see the components they call |

Hard behaviours: mutations that change memory before they commit, and must be
undone when the commit fails; calls that read state under one lock (or none)
and use it under another; records that refer to locations that consolidation
removes; restarts between any two calls; directories renamed under open
environments; version-checked replacement. `PROJECT.json` lists them under
`hazards`, each at its line.

## Modules

| Module | Models |
|---|---|
| `Collection.tla` | one collection: memory, records, all mutating calls, by-id reads, snapshots, failures, restarts |
| `CollectionProofs.tla` | theorems about `Collection` and their proofs |
| `Hive.tla` | collection registry, object cache, concurrent lookups and drops, restarts |
| `HiveProofs.tla` | theorems about `Hive` and their proofs |
| `Databases.tla` | the server's databases: boot, create, drop, purge, requests, crashes |
| `MCDatabases.tla` | `Databases` with the symmetry TLC uses |
| `DatabasesProofs.tla` | theorems about `Databases` and their proofs |
| `AuditLog.tla` | the access log of a database: recording, all kinds of flush, pruning, restart, shutdown, kill |
| `AuditLogProofs.tla` | theorems about `AuditLog` and their proofs |
| `Sessions.tla` | users, session tokens in memory and LMDB, the middleware, the sweep, user commands of other processes, restart |
| `SessionsProofs.tla` | theorems about `Sessions` and their proofs |
| `Dreaming.tla` | the dream loop and the dream triggered by hand, replay and ladder, over several collections |
| `DreamingProofs.tla` | theorems about `Dreaming` and their proofs |
| `AtomicCalls.tla` | abstract specification: calls that take effect at one moment or not at all |
| `Requests.tla` | the HTTP handlers as handler, task and time limit; implements `AtomicCalls` |
| `RequestsProofs.tla` | theorems about `Requests`, the refinement among them, and their proofs |
| `Permutations.tla`, `Search.tla`, `Snapshots.tla` | pure algorithms: coordinate permutations; the searches; the algebra and its consolidation |
| `Ranking.tla` | sorting by a key with ties broken by index, used by the above |
| `Algorithms.tla` | applies them to all small inputs |
| `Backup.tla` | backup, restore and snapshot commands beside an engine |
| `AlgorithmsAndBackupProofs.tla` | theorems about `Algorithms` and, apart from them, about `Backup`, and their proofs |

### Collection

A mutation of the code takes the write lock through `write_inner`, builds an
`AtomicMutation` guard, changes the memory, commits one LMDB transaction,
marks the guard committed and releases the lock; a failure anywhere makes the
guard's `drop` reload the collection from the store. So a call is one action
with two outcomes, `Commits` and `Fails`; `Fails` runs `Rollback`, itself with
two outcomes (reloaded, or marked invalid with the changed memory still
there). Two calls of the code are not atomic and are split: `get_document`
reads the record first (`GetDocument`) and resolves it under the read lock
later (`ResolveFetched`); a client that replaces a collection's content takes
a versioned snapshot (`SnapshotVersioned`) and loads its result later
(`LoadSnapshotChecked`, or `LoadConflict`).

* `inner` is `EAMInner` (`valid`: not poisoned by a failed recovery); `store`
  is what LMDB holds for the collection: locations, `next_id`,
  `doc_next_id`, documents, posting lists.
* A vector is a write number; a location's content is the set of writes
  accumulated in it. Which locations a write activates, whether it joins,
  spawns or splits, and which locations a merge pairs up depend on float
  arithmetic in the code and are nondeterministic here: all the outcomes the
  control flow of `adaptive_write_two` and `knn_merge` has are allowed.
  A split copies the whole content to the new location: half of the counter
  keeps a part of every write in it.
* `Merge` and `Compress` name a *plan*, the last survivor of each location.
  Merge deletes the removed locations and migrates posting lists and does not
  store the survivors, as the code does; Compress stores everything.
* `materialize_document_refs`, which commits by itself before the main
  transaction of merge, compress and load_snapshot, survives the failure of
  that transaction: `Fails(m, s)` takes the store `s` it leaves.
* `learned` and `acked` are history: which writes, and under which document
  ids, were acknowledged.

Left out: reads that change nothing (reconstruction, similarity queries,
statistics), `set_config`, the poisoning of the RwLock by a panic, records of
a damaged encoding, and batches longer than two.

### Hive

One action per critical section: the lookup under the read lock, the registry
read of `get_collection` (no lock), the load under the write lock after a
second look, the registry transaction of `create_collection` (which holds the
write lock until the object is cached: `lock`), the three steps of
`drop_collection` (id, transaction, cache), and a write through a held object,
which takes its location id from that object's own counter and stores it under
that object's collection id. `opened` covers both `Collection::load` and
`Collection::new`: for a data-seeded collection they agree on locations (the
document counter, on which they do not, is in `Collection.tla`,
`ReopenByCreate`). `MaxObject` is enough for an object per client and cached
name, so an unused one is always found. `raced` is history: the names a drop of
which overlapped another drop, a creation or a load of the same name. The code
orders none of the drop's steps with those, and three of the four properties are
about the other names (`Undisturbed`); `CollectionsAreDisjoint` holds of all. Three
more properties of the module say of every name what the code and its comments say,
and are false: see the divergences.

### Databases

A directory has an identity which a rename keeps; `place` is what is at `db/<name>/`,
and a directory's `db.toml` has a name of its own in it. Boot visits the entries one
by one (`BootEntry`): under the name of the directory it mounts what `open_hive_for`
opens, the directory of the name inside `db.toml`, made if there is none. The two
differ after a restore under `--db` with another name, which `Init` includes; `astray`
is history: the names whose directory was found with another's `db.toml`. Whether LMDB
opens one directory twice is a choice. Boot creates the default database with the same
steps as any creation (actor `Boot`), and is ready when it is mounted.
`create_database` is five steps (look at the map; make the directory; save `db.toml`;
open the environment, which makes the directory again if it has gone; look at the map
again and insert), `drop_database_with` two or three (take out of the map; rename
whatever is at the path; purge). `Stop` may happen between any two of them. Initially
each name may have no directory, one without `db.toml`, or one of an older, the
current or a newer format, with this name or another in it. Assumed: one process per
data directory (`engine.lock`); LMDB opens what is at the path it is given. The
binding keeps environments open by path within a process, which could return an older
one while a request still holds it; that is outside this repository and not modelled.
A Hive that stays open on a renamed directory writes there.

### AuditLog

`record` is three steps (`Number`: the sequence counter; `Stamp`: the clock;
`Push`: under the buffer's mutex), since the first two are outside the mutex.
`flush` is two (`Take`, then `Commit` or `CommitFails`; `TakeNothing` when
nothing is staged). A flusher is the periodic loop, a task spawned at the
threshold, an audit query or `main` at shutdown, and any of them may be
between its two steps; LMDB admits one write transaction at a time, so
`Commit` is atomic. A row's key is `<<ts, seq>>`; `prune_audit` deletes from
the oldest key on, so it keeps a suffix, written here as a set comprehension
over the number of newer rows. The clock is assumed not to go back (the code
reads `SystemTime`): if it did, a restart could reuse a key. `excused` is
history: records that went by pruning or with a killed process, the losses the
comment at audit.rs:59-64 accepts. So is `lost`: the batches of failed transactions,
which `flush` has taken out of the buffer and does not put back. No comment accepts
those (see the divergences), and `Accounted` is about the others. The log
starts empty and enabled; a query's filters and limits are left out.

### Sessions

Users are in LMDB, read anew by every request; the CLI changes them in
processes of its own. A token is in LMDB and in a cache. `mint` writes LMDB
first and the cache after (the cache also if the write fails), `revoke` and the
sweep change the cache first; each half is an action, and so is each step of
the middleware: verify the token or the password, compare the user in the token
with the one of that name now, check the scope against the path, run the
handler. A password hash is a fresh number (a fresh salt); an expired token is
swept by the request that meets it and by a timer. Restart reads LMDB, drops
expired tokens and creates the first administrator if there is no user. The
paths are those the router and `is_authorized` tell apart; whether a database
shows its access log to its own users is a constant (`OpenLog`). A request that
has passed the middleware runs on whatever happens to its token; that is the
code's design, and the properties are about what passes later.

### Dreaming

A location is the set of items accumulated in it, a collection the sequence of its
locations in memory (`mem`) and of their records (`disk`). A write changes both: it
joins a location, spawns one or splits one. A merge deletes the records it absorbs and
leaves the survivors' as they were; the flush that ends the dream stores them. A
failed call, of a dream or of a client, rereads memory from the store, and so does a
restart: what was merged and not flushed is gone. Two history variables tell where:
`exposed`, the collections merged and not flushed since, and `hurt`, those reread
meanwhile. The loop is one action per step between two calls of the engine
(`LoopWakes`, `LoopLists`, `LoopSkips` or `LoopDreams`, `LoopSettles` or `LoopWarns`);
a dream is one per engine call: replay reads a snapshot, writes each operand back,
merges and flushes; a ladder clears a level and writes the laws of the level below
into it one by one. `DreamFails` may come at any of them, `Restart` forgets
`last_dreamed`. Which location a write joins, and which ones a merge unites, are
choices. `fed`, `dreamt` and `crossed` are history: what a level was given, what the
last ladder read, and bases whose level two ladders fill at once.

### Requests and AtomicCalls

A handler is a record of what it adds to the common shape: sources it looks up,
when it refuses, whether it creates its target, whether the load is checked,
what it makes of the target, how it answers a storage error. A request is a
handler (`Receive`, `Admit`, `Lookup`, `Create`, `Answer`, `TimesOut`) and a
task, which reads the target's version, then each source, works, and loads.
`TimesOut` answers 408 and leaves the task. `AtomicCalls` has no versions,
tasks or locks: a pending call takes effect at one moment, or is refused; a
source has been read at some moment since the call arrived, a source that is
the target at the moment of the effect. `Requests` is shown to implement it
(`CallsAreAtomic`, refinement mapping at the end of the module); `past` is a
history variable for that purpose.

`compress` changes a collection's locations and not its version counter, unlike every
other mutation (`Mutates`), so a checked replacement does not notice one: `squeezed`
records that it happened. A replacement of what was compressed since it was read undoes
the compress, which no atomic call does; `SparedSpec` is `Spec` without a
compress between what a call read and its checked replacement of the same collection.
What the check notices is writes and replacements.

### Permutations, Search, Snapshots, Algorithms

The operators are the code's functions over integers: vectors with small entries,
cosines compared as exact fractions, similarities given as numbers (in units of the
single-precision error bound, so that a score is any number within one unit),
convolution by its definition. A k-d tree is what `build` leaves of it: an order of
the points, in which a node is a range cut in the middle (`nodes`), with every order
some choice of medians can leave. Where `sort_unstable` or a heap leaves the order of
equals open the operator returns the set of results. The search along the neighbour
graph (`graph_activate`) is a library function with a benchmark: no read or write of
the engine calls it, and what is checked and proved of it says nothing about them.
Loops and recursive calls of the code are folds or recursive functions over what gets
smaller (the range of a node, the number of steps), so that they can be reasoned
about. `CallSpec` is one call: an action (`OneCall`) applies one function to one input
of a complete small set, and the properties compare the result with a reference
definition.

### Backup

A file is known by the number of the change that wrote it; a database is its
`db.toml` and its LMDB file in two halves, so that a copy can be torn.
`do_backup`, `do_restore` and `do_snapshot` are a beginning, one action per file
and an end; a snapshot opens whatever LMDB file the directory has, mounted or not
(an empty one is made if there is none), copies it in one transaction, and copies
`db.toml` last. `snapshot.dropped` is history: the database was dropped meanwhile.
`Abort` (an error or a kill) may come between any two. An error
between two files of a backup still leaves an archive with a proper end,
because dropping the tar and gzip writers finishes them; a kill does not. The
engine starts, stops, commits, creates and drops at any moment, except that
`ColdSpec` starts none while a cold command runs: see the divergences.

### Slips

A definition named `X_...` just before a definition `X` is a slip `X` must not
make: a dropped guard, a missing reset, a wrong order. Nothing uses them; they
record against which mistakes each property has been tried (`mutants` in
`PROJECT.json`).

## What the runs check

Numbers are distinct states. Deadlock is checked except in `requests`,
`algorithms` and `backup`, whose behaviours end when the bound on requests, one
call, or the bound on commands is used up.

| Run | Shows | Bounds |
|---|---|---|
| `collection_index` (103k) | Competitive collection, every call but wholesale replacement: memory is the committed state (`MemoryIsCommitted`), ids are fresh, documents are exactly the acknowledged ones and resolve (`DocumentsExact`), each is posted on a live location (`DocumentsReachable`), an id keeps its vector (`DocumentIdsAreStable`) | 3 locations, 3 writes, 2 documents, 3 mutations per process life |
| `collection_plain` (20k) | Plain collection, every call but compress: documents by reference survive merge and load (`DocumentsExact`); an unchanged mutation counter means unchanged locations (`VersionWitnessesState`); type invariant | 2 locations, 3 writes, 2 documents, 3 mutations |
| `collection_durable` (551k) | Every call but merge and write_batch: `LearnedIsDurable` | 3 locations of which 1 seeded, 3 writes, 2 mutations between restarts |
| `hive` (3.6M) | Everything interleaves: `CollectionsAreDisjoint`; and of names no drop raced for `CacheIsRegistered`, `OneObject`, `AcknowledgedIsStored` | 2 names, 2 clients, 3 ids, 2 writes |
| `databases_serial` (1.7M) | One create or drop of a name at a time, everything else interleaved, with failures and crashes, and directories restored under other names: `MountedAsSaved` and `ServedIsInPlace` of the names not astray, `ReadableIsMounted` | 2 names, 2 configurations, 2 clients, 4 directories, 2 writes |
| `audit_log` (176k) | Any number of flushes at once, failed transactions, shutdown, kill, restart: `Accounted` (but for the batches of failed transactions), `RecordedOnce`, `RowsLeaveByRetention` (no key is used twice, rows leave oldest first), and `StagedIsStored` (liveness) | 2 requests at a time, 2 threshold flushes at a time, 3 records, buffer and log of 2, clock to 2 |
| `sessions` (971k) | Requests, revocations, sweeps, restarts and user commands interleave: a token works until it is revoked, expires or its user changes (`TokensAreKept`), and not after (`RevokedIsRevoked`, `OldCredentialsAreRefused`), nobody reaches past a scope (`ScopeIsKept`), expired tokens go (`ExpiredIsSwept`, liveness) | 1 name (deleted and created again), 2 databases, 1 token, 2 requests, 2 passwords, clock to one token life |
| `dreaming` (541k) | Loop and trigger against writes, a failure or a restart: `FlushedIsKept`, `RungIsExact`, `QuiescentIsLeftAlone`, `ChangeIsDreamed` (liveness) | 1 base with 2 levels, 2 items, 2 locations, 2 replay passes, 1 failure or restart, 1 ladder by hand |
| `requests` (697k) | All 25 handlers, two at a time, under `SparedSpec`: `CallsAreAtomic` (refinement), and a checked replacement is refused exactly when a write or a replacement came in between (`ConflictsAreExact`) | 2 collections, 2 clients, 2 requests, 1 failed transaction |
| `algorithms` (47k) | All small inputs: `PowersCompose`, `SearchIsExact`, `NeighboursAreExact`, `ResultsFit`, `AlgebraLaws` | 4 coordinates (permutations), 4 locations (search), 4 points in 3 dimensions of which 2 are projected, operands of up to 2 locations |
| `backup` (1.1M) | Commands that fail or die anywhere, beside an engine: a snapshot that a restore accepts has the whole LMDB file of one transaction, and the `db.toml` of that moment unless the database was dropped meanwhile (`SnapshotIsWhole`); `RestoresWhatWasSaved` | 1 database and the system files, 2 changes, 3 commands |
| `batch_durability` | Ends in a counterexample, see below: `LearnedIsDurable` of `write_batch` | 3 locations, 3 writes, 1 document |

Why the bounds suffice: three locations let one consolidation chain (a
survivor removed later in the same pass), a split and a spawn occur; two
documents let one be posted where the other is deleted; three writes and
mutations let a failed call sit between two good ones, with a restart before
or after. Three collection ids let a name be dropped and created twice. Four
directories let a name be dropped and created again twice. Three records with
a buffer and a log of two overflow both, and leave one record to be staged
after a restart. One token and two requests let a request with the token meet
its revocation, its sweep and a password change at any step. Two items and a
failure let a half-filled level be cleared and filled again, and a merge be undone
before its flush. Two requests on
two collections include every pair of handlers, each as the other's source or
target. Permutations of four coordinates include cycles longer than
involutions, so that a map and its inverse differ. Three commands are a backup
that fails, one that does not and a restore.

`DocumentsReachable` excludes wholesale replacement because `load_snapshot` is
documented to leave posting lists of replaced locations behind. The property
comments say which part of the interface each guarantee is made over; the parts
are the specifications `IndexSpec`, `DurableSpec`, `VersionedSpec`,
`SerialSpec`, `SparedSpec`, `ColdSpec`. The type invariants of `Hive`, `Databases`,
`AuditLog`, `Sessions`, `Dreaming`, `Requests` and `Backup` are proved
(`...TypeCorrect`); the runs above do not repeat them.

### Divergences found

`batch_durability` is a run that ends in a counterexample: `write_batch` stores
final states and then the creation-time copy of each location created in the
batch, so a location created and joined in one batch is stored without the
later write, and a restart loses it. The finding in `PROJECT.json` quotes the
sentence it contradicts.

What else the models, or the reading for them, show. A property named in bold is a
definition of its module that the code violates; put in place of the properties of the
configuration named with it, it gives TLC the counterexample.

* Collection. `get_document` (collection.rs:1938) reads the document before it takes
  the lock. In a plain collection a merge between the two removes the location the
  document refers to, or changes its address, after giving the document a copy of
  its own: the read answers with an error or another vector, against API-03
  (v1-release-contract.md:55), "each successful read observes coherent collection
  state". **`FetchIsCoherent`** (`collection_index` with `Competitive = FALSE`,
  `MaxLoc = 2`, `MaxDoc = 1`, `MaxVersion = 4`); it holds of a competitive
  collection trivially, since no document of one refers to a location.
* `merge` (collection.rs:1437) deletes the absorbed locations and does not
  store the survivors: `LearnedIsDurable` fails under `Spec` until the next flush.
  In a dream that flush is dream.rs:142, and a restart before it, or a failed call,
  which rereads memory from the store (collection.rs:418), loses what the absorbed
  locations alone held. dream.rs:560 says "replay + merge must not lose the
  attractors": **`AttractorsAreKept`** (`dreaming`).
* `compress` (collection.rs:1513) leaves the mutation counter alone: a checked
  replacement computed before it passes the check of `load_snapshot_checked` and
  undoes it, where collection.rs:2536 says it is refused "if the collection was
  mutated since that version was observed". **`ReplacesWhatItRead`** (`requests` with
  `SPECIFICATION Spec`); `CallsAreAtomic` and `VersionWitnessesState` fail under their
  modules' `Spec` for the same reason.
* `create_collection` of a registered, uncached collection without
  locations restarts its document ids (hive.rs:125), and the next document
  overwrites a stored one: `IdsAreFresh` fails under `Collection!Spec`, which
  has `ReopenByCreate`.
* Hive, for names a drop raced for, all with `hive`. A drop racing a
  re-creation uncaches the new object (hive.rs:224), and two objects of one
  collection give out the same location ids, although DUR-01 of the release contract
  promises acknowledged writes: **`AcknowledgedSurvivesDrops`**. `get_collection`
  reads the id under no lock (hive.rs:163), and a drop that ends before the
  load leaves the dropped collection cached and answered with, where hive.rs:148 says
  "returns None if it doesn't exist": **`CachedExists`**. A request that took its
  object before a drop writes through it afterwards, and records are on disk again
  under an id no name leads to, where hive.rs:206 says "removing all its data from
  disk and memory": **`DroppedIsGone`**. Of two drops around a creation the second
  deletes the new registry entry by name and the old records by id.
* Databases. `db.toml` keeps its name when a snapshot or archive is restored under
  another with `--db` (docs/how-to/backup-and-restore.md:91), and a start opens
  the directory of that name (server.rs:476), made if there is none: what is served
  under the new name is not what was restored, or one directory is served under
  two names. db_config.rs:29 says "matches the directory name".
  **`EveryMountedAsSaved`** (`databases_serial`). Under `Databases!Spec`
  `MountedAsSaved` fails of the other names too: the loser of two concurrent creations
  has already replaced the winner's `db.toml`; and a drop moves the directory a
  concurrent creation has just mounted. `create_database` of a name refused for its
  newer format overwrites `db.toml` and mounts it (server.rs:332), where
  v1-release-contract.md:16 wants it untouched.
* Audit log. `flush` takes the batch out of the buffer and does not put it back when
  its transaction fails (heather_db/src/audit.rs:331), nor count it as dropped, where
  audit.rs:63 says "the loss window only opens on a hard kill":
  **`LosesOnlyToKills`** (`audit_log`).
  The periodic loop passes over a database with nothing staged, so
  an idle one never ages out its rows, although an empty flush prunes for that
  purpose (heather_db/src/audit.rs:325).
* Sessions. A revocation whose LMDB delete fails still answers `revoked: true`,
  and the token lives again after a restart; a token whose write failed at the
  mint works until one.
* Dreaming. A write that changes no count is never dreamed
  (docs/explanation/dreaming.md:50 says an unchanged collection is skipped
  "until something writes to it again"; dream.rs:440 compares counts, and
  records the one after the dream, so a write during it is missed too). Whether the
  server is idle is asked once per tick, not before each collection. Two ladders of one
  base at once, by the loop and by hand, both clear a level and then both fill it:
  **`LevelIsOneReading`** (`dreaming`), from dream.rs:239, "`dst` is cleared first". A
  climb that stops lower than the last one leaves the higher levels as they
  were. A user's own collection named `<base>__L1` is cleared. A `bulk_load`
  during a replay gets the old operands written into it. The trigger runs on the
  async worker without the blocking pool, so the documented 408 cannot come.
* Requests. A storage error of bulk_load, the algebra, read and attention is
  answered 400 where docs/api/writes.md:92 and algebra.md:51 say 500. A refused
  call, or a read, may leave an empty target behind, since the target is created
  before the last refusals. A retry after a 408 may do the work twice. Audited
  reads that time out are not recorded. The cap on algebra results reads the
  sizes before the snapshots are taken (routes.rs:194), and is 0 for an empty
  operand although the result is then the other operand.
* Backup. Cold commands only probe the engine lock (backup.rs:470) and let go
  of it: an engine may start while they copy, although the guide
  (docs/how-to/backup-and-restore.md) says the lock prevents two processes at
  the same data. `backup create` truncates its output before it knows that the
  database exists (backup.rs:160), so a failed backup destroys the archive that
  was there; and what it leaves after an error between two files has a proper
  end, so a restore of it succeeds with fewer files. A snapshot restore that
  fails leaves its target directory, which refuses the retry and which the next
  start mounts. A snapshot during a drop and re-creation pairs the old data with
  the new `db.toml` (backup.rs:373), where backup.rs:14 says "consistent copy of one
  database": **`SnapshotIsOneState`** (`backup`).

### Fairness and liveness

Calls on a collection, a Hive and the databases are bounded sequences of
critical sections, so there is nothing they wait for but locks, and their
specifications state no fairness; the runs check them for deadlock.

`AuditLog!Spec` assumes weak fairness of the periodic loop (`run_flush_loop`
is an interval timer in a task that never ends) and of each flush that has
begun (it runs on a blocking thread and waits only for LMDB's writer lock).
Requests, restarts, shutdowns and the clock have none. `StagedIsStored` holds
under it; a mutant in which the loop waits for the threshold breaks it.

`Sessions!Spec` assumes weak fairness of the sweep, a timer task of the server
that never ends; `ExpiredIsSwept` is about a server that stays up.
`Dreaming!Spec` assumes weak fairness of the loop, of a triggered dream that has
begun (both run without waiting for anybody but LMDB) and of the clock
(`Idles`): requests go on for as long as the bound on writes allows, and then
time passes. Failures and restarts are bounded too. The other specifications
state no fairness.

## What is proved

Every invariant the passing runs check, the action properties and the refinement
are theorems; liveness is not. Each holds for every value of the constants that
the module's assumption allows: any number of names, clients, tokens, locations,
any bounds. A theorem is about the specification its run
uses, or one that allows more. Its inductive invariant is a conjunction of named
parts, stated at the head of the proof; TLC found each to be invariant on the
run's instance before it was proved. The parts besides the property itself say
what a call in progress may still rely on, which is what the code relies on when
it goes on after an unlock, an await or another process's step.

### Collection

For both write modes, any `K`, any bounds (`ConstantsAssumption`). The effect of
every action is first reduced to one of a few shapes (nothing committed; a
partly durable write; a consolidation; what it does to documents, to postings,
to the counters), lemmas `...Effect`, and an invariant is shown for the shapes,
lemmas `...Keeps`.

* `TypeCorrect`: `TypeOK` under `Spec`. One lemma per operator and per action.
* `CommittedCorrect`: `MemoryIsCommitted` under `Spec`. `CommittedInv` adds
  `StoreIsLearned` (nothing in the store was never acknowledged), needed because
  `Rollback` and a restart make the memory from the store, and
  `MemoryIsCommitted` says nothing of the store while the memory is invalid.
* `DurableCorrect`: `LearnedIsDurable` under `DurableSpec`. `DurableInv` adds
  `StoreIsCurrent` (outside a call the store holds exactly the memory's locations
  with their content) and `StoreIsFresh` (stored ids are below the stored
  counter, so that a new location never takes the record of an old one).
  `merge` and `write_batch` break `StoreIsCurrent`: they are outside
  `DurableSpec`.
* `DocumentsCorrect`: `DocumentsExact` under `Spec`. `DocumentsInv` says what a
  stored document is worth: inline, it carries its vector; by reference, it is
  in a plain collection and names a stored location that holds exactly that
  vector, in the usable memory too. That holds because a plain write leaves every
  stored location as it was (`Steady`), and merge, compress and load turn
  references into copies before they move locations (`Materialises`), copies
  which stay if the transaction after that fails.
* `FreshIdsCorrect`, `ReachableCorrect`, `StableCorrect`: `IdsAreFresh`,
  `DocumentsReachable`, `DocumentIdsAreStable` under `IndexSpec`. `IndexInv` adds
  that stored documents have ids below the stored counter, that the counter in
  memory is the stored one, that acknowledged documents are posted on stored
  locations, and `EmptyIsNew`: a collection without locations has given out no
  document id. The last is what `create_collection` of a registered, uncached
  collection silently relies on; consolidation and deletions keep it, a load of
  an empty snapshot breaks it (see the divergences).
* `VersionCorrect`: `VersionWitnessesState` under `VersionedSpec`. `VersionInv`
  adds that a snapshot is never ahead of the counter; the proof shows that every
  call that changes a location moves the counter (`Bumped`), failed ones
  included, since a reload after a failure keeps the counter where the failed
  call had moved it.

### Hive

For any names, clients and bounds (`HiveAssumption`), every interleaving.

* `HiveTypeCorrect`, with `CallsAreFormed`: a call that has passed a step has the
  name, id or object the next one uses.
* `DisjointCorrect`: `CollectionsAreDisjoint`, with no exception for names a drop
  raced for. The property speaks of registered names only and is not inductive: a
  request may hold an id, or an `Arc`, of a collection that was dropped
  meanwhile, cache it again and write to it. So the invariant is about
  everything that ties a name to an id (`Claims`: registry, calls in progress,
  cached objects, what records hold). `ClaimsUnique` says an id is claimed under
  one name only, `ClaimsIssued` that a claimed id is below the id counter,
  `ContentLearned` that stored vectors were acknowledged. Only `Register` adds a
  claim, to the id the counter had not issued.
* `CacheCorrect`, `OneObjectCorrect`, `AcknowledgedCorrect`: `CacheIsRegistered`,
  `OneObject`, `AcknowledgedIsStored`. `HiveInv` says of each undisturbed name that an
  id read without a lock is still the registered one (`IdsCurrent`), that the cached
  object is the registered one's except while a drop is between its transaction and
  the cache (`CacheCurrent`), that any live object of the registered collection is the
  cached one and agrees with the store (`ObjectsCached`), that stored locations are
  below the stored counter and that acknowledged writes are among them. `IdsAreUnused`
  says nothing is stored under an id not given yet.

### Sessions

For any users, databases, tokens, requests and bounds (`SessionsAssumption`).

* `SessionsTypeCorrect`.
* `TokensKeptCorrect`, `RevokedCorrect`: `TokensAreKept`, `RevokedIsRevoked`.
  Two copies of a token are changed in different orders by mint, revoke and
  sweep; `TokensInv` says for each half-finished call where its token still is:
  a token being minted is nobody else's, an issued one is as issued wherever it
  is, one whose revocation has reached LMDB is nowhere, the sweep has picked
  only tokens that ran out, and LMDB is in the cache once that is loaded.
* `ScopeCorrect`, `OldCredentialsCorrect`: `ScopeIsKept`,
  `OldCredentialsAreRefused`. `CredentialsInv`: password hashes are never used
  twice (`HashesAreFresh`), so a name deleted and created again has another, and
  what was admitted was authorized under the scope its user had.

### AuditLog

For any requests, tasks, buffer, log and bounds (`AuditAssumption`; `main` is
none of the other flushers).

* `AuditTypeCorrect`.
* `AccountedCorrect`, `RecordedOnceCorrect`, `RetentionCorrect`: `Accounted`,
  `RecordedOnce`, `RowsLeaveByRetention`, all from `AuditInv`. `Accounted` covers every
  record but the batches of failed transactions (`lost`). A record is in one
  place only, however many flushes are between taking and committing
  (`PlacesApart`); a sequence number is given once per process
  (`NumbersInUse`); and no key of a row is given again (`KeysFree`): a row from
  an earlier run whose number is still to come is older than the clock. An
  open takes its first number from the last row in the order of keys, and a row
  with a greater number than that one has an earlier time. This is where the
  assumption that the clock does not go back is used.

### Requests

For any collections, clients and bounds, with at least one collection
(`RequestsAssumption`).

* `RequestsTypeCorrect`; `ConflictsCorrect`: `ConflictsAreExact`.
  It speaks of writes and replacements, which move the version; a compress does not
  and is unnoticed.
* `AtomicCorrect == SparedSpec => CallsAreAtomic`: every step of a handler, task or
  time limit is, under the refinement mapping, a step of `AtomicCalls` or a
  stutter. `RequestsInv` has what the mapping needs: a source of a pending call
  has had every content a snapshot of it shows since the call arrived
  (`PastsAreKept`), and a checked call's version is the target's exactly as long
  as nobody else has changed the target (`VersionsTell`), so that the source
  that is the target is read at the moment of the effect.

### Databases

For any finite set of names no larger than the number of directories, any
configurations, clients and bounds (`DatabasesAssumption`).

* `DatabasesTypeCorrect`: under `Spec`, every interleaving.
* `MountedCorrect`, `ServedCorrect`, `ReadableCorrect`: `MountedAsSaved`,
  `ServedIsInPlace`, `ReadableIsMounted` under `SerialSpec`. `SerialInv` says what
  each of the five steps of a creation and the three of a drop relies on since
  the one before (`InProgress`), that no two names have one directory and that
  one being purged is at no name (`DirsAreApart`), and that a readable directory
  is mounted, still to be visited, failed, or somebody's work (`Visited`).
  `Kept` says so of the names that are not astray: the readable directory at such a
  name has that name in its `db.toml`, and what is mounted under it is that directory
  as it was saved. It holds beside names that are astray: a boot that opens the
  directory of another name finds it, or makes one that has no `db.toml` and so is
  not readable (`FreshAreBlank`), and mounts it under the name astray only.
  `OneAtATime` is what `SerialSpec` adds; without it `MountedAsSaved` is false
  (see the divergences).

### Backup

For any databases (`BackupAssumption`).

* `BackupTypeCorrect`, and `SnapshotCorrect`: `SnapshotIsWhole`, under `Spec`:
  however the engine commits, stops, drops and creates while a snapshot is made.
  `SnapshotsAreWhole` says which halves are copied at each step, that they are
  those of the transaction the copy began in, and that `db.toml`, without which
  no restore accepts the snapshot, comes last. `ConfigStays` says `db.toml` is the one
  of that moment until the database is dropped: no database is created over one that
  is there.
* `RestoreCorrect`: `RestoresWhatWasSaved` under `ColdSpec`. `ColdInv` gives the
  disk half way through a restore, file by file, and says an archive holds the
  files as they were when its backup began, all of its scope if the command
  said it succeeded. `EngineIsOff` is what `ColdSpec` adds.

### Dreaming

For any databases, passes and bounds (`DreamingAssumption`).

* `DreamingTypeCorrect`; `FlushedCorrect`: `FlushedIsKept`. `BaseHolds` says memory
  holds what was acknowledged, of every base not hurt. Rereading memory from the
  store keeps it of a base that is not exposed, because such a base has in the store
  what it has in memory (`StoreTyped`, `HoldsFlushed`).
* `QuiescentCorrect`: `QuiescentIsLeftAlone`. `QuietInv`: a collection untouched
  since its last dream has the count the loop recorded for it.
* `RungCorrect`: `RungIsExact`, for any modes and triggers. `RungInv` follows a climb
  up the ladder: a job reads what was there (`JobReads`); while a level is being
  filled by one dream, what that dream read and is not left to write is in it, once
  (`FilledByOne`), of bases that are not crossed; and what a level was given is in its
  memory unless it was hurt (`LevelHolds`). That `crossed` is left out is needed: two
  dreams of one ladder at once count laws twice (see the divergences).

### Algorithms

For any number of coordinates, locations and points, any powers, similarities, leaf
size and any projection of at most three directions (`AlgorithmsAssumption`,
`SearchAssumption`); operands of the algebra are those of the run, but the theorems
about its operators, below, are for any snapshots. Each algorithm has a theorem of its
own about the operator, for more inputs than a behaviour of `Algorithms` gives it, and
the theorem about `CallSpec` is that one for the inputs there are. The run's bound on
the graph search, three locations, is part of `GraphActivate`; `GraphFinds` has no
such bound.

What folds and recursive functions compute is proved by induction. The library's
induction theorems cannot be used here, so the module has its own: `Induction`
over numbers and `SetInduction` over finite sets, for a *set* of indices at which
a fact holds instead of a predicate, from the least element a finite set has.
`FoldExists`, `FoldUnfolds`, `RangesUnfold` and `CountUnfolds` say that the
functions the definitions choose exist, and unfold them.

* `PermutationsCompose`: `PowersCompose`. A power is the end of a path of single
  steps (`PathExists`, `PathsAgree`); paths join and go back (`PowersAdd`), for
  any order in which the code squares and multiplies. `RotateIsPower`: the
  cycles are exactly the orbits (`OrbitIsPath`, `CyclesCover`), and a turn by `t`
  modulo the length of a cycle is `t` steps. `PowersOfPowers` makes the opposite
  power restore a permuted snapshot. The property speaks of results only; the
  invariant adds which call and input they come from (`PermutationsMade`).
* `NeighboursFound`: `NeighboursAreExact`. In a tree cut at medians the far half
  of a node is farther, in one coordinate already, than the cut (`FarIsFar`), and
  distance grows with each coordinate (`Dist2Grows`). By induction over ranges
  the descent returns the nearest point (`NearestHolds`) and `WithinIsExact`
  every one in the radius; `ProjectedIsExact` is that a projected distance never
  exceeds the full one, so that the radius leaves out no better point.
* `SearchesAreExact`: `SearchIsExact`. A heap of `k` holds the best of what was
  offered, whichever of its least it evicts (`HeapOffered`, `TopIsBest`).
  `ScanIsExact`: one whose exact score is among the best has a single-precision
  score at most two errors below the `k`-th best (`KthBest`), and the exact
  ranking of those candidates is the ranking of all. `GraphFinds`: what the walk
  has visited is what the graph leads to, and each location is offered once.
* `CombinedSnapshotsFit`: `ResultsFit`. `over(f, U)` is the sum of `f` over a
  finite set; it is additive, moves a value between two indices
  (`OverMoves`) and carries over a bijection (`OverBijects`). `subsequence` is
  such a bijection onto what is kept, in order (`SubsequenceIs`).
  `MergeConserves` is the induction over the pairs of `knn_merge`: at each step
  the locations not merged into others hold, in every coordinate, the counters
  and the writes of the beginning (`Kept`), because a pair of which one has been
  merged before is passed over. It says this of any snapshot and threshold.
* `AlgebraLawsHold`: `AlgebraLaws`, clause by clause.
  `SubtractingAddsNegation` for any snapshots whose second operand has one
  write per location: the two make the same combinations, so the same merges.
  `IntersectionsSettle` for any snapshots and threshold, `IntersectionWithSelf`
  for nonzero addresses. `ConvolutionCommutes`, `BindingDistributes`,
  `ShiftsUnbind` and `UnbindingsAgree` in any dimension, as sums over indices
  that wrap around: a sum over `i` is one over `(k - i) % d`, and only one term
  of a binding with a shift is not zero. `UnbindingRestores`, for unit patterns
  of any dimension bound with a key that shifts: bindings are unit vectors too,
  two unit vectors of integers above a threshold of at least 0 are equal
  (`UnitsAreEqual`), so a merge adds up copies of one pattern (`HoldsAll`), and
  dividing by the writes gives that pattern back.

### Only model-checked

* Liveness: `StagedIsStored`, `ExpiredIsSwept`, `ChangeIsDreamed`. Fairness and
  `ENABLED` are beyond these provers.
* What is false in general is not a theorem. The divergences name what each proved
  statement leaves out: `merge` and `write_batch` (`DurableSpec`), replacement
  (`IndexSpec`), `compress` (`VersionedSpec`), `compress` under a checked replacement
  (`SparedSpec`), concurrent creations and drops of one name (`SerialSpec`), names
  astray, an engine started under a cold command (`ColdSpec`), what lies between a
  merge and its flush (`hurt`), a level two ladders fill at once (`crossed`), the batch
  of a failed transaction (`lost`), `db.toml` of a database dropped under its snapshot,
  and names a drop raced for.

## Plan

1. The divergences as far as they can be narrowed: the largest part of each
   interface over which its property can be proved. `DocumentsReachable` with
   versioned replacement of a collection without documents; `AcknowledgedIsStored`
   of a raced name for the time before the race.
2. The laws of the algebra where it approximates: how far unbinding by a key
   that does not shift is from what was bound. This needs real numbers.
3. More of the code: what the sections above list as left out.

## Not modelled

The component list of `PROJECT.json` says, component by component, what is
left out. In general: floating-point arithmetic (the Hopfield iteration,
reconstruction, FFTs, fractional powers: numerics without control), `compose.rs`
(a library no route uses), `verify` (reads every record and reports), record
byte layout and checksums (golden and fuzz tests cover them), HTTP encoding,
archive formats, configuration parsing, packaging, benchmarks.

Relaxed durability (`NO_SYNC`) concerns power loss, which the models do not
have: a crash here is the death of the process, and LMDB transactions are
atomic and durable.
