-------------------------------- MODULE Hive --------------------------------
(***************************************************************************)
(* A Hive: the collections of one database.  The LMDB registry maps names  *)
(* to collection ids; `collections`, a map behind an RwLock, caches the    *)
(* Collection objects that were opened.  A request looks a collection up   *)
(* (get_collection or create_collection), keeps the Arc it got and then    *)
(* uses it, holding no lock of the Hive; drop_collection removes the       *)
(* registry entry and the records first and the cached object afterwards.  *)
(* What one call does between two acquisitions of the lock, or inside one  *)
(* LMDB transaction, is one action: everything else interleaves.           *)
(*                                                                         *)
(* Data abstraction.  A collection is plain and data-seeded (l_0 = 0): a    *)
(* write appends one location, whose id comes from the counter of the      *)
(* object it goes through.  Collection.tla has what else a collection does.*)
(***************************************************************************)
EXTENDS Integers, FiniteSets

CONSTANTS
    Name,       \* collection names
    Client,     \* requests in flight
    MaxId,      \* bound: collection ids are 1 .. MaxId
    MaxObject,  \* bound: Collection objects alive at a time
    MaxWrite    \* bound: vectors written in a behaviour

ASSUME HiveAssumption ==
    /\ 0 \notin Client
    /\ MaxId \in Nat /\ MaxObject \in Nat /\ MaxWrite \in Nat

Id     == 1 .. MaxId
Object == 1 .. MaxObject
Vector == 1 .. MaxWrite
LocId  == 0 .. MaxWrite - 1

None == 0    \* no id, no object, no vector

VARIABLES
    registry,            \* LMDB: the id registered under each name
    next_collection_id,  \* LMDB: the id counter, in the registry
    records,             \* LMDB: the records stored under each id
    collections,         \* the cache: the object of each opened name
    objects,             \* the Collection objects
    lock,                \* the client holding the cache's write lock
    call,                \* what each client is doing
    written,             \* how many vectors clients have written
    learned,             \* history: where each vector was acknowledged
    raced                \* history: the names a drop of which overlapped another
                         \* drop, a creation or a load of the same name

vars == <<registry, next_collection_id, records, collections, objects, lock,
          call, written, learned, raced>>

stored == <<registry, next_collection_id, records>>

(* The locations of a collection and its location counter.                 *)
Locations == [locs : [LocId -> Vector \cup {None}], next_id : 0 .. MaxWrite]

NoLocations == [locs |-> [l \in LocId |-> None], next_id |-> 0]

Content(x) == {x.locs[l] : l \in LocId} \ {None}

Idle == [pc |-> "idle", name |-> None, id |-> None, object |-> None]

Calls == [pc : {"idle", "get", "found", "create", "registered", "holding",
                "drop", "dropped"},
          name : Name \cup {None}, id : Id \cup {None},
          object : Object \cup {None}]

NoObject == [id |-> None, data |-> NoLocations]

Nowhere == [name |-> None, id |-> None]

Init ==
    /\ registry = [n \in Name |-> None]
    /\ next_collection_id = 1
    /\ records = [i \in Id |-> NoLocations]
    /\ collections = [n \in Name |-> None]
    /\ objects = [o \in Object |-> NoObject]
    /\ lock = None
    /\ call = [c \in Client |-> Idle]
    /\ written = 0
    /\ learned = [v \in Vector |-> Nowhere]
    /\ raced = {}

-----------------------------------------------------------------------------
Unlocked == lock = None

Live == {collections[n] : n \in Name} \cup {call[c].object : c \in Client}

(* Client c now holds an Arc of the object o, looked up under n.           *)
Hold(c, n, o) ==
    call' = [call EXCEPT ![c] = [pc |-> "holding", name |-> n,
                                 id |-> None, object |-> o]]

Goes(c, pc, n, i) ==
    call' = [call EXCEPT ![c] = [pc |-> pc, name |-> n, id |-> i,
                                 object |-> None]]

Ends(c) == call' = [call EXCEPT ![c] = Idle]

opened_as_new(i) == NoLocations

(* Collection::load; Collection::new when there is no location to load,    *)
(* which for a data-seeded collection is the same.                         *)
opened(i) == records[i]

(* A new object of the id i, cached under n.                               *)
Open(c, n, i) ==
    \E o \in Object \ Live :
        /\ \A p \in Object \ Live : o <= p
        /\ objects' = [objects EXCEPT ![o] = [id |-> i, data |-> opened(i)]]
        /\ collections' = [collections EXCEPT ![n] = o]
        /\ Hold(c, n, o)

-----------------------------------------------------------------------------
(* get_collection                                                          *)

(* The cached object, under the read lock; create_collection and           *)
(* get_or_create_collection begin in the same way.                         *)
LookupCached(c, n) ==
    /\ call[c].pc = "idle" /\ Unlocked
    /\ collections[n] # None
    /\ Hold(c, n, collections[n])
    /\ UNCHANGED <<stored, collections, objects, lock, written, learned>>

LookupMissed(c, n) ==
    /\ call[c].pc = "idle" /\ Unlocked
    /\ collections[n] = None
    /\ Goes(c, "get", n, None) \/ Goes(c, "create", n, None)
    /\ UNCHANGED <<stored, collections, objects, lock, written, learned>>

(* The id is read from the registry under no lock.                         *)
ReadId(c) ==
    /\ call[c].pc = "get"
    /\ IF registry[call[c].name] = None
       THEN Ends(c)
       ELSE Goes(c, "found", call[c].name, registry[call[c].name])
    /\ UNCHANGED <<stored, collections, objects, lock, written, learned>>

LoadFound_unchecked(c) ==
    /\ call[c].pc = "found" /\ Unlocked
    /\ Open(c, call[c].name, call[c].id)
    /\ UNCHANGED <<stored, lock, written, learned>>

(* Under the write lock: the cache again, then the load of that id.        *)
LoadFound(c) ==
    /\ call[c].pc = "found" /\ Unlocked
    /\ IF collections[call[c].name] # None
       THEN /\ Hold(c, call[c].name, collections[call[c].name])
            /\ UNCHANGED <<collections, objects>>
       ELSE Open(c, call[c].name, call[c].id)
    /\ UNCHANGED <<stored, lock, written, learned>>

-----------------------------------------------------------------------------
(* create_collection                                                       *)

CreateCached(c) ==
    /\ call[c].pc = "create" /\ Unlocked
    /\ collections[call[c].name] # None
    /\ Hold(c, call[c].name, collections[call[c].name])
    /\ UNCHANGED <<stored, collections, objects, lock, written, learned>>

next_id_by_scanning ==
    CHOOSE i \in 1 .. next_collection_id :
        /\ \A n \in Name : registry[n] # i
        /\ \A j \in 1 .. i - 1 : \E n \in Name : registry[n] = j

(* load_next_collection_id_txn: ids come from a counter that never goes    *)
(* back, so that no id is used twice.                                      *)
load_next_collection_id == next_collection_id

(* The write lock is kept from here to OpenRegistered.                     *)
Register(c) ==
    /\ call[c].pc = "create" /\ Unlocked
    /\ collections[call[c].name] = None
    /\ lock' = c
    /\ LET n == call[c].name
       IN IF registry[n] # None
          THEN /\ Goes(c, "registered", n, registry[n])
               /\ UNCHANGED <<registry, next_collection_id>>
          ELSE /\ load_next_collection_id \in Id
               /\ Goes(c, "registered", n, load_next_collection_id)
               /\ registry' = [registry EXCEPT ![n] = load_next_collection_id]
               /\ next_collection_id' = load_next_collection_id + 1
    /\ UNCHANGED <<records, collections, objects, written, learned>>

OpenRegistered(c) ==
    /\ call[c].pc = "registered"
    /\ lock' = None
    /\ Open(c, call[c].name, call[c].id)
    /\ UNCHANGED <<stored, written, learned>>

(* The registry transaction or the loading fails, in either call: the name *)
(* may stay registered, nothing is cached.                                 *)
OpenFails(c) ==
    /\ call[c].pc \in {"found", "create", "registered"}
    /\ lock' = IF lock = c THEN None ELSE lock
    /\ Ends(c)
    /\ UNCHANGED <<stored, collections, objects, written, learned>>

-----------------------------------------------------------------------------
(* drop_collection: the id, one transaction, the cache.                    *)

DropReadId(c, n) ==
    /\ call[c].pc = "idle"
    /\ registry[n] # None
    /\ Goes(c, "drop", n, registry[n])
    /\ UNCHANGED <<stored, collections, objects, lock, written, learned>>

(* delete_collection: the registry entry by its name, the records by the   *)
(* id that was read before.                                                *)
delete_collection(n, i) ==
    /\ registry' = [registry EXCEPT ![n] = None]
    /\ records' = [records EXCEPT ![i] = NoLocations]
    /\ UNCHANGED next_collection_id

DropDelete(c) ==
    /\ call[c].pc = "drop"
    /\ \/ /\ delete_collection(call[c].name, call[c].id)
          /\ Goes(c, "dropped", call[c].name, None)
       \/ Ends(c) /\ UNCHANGED stored
    /\ UNCHANGED <<collections, objects, lock, written, learned>>

Uncache_never(n) == UNCHANGED collections

Uncache(n) == collections' = [collections EXCEPT ![n] = None]

DropUncache(c) ==
    /\ call[c].pc = "dropped" /\ Unlocked
    /\ Uncache(call[c].name)
    /\ Ends(c)
    /\ UNCHANGED <<stored, objects, lock, written, learned>>

-----------------------------------------------------------------------------
(* A write through the Arc: one location, in the object and in the store.  *)
Appended(x, l, v) == [locs |-> [x.locs EXCEPT ![l] = v], next_id |-> l + 1]

Write(c) ==
    /\ call[c].pc = "holding"
    /\ written < MaxWrite
    /\ LET o == call[c].object
           i == objects[o].id
           l == objects[o].data.next_id
           v == written + 1
       IN /\ l \in LocId
          /\ objects' = [objects EXCEPT ![o].data = Appended(@, l, v)]
          /\ records' = [records EXCEPT ![i] = Appended(@, l, v)]
          /\ learned' = [learned EXCEPT ![v] = [name |-> call[c].name, id |-> i]]
    /\ written' = written + 1
    /\ Ends(c)
    /\ UNCHANGED <<registry, next_collection_id, collections, lock>>

(* Any call that changes no location.                                      *)
Release(c) ==
    /\ call[c].pc = "holding"
    /\ Ends(c)
    /\ UNCHANGED <<stored, collections, objects, lock, written, learned>>

(* The process dies; the next one opens the database.                      *)
Reopen ==
    /\ collections' = [n \in Name |-> None]
    /\ objects' = [o \in Object |-> NoObject]
    /\ lock' = None
    /\ call' = [c \in Client |-> Idle]
    /\ UNCHANGED <<stored, written, learned>>

-----------------------------------------------------------------------------
Lookup(c) ==
    \/ \E n \in Name : LookupCached(c, n) \/ LookupMissed(c, n)
    \/ ReadId(c) \/ LoadFound(c)
    \/ CreateCached(c) \/ Register(c) \/ OpenRegistered(c) \/ OpenFails(c)

Use(c) == Write(c) \/ Release(c)

Drop(c) ==
    \/ \E n \in Name : DropReadId(c, n)
    \/ DropDelete(c) \/ DropUncache(c)

Racing(n) ==
    \E c, d \in Client :
        /\ c # d
        /\ call[c].name = n /\ call[c].pc \in {"drop", "dropped"}
        /\ call[d].name = n /\ call[d].pc \notin {"idle", "holding"}

Next ==
    /\ Reopen \/ \E c \in Client : Lookup(c) \/ Use(c) \/ Drop(c)
    /\ raced' = raced \cup {n \in Name : Racing(n)'}

Spec == Init /\ [][Next]_vars

-----------------------------------------------------------------------------
TypeOK ==
    /\ registry \in [Name -> Id \cup {None}]
    /\ next_collection_id \in 1 .. MaxId + 1
    /\ records \in [Id -> Locations]
    /\ collections \in [Name -> Object \cup {None}]
    /\ objects \in [Object -> [id : Id \cup {None}, data : Locations]]
    /\ lock \in Client \cup {None}
    /\ call \in [Client -> Calls]
    /\ written \in 0 .. MaxWrite
    /\ learned \in [Vector -> [name : Name \cup {None}, id : Id \cup {None}]]
    /\ raced \subseteq Name

\* The collections whose name no drop raced for: drop_collection reads the id,
\* deletes and uncaches in three steps and orders none of them with a lookup.
Undisturbed == Name \ raced

Registered == {registry[n] : n \in Undisturbed} \ {None}

(* A cached object is the collection registered under its name, except     *)
(* while a drop of that name is between its transaction and the cache.     *)
CacheIsRegistered ==
    \A n \in Undisturbed :
        (/\ collections[n] # None
         /\ \A c \in Client : call[c].pc = "dropped" => call[c].name # n)
        => objects[collections[n]].id = registry[n]

(* A registered collection has one object: two would each hand out the     *)
(* same location ids.                                                      *)
OneObject ==
    \A o, p \in Live \ {None} :
        (objects[o].id = objects[p].id /\ objects[o].id \in Registered)
        => o = p

(* A write acknowledged into a collection that is still registered is in   *)
(* its records, so a restart finds it.                                     *)
AcknowledgedIsStored ==
    \A v \in Vector :
        learned[v].id \in Registered => v \in Content(records[learned[v].id])

(* What is stored under a name was written by a request that asked for     *)
(* that name, whatever raced: nothing of a dropped collection, and nothing *)
(* a request writes through the Arc it kept of one, appears in another.    *)
CollectionsAreDisjoint ==
    \A n \in Name : registry[n] # None =>
        \A v \in Content(records[registry[n]]) :
            learned[v] = [name |-> n, id |-> registry[n]]

(* The three below leave the raced names in: what the code says of every   *)
(* name, and what a drop beside other calls makes of it.                   *)

(* A dropped collection has nothing on disk ("removing all its data from   *)
(* disk and memory").  A write through an Arc taken before the drop puts    *)
(* records back under the id, which no name leads to any more.             *)
DroppedIsGone ==
    \A i \in Id :
        (i < next_collection_id /\ \A n \in Name : registry[n] # i)
        => Content(records[i]) = {}

(* get_collection answers with an existing collection ("Returns None if it *)
(* doesn't exist"): once the drop of a name has finished, the cache, which *)
(* it looks into first, holds nothing under the name.  A lookup that read   *)
(* the id before the drop and caches the object after it is what breaks    *)
(* this.                                                                   *)
CachedExists ==
    \A n \in Name :
        (/\ collections[n] # None
         /\ \A c \in Client : call[c].pc = "dropped" => call[c].name # n)
        => registry[n] # None

(* AcknowledgedIsStored, of every registered collection.  A drop uncaches  *)
(* whatever object the name has by then, that of a later creation too,     *)
(* whose requests go on with it: the next lookup opens a second object,    *)
(* and the two number their locations alike.                               *)
AcknowledgedSurvivesDrops ==
    \A v \in Vector, n \in Name :
        (registry[n] # None /\ learned[v].id = registry[n])
        => v \in Content(records[registry[n]])

=============================================================================
