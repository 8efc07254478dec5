------------------------------ MODULE Requests ------------------------------
(***************************************************************************)
(* The HTTP handlers (heather_server/src/routes.rs, routes_db.rs).  Every  *)
(* handler of a collection has one shape: refuse what is malformed, look   *)
(* its collections up or create them, run the engine's calls in a task of  *)
(* the blocking pool, await it and turn the outcome into a status.  The    *)
(* time limit of the router drops the handler, never its task.  What       *)
(* replaces a whole collection (algebra, bulk_load) reads the target's     *)
(* version, then the sources, computes, and loads the result if the        *)
(* version is still the same; no lock is held from one step to the next.   *)
(* A compress changes the target without moving its version.               *)
(*                                                                         *)
(* A collection is the set of what contributed to its locations: what it   *)
(* was created with, the vectors of the requests that wrote to it and the  *)
(* merges of those that compressed it.  Documents, drops and the audit     *)
(* record of a read are those of Collection, Hive and AuditLog.            *)
(***************************************************************************)
EXTENDS Integers, Sequences, FiniteSets, TLC

CONSTANTS
    Name,       \* collections
    Request,    \* clients; each sends one request at a time
    Places,     \* what the other databases of their URLs are
    Sends,      \* bound: requests they send altogether
    MaxFault    \* bound: transactions that fail

ASSUME RequestsAssumption ==
    /\ Name # {}
    /\ Places \subseteq {"refused", "missing"}
    /\ Sends \in Nat /\ MaxFault \in Nat

-----------------------------------------------------------------------------
(* What each handler adds to the common shape: whether the body alone may  *)
(* be refused, how many source collections it looks up (404), when it      *)
(* compares a cap or excludes options (400), whether it creates its target *)
(* (or looks it up, or has none), whether the load is checked, what it     *)
(* makes of the target, and how it answers a storage error of its work.    *)

Reading ==
    [body |-> FALSE, sources |-> 0, refuses |-> "never", target |-> "create",
     checked |-> FALSE, makes |-> "nothing", storage |-> 400]

Looking == [Reading EXCEPT !.target = "find", !.storage = 500]

Algebra ==
    [Reading EXCEPT !.sources = 1, !.checked = TRUE, !.makes = "same"]

write == [Reading EXCEPT !.body = TRUE, !.makes = "more", !.storage = 500]

bulk_load ==
    [Reading EXCEPT !.body = TRUE, !.checked = TRUE, !.makes = "new"]

read == [Reading EXCEPT !.body = TRUE]
attention == Reading
attention_mdl == Reading
calibrate == Reading
analyze == [Reading EXCEPT !.body = TRUE]
batch_analyze == [Reading EXCEPT !.body = TRUE]
query_documents == [Reading EXCEPT !.refuses = "late"]

stats == Looking
compress == [Looking EXCEPT !.makes = "itself"]
collection_config == Looking
locations == Looking
fingerprint == [Looking EXCEPT !.storage = 400]
get_documents == Looking
delete_document == Looking
get_document == [Looking EXCEPT !.refuses = "document"]

algebra_add ==
    [Algebra EXCEPT !.sources = 2, !.refuses = "early", !.makes = "both"]

algebra_sub ==
    [Algebra EXCEPT !.sources = 2, !.refuses = "early", !.makes = "both"]

algebra_bind ==
    [Algebra EXCEPT !.sources = 2, !.refuses = "early", !.makes = "both"]

algebra_intersect ==
    [Algebra EXCEPT !.sources = 2, !.refuses = "late", !.makes = "part"]

algebra_unbind == Algebra
algebra_scale == Algebra
algebra_permute == [Algebra EXCEPT !.body = TRUE, !.checked = FALSE]

compose_read ==
    [Reading EXCEPT !.body = TRUE, !.sources = 2, !.target = "none"]

Routes ==
    {write, bulk_load, read, attention, attention_mdl,
     calibrate, analyze, batch_analyze, query_documents, stats, compress,
     collection_config, locations, fingerprint, get_documents, delete_document,
     get_document, algebra_add, algebra_sub, algebra_bind, algebra_intersect,
     algebra_unbind, algebra_scale, algebra_permute, compose_read}

(* Every handler finds its database in the same way: one kind of call to a *)
(* database that is not mounted stands for all.                            *)
Call ==
    (UNION {[route : {h}, db : {"mounted"}, target : Name,
             from : [1 .. h.sources -> Name]] : h \in Routes})
    \cup [route : {stats}, db : Places, target : Name, from : {<<>>}]

NoCall == [route |-> Reading, from |-> <<>>]

Item == Request \cup Name

Statuses == {200, 400, 404, 409, 500}

Phases == {"idle", "received", "lookup", "create", "version", "snapshot", "work",
           "answer", "over"}

States == [call : Call \cup {NoCall}, pc : Phases, seen : Nat,
           snaps : Seq(SUBSET Item), status : Statuses \cup {0}]

VARIABLES
    exists,     \* the collections of the database
    items,      \* what each holds
    version,    \* its mutation counter
    req,        \* each request: its call and where its handler or task is
    answer,     \* the status its client received, 0 if none yet
    past,       \* history: what each source held since the call arrived
    overtaken,  \* history: its target was written since it read the version
    squeezed,   \* history: its target was compressed since it read the version
    spent       \* how much of the two bounds is used up

vars == <<exists, items, version, req, answer, past, overtaken, squeezed, spent>>

collections == <<exists, items, version>>
changes == <<overtaken, squeezed>>

NoPast == [n \in Name |-> {}]

Init ==
    /\ exists \in SUBSET Name
    /\ items = [n \in Name |-> IF n \in exists THEN {n} ELSE {}]
    /\ version = [n \in Name |-> 0]
    /\ req \in [Request -> [call : {NoCall}, pc : {"idle"},
                            seen : {0}, snaps : {<<>>}, status : {0}]]
    /\ answer = [r \in Request |-> 0]
    /\ past = [r \in Request |-> NoPast]
    /\ overtaken = [r \in Request |-> FALSE] /\ squeezed = overtaken
    /\ spent = [sends |-> 0, faults |-> 0]

-----------------------------------------------------------------------------
(* The handler.                                                            *)

At(r, pc) == req[r].pc = pc

Goes(r, pc) == req' = [req EXCEPT ![r].pc = pc]

(* The call is over with this status; the handler, if there still is one,  *)
(* goes on to answer.                                                      *)
Ends(r, status) ==
    req' = [req EXCEPT ![r].pc = "answer", ![r].status = status,
                       ![r].seen = 0, ![r].snaps = <<>>]

(* ... because of a storage error.                                         *)
Fails(r, status) ==
    /\ spent.faults < MaxFault /\ spent' = [spent EXCEPT !.faults = @ + 1]
    /\ Ends(r, status)

target(r) == req[r].call.target

sources(r) == req[r].call.from

route(r) == req[r].call.route

Pending(r) == req[r].pc \notin {"idle", "answer", "over"}

Receive(r) ==
    /\ At(r, "idle") \/ At(r, "over")
    /\ spent.sends < Sends /\ spent' = [spent EXCEPT !.sends = @ + 1]
    /\ \E c \in Call :
         /\ req' = [req EXCEPT ![r] = [call |-> c, pc |-> "received", seen |-> 0,
                    snaps |-> <<>>, status |-> 0]]
         /\ past' = [past EXCEPT ![r] = [n \in Name |->
                       {items[n] : i \in {j \in DOMAIN c.from : c.from[j] = n}}]]
    /\ answer' = [answer EXCEPT ![r] = 0]
    /\ overtaken' = [overtaken EXCEPT ![r] = FALSE]
    /\ squeezed' = [squeezed EXCEPT ![r] = FALSE]
    /\ UNCHANGED collections

(* The database of the URL, mounted or not; then the body: bad vectors,    *)
(* lengths, strategies, and the caps that only look at it.                 *)
resolve_db(db) ==
    CASE db = "mounted" -> 200 [] db = "refused" -> 409 [] db = "missing" -> 404

resolve_vectors(r) == route(r).body /\ Ends(r, 400)

Admit(r) ==
    /\ At(r, "received")
    /\ IF resolve_db(req[r].call.db) # 200
       THEN Ends(r, resolve_db(req[r].call.db))
       ELSE Goes(r, "lookup") \/ resolve_vectors(r)
    /\ UNCHANGED <<collections, answer, past, changes, spent>>

(* get_collection for what must exist; add, sub and bind then compare an   *)
(* estimate of their result with the cap.                                  *)
needed(r) ==
    {sources(r)[i] : i \in DOMAIN sources(r)}
    \cup (IF route(r).target = "find" THEN {target(r)} ELSE {})

check_cross_product_cap(r) == Ends(r, 400)

Lookup(r) ==
    /\ At(r, "lookup")
    /\ IF ~(needed(r) \subseteq exists)
       THEN Ends(r, 404)
       ELSE \/ Goes(r, IF route(r).target = "create" THEN "create"
                       ELSE IF sources(r) # <<>> THEN "snapshot" ELSE "work")
            \/ route(r).refuses = "early" /\ check_cross_product_cap(r)
    /\ UNCHANGED <<collections, answer, past, changes, spent>>

started(r) ==
    IF route(r).checked THEN "version"
    ELSE IF sources(r) # <<>> THEN "snapshot" ELSE "work"

(* get_or_create_collection for the target.  intersect looks at its cap,   *)
(* and documents/query at its roles, only after that.                      *)
Create(r) ==
    /\ At(r, "create")
    /\ exists' = exists \cup {target(r)}
    /\ Goes(r, started(r)) \/ (route(r).refuses = "late" /\ Ends(r, 400))
    /\ UNCHANGED <<items, version, answer, past, changes, spent>>

CreateFails(r) ==
    /\ At(r, "create") /\ target(r) \notin exists
    /\ Fails(r, 500)
    /\ UNCHANGED <<collections, answer, past, changes>>

-----------------------------------------------------------------------------
(* The task on the blocking pool.                                          *)

(* The target's version, before anything is read from the sources.         *)
TaskVersion(r) ==
    /\ At(r, "version")
    /\ req' = [req EXCEPT ![r].pc = IF sources(r) # <<>> THEN "snapshot"
                                    ELSE "work",
                          ![r].seen = version[target(r)]]
    /\ UNCHANGED <<collections, answer, past, changes, spent>>

TaskSnapshot_then_version(r) ==
    /\ At(r, "snapshot")
    /\ LET n == sources(r)[Len(req[r].snaps) + 1]
           snaps == Append(req[r].snaps, items[n])
       IN req' = [req EXCEPT ![r].snaps = snaps,
                     ![r].seen = version[target(r)],
                     ![r].pc = IF Len(snaps) = Len(sources(r)) THEN "work"
                               ELSE "snapshot"]
    /\ UNCHANGED <<collections, answer, past, changes, spent>>

(* EAMSnapshot::from_collection, one source after the other.               *)
TaskSnapshot(r) ==
    /\ At(r, "snapshot")
    /\ LET n == sources(r)[Len(req[r].snaps) + 1]
           snaps == Append(req[r].snaps, items[n])
       IN req' = [req EXCEPT ![r].snaps = snaps,
                     ![r].pc = IF Len(snaps) = Len(sources(r)) THEN "work"
                               ELSE "snapshot"]
    /\ UNCHANGED <<collections, answer, past, changes, spent>>

(* What the call makes of its target: the pairs of add, sub and bind that  *)
(* cancel, and the locations intersect finds no partner for, are left out. *)
results(r) ==
    LET s == req[r].snaps
    IN CASE route(r).makes = "more" -> {items[target(r)] \cup {r}}
         [] route(r).makes = "new" -> {{r}}
         [] route(r).makes = "itself" -> {items[target(r)], items[target(r)] \cup {r}}
         [] route(r).makes = "both" -> SUBSET (s[1] \cup s[2])
         [] route(r).makes = "part" -> SUBSET s[1]
         [] route(r).makes = "same" -> {s[1]}

Changing(r) == route(r).makes # "nothing"

unchanged_since_ever(r) == TRUE

unchanged_since(r) == version[target(r)] = req[r].seen

conflicting(r) == route(r).checked /\ ~unchanged_since(r)

Compressing(r) == route(r).makes = "itself"

(* The checked calls that r overtakes, between their version and their load. *)
Overtakes(r) ==
    {q \in Request \ {r} : /\ req[q].pc \in {"snapshot", "work"}
                           /\ route(q).checked /\ target(q) = target(r)}

(* Every write and load that gets as far as its transaction moves the      *)
(* version; compress never does.                                           *)
Mutates(r) ==
    IF Compressing(r)
    THEN /\ squeezed' = [q \in Request |-> squeezed[q] \/ q \in Overtakes(r)]
         /\ UNCHANGED <<version, overtaken>>
    ELSE /\ version' = [version EXCEPT ![target(r)] = @ + 1]
         /\ overtaken' = [q \in Request |-> overtaken[q] \/ q \in Overtakes(r)]
         /\ UNCHANGED squeezed

TaskChanges(r) ==
    /\ At(r, "work") /\ Changing(r) /\ ~conflicting(r)
    /\ \E s \in results(r) : items' = [items EXCEPT ![target(r)] = s]
    /\ past' = [q \in Request |->
                  IF q = r \/ ~Pending(q) THEN NoPast
                  ELSE [n \in Name |-> IF past[q][n] = {} THEN {}
                                        ELSE past[q][n] \cup {items'[n]}]]
    /\ Mutates(r)
    /\ Ends(r, 200)
    /\ UNCHANGED <<exists, answer, spent>>

TaskConflicts(r) ==
    /\ At(r, "work") /\ conflicting(r)
    /\ Ends(r, 409)
    /\ UNCHANGED <<collections, answer, past, changes, spent>>

(* Any other error of the work: mismatched dimensions, metadata of another *)
(* length, a read of an empty memory, a document that does not exist.      *)
rejection(h) ==
    CASE h.refuses = "document" -> 404 [] h = write -> 400 [] OTHER -> h.storage

TaskRejects(r) ==
    /\ At(r, "work")
    /\ Ends(r, rejection(route(r)))
    /\ UNCHANGED <<collections, answer, past, changes, spent>>

TaskReads(r) ==
    /\ At(r, "work") /\ ~Changing(r)
    /\ Ends(r, 200)
    /\ UNCHANGED <<collections, answer, past, changes, spent>>

(* The transaction fails; the engine goes back to what is stored, with the *)
(* version moved if the call moves it.                                     *)
TaskFails(r) ==
    /\ At(r, "work") /\ ~conflicting(r)
    /\ Fails(r, route(r).storage)
    /\ IF Changing(r) /\ ~Compressing(r) THEN Mutates(r)
       ELSE UNCHANGED <<version, changes>>
    /\ UNCHANGED <<exists, items, answer, past>>

Task(r) ==
    \/ TaskVersion(r) \/ TaskSnapshot(r) \/ TaskChanges(r) \/ TaskConflicts(r)
    \/ TaskRejects(r) \/ TaskReads(r) \/ TaskFails(r)

-----------------------------------------------------------------------------
(* The handler answers, or its time is up while it awaits the task.        *)

Answer(r) ==
    /\ At(r, "answer")
    /\ answer' = [answer EXCEPT ![r] = IF @ = 0 THEN req[r].status ELSE @]
    /\ past' = [past EXCEPT ![r] = NoPast]
    /\ Goes(r, "over")
    /\ UNCHANGED <<collections, changes, spent>>

TimesOut(r) ==
    /\ req[r].pc \in {"version", "snapshot", "work"}
    /\ answer[r] = 0
    /\ answer' = [answer EXCEPT ![r] = 408]
    /\ UNCHANGED <<collections, req, past, changes, spent>>

Handler(r) ==
    \/ Receive(r) \/ Admit(r) \/ Lookup(r) \/ Create(r)
    \/ CreateFails(r) \/ Answer(r) \/ TimesOut(r)

Next == \E r \in Request : Handler(r) \/ Task(r)

Spec == Init /\ [][Next]_vars

(* A call that replaces a collection by what it computed from that very    *)
(* collection, which was compressed after the call had read its version.   *)
Undoing(r) ==
    squeezed[r] /\ \E i \in DOMAIN sources(r) : sources(r)[i] = target(r)

(* The behaviours in which no compress comes in between such a call's      *)
(* version and its load.                                                   *)
SparedSpec == Init /\ [][Next /\ ~\E r \in Request : Undoing(r)']_vars

Symmetry == Permutations(Name) \cup Permutations(Request)

-----------------------------------------------------------------------------
(* Every variable keeps to its type, and only a registered collection      *)
(* holds anything.                                                         *)
TypeOK ==
    /\ exists \in SUBSET Name
    /\ items \in [Name -> SUBSET Item]
    /\ \A n \in Name : items[n] # {} => n \in exists
    /\ version \in [Name -> Nat]
    /\ req \in [Request -> States]
    /\ answer \in [Request -> Statuses \cup {0, 408}]
    /\ past \in [Request -> [Name -> SUBSET SUBSET Item]]
    /\ overtaken \in [Request -> BOOLEAN] /\ squeezed \in [Request -> BOOLEAN]
    /\ spent \in [sends : 0 .. Sends, faults : 0 .. MaxFault]

(* A checked replacement never lands on a write or a replacement it had    *)
(* not seen, and is never refused for a conflict when none reached the     *)
(* target since its version was read: two calls cannot keep refusing each  *)
(* other.  A compress is not noticed.                                      *)
ConflictsAreExact ==
    [][\A r \in Request :
         /\ (TaskChanges(r) /\ route(r).checked) => ~overtaken[r]
         /\ TaskConflicts(r) => overtaken[r]]_vars

(* A checked replacement that was not refused replaced what it had read    *)
(* ("the replace is refused ... if the collection was mutated since that   *)
(* version was observed").  It replaces a compressed target as well.       *)
ReplacesWhatItRead ==
    \A r \in Request :
        (req[r].pc = "answer" /\ req[r].status = 200 /\ route(r).checked) =>
            ~overtaken[r] /\ ~squeezed[r]

(* The call of AtomicCalls that a request makes.                           *)
AbstractCall ==
    [makes : {h.makes : h \in Routes}, checked : BOOLEAN,
     target : Name, from : UNION {[1 .. k -> Name] : k \in 0 .. 2}]

abstract_call(c) ==
    [makes |-> c.route.makes, checked |-> c.route.checked,
     target |-> IF c = NoCall THEN CHOOSE n \in Name : TRUE ELSE c.target,
     from |-> c.from]

abstract_phase(q) ==
    CASE q.pc = "idle" -> "idle"
      [] q.pc \notin {"idle", "answer", "over"} -> "pending"
      [] OTHER -> IF q.status = 200 THEN "done" ELSE "refused"

abstract_told(a) ==
    CASE a = 0 -> "nothing" [] a = 200 -> "ok" [] a = 408 -> "late" [] OTHER -> "error"

(* The handlers implement calls that are atomic: each takes effect at most *)
(* once, between its arrival and the end of its task, and only if its      *)
(* client is told 200, or 408.  Not so a compress that a replacement of    *)
(* the collection by itself undoes without knowing of it.                  *)
calls  == [r \in Request |-> abstract_call(req[r].call)]
phases == [r \in Request |-> abstract_phase(req[r])]
tolds  == [r \in Request |-> abstract_told(answer[r])]
pasts  == [r \in Request |-> IF Pending(r) THEN past[r] ELSE NoPast]

Abstract == INSTANCE AtomicCalls WITH
    Call <- AbstractCall,
    stored <- items, call <- calls, phase <- phases, told <- tolds, past <- pasts

CallsAreAtomic == Abstract!Spec

=============================================================================
