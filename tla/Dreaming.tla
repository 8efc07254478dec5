------------------------------- MODULE Dreaming -------------------------------
(***************************************************************************)
(* Dreaming (heather_server/src/dream.rs): a background loop, and a route  *)
(* that does the same on demand, reprocess the memory of a database while  *)
(* clients go on writing.  Replay writes a collection's own attractors     *)
(* back into it and merges; a ladder consolidates a base collection into   *)
(* the levels <base>__L1, <base>__L2, ...  A dream holds no lock from one  *)
(* of its calls to the next: every write, merge and load_snapshot of it is *)
(* a transaction of its own, an action here, and anything may come between.*)
(* A merge deletes the records it absorbs and leaves the survivor's as it  *)
(* was, until the flush that ends the dream stores it: memory and store    *)
(* differ in between, and a call that fails puts memory back to the store. *)
(*                                                                         *)
(* Data abstraction.  What a collection learned is a set of items, one per *)
(* client write; a location is the set of items accumulated in it, a       *)
(* collection the sequence of its locations, its store that of their       *)
(* records.  A law read off a location carries that location's items.      *)
(* Thresholds and similarities are left out: which location a law joins    *)
(* and which ones a merge unites are choices.  Every database has one base *)
(* collection, which names it.                                             *)
(***************************************************************************)
EXTENDS Integers, Sequences, FiniteSets, SequencesExt

CONSTANTS
    Db,          \* databases, each with one base collection
    Enabled,     \* those with dream.enabled
    Triggered,   \* the modes of databases that are also dreamed by hand
    Asked,       \* the modes asked for by hand
    Passes,      \* dream.passes: replay passes, or levels to climb
    IdleTime,    \* dream.idle_secs, in ticks of the clock
    MaxItem,     \* bound: items written to a base collection
    MaxLoc,      \* bound: locations of a collection
    MaxTrouble,  \* bound: failed transactions and restarts of the process
    MaxTrigger   \* bound: dreams triggered by hand

ASSUME DreamingAssumption ==
    /\ Db # {}
    /\ Enabled \subseteq Db /\ Triggered \cup Asked \subseteq {"replay", "ladder"}
    /\ Passes \in Nat \ {0} /\ IdleTime \in Nat \ {0}
    /\ MaxItem \in Nat \ {0} /\ MaxLoc \in Nat \ {0}
    /\ MaxTrouble \in Nat /\ MaxTrigger \in Nat

Item == 1 .. MaxItem

(* A collection is a base (level 0) or a level of its ladder.              *)
Coll == Db \X (0 .. Passes)
Base(b) == <<b, 0>>
IsLevel(c) == c[2] > 0      \* the name contains "__L"

Dreamer == {"loop", "trigger"}

VARIABLES
    mode,          \* dream.mode of each database, read from its db.toml
    mem,           \* the locations of each collection
    disk,          \* their records in the store, location by location
    exists,        \* the collections in the hive's registry
    exposed,       \* history: collections merged and not flushed since
    hurt,          \* history: those reread from the store while exposed
    fed,           \* history: laws put into each first level since cleared
    dreamt,        \* history: laws the last ladder of each base read, once up
    crossed,       \* history: bases whose first level two ladders fill
    learned,       \* history: the items each base acknowledged
    touched,       \* history: collections changed since the loop dreamed them
    quiet,         \* how long no request has arrived (last_activity_ms)
    loop,          \* run_dream_loop, between two sleeps
    last_dreamed,  \* its map from collections to settled counts, -1 if absent
    job,           \* the dream each dreamer is in
    names,         \* collections a triggered dream has still to go through
    spent          \* how much of the last two bounds is used up

vars == <<mode, mem, disk, exists, exposed, hurt, fed, dreamt, crossed,
          learned, touched, quiet, loop, last_dreamed, job, names, spent>>

stored  == <<mem, disk, exposed, hurt>>
climbed == <<fed, dreamt, crossed>>
history == <<climbed, learned, touched>>
hives   == <<mode, stored, exists>>
ticking == <<quiet, loop, last_dreamed>>

Count(c) == Len(mem[c])

Items(locations) == UNION {locations[i] : i \in DOMAIN locations}

None == CHOOSE c \in Coll : c[2] = 0    \* no collection: never looked at

NoJob == [pc |-> "none", coll |-> None, mode |-> "replay", pass |-> 0,
          todo |-> <<>>, read |-> <<>>]

Asleep == [pc |-> "asleep", idle |-> FALSE, dbs |-> {}, names |-> {},
           name |-> None, count |-> 0]

Init ==
    /\ mode \in [Db -> {"replay", "ladder"}]
    /\ mem = [c \in Coll |-> IF IsLevel(c) THEN <<>> ELSE <<{1}>>]
    /\ disk = mem
    /\ exists = {Base(b) : b \in Db}
    /\ exposed = {} /\ hurt = {} /\ crossed = {}
    /\ fed = [b \in Db |-> <<>>] /\ dreamt = [b \in Db |-> <<>>]
    /\ learned = [b \in Db |-> {1}]
    /\ touched = Coll
    /\ quiet = 0
    /\ loop = Asleep
    /\ last_dreamed = [c \in Coll |-> -1]
    /\ job = [d \in Dreamer |-> NoJob]
    /\ names = {}
    /\ spent = [trouble |-> 0, trigger |-> 0]

-----------------------------------------------------------------------------
(* What a collection's own operations make of its locations.               *)

Room(locations) == Len(locations) < MaxLoc

join(locations, i, x) == [locations EXCEPT ![i] = @ \cup x]

(* What a write makes of a collection in memory and store: it joins the    *)
(* winner, spawns a location, as a plain collection always does, or splits *)
(* the winner, and stores the locations it touched.                        *)
written(c, x) ==
    LET m == mem[c]
        winners == DOMAIN m
        spawned == [mem |-> Append(m, x), disk |-> Append(disk[c], x)]
        joined(i) == [mem |-> join(m, i, x),
                      disk |-> [disk[c] EXCEPT ![i] = m[i] \cup x]]
        split(i) == [mem |-> Append(joined(i).mem, m[i] \cup x),
                     disk |-> Append(joined(i).disk, m[i] \cup x)]
    IN {joined(i) : i \in winners}
       \cup {n \in {spawned} \cup {split(i) : i \in winners} : Room(m)}

Partitions(S) ==
    {P \in SUBSET ((SUBSET S) \ {{}}) :
        /\ UNION P = S
        /\ \A g, h \in P : g # h => g \cap h = {}}

(* The locations of m taken together as P says, each group holding what    *)
(* its members held: merge, and the clusters of a coarser replay pass.     *)
grouped(m, P) ==
    LET groups == SetToSeq(P)
    IN [n \in DOMAIN groups |-> Items(Restrict(m, groups[n]))]

(* What is in the store when one member of each group survives a merge:    *)
(* the records of the others are deleted, the survivor's is not written.   *)
Survivors(m, P) ==
    {s \in [P -> DOMAIN m] : \A g \in P : s[g] \in g}

surviving(records, P, survivor) ==
    LET groups == SetToSeq(P)
    IN [n \in DOMAIN groups |-> records[survivor[groups[n]]]]

(* A call that fails once it has changed memory drops its changes: memory  *)
(* is reread from the store (AtomicMutation's drop), and what only memory  *)
(* had of a merge is gone.                                                 *)
Rereads(S) ==
    /\ mem' = [c \in Coll |-> IF c \in S THEN disk[c] ELSE mem[c]]
    /\ hurt' = hurt \cup (S \cap exposed)
    /\ exposed' = exposed \ S
    /\ UNCHANGED disk

(* The collection c becomes n, in memory and in the store.                 *)
Becomes(c, n) ==
    /\ mem' = [mem EXCEPT ![c] = n.mem] /\ disk' = [disk EXCEPT ![c] = n.disk]
    /\ UNCHANGED <<exposed, hurt>>

Trouble ==
    /\ spent.trouble < MaxTrouble
    /\ spent' = [spent EXCEPT !.trouble = @ + 1]

-----------------------------------------------------------------------------
(* A dream.                                                                *)

Goes(d, pc) == job' = [job EXCEPT ![d].pc = pc]

Running(d, pc) == job[d].pc = pc

Here(d) == job[d].coll

Src(d) == <<Here(d)[1], job[d].pass>>
Dst(d) == <<Here(d)[1], job[d].pass + 1>>

(* Somebody else than the loop's own dream of it changes the collection c. *)
Touches(d, c) ==
    touched' = IF d = "loop" /\ c = Here(d) THEN touched ELSE touched \cup {c}

(* What replay writes back: every attractor, then, in coarser passes, one  *)
(* centroid for each cluster of them.                                      *)
Operands(d) ==
    LET m == mem[Here(d)]
    IN IF job[d].pass = 0 THEN {m}
       ELSE {grouped(m, P) : P \in Partitions(DOMAIN m)}

ReplaySnapshot(d) ==
    /\ Running(d, "replay")
    /\ IF mem[Here(d)] = <<>> \/ job[d].pass >= Passes
       THEN Goes(d, "flush")
       ELSE \E todo \in Operands(d) :
              job' = [job EXCEPT ![d].pc = "write", ![d].todo = todo]
    /\ UNCHANGED <<hives, history, ticking, names, spent>>

ReplayWrite(d) ==
    /\ Running(d, "write") /\ job[d].todo # <<>>
    /\ \E n \in written(Here(d), Head(job[d].todo)) : Becomes(Here(d), n)
    /\ job' = [job EXCEPT ![d].todo = Tail(@)]
    /\ Touches(d, Here(d))
    /\ UNCHANGED <<mode, exists, climbed, learned, ticking, names, spent>>

(* merge: the survivors are not stored.                                    *)
ReplayMerge(d) ==
    /\ Running(d, "write") /\ job[d].todo = <<>>
    /\ LET c == Here(d)
           m == mem[c]
       IN \E P \in Partitions(DOMAIN m) : \E survivor \in Survivors(m, P) :
            /\ mem' = [mem EXCEPT ![c] = grouped(m, P)]
            /\ disk' = [disk EXCEPT ![c] = surviving(@, P, survivor)]
            /\ exposed' = IF Cardinality(P) < Len(m) THEN exposed \cup {c}
                          ELSE exposed
    /\ job' = [job EXCEPT ![d].pc = "replay", ![d].pass = @ + 1]
    /\ Touches(d, Here(d))
    /\ UNCHANGED <<mode, hurt, exists, climbed, learned, ticking, names, spent>>

ReplayFlush_storing_nothing(d) ==
    /\ Running(d, "flush")
    /\ exposed' = exposed \ {Here(d)}
    /\ Goes(d, "done")
    /\ UNCHANGED <<mode, mem, disk, hurt, exists, history, ticking, names, spent>>

(* flush: every location is stored as it is in memory.                     *)
ReplayFlush(d) ==
    /\ Running(d, "flush")
    /\ disk' = [disk EXCEPT ![Here(d)] = mem[Here(d)]]
    /\ exposed' = exposed \ {Here(d)}
    /\ Goes(d, "done")
    /\ UNCHANGED <<mode, mem, hurt, exists, history, ticking, names, spent>>

(* The next rung of the ladder: no source, or nothing left to abstract,    *)
(* ends the climb.                                                         *)
Climbed(d) ==
    job[d].pass >= Passes \/ Src(d) \notin exists \/ Count(Src(d)) < 2

LadderRung(d) ==
    /\ Running(d, "rung")
    /\ IF Climbed(d)
       THEN /\ Goes(d, "done")
            /\ dreamt' = [dreamt EXCEPT ![Here(d)[1]] = job[d].read]
            /\ UNCHANGED exists
       ELSE /\ Goes(d, "source")
            /\ exists' = exists \cup {Dst(d)}
            /\ UNCHANGED dreamt
    /\ UNCHANGED <<mode, stored, fed, crossed, learned, touched, ticking, names, spent>>

(* consolidate_rung: the source is read, then the destination cleared ...  *)
RungSnapshot(d) ==
    /\ Running(d, "source")
    /\ job' = [job EXCEPT ![d].pc = "clear", ![d].todo = mem[Src(d)],
                  ![d].read = IF job[d].pass = 0 THEN mem[Src(d)] ELSE @]
    /\ UNCHANGED <<hives, history, ticking, names, spent>>

(* The dreamer d has cleared the first level of b and is still climbing.   *)
Climbing(d, b) ==
    /\ job[d].pc \in {"rung", "source", "clear", "law"} /\ Here(d)[1] = b
    /\ job[d].pass > 0 \/ job[d].pc = "law"

(* The histories of a first level begin anew when it is cleared.           *)
Refilled(d) ==
    LET b == Here(d)[1]
    IN IF job[d].pass > 0 THEN UNCHANGED climbed
       ELSE /\ fed' = [fed EXCEPT ![b] = <<>>]
            /\ dreamt' = [dreamt EXCEPT ![b] = <<>>]
            /\ crossed' = IF \E e \in Dreamer \ {d} : Climbing(e, b)
                          THEN crossed \cup {b} ELSE crossed \ {b}

RungClear_without_clearing(d) ==
    /\ Running(d, "clear")
    /\ dreamt' = [dreamt EXCEPT ![Here(d)[1]] = <<>>]
    /\ Goes(d, "law")
    /\ UNCHANGED <<hives, fed, crossed, learned, touched, ticking, names, spent>>

(* load_snapshot with no locations, in memory and store at once.           *)
RungClear(d) ==
    /\ Running(d, "clear")
    /\ mem' = [mem EXCEPT ![Dst(d)] = <<>>] /\ disk' = [disk EXCEPT ![Dst(d)] = <<>>]
    /\ exposed' = exposed \ {Dst(d)} /\ hurt' = hurt \ {Dst(d)}
    /\ Refilled(d)
    /\ Goes(d, "law") /\ Touches(d, Dst(d))
    /\ UNCHANGED <<mode, exists, learned, ticking, names, spent>>

(* ... and every law written into it through the gate.                     *)
RungWrite(d) ==
    /\ Running(d, "law") /\ job[d].todo # <<>>
    /\ LET law == Head(job[d].todo)
       IN /\ \E n \in written(Dst(d), law) : Becomes(Dst(d), n)
          /\ fed' = IF job[d].pass > 0 THEN fed
                    ELSE [fed EXCEPT ![Here(d)[1]] = Append(@, law)]
    /\ job' = [job EXCEPT ![d].todo = Tail(@)]
    /\ Touches(d, Dst(d))
    /\ UNCHANGED <<mode, exists, learned, dreamt, crossed, ticking, names, spent>>

RungDone(d) ==
    /\ Running(d, "law") /\ job[d].todo = <<>>
    /\ job' = [job EXCEPT ![d].pc = "rung", ![d].pass = @ + 1]
    /\ UNCHANGED <<hives, history, ticking, names, spent>>

(* Any transaction of a dream may fail; `?` then gives the dream up where  *)
(* it is, a rung half filled included.  A write, a merge or a load of what *)
(* it had already changed in memory rereads that collection.               *)
Transacting == {"replay", "write", "flush", "source", "clear", "law"}

Changing(d) ==
    {c \in Coll : \/ c = Here(d) /\ Running(d, "write")
                  \/ c = Dst(d) /\ job[d].pc \in {"clear", "law"}}

DreamFails(d) ==
    /\ job[d].pc \in Transacting
    /\ \E S \in {{}, Changing(d)} : /\ Rereads(S)
                                    /\ touched' = touched \cup S
    /\ Goes(d, "failed") /\ Trouble
    /\ UNCHANGED <<mode, exists, climbed, learned, ticking, names>>

Begun(d, c, m) ==
    job' = [job EXCEPT ![d] = [NoJob EXCEPT !.coll = c, !.mode = m,
                !.pc = IF m = "ladder" THEN "rung" ELSE "replay"]]

DreamSteps(d) ==
    \/ ReplaySnapshot(d) \/ ReplayWrite(d) \/ ReplayMerge(d) \/ ReplayFlush(d)
    \/ LadderRung(d) \/ RungSnapshot(d) \/ RungClear(d) \/ RungWrite(d)
    \/ RungDone(d)

-----------------------------------------------------------------------------
(* run_dream_loop                                                          *)

(* The sleep is over: how long the server has been idle is computed, and   *)
(* the databases listed, once for the tick.                                *)
LoopWakes ==
    /\ loop.pc = "asleep"
    /\ loop' = [loop EXCEPT !.pc = "databases", !.idle = quiet >= IdleTime,
                            !.dbs = Db]
    /\ UNCHANGED <<hives, history, quiet, last_dreamed, job, names, spent>>

LoopSleeps ==
    /\ loop.pc = "databases" /\ loop.dbs = {}
    /\ loop' = Asleep
    /\ UNCHANGED <<hives, history, quiet, last_dreamed, job, names, spent>>

Eligible(b) == {c \in exists : c[1] = b /\ (IsLevel(c) => mode[b] = "replay")}

(* The next database: its collections, unless it never opted in or the     *)
(* server was not idle; a ladder does not climb its own levels.            *)
LoopLists ==
    /\ loop.pc = "databases"
    /\ \E b \in loop.dbs :
         loop' = [loop EXCEPT !.pc = "collections", !.dbs = @ \ {b},
                     !.names = IF b \in Enabled /\ loop.idle
                               THEN Eligible(b) ELSE {}]
    /\ UNCHANGED <<hives, history, quiet, last_dreamed, job, names, spent>>

LoopListed ==
    /\ loop.pc = "collections" /\ loop.names = {}
    /\ loop' = [loop EXCEPT !.pc = "databases"]
    /\ UNCHANGED <<hives, history, quiet, last_dreamed, job, names, spent>>

Settled_once(c) == last_dreamed[c] # -1

(* The count is the one recorded: nothing new to consolidate.              *)
Settled(c) == last_dreamed[c] = Count(c)

LoopSkips ==
    /\ loop.pc = "collections"
    /\ \E c \in loop.names :
         /\ Settled(c)
         /\ loop' = [loop EXCEPT !.names = @ \ {c}]
    /\ UNCHANGED <<hives, history, quiet, last_dreamed, job, names, spent>>

LoopDreams ==
    /\ loop.pc = "collections"
    /\ \E c \in loop.names :
         /\ ~Settled(c)
         /\ loop' = [loop EXCEPT !.pc = "dreaming", !.names = @ \ {c},
                                 !.name = c, !.count = Count(c)]
         /\ Begun("loop", c, mode[c[1]])
         /\ touched' = touched \ {c}
    /\ UNCHANGED <<hives, climbed, learned, quiet, last_dreamed, names, spent>>

settled_before == loop.count

(* The count after the dream, whatever made it.                            *)
settled == Count(loop.name)

LoopSettles ==
    /\ loop.pc = "dreaming" /\ Running("loop", "done")
    /\ last_dreamed' = [last_dreamed EXCEPT ![loop.name] = settled]
    /\ loop' = [loop EXCEPT !.pc = "collections"]
    /\ job' = [job EXCEPT !["loop"] = NoJob]
    /\ UNCHANGED <<hives, history, quiet, names, spent>>

(* A failed dream is logged and leaves no count: the next tick retries.    *)
LoopWarns ==
    /\ loop.pc = "dreaming" /\ Running("loop", "failed")
    /\ loop' = [loop EXCEPT !.pc = "collections"]
    /\ touched' = touched \cup {loop.name}
    /\ job' = [job EXCEPT !["loop"] = NoJob]
    /\ UNCHANGED <<hives, climbed, learned, quiet, last_dreamed, names, spent>>

LoopSteps ==
    \/ LoopWakes \/ LoopSleeps \/ LoopLists \/ LoopListed \/ LoopSkips
    \/ LoopDreams \/ LoopSettles \/ LoopWarns \/ DreamSteps("loop")

-----------------------------------------------------------------------------
(* Requests.                                                               *)

(* stamp_activity: every request restarts the idle clock.                  *)
Stamps == quiet' = 0

(* A client writes to a base collection.                                   *)
ClientWrite(b) ==
    /\ Cardinality(learned[b]) < MaxItem
    /\ LET x == Cardinality(learned[b]) + 1
       IN /\ \E n \in written(Base(b), {x}) : Becomes(Base(b), n)
          /\ learned' = [learned EXCEPT ![b] = @ \cup {x}]
    /\ touched' = touched \cup {Base(b)}
    /\ Stamps
    /\ UNCHANGED <<mode, exists, climbed, loop, last_dreamed, job, names, spent>>

(* ... or fails to, which rereads the collection.                          *)
ClientWriteFails(b) ==
    /\ Rereads({Base(b)}) /\ Trouble
    /\ touched' = touched \cup {Base(b)}
    /\ Stamps
    /\ UNCHANGED <<mode, exists, climbed, learned, loop, last_dreamed, job, names>>

(* POST /db/{db}/dream, `mode` and the choice of collections overriding    *)
(* the configuration; the idle gate and `enabled` are bypassed.            *)
Trigger(b, m) ==
    /\ mode[b] \in Triggered
    /\ Running("trigger", "none") /\ names = {}
    /\ spent.trigger < MaxTrigger
    /\ spent' = [spent EXCEPT !.trigger = @ + 1]
    /\ \E N \in {{Base(b)}, {c \in exists : c[1] = b}} :
         names' = {c \in N : m = "ladder" => ~IsLevel(c)}
    /\ job' = [job EXCEPT !["trigger"].mode = m]
    /\ Stamps
    /\ UNCHANGED <<hives, history, loop, last_dreamed>>

(* dream_database: one collection after the other.                         *)
TriggerNext ==
    /\ Running("trigger", "none") \/ Running("trigger", "done")
    /\ \E c \in names : /\ Begun("trigger", c, job["trigger"].mode)
                        /\ names' = names \ {c}
    /\ UNCHANGED <<hives, history, ticking, spent>>

TriggerAnswers ==
    /\ \/ Running("trigger", "done") /\ names = {}
       \/ Running("trigger", "failed")
    /\ job' = [job EXCEPT !["trigger"] = NoJob]
    /\ names' = {}
    /\ UNCHANGED <<hives, history, ticking, spent>>

TriggerSteps == TriggerNext \/ TriggerAnswers \/ DreamSteps("trigger")

(* Time passes.                                                            *)
Idles ==
    /\ quiet < IdleTime
    /\ quiet' = quiet + 1
    /\ UNCHANGED <<hives, history, loop, last_dreamed, job, names, spent>>

(* The process dies and starts again: what the store has is kept, memory,  *)
(* the dreams and what the loop remembered are not.                        *)
Restart ==
    /\ Trouble
    /\ Rereads(Coll)
    /\ quiet' = 0 /\ loop' = Asleep
    /\ last_dreamed' = [c \in Coll |-> -1]
    /\ job' = [d \in Dreamer |-> NoJob] /\ names' = {}
    /\ touched' = Coll
    /\ UNCHANGED <<mode, exists, climbed, learned>>

Requests == \E b \in Db : ClientWrite(b) \/ ClientWriteFails(b)

Triggers == \E b \in Db, m \in Asked : Trigger(b, m)

Next ==
    \/ LoopSteps \/ TriggerSteps \/ Requests \/ Triggers \/ Idles \/ Restart
    \/ \E d \in Dreamer : DreamFails(d)

(* The clock runs, the loop is scheduled, and no call of a dream holds its *)
(* lock for ever.                                                          *)
Fairness == WF_vars(Idles) /\ WF_vars(LoopSteps) /\ WF_vars(TriggerSteps)

Spec == Init /\ [][Next]_vars /\ Fairness

-----------------------------------------------------------------------------
Jobs ==
    [pc : {"none", "replay", "write", "flush", "rung", "source", "clear", "law",
           "done", "failed"},
     coll : Coll, mode : {"replay", "ladder"}, pass : 0 .. Passes,
     todo : Seq(SUBSET Item), read : Seq(SUBSET Item)]

(* Every variable keeps to its type; no dream climbs above its last rung.  *)
TypeOK ==
    /\ mode \in [Db -> {"replay", "ladder"}]
    /\ mem \in [Coll -> Seq(SUBSET Item)] /\ disk \in [Coll -> Seq(SUBSET Item)]
    /\ \A c \in Coll : Count(c) <= MaxLoc /\ Len(disk[c]) = Count(c)
    /\ exists \in SUBSET Coll
    /\ exposed \in SUBSET Coll /\ hurt \in SUBSET Coll /\ crossed \in SUBSET Db
    /\ fed \in [Db -> Seq(SUBSET Item)] /\ dreamt \in [Db -> Seq(SUBSET Item)]
    /\ learned \in [Db -> SUBSET Item]
    /\ touched \in SUBSET Coll
    /\ quiet \in 0 .. IdleTime
    /\ loop \in [pc : {"asleep", "databases", "collections", "dreaming"},
                 idle : BOOLEAN, dbs : SUBSET Db, names : SUBSET Coll,
                 name : Coll, count : 0 .. MaxLoc]
    /\ last_dreamed \in [Coll -> -1 .. MaxLoc]
    /\ job \in [Dreamer -> Jobs]
    /\ names \in SUBSET Coll
    /\ spent \in [trouble : 0 .. MaxTrouble, trigger : 0 .. MaxTrigger]

(* No dream, failed, interrupted or interleaved with writes, costs a base  *)
(* collection anything it acknowledged ("replay + merge must not lose the  *)
(* attractors").  Between a merge and the flush it does.                   *)
AttractorsAreKept == \A b \in Db : learned[b] \subseteq Items(mem[Base(b)])

(* That is the only time it does: unless its memory was reread between a   *)
(* merge and the flush, a base holds all it acknowledged, and has it in    *)
(* the store as well once no merge awaits its flush.                       *)
FlushedIsKept ==
    \A b \in Db : Base(b) \notin hurt =>
        /\ learned[b] \subseteq Items(mem[Base(b)])
        /\ Base(b) \notin exposed => learned[b] \subseteq Items(disk[Base(b)])

(* After a ladder that ended well, its first level was given the law of    *)
(* every episode the dream read, once and in order, and holds them all,    *)
(* whatever dreams failed half way up before: unless two ladders filled    *)
(* that level at once, or it was reread between a merge and the flush.     *)
RungIsExact ==
    \A b \in Db : (dreamt[b] # <<>> /\ b \notin crossed /\ <<b, 1>> \notin hurt) =>
        /\ fed[b] = dreamt[b]
        /\ Items(dreamt[b]) \subseteq Items(mem[<<b, 1>>])

(* Once nobody fills it any more, what a level was given since it was      *)
(* cleared is one dream's reading of its source ("`dst` is cleared first").*)
(* It is not when two ladders filled it side by side.                      *)
LevelIsOneReading ==
    \A b \in Db :
        (dreamt[b] # <<>> /\ \A d \in Dreamer : ~Climbing(d, b)) =>
            fed[b] = dreamt[b]

(* The loop dreams a collection again only after something other than its  *)
(* own dream has changed it ("a quiescent collection is dreamed once, not  *)
(* every tick").                                                           *)
QuiescentIsLeftAlone ==
    [][\A c \in Coll : (loop.pc = "collections" /\ loop'.pc = "dreaming"
                            /\ loop'.name = c) => c \in touched]_vars

(* A collection whose count is not the one recorded for it is dreamed in   *)
(* the end, failed dreams, restarts and busy periods notwithstanding:      *)
(* again and again the count is the recorded one.                          *)
Changed(c) == c[1] \in Enabled /\ c \in Eligible(c[1])
              /\ last_dreamed[c] # Count(c)

ChangeIsDreamed == \A c \in Coll : []<>~Changed(c)

=============================================================================
