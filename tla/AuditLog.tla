------------------------------ MODULE AuditLog ------------------------------
(***************************************************************************)
(* The access log of a database.  A request that ends records an event:    *)
(* it takes a sequence number, then the time, then the buffer's mutex, and *)
(* pushes; nothing of that touches LMDB.  A flush takes the whole buffer   *)
(* under the mutex and writes it in one LMDB transaction afterwards, which *)
(* also prunes.  Flushes are made by the server's periodic loop, by tasks  *)
(* spawned when the buffer reaches its threshold, by audit queries and by  *)
(* a graceful shutdown; any number of them may be between taking a batch   *)
(* and committing it.                                                      *)
(*                                                                         *)
(* Data abstraction.  An event is a number; a row is the event under its   *)
(* key <<time, sequence number>>.  The clock never goes back.  Which       *)
(* periodic ticks are due is nondeterministic.                             *)
(***************************************************************************)
EXTENDS Integers, FiniteSets

CONSTANTS
    Request,         \* requests that record an event
    Task,            \* bound: threshold flushes at a time
    Loop, Reader, Main,  \* the periodic flush, an audit query, the shutdown
    MaxEntries,      \* audit.max_entries
    Retention,       \* audit.retention_days; 0: no age bound
    FlushThreshold,  \* audit.flush_threshold
    MaxBuffer,       \* audit.max_buffer
    MaxEvent,        \* bound: events recorded in a behaviour
    MaxClock         \* bound: the clock

ASSUME AuditAssumption ==
    /\ Main \notin Task \cup {Loop, Reader}
    /\ MaxEntries \in Nat /\ Retention \in Nat
    /\ FlushThreshold \in Nat /\ MaxBuffer \in Nat
    /\ MaxEvent \in Nat /\ MaxClock \in Nat

Event   == 1 .. MaxEvent
Seq0    == 0 .. MaxEvent
Time    == 0 .. MaxClock
Flusher == Task \cup {Loop, Reader, Main}

Record == [seq : Seq0, ts : Time, event : Event]

VARIABLES
    clock,    \* now_ms()
    phase,    \* of the process: "up", "stopping" or "down"
    rows,     \* LMDB: the _audit rows
    seq,      \* the sequence counter
    buffer,   \* the staged records
    request,  \* what each request has done of record()
    flush,    \* what each flusher is doing
    events,   \* how many events requests have recorded
    staged,   \* history: events whose record() pushed
    excused,  \* history: staged events pruned, or lost with a killed process
    lost      \* history: staged events lost with a transaction that failed

vars == <<clock, phase, rows, seq, buffer, request, flush, events, staged,
          excused, lost>>

Idle == [pc |-> "idle", seq |-> 0, ts |-> 0]
Requests == [pc : {"idle", "numbered", "stamped"}, seq : Seq0, ts : Time]

Resting == [pc |-> "resting", batch |-> {}]
Flushes == [pc : {"resting", "due", "writing"}, batch : SUBSET Record]

Init ==
    /\ clock = 0
    /\ phase = "down"
    /\ rows = {}
    /\ seq = 0
    /\ buffer = {}
    /\ request = [r \in Request |-> Idle]
    /\ flush = [f \in Flusher |-> Resting]
    /\ events = 0
    /\ staged = {}
    /\ excused = {}
    /\ lost = {}

-----------------------------------------------------------------------------
EventsOf(R) == {r.event : r \in R}

(* [timestamp | seq], compared as the keys' bytes are.                     *)
Before(r, s) == r.ts < s.ts \/ (r.ts = s.ts /\ r.seq < s.seq)

SameKey(r, s) == r.ts = s.ts /\ r.seq = s.seq

Newer(r, R) == {s \in R : Before(r, s)}

last_audit_seq(R) == (CHOOSE r \in R : Newer(r, R) = {}).seq

next_seq_zero(R) == 0

(* AuditLog::open resumes after the sequence number of the last key.       *)
next_seq(R) == IF R = {} THEN 0 ELSE last_audit_seq(R) + 1

(* append_audit: a put, which replaces what is under the same key.         *)
append(R, batch) ==
    {r \in R : \A s \in batch : ~SameKey(r, s)} \cup batch

(* The age bound, 0 while there is none; saturating.                       *)
min_ts == IF Retention = 0 \/ clock < Retention THEN 0 ELSE clock - Retention

(* The newest max_entries of the rows, and of those the ones not too old.  *)
prune_audit(R, max_entries, cutoff) ==
    {r \in R : Cardinality(Newer(r, R)) < max_entries /\ r.ts >= cutoff}

(* These events are gone, and the documentation says why.                  *)
Excuse(E) == excused' = excused \cup E

-----------------------------------------------------------------------------
(* The process.                                                            *)

Open ==
    /\ phase = "down"
    /\ phase' = "up"
    /\ seq' = next_seq(rows)
    /\ UNCHANGED <<clock, rows, buffer, request, flush, events, staged,
                   excused, lost>>

InFlight == UNION {flush[f].batch : f \in Flusher}

Cleared ==
    /\ buffer' = {}
    /\ request' = [r \in Request |-> Idle]
    /\ flush' = [f \in Flusher |-> Resting]
    /\ seq' = 0

(* A hard kill.                                                            *)
Kill ==
    /\ phase # "down"
    /\ phase' = "down"
    /\ Cleared
    /\ Excuse(EventsOf(buffer \cup InFlight))
    /\ UNCHANGED <<clock, rows, events, staged, lost>>

(* The server stops accepting, its requests end, and main flushes.         *)
ShutdownBegins ==
    /\ phase = "up"
    /\ \A r \in Request : request[r] = Idle
    /\ flush[Reader] = Resting
    /\ phase' = "stopping"
    /\ flush' = [flush EXCEPT ![Main].pc = "due"]
    /\ UNCHANGED <<clock, rows, seq, buffer, request, events, staged,
                   excused, lost>>

ShutdownEnds_with_main ==
    /\ phase = "stopping"
    /\ flush[Main] = Resting
    /\ phase' = "down"
    /\ Cleared
    /\ UNCHANGED <<clock, rows, events, staged, excused, lost>>

(* main has flushed; the runtime waits for the flushes that are running,   *)
(* and drops those that have not begun.                                    *)
ShutdownEnds ==
    /\ phase = "stopping"
    /\ flush[Main] = Resting
    /\ \A f \in Flusher : flush[f].pc # "writing"
    /\ phase' = "down"
    /\ Cleared
    /\ UNCHANGED <<clock, rows, events, staged, excused, lost>>

Tick ==
    /\ clock < MaxClock
    /\ clock' = clock + 1
    /\ UNCHANGED <<phase, rows, seq, buffer, request, flush, events, staged,
                   excused, lost>>

-----------------------------------------------------------------------------
(* record()                                                                *)

Number(r) ==
    /\ phase = "up"
    /\ request[r].pc = "idle"
    /\ events < MaxEvent /\ seq < MaxEvent
    /\ seq' = seq + 1
    /\ request' = [request EXCEPT ![r] = [pc |-> "numbered", seq |-> seq,
                                          ts |-> 0]]
    /\ UNCHANGED <<clock, phase, rows, buffer, flush, events, staged,
                   excused, lost>>

Stamp(r) ==
    /\ request[r].pc = "numbered"
    /\ request' = [request EXCEPT ![r].pc = "stamped", ![r].ts = clock]
    /\ UNCHANGED <<clock, phase, rows, seq, buffer, flush, events, staged,
                   excused, lost>>

has_room == Cardinality(buffer) < MaxBuffer

(* At the threshold, and at the cap, the caller spawns a flush.            *)
Spawned ==
    IF ~has_room \/ Cardinality(buffer') >= FlushThreshold
    THEN \E t \in Task : /\ flush[t] = Resting
                         /\ flush' = [flush EXCEPT ![t].pc = "due"]
    ELSE UNCHANGED flush

Push(r) ==
    /\ request[r].pc = "stamped"
    /\ events < MaxEvent
    /\ events' = events + 1
    /\ IF has_room
       THEN /\ buffer' = buffer \cup {[seq |-> request[r].seq,
                                       ts |-> request[r].ts,
                                       event |-> events + 1]}
            /\ staged' = staged \cup {events + 1}
       ELSE UNCHANGED <<buffer, staged>>
    /\ Spawned
    /\ request' = [request EXCEPT ![r] = Idle]
    /\ UNCHANGED <<clock, phase, rows, seq, excused, lost>>

-----------------------------------------------------------------------------
(* flush()                                                                 *)

Rest(f) == flush' = [flush EXCEPT ![f] = Resting]

Take_copying(f) ==
    /\ flush[f].pc = "due"
    /\ buffer # {}
    /\ flush' = [flush EXCEPT ![f] = [pc |-> "writing", batch |-> buffer]]
    /\ UNCHANGED <<clock, phase, rows, seq, buffer, request, events, staged,
                   excused, lost>>

(* The whole buffer leaves the mutex.                                      *)
Take(f) ==
    /\ flush[f].pc = "due"
    /\ buffer # {}
    /\ buffer' = {}
    /\ flush' = [flush EXCEPT ![f] = [pc |-> "writing", batch |-> buffer]]
    /\ UNCHANGED <<clock, phase, rows, seq, request, events, staged, excused,
                   lost>>

(* Nothing staged: only prune, if the transaction does not fail.           *)
TakeNothing(f) ==
    /\ flush[f].pc = "due"
    /\ buffer = {}
    /\ \/ /\ rows' = prune_audit(rows, MaxEntries, min_ts)
          /\ Excuse(EventsOf(rows \ rows'))
       \/ UNCHANGED <<rows, excused>>
    /\ Rest(f)
    /\ UNCHANGED <<clock, phase, seq, buffer, request, events, staged, lost>>

(* The batch is written and the log pruned, in one transaction.            *)
Commit(f) ==
    /\ flush[f].pc = "writing"
    /\ LET all == append(rows, flush[f].batch)
       IN /\ rows' = prune_audit(all, MaxEntries, min_ts)
          /\ Excuse(EventsOf(all \ rows'))
    /\ Rest(f)
    /\ UNCHANGED <<clock, phase, seq, buffer, request, events, staged, lost>>

(* The transaction fails: the batch, taken out of the buffer, is gone.     *)
CommitFails(f) ==
    /\ flush[f].pc = "writing"
    /\ lost' = lost \cup EventsOf(flush[f].batch)
    /\ Rest(f)
    /\ UNCHANGED <<clock, phase, rows, seq, buffer, request, events, staged,
                   excused>>

tick_due_at_threshold == Cardinality(buffer) >= FlushThreshold

(* run_flush_loop passes over a database with nothing staged.              *)
tick_due == buffer # {}

LoopTick ==
    /\ phase # "down"
    /\ flush[Loop] = Resting
    /\ tick_due
    /\ flush' = [flush EXCEPT ![Loop].pc = "due"]
    /\ UNCHANGED <<clock, phase, rows, seq, buffer, request, events, staged,
                   excused, lost>>

(* query_audit flushes first.                                              *)
QueryBegins ==
    /\ phase = "up"
    /\ flush[Reader] = Resting
    /\ flush' = [flush EXCEPT ![Reader].pc = "due"]
    /\ UNCHANGED <<clock, phase, rows, seq, buffer, request, events, staged,
                   excused, lost>>

(* prune_audit_before: an age bound of the operator's choice.              *)
PruneBefore(cutoff) ==
    /\ phase = "up"
    /\ rows' = {r \in rows : r.ts >= cutoff}
    /\ Excuse(EventsOf(rows \ rows'))
    /\ UNCHANGED <<clock, phase, seq, buffer, request, flush, events, staged,
                   lost>>

-----------------------------------------------------------------------------
Recording(r) == Number(r) \/ Stamp(r) \/ Push(r)

Flushing(f) == Take(f) \/ TakeNothing(f) \/ Commit(f) \/ CommitFails(f)

Stopping == Kill \/ ShutdownBegins \/ ShutdownEnds

Serving ==
    \/ Open \/ Tick \/ LoopTick
    \/ \E r \in Request : Recording(r)
    \/ \E f \in Flusher : Flushing(f)

Next ==
    \/ Serving \/ Stopping \/ QueryBegins
    \/ \E cutoff \in Time : PruneBefore(cutoff)

(* What the server's runtime keeps doing: the loop wakes every second, a   *)
(* flush that was started goes on.                                         *)
Fairness ==
    /\ WF_vars(LoopTick)
    /\ \A f \in Flusher : WF_vars(Flushing(f))

Spec == Init /\ [][Next]_vars /\ Fairness

-----------------------------------------------------------------------------
TypeOK ==
    /\ clock \in Time
    /\ phase \in {"up", "stopping", "down"}
    /\ rows \subseteq Record
    /\ seq \in 0 .. MaxEvent + 1
    /\ buffer \subseteq Record /\ Cardinality(buffer) <= MaxBuffer
    /\ request \in [Request -> Requests]
    /\ flush \in [Flusher -> Flushes]
    /\ events \in 0 .. MaxEvent
    /\ staged \subseteq Event /\ excused \subseteq staged
    /\ lost \subseteq staged

(* Every event that was staged is in the buffer, in a batch a flush has    *)
(* taken, or in the log, unless it was pruned or went with a killed        *)
(* process: the losses the module's own account of itself accepts (an      *)
(* unclean shutdown; what the max_buffer cap drops was never staged).      *)
LosesOnlyToKills ==
    staged \subseteq EventsOf(buffer \cup InFlight \cup rows) \cup excused

(* The same, of the events that no failed transaction took along: however  *)
(* many flushes run at a time, and though a graceful shutdown empties the  *)
(* memory of the process, nothing else is left behind.                     *)
Accounted ==
    staged \ lost \subseteq EventsOf(buffer \cup InFlight \cup rows) \cup excused

(* However many flushes run at a time, no event is in two of these places, *)
(* nor twice in the log.                                                   *)
RecordedOnce ==
    /\ EventsOf(buffer) \cap EventsOf(rows) = {}
    /\ EventsOf(InFlight) \cap EventsOf(buffer \cup rows) = {}
    /\ \A f, g \in Flusher : f # g =>
         EventsOf(flush[f].batch) \cap EventsOf(flush[g].batch) = {}
    /\ \A r, s \in rows : r.event = s.event => r = s

(* A row leaves the log by its age or to make room, oldest first, never    *)
(* because another row took its key, whatever restarts there were          *)
(* ("resuming the sequence counter ... so restarts don't reuse keys").     *)
LeavesOldestFirst ==
    \A r \in rows \ rows' : \A s \in rows' : Before(r, s)

RowsLeaveByRetention == [][LeavesOldestFirst]_vars

(* A staged event reaches the log, unless its process is killed or the     *)
(* transaction of its batch fails first: the periodic loop flushes what    *)
(* the threshold does not.                                                 *)
StagedIsStored ==
    \A e \in Event : (e \in staged) ~> (e \in EventsOf(rows) \cup excused \cup lost)

=============================================================================
