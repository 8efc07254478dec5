---------------------------- MODULE AuditLogProofs ----------------------------
(***************************************************************************)
(* Theorems about AuditLog and their proofs.                               *)
(***************************************************************************)
EXTENDS AuditLog, FiniteSetTheorems, TLAPS

-----------------------------------------------------------------------------
(* The inductive invariant.                                                *)

(* The records in memory.                                                  *)
Held == buffer \cup InFlight

(* The events that are no longer anywhere, and why.                        *)
Gone == excused \cup lost

(* A process that has ended keeps nothing in memory.                       *)
Quiet ==
    phase = "down" =>
        /\ buffer = {}
        /\ \A r \in Request : request[r] = Idle
        /\ \A f \in Flusher : flush[f] = Resting

(* A flush holds a batch only between taking and committing it; no record  *)
(* is in two places.                                                       *)
PlacesApart ==
    \A f \in Flusher :
        /\ flush[f].pc # "writing" => flush[f].batch = {}
        /\ buffer \cap flush[f].batch = {}
        /\ \A g \in Flusher : f # g => flush[f].batch \cap flush[g].batch = {}

(* main flushes in a graceful shutdown only; then nothing is recorded any  *)
(* more, and what is staged is there for it to flush.                      *)
LastFlush ==
    /\ phase = "up" => flush[Main] = Resting
    /\ phase = "stopping" =>
         /\ \A r \in Request : request[r] = Idle
         /\ flush[Main].pc = "due" \/ buffer = {}

(* A sequence number is given once while the process runs.                 *)
Numbered(r) == request[r].pc # "idle"

NumbersInUse ==
    /\ \A x \in Held : x.seq < seq
    /\ \A x, y \in Held : x.seq = y.seq => x = y
    /\ \A r \in Request : Numbered(r) =>
         /\ request[r].seq < seq
         /\ \A x \in Held : x.seq # request[r].seq
         /\ \A q \in Request : (Numbered(q) /\ request[q].seq = request[r].seq) => q = r

(* No key a row has will be given again: a row that an earlier run left    *)
(* with a number not given yet is older than now.                          *)
KeysFree ==
    /\ \A x \in Held \cup rows : x.ts <= clock
    /\ \A s \in rows :
         /\ (phase # "down" /\ s.seq >= seq) => s.ts < clock
         /\ \A x \in Held : ~SameKey(x, s)
         /\ \A r \in Request :
              (Numbered(r) /\ request[r].seq = s.seq) =>
                  IF request[r].pc = "numbered" THEN s.ts < clock ELSE s.ts # request[r].ts
    /\ \A r \in Request : request[r].ts <= clock

(* Every record stands for an event of its own.                            *)
EventsOnce ==
    /\ staged \subseteq 1 .. events
    /\ \A x \in Held \cup rows : x.event \in staged
    /\ \A x, y \in Held : x.event = y.event => x = y
    /\ \A x, y \in rows : x.event = y.event => x = y
    /\ \A x \in Held, y \in rows : x.event # y.event

AuditInv ==
    /\ TypeOK /\ Quiet /\ PlacesApart /\ LastFlush /\ NumbersInUse /\ KeysFree
    /\ EventsOnce /\ Accounted

-----------------------------------------------------------------------------
(* The operators.                                                          *)

LEMMA RecordsAreFinite == \A R \in SUBSET Record : IsFiniteSet(R)
<1>1. IsFiniteSet(Seq0) /\ IsFiniteSet(Time) /\ IsFiniteSet(Event)
  BY AuditAssumption, FS_Interval DEF Seq0, Time, Event
<1> DEFINE Triples == Seq0 \X (Time \X Event)
           f == [t \in Triples |-> [seq |-> t[1], ts |-> t[2][1], event |-> t[2][2]]]
<1>2. IsFiniteSet(Triples)
  <2>1. IsFiniteSet(Time \X Event)
    BY <1>1, FS_Product
  <2> QED
    BY <1>1, <2>1, FS_Product
<1>3. f \in Surjection(Triples, Record)
  <2>1. f \in [Triples -> Record]
    BY DEF Record
  <2>2. ASSUME NEW x \in Record PROVE \E t \in Triples : f[t] = x
    <3>1. <<x.seq, <<x.ts, x.event>>>> \in Triples
      BY DEF Record
    <3>2. f[<<x.seq, <<x.ts, x.event>>>>] = x
      BY <3>1 DEF Record
    <3> QED
      BY <3>1, <3>2
  <2> QED
    BY <2>1, <2>2 DEF Surjection
<1>4. IsFiniteSet(Record)
  BY <1>2, <1>3, FS_Surjection
<1> QED
  BY <1>4, FS_Subset

LEMMA RecordFields ==
    \A r \in Record : /\ r.seq \in Nat /\ r.ts \in Nat /\ r.event \in Nat
                      /\ r.seq \in Seq0 /\ r.ts \in Time /\ r.event \in Event
BY AuditAssumption DEF Record, Seq0, Time, Event

(* The keys are in a total order.                                          *)
LEMMA KeysOrdered ==
    ASSUME NEW r \in Record, NEW s \in Record, NEW t \in Record
    PROVE  /\ ~Before(r, r)
           /\ Before(r, s) \/ SameKey(r, s) \/ Before(s, r)
           /\ Before(r, s) /\ Before(s, t) => Before(r, t)
           /\ SameKey(r, s) /\ Before(s, t) => Before(r, t)
BY RecordFields DEF Before, SameKey

(* What comes after a row is part of what comes after the ones before it.  *)
LEMMA NewerGrows ==
    ASSUME NEW R \in SUBSET Record, NEW r \in Record, NEW s \in Record, ~Before(r, s)
    PROVE  Newer(r, R) \subseteq Newer(s, R)
<1> SUFFICES ASSUME NEW t \in R, Before(r, t) PROVE Before(s, t)
  BY DEF Newer
<1>1. Before(s, r) \/ SameKey(s, r)
  BY KeysOrdered DEF SameKey
<1> QED
  BY <1>1, KeysOrdered

(* There is a last key.                                                    *)
LEMMA LastExists ==
    ASSUME NEW R \in SUBSET Record, R # {}
    PROVE  \E r \in R : Newer(r, R) = {}
<1> DEFINE Newers == {Newer(r, R) : r \in R}
<1>1. IsFiniteSet(R)
  BY RecordsAreFinite
<1>2. Newers \subseteq FiniteSubsetsOf(R) /\ Newers # {}
  <2>1. \A r \in R : Newer(r, R) \in SUBSET R /\ IsFiniteSet(Newer(r, R))
    BY <1>1, FS_Subset DEF Newer
  <2> QED
    BY <2>1 DEF FiniteSubsetsOf
<1>3. PICK N \in Newers : \A M \in Newers : <<M, N>> \notin StrictSubsetOrdering(R)
  <2>1. IsWellFoundedOn(StrictSubsetOrdering(R), FiniteSubsetsOf(R))
    BY FS_StrictSubsetOrderingWellFounded
  <2> HIDE DEF Newers
  <2> QED
    BY <1>2, <2>1, WFMin
<1>4. PICK r \in R : N = Newer(r, R)
  BY <1>3
<1>5. ASSUME NEW s \in Newer(r, R) PROVE FALSE
  <2>1. s \in R /\ Before(r, s) /\ s \notin Newer(s, R)
    BY KeysOrdered DEF Newer
  <2>2. Newer(s, R) \subseteq Newer(r, R)
    BY <2>1, KeysOrdered DEF Newer
  <2>3. Newer(s, R) \in Newers
    BY <2>1
  <2>4. <<Newer(s, R), N>> \in StrictSubsetOrdering(R)
    BY <1>4, <1>5, <2>1, <2>2 DEF StrictSubsetOrdering, Newer
  <2> QED
    BY <1>3, <2>3, <2>4
<1> QED
  BY <1>4, <1>5

(* AuditLog::open resumes behind every row at the time of the last one.    *)
LEMMA NextSeqIsFree ==
    ASSUME NEW R \in SUBSET Record, NEW s \in R
    PROVE  /\ next_seq(R) \in 0 .. MaxEvent + 1
           /\ s.seq >= next_seq(R) => \E r \in R : s.ts < r.ts
<1> DEFINE r == CHOOSE r \in R : Newer(r, R) = {}
<1>1. r \in R /\ Newer(r, R) = {}
  BY LastExists
<1>2. next_seq(R) = r.seq + 1
  BY DEF next_seq, last_audit_seq
<1> HIDE DEF r
<1>3. ~Before(r, s)
  BY <1>1 DEF Newer
<1>4. r.seq \in 0 .. MaxEvent /\ r.seq \in Nat /\ s.seq \in Nat /\ r.ts \in Nat /\ s.ts \in Nat
  BY <1>1, RecordFields DEF Seq0
<1>5. next_seq(R) \in 0 .. MaxEvent + 1
  BY <1>2, <1>4, AuditAssumption
<1>6. s.seq >= next_seq(R) => s.ts < r.ts
  BY <1>2, <1>3, <1>4 DEF Before
<1> QED
  BY <1>1, <1>5, <1>6

(* append_audit keeps every row unless a key is used again.                *)
LEMMA AppendKeeps ==
    ASSUME NEW R, NEW batch, \A r \in R : \A s \in batch : ~SameKey(r, s)
    PROVE  append(R, batch) = R \cup batch
BY DEF append

(* Pruning takes the oldest rows.                                          *)
LEMMA PruneTakesOldest ==
    ASSUME NEW R \in SUBSET Record, NEW n \in Nat, NEW cutoff \in Nat
    PROVE  /\ prune_audit(R, n, cutoff) \subseteq R
           /\ \A r \in R \ prune_audit(R, n, cutoff) : \A s \in prune_audit(R, n, cutoff) :
                Before(r, s)
<1> DEFINE kept == prune_audit(R, n, cutoff)
<1>1. kept \subseteq R
  BY DEF prune_audit
<1>2. ASSUME NEW r \in R \ kept, NEW s \in kept, ~Before(r, s) PROVE FALSE
  <2>1. s \in R /\ Cardinality(Newer(s, R)) < n /\ s.ts >= cutoff
    BY DEF prune_audit
  <2>2. r.ts >= s.ts
    BY <1>2, <2>1, RecordFields DEF Before
  <2>3. r.ts >= cutoff
    BY <2>1, <2>2, RecordFields
  <2>4. Newer(r, R) \subseteq Newer(s, R)
    BY <1>2, <2>1, NewerGrows
  <2>5. IsFiniteSet(Newer(r, R)) /\ IsFiniteSet(Newer(s, R))
    BY RecordsAreFinite DEF Newer
  <2>6. Cardinality(Newer(r, R)) \in Nat /\ Cardinality(Newer(s, R)) \in Nat
    BY <2>5, FS_CardinalityType
  <2>7. Cardinality(Newer(r, R)) <= Cardinality(Newer(s, R))
    BY <2>4, <2>5, FS_Subset
  <2>8. Cardinality(Newer(r, R)) < n
    BY <2>1, <2>6, <2>7
  <2> QED
    BY <2>3, <2>8 DEF prune_audit
<1> QED
  BY <1>1, <1>2

-----------------------------------------------------------------------------
(* Types.                                                                  *)

LEMMA StatesMade ==
    /\ Idle \in Requests
    /\ Resting \in Flushes
    /\ \A n \in Seq0, t \in Time : [pc |-> "numbered", seq |-> n, ts |-> t] \in Requests
BY AuditAssumption DEF Idle, Requests, Resting, Flushes, Seq0, Time

LEMMA InitTyped == Init => TypeOK
<1> SUFFICES ASSUME Init PROVE TypeOK
  OBVIOUS
<1>1. Cardinality(buffer) <= MaxBuffer
  BY FS_EmptySet, AuditAssumption DEF Init
<1> QED
  BY <1>1, StatesMade, AuditAssumption DEF Init, TypeOK, Time

(* What is true of the records whatever the step does with the flushes.    *)
LEMMA RestTyped ==
    ASSUME TypeOK, NEW f \in Flusher, Rest(f)
    PROVE  flush' \in [Flusher -> Flushes]
BY StatesMade DEF TypeOK, Rest

LEMMA MarkTyped ==
    ASSUME TypeOK, NEW f \in Flusher, flush' = [flush EXCEPT ![f].pc = "due"]
    PROVE  /\ flush' \in [Flusher -> Flushes]
           /\ flush'[f].pc = "due"
           /\ \A g \in Flusher : /\ flush'[g].batch = flush[g].batch
                                 /\ g # f => flush'[g] = flush[g]
BY DEF TypeOK, Flushes

LEMMA SpawnedMarks ==
    ASSUME TypeOK, Spawned
    PROVE  /\ flush' \in [Flusher -> Flushes]
           /\ \A g \in Flusher :
                /\ flush'[g].batch = flush[g].batch
                /\ flush'[g] = flush[g] \/ (flush[g] = Resting /\ flush'[g].pc = "due")
<1>1. CASE UNCHANGED flush
  BY <1>1 DEF TypeOK
<1>2. CASE \E t \in Task : flush[t] = Resting /\ flush' = [flush EXCEPT ![t].pc = "due"]
  <2>1. PICK t \in Task : flush[t] = Resting /\ flush' = [flush EXCEPT ![t].pc = "due"]
    BY <1>2
  <2>2. t \in Flusher
    BY DEF Flusher
  <2> QED
    BY <2>1, <2>2, MarkTyped
<1> QED
  BY <1>1, <1>2 DEF Spawned

LEMMA SpawnedMain ==
    ASSUME TypeOK, Spawned
    PROVE  flush'[Main] = flush[Main]
BY AuditAssumption DEF Spawned, TypeOK, Flusher

(* What the flushes that push nothing do to the rows.                      *)
LEMMA PrunedTyped ==
    ASSUME TypeOK, NEW R \in SUBSET Record, rows' = prune_audit(R, MaxEntries, min_ts)
    PROVE  rows' \subseteq R /\ \A r \in R \ rows' : \A s \in rows' : Before(r, s)
<1>1. min_ts \in Nat
  BY AuditAssumption DEF min_ts, TypeOK, Time
<1> QED
  BY <1>1, PruneTakesOldest, AuditAssumption

(* The log with the batch in it: no key of the batch is in use.            *)
LEMMA Appended ==
    ASSUME AuditInv, NEW f \in Flusher
    PROVE  /\ append(rows, flush[f].batch) = rows \cup flush[f].batch
           /\ rows \cup flush[f].batch \in SUBSET Record
<1>1. \A x \in flush[f].batch : x \in Held
  BY DEF Held, InFlight
<1>2. \A r \in rows : \A s \in flush[f].batch : ~SameKey(r, s)
  BY <1>1 DEF AuditInv, KeysFree, SameKey
<1>3. flush[f].batch \subseteq Record
  BY DEF AuditInv, TypeOK, Flushes
<1> QED
  BY <1>2, <1>3, AppendKeeps DEF AuditInv, TypeOK

LEMMA InPlaces ==
    /\ \A x : x \in Held <=> x \in buffer \/ \E f \in Flusher : x \in flush[f].batch
    /\ (\A x : x \in Held <=> x \in buffer \/ \E f \in Flusher : x \in flush[f].batch)'
BY DEF Held, InFlight

(* Accounted, record by record.                                            *)
LEMMA AccountedRecords ==
    /\ Accounted <=> \A e \in staged : e \in Gone \/ \E x \in Held \cup rows : x.event = e
    /\ (Accounted <=> \A e \in staged : e \in Gone \/ \E x \in Held \cup rows : x.event = e)'
BY DEF Accounted, EventsOf, Held, Gone

LEMMA ExcusedTyped ==
    ASSUME AuditInv, NEW R \in SUBSET (Held \cup rows)
    PROVE  EventsOf(R) \subseteq staged
BY DEF AuditInv, EventsOnce, EventsOf

(* What a flush does: it moves its batch to the log, or loses it, and      *)
(* prunes.                                                                 *)
LEMMA WritingDoes ==
    ASSUME AuditInv, NEW f \in Flusher, Commit(f) \/ CommitFails(f)
    PROVE  /\ Held' \subseteq Held /\ Held \subseteq Held' \cup flush[f].batch
           /\ Held' \cap flush[f].batch = {}
           /\ rows' \subseteq rows \cup flush[f].batch
           /\ \A r \in rows \ rows' : \A s \in rows' : Before(r, s)
           /\ Gone \subseteq Gone' /\ Gone' \subseteq staged
           /\ \A x \in (rows \cup flush[f].batch) \ rows' : x.event \in Gone'
<1>1. UNCHANGED buffer /\ flush' = [flush EXCEPT ![f] = Resting] /\ flush \in [Flusher -> Flushes]
  BY DEF Commit, CommitFails, Rest, AuditInv, TypeOK, Gone
<1>2. \A x : x \in Held' <=> x \in buffer \/ \E g \in Flusher \ {f} : x \in flush[g].batch
  BY <1>1, InPlaces DEF Resting
<1>3. /\ Held' \subseteq Held /\ Held \subseteq Held' \cup flush[f].batch
      /\ Held' \cap flush[f].batch = {}
  BY <1>2, InPlaces DEF AuditInv, PlacesApart
<1>4. flush[f].batch \subseteq Held
  BY InPlaces
<1>5. CASE Commit(f)
  <2> DEFINE all == rows \cup flush[f].batch
  <2>1. rows' = prune_audit(all, MaxEntries, min_ts) /\ Gone' = Gone \cup EventsOf(all \ rows')
    BY <1>5, Appended DEF Commit, Excuse, Gone
  <2>2. rows' \subseteq all /\ \A r \in all \ rows' : \A s \in rows' : Before(r, s)
    BY <2>1, Appended, PrunedTyped DEF AuditInv
  <2>3. EventsOf(all \ rows') \subseteq staged
    BY <1>4, ExcusedTyped
  <2>4. \A x \in all \ rows' : x.event \in EventsOf(all \ rows')
    BY DEF EventsOf
  <2> QED
    BY <1>3, <2>1, <2>2, <2>3, <2>4 DEF AuditInv, TypeOK, Gone
<1>6. CASE CommitFails(f)
  <2>1. rows' = rows /\ Gone' = Gone \cup EventsOf(flush[f].batch)
    BY <1>6 DEF CommitFails, Gone
  <2>2. EventsOf(flush[f].batch) \subseteq staged
    BY <1>4, ExcusedTyped
  <2>3. \A x \in flush[f].batch : x.event \in EventsOf(flush[f].batch)
    BY DEF EventsOf
  <2> QED
    BY <1>3, <2>1, <2>2, <2>3 DEF AuditInv, TypeOK, Gone
<1> QED
  BY <1>5, <1>6

(* A flush with nothing to write, and an operator, only prune.             *)
Pruning ==
    \/ \E f \in Flusher : TakeNothing(f)
    \/ \E cutoff \in Time : PruneBefore(cutoff)

LEMMA PruningDoes ==
    ASSUME AuditInv, Pruning
    PROVE  /\ rows' \subseteq rows
           /\ \A r \in rows \ rows' : \A s \in rows' : Before(r, s)
           /\ Gone \subseteq Gone' /\ Gone' \subseteq staged
           /\ \A x \in rows \ rows' : x.event \in Gone'
<1>1. rows \in SUBSET Record /\ Gone \subseteq staged
  BY DEF AuditInv, TypeOK, Gone
<1>1a. lost' = lost
  BY DEF Pruning, TakeNothing, PruneBefore
<1>2. \/ UNCHANGED <<rows, excused, lost>>
      \/ rows' = prune_audit(rows, MaxEntries, min_ts) /\ Excuse(EventsOf(rows \ rows'))
      \/ \E cutoff \in Time : rows' = {r \in rows : r.ts >= cutoff} /\ Excuse(EventsOf(rows \ rows'))
  BY DEF Pruning, TakeNothing, PruneBefore
<1>3. CASE UNCHANGED <<rows, excused, lost>>
  BY <1>1, <1>3 DEF Gone
<1>4. ASSUME Excuse(EventsOf(rows \ rows')), rows' \subseteq rows
      PROVE  /\ Gone \subseteq Gone' /\ Gone' \subseteq staged
             /\ \A x \in rows \ rows' : x.event \in Gone'
  <2>1. EventsOf(rows \ rows') \subseteq staged
    BY ExcusedTyped
  <2> QED
    BY <1>1, <1>1a, <1>4, <2>1 DEF Excuse, EventsOf, Gone
<1>5. CASE rows' = prune_audit(rows, MaxEntries, min_ts) /\ Excuse(EventsOf(rows \ rows'))
  BY <1>1, <1>4, <1>5, PrunedTyped DEF AuditInv
<1>6. ASSUME NEW cutoff \in Time, rows' = {r \in rows : r.ts >= cutoff},
             Excuse(EventsOf(rows \ rows'))
      PROVE  \A r \in rows \ rows' : \A s \in rows' : Before(r, s)
  <2>1. cutoff \in Nat
    BY AuditAssumption DEF Time
  <2> QED
    BY <1>1, <1>6, <2>1, RecordFields DEF Before
<1> QED
  BY <1>2, <1>3, <1>4, <1>5, <1>6

LEMMA RecordingTyped ==
    ASSUME AuditInv, NEW r \in Request, Recording(r)
    PROVE  TypeOK'
<1> USE DEF AuditInv
<1>1. CASE Number(r)
  <2>1. seq \in Seq0 /\ seq + 1 \in 0 .. MaxEvent + 1 /\ 0 \in Time
    BY <1>1, AuditAssumption DEF Number, TypeOK, Seq0, Time
  <2>2. request' \in [Request -> Requests]
    BY <1>1, <2>1, StatesMade DEF Number, TypeOK, Gone
  <2> QED
    BY <1>1, <2>1, <2>2 DEF Number, TypeOK, Gone
<1>2. CASE Stamp(r)
  BY <1>2 DEF Stamp, TypeOK, Requests
<1>3. CASE Push(r)
  <2>1. /\ flush' \in [Flusher -> Flushes]
        /\ request' \in [Request -> Requests]
    BY <1>3, SpawnedMarks, StatesMade DEF Push, TypeOK, Gone
  <2>2. events + 1 \in Event /\ events' = events + 1 /\ events' \in 0 .. MaxEvent
    BY <1>3, AuditAssumption DEF Push, TypeOK, Event
  <2> DEFINE x == [seq |-> request[r].seq, ts |-> request[r].ts, event |-> events + 1]
  <2>3. x \in Record
    BY <2>2 DEF TypeOK, Requests, Record
  <2>4. CASE has_room
    <3>1. buffer' = buffer \cup {x} /\ staged' = staged \cup {events + 1}
      BY <1>3, <2>4 DEF Push
    <3>2. IsFiniteSet(buffer) /\ Cardinality(buffer) \in Nat
      BY RecordsAreFinite, FS_CardinalityType DEF TypeOK, Gone
    <3>3. /\ IsFiniteSet(buffer')
          /\ Cardinality(buffer') = IF x \in buffer THEN Cardinality(buffer)
                                    ELSE Cardinality(buffer) + 1
      BY <3>1, <3>2, FS_AddElement
    <3>4. Cardinality(buffer') \in Nat /\ Cardinality(buffer') <= Cardinality(buffer) + 1
      BY <3>2, <3>3
    <3>5. Cardinality(buffer') <= MaxBuffer
      BY <2>4, <3>2, <3>3, <3>4, AuditAssumption DEF has_room
    <3> QED
      BY <1>3, <2>1, <2>2, <2>3, <3>1, <3>5 DEF Push, TypeOK, Gone
  <2>5. CASE ~has_room
    BY <1>3, <2>1, <2>2, <2>5 DEF Push, TypeOK, Gone
  <2> QED
    BY <2>4, <2>5
<1> QED
  BY <1>1, <1>2, <1>3 DEF Recording

LEMMA FlushingTyped ==
    ASSUME AuditInv, NEW f \in Flusher, Flushing(f)
    PROVE  TypeOK'
<1> USE DEF AuditInv
<1>1. CASE Take(f)
  <2>1. flush' \in [Flusher -> Flushes]
    BY <1>1 DEF Take, TypeOK, Flushes
  <2>2. Cardinality({}) <= MaxBuffer
    BY FS_EmptySet, AuditAssumption
  <2> QED
    BY <1>1, <2>1, <2>2 DEF Take, TypeOK, Gone
<1>2. CASE TakeNothing(f)
  <2>1. rows' \subseteq rows /\ Gone' \subseteq staged
    BY <1>2, PruningDoes DEF Pruning
  <2>2. flush' \in [Flusher -> Flushes]
    BY <1>2, RestTyped DEF TakeNothing
  <2> QED
    BY <1>2, <2>1, <2>2 DEF TakeNothing, TypeOK, Gone
<1>3. CASE Commit(f) \/ CommitFails(f)
  <2>1. rows' \subseteq rows \cup flush[f].batch /\ Gone' \subseteq staged
    BY <1>3, WritingDoes
  <2>2. flush' \in [Flusher -> Flushes] /\ flush[f].batch \subseteq Record
    BY <1>3, RestTyped DEF Commit, CommitFails, TypeOK, Flushes
  <2>3. rows' \subseteq Record
    BY <2>1, <2>2 DEF TypeOK, Gone
  <2> QED
    BY <1>3, <2>1, <2>2, <2>3 DEF Commit, CommitFails, TypeOK, Gone
<1> QED
  BY <1>1, <1>2, <1>3 DEF Flushing

LEMMA ProcessTyped ==
    ASSUME AuditInv, Open \/ Tick \/ LoopTick \/ QueryBegins \/ Stopping
                     \/ \E cutoff \in Time : PruneBefore(cutoff)
    PROVE  TypeOK'
<1> USE DEF AuditInv
<1>1. CASE Open
  <2>1. next_seq(rows) \in 0 .. MaxEvent + 1
    BY NextSeqIsFree, AuditAssumption DEF TypeOK, next_seq
  <2> QED
    BY <1>1, <2>1 DEF Open, TypeOK, Gone
<1>2. CASE Tick
  BY <1>2, AuditAssumption DEF Tick, TypeOK, Time
<1>3. CASE LoopTick \/ QueryBegins \/ ShutdownBegins
  <2>1. {Loop, Reader, Main} \subseteq Flusher
    BY DEF Flusher
  <2>2. flush' \in [Flusher -> Flushes]
    BY <1>3, <2>1, MarkTyped DEF LoopTick, QueryBegins, ShutdownBegins
  <2> QED
    BY <1>3, <2>2 DEF LoopTick, QueryBegins, ShutdownBegins, TypeOK, Gone
<1>4. CASE Kill \/ ShutdownEnds
  <2>1. request' \in [Request -> Requests] /\ flush' \in [Flusher -> Flushes] /\ buffer' = {}
        /\ seq' = 0 /\ phase' = "down" /\ UNCHANGED <<clock, rows, events, staged>>
    BY <1>4, StatesMade DEF Kill, ShutdownEnds, Cleared
  <2>2. Cardinality({}) <= MaxBuffer
    BY FS_EmptySet, AuditAssumption
  <2>3. Gone' \subseteq staged
    <3>1. EventsOf(Held) \subseteq staged
      BY ExcusedTyped
    <3> QED
      BY <1>4, <3>1 DEF Kill, ShutdownEnds, Excuse, TypeOK, Held, Gone
  <2> QED
    BY <2>1, <2>2, <2>3, AuditAssumption DEF TypeOK, Gone
<1>5. CASE \E cutoff \in Time : PruneBefore(cutoff)
  <2>1. rows' \subseteq rows /\ Gone' \subseteq staged
    BY <1>5, PruningDoes DEF Pruning
  <2> QED
    BY <1>5, <2>1 DEF PruneBefore, TypeOK, Gone
<1> QED
  BY <1>1, <1>2, <1>3, <1>4, <1>5 DEF Stopping

-----------------------------------------------------------------------------
(* The records.                                                            *)

(* A step that numbers, stamps and pushes nothing moves records from       *)
(* memory to the log, and loses excused ones.                              *)
Moves ==
    /\ phase' # "down" => phase # "down"
    /\ UNCHANGED <<seq, request, events, staged>>
    /\ clock' \in Nat /\ clock' >= clock
    /\ Held' \subseteq Held
    /\ rows' \subseteq rows \cup (Held \ Held')
    /\ Gone \subseteq Gone'
    /\ \A x \in Held \cup rows : x \in Held' \cup rows' \/ x.event \in Gone'

LEMMA HeldTyped ==
    ASSUME TypeOK
    PROVE  Held \subseteq Record /\ rows \subseteq Record /\ clock \in Nat
           /\ \A r \in Request : request[r].seq \in Nat /\ request[r].ts \in Nat
BY InPlaces, AuditAssumption DEF TypeOK, Flushes, Requests, Seq0, Time

LEMMA MovesKeep ==
    ASSUME AuditInv, Moves
    PROVE  NumbersInUse' /\ KeysFree' /\ EventsOnce' /\ Accounted'
<1> USE DEF AuditInv
<1>0. Held \cup rows \subseteq Record /\ clock \in Nat
  BY HeldTyped
<1>1. NumbersInUse'
  BY DEF Moves, NumbersInUse, Numbered
<1>2. EventsOnce'
  BY DEF Moves, EventsOnce
<1>3. Accounted'
  BY AccountedRecords DEF Moves
<1>4. KeysFree'
  <2>1. \A x \in Held' \cup rows' : x \in Held \cup rows
    BY DEF Moves
  <2>2. \A x \in Held' \cup rows' : x.ts <= clock'
    BY <1>0, <2>1, RecordFields DEF Moves, KeysFree
  <2>3. ASSUME NEW s \in rows' PROVE
           /\ (phase' # "down" /\ s.seq >= seq') => s.ts < clock'
           /\ \A x \in Held' : ~SameKey(x, s)
           /\ \A r \in Request :
                (Numbered(r)' /\ request'[r].seq = s.seq) =>
                    IF request'[r].pc = "numbered" THEN s.ts < clock' ELSE s.ts # request'[r].ts
    <3>1. CASE s \in rows
      BY <1>0, <3>1, RecordFields DEF Moves, KeysFree, Numbered
    <3>2. CASE s \in Held \ Held'
      <4>1. s.seq < seq /\ s.seq \in Nat /\ seq \in Nat
        BY <1>0, <3>2, RecordFields DEF NumbersInUse, TypeOK
      <4>2. \A x \in Held' : ~SameKey(x, s)
        BY <3>2 DEF Moves, NumbersInUse, SameKey
      <4>3. \A r \in Request : Numbered(r) => request[r].seq # s.seq
        BY <3>2 DEF NumbersInUse
      <4> QED
        BY <4>1, <4>2, <4>3 DEF Moves, Numbered
    <3> QED
      BY <2>3, <3>1, <3>2 DEF Moves
  <2>4. \A r \in Request : request'[r].ts <= clock'
    BY HeldTyped DEF Moves, KeysFree
  <2> QED
    BY <2>2, <2>3, <2>4 DEF KeysFree
<1> QED
  BY <1>1, <1>2, <1>3, <1>4

(* The memory goes, its events excused.                                    *)
LEMMA EndsKeep ==
    ASSUME AuditInv, Cleared, phase' = "down", UNCHANGED <<clock, rows, events, staged>>,
           Gone \subseteq Gone', \A x \in Held : x.event \in Gone'
    PROVE  /\ Quiet' /\ PlacesApart' /\ LastFlush'
           /\ NumbersInUse' /\ KeysFree' /\ EventsOnce' /\ Accounted'
<1> USE DEF AuditInv
<1>1. /\ Held' = {}
      /\ \A r \in Request : request'[r] = Idle
      /\ \A f \in Flusher : flush'[f] = Resting
  BY InPlaces DEF Cleared, Resting
<1>2. Quiet' /\ PlacesApart' /\ LastFlush'
  BY <1>1 DEF Cleared, Quiet, PlacesApart, LastFlush, Resting
<1>3. NumbersInUse' /\ EventsOnce'
  BY <1>1 DEF NumbersInUse, Numbered, Idle, EventsOnce
<1>4. KeysFree'
  BY <1>1, HeldTyped DEF KeysFree, Numbered, Idle
<1>5. Accounted'
  BY AccountedRecords
<1> QED
  BY <1>2, <1>3, <1>4, <1>5

(* Everything that only moves records, by what it does to the flushes.     *)
LEMMA FlushingKeeps ==
    ASSUME AuditInv, NEW f \in Flusher, Flushing(f)
    PROVE  AuditInv'
<1> USE DEF AuditInv
<1>0. TypeOK' /\ UNCHANGED <<clock, phase, seq, request, events, staged>> /\ clock \in Nat
  BY FlushingTyped, HeldTyped DEF Flushing, Take, TakeNothing, Commit, CommitFails
<1>1. flush[f].pc # "resting" /\ flush \in [Flusher -> Flushes]
  BY DEF Flushing, Take, TakeNothing, Commit, CommitFails, TypeOK
<1>2. phase # "down"
  BY <1>1 DEF Quiet, Resting
<1>3. /\ \A g \in Flusher : g # f => flush'[g] = flush[g]
      /\ flush'[f] = IF Take(f) THEN [pc |-> "writing", batch |-> buffer] ELSE Resting
  BY <1>1 DEF Flushing, Take, TakeNothing, Commit, CommitFails, Rest
<1>4. buffer' = IF Take(f) THEN {} ELSE buffer
  BY DEF Flushing, Take, TakeNothing, Commit, CommitFails
<1>5. Quiet' /\ PlacesApart'
  <2>1. PlacesApart'
    BY <1>3, <1>4 DEF PlacesApart, Resting
  <2> QED
    BY <1>0, <1>2, <2>1 DEF Quiet
<1>6. LastFlush'
  <2> SUFFICES ASSUME phase = "stopping"
               PROVE  /\ \A r \in Request : request[r] = Idle
                      /\ flush'[Main].pc = "due" \/ buffer' = {}
    <3>1. Main \in Flusher /\ (phase = "up" => f # Main)
      BY <1>1 DEF Flusher, LastFlush, Resting
    <3> QED
      BY <1>0, <1>3, <3>1 DEF LastFlush
  <2>1. CASE buffer = {}
    BY <1>4, <2>1 DEF LastFlush
  <2>2. CASE flush[Main].pc = "due" /\ buffer # {}
    <3>1. Main \in Flusher
      BY DEF Flusher
    <3>2. f # Main \/ Take(f)
      BY <2>2 DEF Flushing, TakeNothing, Commit, CommitFails
    <3> QED
      BY <1>3, <1>4, <2>2, <3>1, <3>2 DEF LastFlush
  <2> QED
    BY <2>1, <2>2 DEF LastFlush
<1>7. Moves
  <2>1. CASE Take(f)
    <3>1. flush[f].batch = {}
      BY <2>1 DEF Take, PlacesApart
    <3>2. \A x : x \in Held' <=> x \in buffer \/ \E g \in Flusher \ {f} : x \in flush[g].batch
      BY <1>3, <1>4, <2>1, InPlaces
    <3>3. Held' = Held
      BY <3>1, <3>2, InPlaces
    <3> QED
      BY <1>0, <1>2, <2>1, <3>3 DEF Take, Moves, Gone
  <2>2. CASE TakeNothing(f)
    <3>1. flush[f].batch = {}
      BY <2>2 DEF TakeNothing, PlacesApart
    <3>2. flush' = [flush EXCEPT ![f] = Resting] /\ buffer' = buffer
      BY <2>2 DEF TakeNothing, Rest
    <3>3. Held' = Held
      BY <1>1, <3>1, <3>2, InPlaces DEF Resting
    <3>4. /\ rows' \subseteq rows /\ Gone \subseteq Gone'
          /\ \A x \in rows \ rows' : x.event \in Gone'
      BY <2>2, PruningDoes DEF Pruning
    <3> QED
      BY <1>0, <1>2, <3>3, <3>4 DEF Moves
  <2>3. CASE Commit(f) \/ CommitFails(f)
    <3>1. flush[f].batch \subseteq Held
      BY InPlaces
    <3>2. /\ Held' \subseteq Held /\ Held \subseteq Held' \cup flush[f].batch
          /\ Held' \cap flush[f].batch = {}
          /\ rows' \subseteq rows \cup flush[f].batch
          /\ Gone \subseteq Gone'
          /\ \A x \in (rows \cup flush[f].batch) \ rows' : x.event \in Gone'
      BY <2>3, WritingDoes
    <3> QED
      BY <1>0, <1>2, <3>1, <3>2 DEF Moves
  <2> QED
    BY <2>1, <2>2, <2>3 DEF Flushing
<1> QED
  BY <1>0, <1>5, <1>6, <1>7, MovesKeep

(* A flush is called for.                                                  *)
LEMMA MarkingKeeps ==
    ASSUME AuditInv, LoopTick \/ QueryBegins \/ ShutdownBegins
    PROVE  AuditInv'
<1> USE DEF AuditInv
<1>1. PICK f \in {Loop, Reader, Main} :
        /\ flush' = [flush EXCEPT ![f].pc = "due"]
        /\ flush[f] = Resting
        /\ IF f = Main THEN ShutdownBegins ELSE phase' = phase
  <2>0. Main \notin {Loop, Reader}
    BY AuditAssumption
  <2>1. CASE LoopTick
    BY <2>0, <2>1 DEF LoopTick
  <2>2. CASE QueryBegins
    BY <2>0, <2>2 DEF QueryBegins
  <2>3. CASE ShutdownBegins
    BY <2>3 DEF ShutdownBegins, LastFlush
  <2> QED
    BY <2>1, <2>2, <2>3
<1>2. f \in Flusher /\ TypeOK'
  BY ProcessTyped DEF Flusher, Stopping
<1>3. /\ UNCHANGED <<clock, seq, request, events, staged, buffer, rows, excused, lost>>
      /\ phase # "down" /\ phase' # "down"
  BY DEF LoopTick, QueryBegins, ShutdownBegins
<1>4. /\ \A g \in Flusher : /\ flush'[g].batch = flush[g].batch
                            /\ g # f => flush'[g] = flush[g]
      /\ flush'[f].pc = "due"
  BY <1>1, <1>2, MarkTyped
<1>5. Held' = Held
  BY <1>3, <1>4, InPlaces
<1>6. Moves
  BY <1>3, <1>5, HeldTyped DEF Moves, Gone
<1>7. Quiet' /\ PlacesApart'
  BY <1>1, <1>2, <1>3, <1>4 DEF Quiet, PlacesApart, Resting
<1>8. LastFlush'
  <2>1. Main \in Flusher
    BY DEF Flusher
  <2>2. CASE f = Main
    BY <1>1, <1>3, <1>4, <2>2 DEF LastFlush, ShutdownBegins
  <2>3. CASE f # Main
    BY <1>1, <1>3, <1>4, <2>1, <2>3 DEF LastFlush
  <2> QED
    BY <2>2, <2>3
<1> QED
  BY <1>2, <1>6, <1>7, <1>8, MovesKeep

(* Time, and an operator's pruning.                                        *)
LEMMA ApartKeeps ==
    ASSUME AuditInv, Tick \/ \E cutoff \in Time : PruneBefore(cutoff)
    PROVE  AuditInv'
<1> USE DEF AuditInv
<1>1. TypeOK' /\ UNCHANGED <<phase, seq, buffer, request, flush, events, staged>>
  BY ProcessTyped DEF Tick, PruneBefore
<1>2. Quiet' /\ PlacesApart' /\ LastFlush'
  BY <1>1 DEF Quiet, PlacesApart, LastFlush
<1>3. Held' = Held
  BY <1>1, InPlaces
<1>4. clock' \in Nat /\ clock' >= clock
  BY HeldTyped DEF Tick, PruneBefore
<1>5. /\ rows' \subseteq rows /\ Gone \subseteq Gone'
      /\ \A x \in rows \ rows' : x.event \in Gone'
  <2>1. CASE Tick
    BY <2>1 DEF Tick, Gone
  <2>2. CASE Pruning
    BY <2>2, PruningDoes
  <2> QED
    BY <2>1, <2>2 DEF Pruning
<1>6. Moves
  BY <1>1, <1>3, <1>4, <1>5 DEF Moves
<1> QED
  BY <1>1, <1>2, <1>6, MovesKeep

(* The end of a process: a graceful one leaves nothing in memory.          *)
LEMMA EndKeeps ==
    ASSUME AuditInv, Kill \/ ShutdownEnds
    PROVE  AuditInv'
<1> USE DEF AuditInv
<1>1. TypeOK'
  BY ProcessTyped DEF Stopping
<1>2. Cleared /\ phase' = "down" /\ UNCHANGED <<clock, rows, events, staged>>
  BY DEF Kill, ShutdownEnds
<1>3. Gone \subseteq Gone' /\ \A x \in Held : x.event \in Gone'
  <2>1. CASE Kill
    BY <2>1 DEF Kill, Excuse, EventsOf, Held, Gone
  <2>2. CASE ShutdownEnds
    <3>1. Main \in Flusher
      BY DEF Flusher
    <3>2. buffer = {}
      BY <2>2, <3>1 DEF ShutdownEnds, LastFlush, Resting
    <3>3. \A f \in Flusher : flush[f].batch = {}
      BY <2>2 DEF ShutdownEnds, PlacesApart
    <3> QED
      BY <2>2, <3>2, <3>3, InPlaces DEF ShutdownEnds, Gone
  <2> QED
    BY <2>1, <2>2
<1> QED
  BY <1>1, <1>2, <1>3, EndsKeep

(* A restart: the counter goes on where no key is in use.                  *)
LEMMA OpenKeeps ==
    ASSUME AuditInv, Open
    PROVE  AuditInv'
<1> USE DEF AuditInv
<1>1. /\ TypeOK' /\ phase' = "up" /\ seq' = next_seq(rows)
      /\ UNCHANGED <<clock, rows, buffer, request, flush, events, staged, excused, lost>>
  BY ProcessTyped DEF Open
<1>2. /\ buffer = {} /\ (\A r \in Request : request[r] = Idle)
      /\ \A f \in Flusher : flush[f] = Resting
  BY DEF Open, Quiet
<1>3. Held' = {} /\ Held = {}
  BY <1>1, <1>2, InPlaces DEF Resting
<1>4. Quiet' /\ PlacesApart' /\ LastFlush'
  <2>1. Main \in Flusher
    BY DEF Flusher
  <2>2. PlacesApart'
    BY <1>1 DEF PlacesApart
  <2> QED
    BY <1>1, <1>2, <2>1, <2>2 DEF Quiet, LastFlush
<1>5. NumbersInUse' /\ EventsOnce' /\ Accounted'
  BY <1>1, <1>2, <1>3, AccountedRecords DEF NumbersInUse, Numbered, Idle, EventsOnce, Gone
<1>6. KeysFree'
  <2>1. ASSUME NEW s \in rows, s.seq >= seq' PROVE s.ts < clock
    <3>1. PICK r \in rows : s.ts < r.ts
      BY <1>1, <2>1, HeldTyped, NextSeqIsFree
    <3>2. r.ts <= clock /\ r.ts \in Nat /\ s.ts \in Nat /\ clock \in Nat
      BY HeldTyped, RecordFields DEF KeysFree
    <3> QED
      BY <3>1, <3>2
  <2> QED
    BY <1>1, <1>2, <1>3, <2>1 DEF KeysFree, Numbered, Idle
<1> QED
  BY <1>1, <1>4, <1>5, <1>6

(* A request takes a number.                                               *)
LEMMA NumberKeeps ==
    ASSUME AuditInv, NEW r \in Request, Number(r)
    PROVE  AuditInv'
<1> USE DEF AuditInv
<1>1. /\ TypeOK' /\ phase = "up" /\ seq' = seq + 1 /\ ~Numbered(r)
      /\ UNCHANGED <<clock, phase, rows, buffer, flush, events, staged, excused, lost>>
  BY RecordingTyped DEF Number, Recording, Numbered
<1>2. /\ request'[r] = [pc |-> "numbered", seq |-> seq, ts |-> 0]
      /\ \A q \in Request : q # r => request'[q] = request[q]
  BY DEF Number, TypeOK
<1>3. Held' = Held /\ seq \in Nat /\ Held \subseteq Record /\ rows \subseteq Record /\ clock \in Nat
  <2>1. Held' = Held
    BY <1>1, InPlaces
  <2>2. seq \in Nat
    BY AuditAssumption DEF TypeOK
  <2> QED
    BY <2>1, <2>2, HeldTyped
<1>4. Quiet' /\ PlacesApart' /\ LastFlush'
  BY <1>1 DEF Quiet, PlacesApart, LastFlush
<1>5. EventsOnce' /\ Accounted'
  BY <1>1, <1>3, AccountedRecords DEF EventsOnce, Gone
<1>6. NumbersInUse'
  <2>1. \A x \in Held : x.seq \in Nat /\ x.seq < seq
    BY <1>3, RecordFields DEF NumbersInUse
  <2>2. \A q \in Request : Numbered(q) => request[q].seq \in Nat /\ request[q].seq < seq
    BY HeldTyped DEF NumbersInUse
  <2>3. \A q \in Request : q # r => Numbered(q)' = Numbered(q)
    BY <1>2 DEF Numbered
  <2>4. \A x \in Held : x.seq < seq'
    BY <1>1, <1>3, <2>1
  <2>5. ASSUME NEW q \in Request, Numbered(q)'
        PROVE  /\ request'[q].seq < seq'
               /\ \A x \in Held : x.seq # request'[q].seq
               /\ \A p \in Request : (Numbered(p)' /\ request'[p].seq = request'[q].seq) => p = q
    <3>1. CASE q = r
      BY <1>1, <1>2, <1>3, <2>1, <2>2, <2>3, <3>1
    <3>2. CASE q # r
      <4>1. Numbered(q) /\ request'[q] = request[q]
        BY <1>2, <2>3, <2>5, <3>2
      <4>2. request[q].seq \in Nat /\ request[q].seq < seq
        BY <2>2, <4>1
      <4>3. \A x \in Held : x.seq # request[q].seq
        BY <4>1 DEF NumbersInUse
      <4>4. ASSUME NEW p \in Request, Numbered(p)', request'[p].seq = request'[q].seq PROVE p = q
        <5>1. p # r
          BY <1>2, <1>3, <4>1, <4>2, <4>4
        <5> QED
          BY <1>2, <2>3, <4>1, <4>4, <5>1 DEF NumbersInUse
      <4> QED
        BY <1>1, <1>3, <4>1, <4>2, <4>3, <4>4
    <3> QED
      BY <3>1, <3>2
  <2> QED
    BY <1>3, <2>4, <2>5 DEF NumbersInUse
<1>7. KeysFree'
  <2>1. \A s \in rows : s.seq \in Nat /\ s.ts \in Nat
    BY <1>3, RecordFields
  <2>2. ASSUME NEW s \in rows
        PROVE  /\ s.seq >= seq' => s.ts < clock
               /\ \A q \in Request :
                    (Numbered(q)' /\ request'[q].seq = s.seq) =>
                        IF request'[q].pc = "numbered" THEN s.ts < clock
                        ELSE s.ts # request'[q].ts
    <3>1. s.seq >= seq => s.ts < clock
      BY <1>1 DEF KeysFree
    <3>2. \A q \in Request : q # r => Numbered(q)' = Numbered(q)
      BY <1>2 DEF Numbered
    <3>3. ASSUME NEW q \in Request, Numbered(q)', request'[q].seq = s.seq
          PROVE  IF request'[q].pc = "numbered" THEN s.ts < clock ELSE s.ts # request'[q].ts
      <4>1. CASE q = r
        BY <1>2, <1>3, <2>1, <3>1, <3>3, <4>1
      <4>2. CASE q # r
        BY <1>2, <3>2, <3>3, <4>2 DEF KeysFree
      <4> QED
        BY <4>1, <4>2
    <3> QED
      BY <1>1, <1>3, <2>1, <3>1, <3>3
  <2>3. \A q \in Request : request'[q].ts <= clock
    BY <1>2, <1>3 DEF KeysFree
  <2> QED
    BY <1>1, <1>3, <2>2, <2>3 DEF KeysFree
<1> QED
  BY <1>1, <1>4, <1>5, <1>6, <1>7

(* It takes the time.                                                      *)
LEMMA StampKeeps ==
    ASSUME AuditInv, NEW r \in Request, Stamp(r)
    PROVE  AuditInv'
<1> USE DEF AuditInv
<1>1. /\ TypeOK' /\ request[r].pc = "numbered" /\ clock \in Nat
      /\ UNCHANGED <<clock, phase, rows, seq, buffer, flush, events, staged, excused, lost>>
  BY RecordingTyped, HeldTyped DEF Stamp, Recording
<1>2. /\ request'[r].pc = "stamped" /\ request'[r].ts = clock /\ request'[r].seq = request[r].seq
      /\ \A q \in Request : q # r => request'[q] = request[q]
  BY DEF Stamp, TypeOK, Requests
<1>3. Held' = Held
  BY <1>1, InPlaces
<1>4. \A q \in Request : Numbered(q)' = Numbered(q) /\ request'[q].seq = request[q].seq
  BY <1>1, <1>2 DEF Numbered
<1>5. Quiet' /\ PlacesApart' /\ LastFlush'
  BY <1>1, <1>2 DEF Quiet, PlacesApart, LastFlush, Idle
<1>6. EventsOnce' /\ Accounted' /\ NumbersInUse'
  BY <1>1, <1>3, <1>4, AccountedRecords DEF EventsOnce, NumbersInUse, Gone
<1>7. KeysFree'
  <2>1. \A s \in rows : s.ts \in Nat
    BY HeldTyped, RecordFields
  <2>2. ASSUME NEW s \in rows, NEW q \in Request, Numbered(q)', request'[q].seq = s.seq
        PROVE  IF request'[q].pc = "numbered" THEN s.ts < clock ELSE s.ts # request'[q].ts
    <3>1. CASE q = r
      <4>1. s.ts < clock
        BY <1>1, <1>4, <2>2, <3>1 DEF KeysFree
      <4> QED
        BY <1>1, <1>2, <2>1, <3>1, <4>1
    <3>2. CASE q # r
      BY <1>2, <1>4, <2>2, <3>2 DEF KeysFree
    <3> QED
      BY <3>1, <3>2
  <2>3. \A q \in Request : request'[q].ts <= clock
    BY <1>1, <1>2 DEF KeysFree
  <2> QED
    BY <1>1, <1>3, <2>2, <2>3 DEF KeysFree
<1> QED
  BY <1>1, <1>5, <1>6, <1>7

(* It pushes its record.  At the cap it drops it.                          *)
LEMMA PushKeeps ==
    ASSUME AuditInv, NEW r \in Request, Push(r)
    PROVE  AuditInv'
<1> USE DEF AuditInv
<1> DEFINE x == [seq |-> request[r].seq, ts |-> request[r].ts, event |-> events + 1]
<1>1. /\ TypeOK' /\ request[r].pc = "stamped" /\ Spawned
      /\ events \in Nat /\ events' = events + 1
      /\ UNCHANGED <<clock, phase, rows, seq, excused, lost>>
  <2>1. TypeOK'
    BY RecordingTyped DEF Recording
  <2>2. events \in Nat
    BY AuditAssumption DEF TypeOK
  <2> QED
    BY <2>1, <2>2 DEF Push, Gone
<1>2. request'[r] = Idle /\ \A q \in Request : q # r => request'[q] = request[q]
  BY DEF Push, TypeOK
<1>3. \/ UNCHANGED <<buffer, staged>>
      \/ buffer' = buffer \cup {x} /\ staged' = staged \cup {x.event}
  BY DEF Push
<1>4. \A f \in Flusher :
        /\ flush'[f].batch = flush[f].batch
        /\ flush'[f] = flush[f] \/ (flush[f] = Resting /\ flush'[f].pc = "due")
  BY <1>1, SpawnedMarks
<1>5. /\ x.seq = request[r].seq /\ x.ts = request[r].ts /\ x.event = events + 1
      /\ Numbered(r) /\ x.seq < seq /\ x.ts <= clock
      /\ \A y \in Held : y.seq # x.seq
      /\ \A q \in Request : (q # r /\ Numbered(q)) => request[q].seq # x.seq
  <2>1. Numbered(r)
    BY <1>1 DEF Numbered
  <2> QED
    BY <2>1 DEF NumbersInUse, KeysFree
<1>6. \A s \in rows : ~SameKey(x, s)
  BY <1>1, <1>5 DEF KeysFree, SameKey
<1>7. \A y \in Held \cup rows : y.event # x.event /\ y # x
  <2>1. \A e \in staged : e # x.event
    BY <1>1, <1>5 DEF EventsOnce
  <2> QED
    BY <2>1 DEF EventsOnce
<1> HIDE DEF x
<1>8. Held' \in {Held, Held \cup {x}}
  BY <1>3, <1>4, InPlaces
<1>9. /\ staged' \subseteq 1 .. events' /\ staged \subseteq staged'
      /\ \A y \in Held' \cup rows : y.event \in staged'
      /\ \A e \in staged' : e \in staged \/ (e = x.event /\ x \in Held')
  <2>1. staged \subseteq 1 .. events /\ x.event \in 1 .. events + 1
    BY <1>1, <1>5 DEF EventsOnce
  <2>2. staged' \subseteq 1 .. events' /\ staged \subseteq staged'
    <3>1. 1 .. events \subseteq 1 .. events' /\ 1 .. events + 1 = 1 .. events'
      BY <1>1
    <3> QED
      BY <1>3, <2>1, <3>1
  <2> QED
    BY <1>3, <1>4, <2>2, InPlaces DEF EventsOnce
<1>10. Quiet' /\ LastFlush'
  <2>1. phase = "up"
    BY <1>1 DEF Quiet, LastFlush, Idle, TypeOK
  <2>2. flush'[Main] = flush[Main]
    BY <1>1, SpawnedMain
  <2> QED
    BY <1>1, <2>1, <2>2 DEF Quiet, LastFlush
<1>11. PlacesApart'
  <2>1. \A f \in Flusher : flush'[f].pc # "writing" => flush'[f].batch = {}
    BY <1>4 DEF PlacesApart, Resting
  <2>2. \A f \in Flusher : x \notin flush[f].batch
    BY <1>7, InPlaces
  <2>3. \A f \in Flusher : buffer' \cap flush'[f].batch = {}
    BY <1>3, <1>4, <2>2 DEF PlacesApart
  <2> QED
    BY <1>4, <2>1, <2>3 DEF PlacesApart
<1>12. NumbersInUse'
  <2>1. \A q \in Request : Numbered(q)' => q # r /\ Numbered(q) /\ request'[q] = request[q]
    BY <1>2 DEF Numbered, Idle
  <2>2. \A y \in Held' : y.seq < seq
    BY <1>5, <1>8 DEF NumbersInUse
  <2>3. \A y, z \in Held' : y.seq = z.seq => y = z
    BY <1>5, <1>8 DEF NumbersInUse
  <2>4. \A q \in Request : Numbered(q)' => \A y \in Held' : y.seq # request'[q].seq
    BY <1>5, <1>8, <2>1 DEF NumbersInUse
  <2> QED
    BY <1>1, <2>1, <2>2, <2>3, <2>4 DEF NumbersInUse
<1>13. EventsOnce'
  BY <1>1, <1>7, <1>8, <1>9 DEF EventsOnce
<1>14. KeysFree'
  <2>1. \A q \in Request : Numbered(q)' => q # r /\ Numbered(q) /\ request'[q] = request[q]
    BY <1>2 DEF Numbered, Idle
  <2>2. \A q \in Request : request'[q].ts <= clock
    BY <1>2, HeldTyped DEF KeysFree, Idle
  <2>3. \A y \in Held' \cup rows : y.ts <= clock
    BY <1>5, <1>8 DEF KeysFree
  <2>4. \A s \in rows, y \in Held' : ~SameKey(y, s)
    BY <1>6, <1>8 DEF KeysFree
  <2> QED
    BY <1>1, <2>1, <2>2, <2>3, <2>4 DEF KeysFree
<1>15. Accounted'
  BY <1>1, <1>8, <1>9, AccountedRecords DEF Gone
<1> QED
  BY <1>1, <1>10, <1>11, <1>12, <1>13, <1>14, <1>15

-----------------------------------------------------------------------------
LEMMA InitInv == Init => AuditInv
<1> SUFFICES ASSUME Init PROVE AuditInv
  OBVIOUS
<1>1. Held = {}
  BY InPlaces DEF Init, Resting
<1>2. TypeOK
  BY InitTyped
<1>3. Quiet /\ PlacesApart /\ LastFlush
  BY DEF Init, Quiet, PlacesApart, LastFlush, Resting
<1>4. NumbersInUse /\ KeysFree /\ EventsOnce
  BY <1>1 DEF Init, NumbersInUse, Numbered, Idle, KeysFree, EventsOnce
<1>5. Accounted
  BY DEF Init, Accounted
<1> QED
  BY <1>2, <1>3, <1>4, <1>5 DEF AuditInv

LEMMA InvKept == AuditInv /\ [Next]_vars => AuditInv'
<1> SUFFICES ASSUME AuditInv, [Next]_vars PROVE AuditInv'
  OBVIOUS
<1>1. CASE UNCHANGED vars
  <2>1. Held' = Held
    BY <1>1, InPlaces DEF vars
  <2>2. TypeOK' /\ Quiet' /\ PlacesApart' /\ LastFlush'
    BY <1>1 DEF vars, AuditInv, TypeOK, Quiet, PlacesApart, LastFlush
  <2>3. NumbersInUse' /\ KeysFree' /\ EventsOnce'
    BY <1>1, <2>1 DEF vars, AuditInv, NumbersInUse, Numbered, KeysFree, EventsOnce
  <2>4. Accounted'
    BY <1>1, <2>1, AccountedRecords DEF vars, AuditInv, Gone
  <2> QED
    BY <2>2, <2>3, <2>4 DEF AuditInv
<1>2. CASE Serving
  BY <1>2, OpenKeeps, ApartKeeps, MarkingKeeps, NumberKeeps, StampKeeps, PushKeeps,
     FlushingKeeps DEF Serving, Recording
<1>3. CASE Stopping
  BY <1>3, EndKeeps, MarkingKeeps DEF Stopping
<1>4. CASE QueryBegins \/ \E cutoff \in Time : PruneBefore(cutoff)
  BY <1>4, MarkingKeeps, ApartKeeps
<1> QED
  BY <1>1, <1>2, <1>3, <1>4 DEF Next

LEMMA InvAlways == Spec => []AuditInv
BY InitInv, InvKept, PTL DEF Spec

(* Type correctness: in particular the buffer stays within max_buffer, and *)
(* only staged events are ever excused.                                    *)
THEOREM AuditTypeCorrect == Spec => []TypeOK
<1>1. AuditInv => TypeOK
  BY DEF AuditInv
<1> QED
  BY <1>1, InvAlways, PTL

(* No staged event goes unaccounted for, with any number of flushes        *)
(* between taking a batch and committing it, and through restarts, but for *)
(* those whose transaction failed.                                         *)
THEOREM AccountedCorrect == Spec => []Accounted
<1>1. AuditInv => Accounted
  BY DEF AuditInv
<1> QED
  BY <1>1, InvAlways, PTL

(* No event is recorded twice, and none is in two places at a time.        *)
THEOREM RecordedOnceCorrect == Spec => []RecordedOnce
<1>1. ASSUME AuditInv PROVE RecordedOnce
  <2> USE <1>1 DEF AuditInv
  <2>1. EventsOf(buffer) \cap EventsOf(rows) = {}
    BY InPlaces DEF EventsOf, EventsOnce
  <2>2. EventsOf(InFlight) \cap EventsOf(buffer \cup rows) = {}
    <3> SUFFICES ASSUME NEW x \in InFlight, NEW y \in buffer \cup rows, x.event = y.event
                 PROVE  FALSE
      BY DEF EventsOf
    <3>1. x \in Held
      BY DEF Held
    <3>2. y \in buffer /\ x = y
      BY <3>1, InPlaces DEF EventsOnce
    <3> QED
      BY <3>2 DEF InFlight, PlacesApart
  <2>3. ASSUME NEW f \in Flusher, NEW g \in Flusher, f # g
        PROVE  EventsOf(flush[f].batch) \cap EventsOf(flush[g].batch) = {}
    <3> SUFFICES ASSUME NEW x \in flush[f].batch, NEW y \in flush[g].batch, x.event = y.event
                 PROVE  FALSE
      BY DEF EventsOf
    <3>1. x = y
      BY InPlaces DEF EventsOnce
    <3> QED
      BY <2>3, <3>1 DEF PlacesApart
  <2> QED
    BY <2>1, <2>2, <2>3 DEF RecordedOnce, EventsOnce
<1> QED
  BY <1>1, InvAlways, PTL

(* A row leaves the log as the retention says and never because another    *)
(* took its key: a key is not used again, also not by the sequence numbers *)
(* of the next process.                                                    *)
THEOREM RetentionCorrect == Spec => RowsLeaveByRetention
<1>1. ASSUME AuditInv, [Next]_vars PROVE [LeavesOldestFirst]_vars
  <2>1. CASE UNCHANGED rows
    BY <2>1 DEF LeavesOldestFirst
  <2>2. CASE Pruning
    BY <1>1, <2>2, PruningDoes DEF LeavesOldestFirst
  <2>3. CASE \E f \in Flusher : Commit(f)
    BY <1>1, <2>3, WritingDoes DEF LeavesOldestFirst
  <2> QED
    BY <1>1, <2>1, <2>2, <2>3 DEF Next, Serving, Stopping, Recording, Flushing, Open, Tick,
       LoopTick, Number, Stamp, Push, Take, CommitFails, Kill, ShutdownBegins, ShutdownEnds,
       QueryBegins, Pruning, vars
<1> QED
  BY <1>1, InvAlways, PTL DEF Spec, RowsLeaveByRetention

===============================================================================
