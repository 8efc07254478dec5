--------------------------- MODULE RequestsProofs ---------------------------
(***************************************************************************)
(* Theorems about Requests and their proofs, for any names, clients and    *)
(* bounds.                                                                 *)
(***************************************************************************)
EXTENDS Requests, SequenceTheorems, TLAPS

(* The request of a handler that runs is one of the calls, what is over was *)
(* given a status, and what was answered stays so.                         *)
CallsAreKnown ==
    \A r \in Request :
        /\ req[r].pc # "idle" => req[r].call \in Call
        /\ req[r].pc \in {"answer", "over"} => req[r].status \in Statuses
        /\ req[r].pc = "over" => answer[r] # 0

(* What a task works on has been looked up or created.                     *)
TargetsExist ==
    \A r \in Request :
        (req[r].pc \in {"version", "snapshot", "work"} /\ route(r).target # "none")
        => target(r) \in exists

(* A task has one snapshot of each source when it comes to its work.       *)
SnapshotsAreCounted ==
    \A r \in Request :
        LET taken == Len(req[r].snaps)
        IN /\ req[r].pc \in {"received", "lookup", "create", "version"} => taken = 0
           /\ req[r].pc = "snapshot" => taken < route(r).sources
           /\ req[r].pc = "work" => taken = route(r).sources

(* What each source held since the call arrived: what it holds now, and    *)
(* what the task has a snapshot of.                                        *)
PastsAreKept ==
    \A r \in Request : Pending(r) =>
        /\ \A n \in Name : past[r][n] # {} => items[n] \in past[r][n]
        /\ \A i \in 1 .. route(r).sources : past[r][sources(r)[i]] # {}
        /\ \A i \in 1 .. Len(req[r].snaps) :
               req[r].snaps[i] \in past[r][sources(r)[i]]

(* The version a checked call has read is the target's exactly as long as  *)
(* no other call has written the target; and what it has read of the       *)
(* target is then what the target holds, unless that was compressed.       *)
VersionsTell ==
    \A r \in Request : route(r).checked =>
        /\ req[r].pc \in {"received", "lookup", "create", "version"} => ~overtaken[r]
        /\ req[r].pc \in {"snapshot", "work"} =>
             /\ req[r].seen <= version[target(r)]
             /\ overtaken[r] <=> ~unchanged_since(r)
             /\ \A i \in 1 .. Len(req[r].snaps) :
                    (sources(r)[i] = target(r) /\ unchanged_since(r) /\ ~squeezed[r])
                    => req[r].snaps[i] = items[target(r)]

RequestsInv ==
    /\ TypeOK /\ CallsAreKnown /\ TargetsExist /\ SnapshotsAreCounted
    /\ PastsAreKept /\ VersionsTell

-----------------------------------------------------------------------------
(* The handlers and the calls.                                             *)

Makes == {h.makes : h \in Routes}

Sound(h) ==
    /\ h.sources \in 0 .. 2 /\ h.storage \in {400, 500} /\ h.checked \in BOOLEAN
    /\ h.makes \in {"nothing", "more", "new", "itself", "both", "part", "same"}
    /\ h.target \in {"create", "find", "none"}
    /\ h.checked => h.target = "create"
    /\ h.makes # "nothing" => h.target # "none"
    /\ h.makes \in {"both", "part"} => h.sources = 2
    /\ h.makes = "same" => h.sources = 1

LEMMA RoutesSound == \A h \in Routes : Sound(h)
<1>1. Sound(write)
  BY DEF Sound, Reading, write
<1>2. Sound(bulk_load)
  BY DEF Sound, Reading, bulk_load
<1>3. Sound(read)
  BY DEF Sound, Reading, read
<1>4. Sound(attention)
  BY DEF Sound, Reading, attention
<1>5. Sound(attention_mdl)
  BY DEF Sound, Reading, attention_mdl
<1>6. Sound(calibrate)
  BY DEF Sound, Reading, calibrate
<1>7. Sound(analyze)
  BY DEF Sound, Reading, analyze
<1>8. Sound(batch_analyze)
  BY DEF Sound, Reading, batch_analyze
<1>9. Sound(query_documents)
  BY DEF Sound, Reading, query_documents
<1>10. Sound(compose_read)
  BY DEF Sound, Reading, compose_read
<1>11. Sound(stats)
  BY DEF Sound, Reading, Looking, stats
<1>12. Sound(compress)
  BY DEF Sound, Reading, Looking, compress
<1>13. Sound(collection_config)
  BY DEF Sound, Reading, Looking, collection_config
<1>14. Sound(locations)
  BY DEF Sound, Reading, Looking, locations
<1>15. Sound(fingerprint)
  BY DEF Sound, Reading, Looking, fingerprint
<1>16. Sound(get_documents)
  BY DEF Sound, Reading, Looking, get_documents
<1>17. Sound(delete_document)
  BY DEF Sound, Reading, Looking, delete_document
<1>18. Sound(get_document)
  BY DEF Sound, Reading, Looking, get_document
<1>19. Sound(algebra_add)
  BY DEF Sound, Reading, Algebra, algebra_add
<1>20. Sound(algebra_sub)
  BY DEF Sound, Reading, Algebra, algebra_sub
<1>21. Sound(algebra_bind)
  BY DEF Sound, Reading, Algebra, algebra_bind
<1>22. Sound(algebra_intersect)
  BY DEF Sound, Reading, Algebra, algebra_intersect
<1>23. Sound(algebra_unbind)
  BY DEF Sound, Reading, Algebra, algebra_unbind
<1>24. Sound(algebra_scale)
  BY DEF Sound, Reading, Algebra, algebra_scale
<1>25. Sound(algebra_permute)
  BY DEF Sound, Reading, Algebra, algebra_permute
<1> QED
  BY <1>1, <1>2, <1>3, <1>4, <1>5, <1>6, <1>7, <1>8, <1>9, <1>10, <1>11, <1>12, <1>13,
     <1>14, <1>15, <1>16, <1>17, <1>18, <1>19, <1>20, <1>21, <1>22, <1>23, <1>24, <1>25
  DEF Routes

LEMMA ReadingMakes == "nothing" \in Makes
<1>1. read \in Routes /\ read.makes = "nothing"
  BY DEF Routes, read, Reading
<1> QED
  BY <1>1 DEF Makes

LEMMA StatsSound == stats \in Routes /\ stats.sources = 0
BY DEF Routes, stats, Looking, Reading

LEMMA CallsAre ==
    ASSUME NEW c \in Call
    PROVE  /\ c.route \in Routes /\ c.target \in Name
           /\ c.from \in [1 .. c.route.sources -> Name]
           /\ c.db \in {"mounted"} \cup Places
           /\ c # NoCall
<1>1. CASE \E h \in Routes : c \in [route : {h}, db : {"mounted"}, target : Name,
                                    from : [1 .. h.sources -> Name]]
  <2>1. PICK h \in Routes : c \in [route : {h}, db : {"mounted"}, target : Name,
                                   from : [1 .. h.sources -> Name]]
    BY <1>1
  <2>2. c.db = "mounted" /\ DOMAIN c = {"route", "db", "target", "from"}
    BY <2>1
  <2>3. c # NoCall
    BY <2>2 DEF NoCall
  <2> QED
    BY <2>1, <2>3
<1>2. CASE c \in [route : {stats}, db : Places, target : Name, from : {<<>>}]
  <2>1. DOMAIN c = {"route", "db", "target", "from"}
    BY <1>2
  <2>2. c # NoCall
    BY <2>1 DEF NoCall
  <2>3. c.from \in [1 .. 0 -> Name]
    <3>1. c.from = <<>> /\ 1 .. 0 = {}
      BY <1>2
    <3> QED
      BY <3>1
  <2> QED
    BY <1>2, <2>2, <2>3, StatsSound
<1> QED
  BY <1>1, <1>2 DEF Call

LEMMA NoCallIs ==
    /\ NoCall.route = Reading /\ NoCall.from = <<>>
    /\ ~Reading.checked /\ Reading.makes = "nothing" /\ Reading.sources = 0
BY DEF NoCall, Reading

(* The sources of a call are as many as its handler looks up.              *)
LEMMA SourcesAre ==
    ASSUME TypeOK, NEW r \in Request
    PROVE  /\ Sound(route(r))
           /\ sources(r) \in [1 .. route(r).sources -> Name]
           /\ Len(sources(r)) = route(r).sources
           /\ sources(r) # <<>> <=> route(r).sources > 0
           /\ req[r].call # NoCall => req[r].call \in Call /\ target(r) \in Name
<1>1. req[r].call \in Call \cup {NoCall}
  BY DEF TypeOK, States
<1>2. Sound(Reading)
  BY DEF Sound, Reading
<1>3. Sound(route(r)) /\ sources(r) \in [1 .. route(r).sources -> Name]
  <2>1. CASE req[r].call \in Call
    BY <2>1, CallsAre, RoutesSound DEF route, sources
  <2>2. CASE req[r].call = NoCall
    BY <2>2, <1>2, NoCallIs DEF route, sources
  <2> QED
    BY <1>1, <2>1, <2>2
<1>4. route(r).sources \in Nat
  BY <1>3 DEF Sound
<1>5. sources(r) \in Seq(Name)
  BY <1>3, <1>4, SeqDef
<1>6. Len(sources(r)) = route(r).sources
  BY <1>3, <1>4, <1>5, LenProperties
<1>7. sources(r) # <<>> <=> route(r).sources > 0
  BY <1>4, <1>5, <1>6, EmptySeq
<1> QED
  BY <1>1, <1>3, <1>6, <1>7, CallsAre DEF target

-----------------------------------------------------------------------------
(* What the steps of a handler or task change of its request.              *)

Only(r) ==
    /\ req' \in [Request -> States]
    /\ \A q \in Request : q # r => req'[q] = req[q]

LEMMA ReqTyped ==
    ASSUME TypeOK, NEW r \in Request
    PROVE  /\ req \in [Request -> States] /\ req[r] \in States
           /\ req[r].call \in Call \cup {NoCall} /\ req[r].pc \in Phases
           /\ req[r].seen \in Nat /\ req[r].snaps \in Seq(SUBSET Item)
           /\ req[r].status \in Statuses \cup {0}
BY DEF TypeOK, States

LEMMA GoesOnly ==
    ASSUME TypeOK, NEW r \in Request, NEW pc \in Phases, Goes(r, pc)
    PROVE  /\ Only(r) /\ req'[r].pc = pc
           /\ req'[r].call = req[r].call /\ req'[r].seen = req[r].seen
           /\ req'[r].snaps = req[r].snaps /\ req'[r].status = req[r].status
<1> DEFINE k == [req[r] EXCEPT !.pc = pc]
<1>1. req' = [req EXCEPT ![r] = k]
  BY ReqTyped DEF Goes
<1>2. /\ k \in States /\ k.pc = pc /\ k.call = req[r].call /\ k.seen = req[r].seen
      /\ k.snaps = req[r].snaps /\ k.status = req[r].status
  BY ReqTyped DEF States
<1> HIDE DEF k
<1> QED
  BY <1>1, <1>2, ReqTyped DEF Only

LEMMA EndsOnly ==
    ASSUME TypeOK, NEW r \in Request, NEW status \in Statuses, Ends(r, status)
    PROVE  /\ Only(r) /\ req'[r].pc = "answer"
           /\ req'[r].call = req[r].call
           /\ req'[r].snaps = <<>> /\ req'[r].status = status
<1> DEFINE k == [req[r] EXCEPT !.pc = "answer", !.status = status, !.seen = 0, !.snaps = <<>>]
<1>1. req' = [req EXCEPT ![r] = k]
  BY ReqTyped DEF Ends
<1>2. <<>> \in Seq(SUBSET Item)
  BY EmptySeq
<1>3. /\ k \in States /\ k.pc = "answer" /\ k.call = req[r].call
      /\ k.snaps = <<>> /\ k.status = status
  BY <1>2, ReqTyped DEF States, Phases
<1> HIDE DEF k
<1> QED
  BY <1>1, <1>3, ReqTyped DEF Only

(* A step of the handler that only goes on.                                *)
Onward(r) ==
    \E pc \in {"lookup", "create", "version", "snapshot", "work"} :
        /\ Goes(r, pc)
        /\ req[r].pc \in {"received", "lookup", "create"}
        /\ pc \in {"snapshot", "work"} => ~route(r).checked
        /\ pc = "snapshot" => route(r).sources > 0
        /\ pc = "work" => route(r).sources = 0
        /\ (pc \in {"version", "snapshot", "work"} /\ route(r).target # "none")
           => target(r) \in exists'
        /\ UNCHANGED <<items, version, answer, past, changes>>

(* A call ends, and changes nothing but perhaps the version.               *)
Ended(r) ==
    \E status \in Statuses :
        /\ Ends(r, status)
        /\ Pending(r)
        /\ status = 200 => route(r).makes = "nothing"
        /\ UNCHANGED <<items, answer, past>>
        /\ UNCHANGED <<version, changes>> \/ (Mutates(r) /\ ~Compressing(r))

LEMMA RejectsWith ==
    ASSUME NEW h, Sound(h)
    PROVE  rejection(h) \in {400, 404, 500}
<1>1. CASE h.refuses = "document"
  BY <1>1 DEF rejection, write, Reading
<1>2. CASE h.refuses # "document"
  BY <1>2 DEF rejection, Sound
<1> QED
  BY <1>1, <1>2

LEMMA DatabaseOf ==
    ASSUME NEW c \in Call
    PROVE  resolve_db(c.db) \in {200, 404, 409}
<1>1. c.db \in {"mounted", "refused", "missing"}
  BY RequestsAssumption, CallsAre
<1> QED
  BY <1>1 DEF resolve_db

LEMMA HandlerKinds ==
    ASSUME RequestsInv, NEW r \in Request, Handler(r)
    PROVE  Receive(r) \/ Onward(r) \/ Ended(r) \/ Answer(r) \/ TimesOut(r)
<1>0. /\ Sound(route(r)) /\ (sources(r) # <<>> <=> route(r).sources > 0)
      /\ route(r).sources \in 0 .. 2
  BY SourcesAre DEF Sound, RequestsInv
<1>1. CASE Admit(r)
  <2>0. /\ At(r, "received") /\ req[r].call \in Call
        /\ UNCHANGED <<collections, answer, past, changes, spent>>
    BY <1>1 DEF Admit, At, RequestsInv, CallsAreKnown
  <2>1. CASE Goes(r, "lookup")
    BY <2>0, <2>1 DEF Onward, At, collections
  <2>2. CASE Ends(r, 400)
    BY <2>0, <2>2 DEF Ended, At, Pending, Statuses, collections
  <2>3. CASE resolve_db(req[r].call.db) # 200 /\ Ends(r, resolve_db(req[r].call.db))
    BY <2>0, <2>3, DatabaseOf DEF Ended, At, Pending, Statuses, collections
  <2> QED
    BY <1>1, <2>1, <2>2, <2>3 DEF Admit, resolve_vectors
<1>2. CASE Lookup(r)
  <2>0. At(r, "lookup") /\ UNCHANGED <<collections, answer, past, changes, spent>>
    BY <1>2 DEF Lookup
  <2>1. CASE Ends(r, 404) \/ Ends(r, 400)
    BY <2>0, <2>1 DEF Ended, At, Pending, Statuses, collections
  <2>2. CASE /\ needed(r) \subseteq exists
             /\ Goes(r, IF route(r).target = "create" THEN "create"
                        ELSE IF sources(r) # <<>> THEN "snapshot" ELSE "work")
    <3>1. route(r).target = "find" => target(r) \in exists'
      BY <2>0, <2>2 DEF needed, collections
    <3>2. route(r).target # "create" => ~route(r).checked
      BY <1>0 DEF Sound
    <3>3. CASE route(r).target = "create"
      BY <2>0, <2>2, <3>3 DEF Onward, At, collections
    <3>4. CASE route(r).target # "create" /\ sources(r) # <<>>
      BY <1>0, <2>0, <2>2, <3>1, <3>2, <3>4 DEF Onward, At, collections, Sound
    <3>5. CASE route(r).target # "create" /\ sources(r) = <<>>
      <4>1. route(r).sources = 0
        BY <1>0, <3>5
      <4> QED
        BY <1>0, <2>0, <2>2, <3>1, <3>2, <3>5, <4>1 DEF Onward, At, collections, Sound
    <3> QED
      BY <3>3, <3>4, <3>5
  <2> QED
    BY <1>2, <2>1, <2>2 DEF Lookup, check_cross_product_cap
<1>3. CASE Create(r)
  <2>0. /\ At(r, "create") /\ UNCHANGED <<items, version, answer, past, changes, spent>>
        /\ target(r) \in exists'
    BY <1>3 DEF Create
  <2>1. CASE Goes(r, started(r))
    <3>1. CASE route(r).checked
      BY <2>0, <2>1, <3>1 DEF Onward, At, started
    <3>2. CASE ~route(r).checked /\ sources(r) # <<>>
      BY <1>0, <2>0, <2>1, <3>2 DEF Onward, At, started
    <3>3. CASE ~route(r).checked /\ sources(r) = <<>>
      <4>1. route(r).sources = 0
        BY <1>0, <3>3
      <4> QED
        BY <2>0, <2>1, <3>3, <4>1 DEF Onward, At, started
    <3> QED
      BY <3>1, <3>2, <3>3
  <2>2. CASE Ends(r, 400)
    BY <2>0, <2>2 DEF Ended, At, Pending, Statuses
  <2> QED
    BY <1>3, <2>1, <2>2 DEF Create
<1>4. CASE CreateFails(r)
  BY <1>4 DEF CreateFails, Fails, Ended, At, Pending, Statuses, collections
<1> QED
  BY <1>1, <1>2, <1>3, <1>4 DEF Handler

LEMMA TaskKinds ==
    ASSUME RequestsInv, NEW r \in Request, Task(r)
    PROVE  TaskVersion(r) \/ TaskSnapshot(r) \/ TaskChanges(r) \/ Ended(r)
<1>1. Sound(route(r))
  BY SourcesAre DEF RequestsInv
<1>2. CASE TaskConflicts(r)
  BY <1>2 DEF TaskConflicts, Ended, At, Pending, Statuses, collections
<1>3. CASE TaskRejects(r)
  <2>1. rejection(route(r)) \in Statuses \ {200}
    BY <1>1, RejectsWith DEF Statuses
  <2> QED
    BY <1>3, <2>1 DEF TaskRejects, Ended, At, Pending, collections
<1>4. CASE TaskReads(r)
  BY <1>4 DEF TaskReads, Ended, At, Pending, Statuses, Changing, collections
<1>5. CASE TaskFails(r)
  <2>1. route(r).storage \in Statuses \ {200}
    BY <1>1 DEF Sound, Statuses
  <2> QED
    BY <1>5, <2>1 DEF TaskFails, Fails, Ended, At, Pending
<1> QED
  BY <1>2, <1>3, <1>4, <1>5 DEF Task

LEMMA ReceivesOnly ==
    ASSUME TypeOK, NEW r \in Request, NEW c \in Call,
           req' = [req EXCEPT ![r] = [call |-> c, pc |-> "received", seen |-> 0,
                                      snaps |-> <<>>, status |-> 0]]
    PROVE  /\ Only(r) /\ req'[r].pc = "received" /\ req'[r].call = c
           /\ req'[r].seen = 0 /\ req'[r].snaps = <<>> /\ req'[r].status = 0
<1> DEFINE k == [call |-> c, pc |-> "received", seen |-> 0, snaps |-> <<>>, status |-> 0]
<1>1. req' = [req EXCEPT ![r] = k]
  OBVIOUS
<1>2. <<>> \in Seq(SUBSET Item)
  BY EmptySeq
<1>3. /\ k \in States /\ k.pc = "received" /\ k.call = c
      /\ k.seen = 0 /\ k.snaps = <<>> /\ k.status = 0
  BY <1>2 DEF States, Phases
<1> HIDE DEF k
<1> QED
  BY <1>1, <1>3, ReqTyped DEF Only

LEMMA VersionOnly ==
    ASSUME RequestsInv, NEW r \in Request, TaskVersion(r)
    PROVE  /\ Only(r)
           /\ req'[r].pc = IF route(r).sources > 0 THEN "snapshot" ELSE "work"
           /\ req'[r].call = req[r].call /\ req'[r].seen = version[target(r)]
           /\ req'[r].snaps = req[r].snaps /\ req'[r].status = req[r].status
<1> DEFINE pc == IF route(r).sources > 0 THEN "snapshot" ELSE "work"
           k == [req[r] EXCEPT !.pc = pc, !.seen = version[target(r)]]
<1>0. /\ TypeOK /\ req[r].call # NoCall
  BY CallsAre DEF TaskVersion, At, RequestsInv, CallsAreKnown
<1>1. req' = [req EXCEPT ![r] = k]
  BY <1>0, ReqTyped, SourcesAre DEF TaskVersion
<1>2. version[target(r)] \in Nat
  BY <1>0, SourcesAre DEF TypeOK
<1>3. /\ k \in States /\ k.pc = pc /\ k.call = req[r].call /\ k.seen = version[target(r)]
      /\ k.snaps = req[r].snaps /\ k.status = req[r].status
  BY <1>0, <1>2, ReqTyped DEF States, Phases
<1> HIDE DEF k
<1> QED
  BY <1>0, <1>1, <1>3, ReqTyped DEF Only

LEMMA SnapshotOnly ==
    ASSUME RequestsInv, NEW r \in Request, TaskSnapshot(r)
    PROVE  /\ Only(r)
           /\ Len(req[r].snaps) + 1 \in 1 .. route(r).sources
           /\ sources(r)[Len(req[r].snaps) + 1] \in Name
           /\ req'[r].pc = IF Len(req[r].snaps) + 1 = route(r).sources
                           THEN "work" ELSE "snapshot"
           /\ req'[r].call = req[r].call /\ req'[r].seen = req[r].seen
           /\ req'[r].snaps = Append(req[r].snaps, items[sources(r)[Len(req[r].snaps) + 1]])
           /\ req'[r].status = req[r].status
<1> DEFINE s == req[r].snaps
           n == sources(r)[Len(s) + 1]
           pc == IF Len(s) + 1 = route(r).sources THEN "work" ELSE "snapshot"
           k == [req[r] EXCEPT !.pc = pc, !.snaps = Append(s, items[n])]
<1>0. TypeOK /\ s \in Seq(SUBSET Item) /\ Len(s) \in Nat
  BY ReqTyped, LenProperties DEF RequestsInv
<1>1. /\ Len(s) + 1 \in 1 .. route(r).sources /\ n \in Name
      /\ Len(sources(r)) = route(r).sources
  BY <1>0, SourcesAre DEF TaskSnapshot, At, RequestsInv, SnapshotsAreCounted, Sound
<1>2. items[n] \in SUBSET Item
  BY <1>0, <1>1 DEF TypeOK
<1>3. Append(s, items[n]) \in Seq(SUBSET Item) /\ Len(Append(s, items[n])) = Len(s) + 1
  BY <1>0, <1>2, AppendProperties
<1>4. req' = [req EXCEPT ![r] = k]
  BY <1>0, <1>1, <1>3, ReqTyped DEF TaskSnapshot
<1>5. /\ k \in States /\ k.pc = pc /\ k.call = req[r].call /\ k.seen = req[r].seen
      /\ k.snaps = Append(s, items[n]) /\ k.status = req[r].status
  BY <1>0, <1>3, ReqTyped DEF States, Phases
<1> HIDE DEF k
<1> QED
  BY <1>0, <1>1, <1>4, <1>5, ReqTyped DEF Only

LEMMA StepOnly ==
    ASSUME RequestsInv, NEW r \in Request, Handler(r) \/ Task(r)
    PROVE  Only(r)
<1> USE DEF RequestsInv
<1>1. CASE Receive(r)
  <2>1. PICK c \in Call :
          req' = [req EXCEPT ![r] = [call |-> c, pc |-> "received", seen |-> 0,
                                     snaps |-> <<>>, status |-> 0]]
    BY <1>1 DEF Receive
  <2> QED
    BY <2>1, ReceivesOnly
<1>2. CASE Onward(r)
  BY <1>2, GoesOnly DEF Onward, Phases
<1>3. CASE Ended(r)
  BY <1>3, EndsOnly DEF Ended
<1>4. CASE Answer(r)
  BY <1>4, GoesOnly DEF Answer, Phases
<1>5. CASE TimesOut(r)
  BY <1>5, ReqTyped DEF TimesOut, Only
<1>6. CASE TaskChanges(r)
  BY <1>6, EndsOnly DEF TaskChanges, Statuses
<1> QED
  BY <1>1, <1>2, <1>3, <1>4, <1>5, <1>6, VersionOnly, SnapshotOnly, HandlerKinds, TaskKinds

LEMMA ResultsTyped ==
    ASSUME RequestsInv, NEW r \in Request, At(r, "work"), Changing(r)
    PROVE  /\ target(r) \in Name /\ target(r) \in exists
           /\ \A s \in results(r) : s \subseteq Item
<1>1. /\ TypeOK /\ req[r].call # NoCall /\ Sound(route(r))
  BY CallsAre, SourcesAre DEF At, RequestsInv, CallsAreKnown
<1>2. target(r) \in Name /\ target(r) \in exists
  BY <1>1, SourcesAre DEF At, RequestsInv, TargetsExist, Changing, Sound
<1>3. items[target(r)] \subseteq Item /\ r \in Item
  BY <1>1, <1>2 DEF TypeOK, Item
<1>4. Len(req[r].snaps) = route(r).sources /\ req[r].snaps \in Seq(SUBSET Item)
  BY <1>1, ReqTyped DEF At, RequestsInv, SnapshotsAreCounted
<1>5. /\ route(r).makes \in {"both", "part"} =>
           req[r].snaps[1] \subseteq Item /\ req[r].snaps[2] \subseteq Item
      /\ route(r).makes = "same" => req[r].snaps[1] \subseteq Item
  <2>1. \A i \in 1 .. Len(req[r].snaps) : req[r].snaps[i] \in SUBSET Item
    BY <1>4, ElementOfSeq
  <2> QED
    BY <1>1, <1>4, <2>1 DEF Sound
<1>6. ASSUME NEW s \in results(r) PROVE s \subseteq Item
  <2>1. route(r).makes \in {"more", "new", "itself", "both", "part", "same"}
    BY <1>1 DEF Sound, Changing
  <2>2. CASE route(r).makes = "more"
    BY <1>3, <1>6, <2>2 DEF results
  <2>3. CASE route(r).makes = "new"
    BY <1>3, <1>6, <2>3 DEF results
  <2>4. CASE route(r).makes = "itself"
    BY <1>3, <1>6, <2>4 DEF results
  <2>5. CASE route(r).makes = "both"
    BY <1>5, <1>6, <2>5 DEF results
  <2>6. CASE route(r).makes = "part"
    BY <1>5, <1>6, <2>6 DEF results
  <2>7. CASE route(r).makes = "same"
    BY <1>5, <1>6, <2>7 DEF results
  <2> QED
    BY <2>1, <2>2, <2>3, <2>4, <2>5, <2>6, <2>7
<1> QED
  BY <1>2, <1>6

-----------------------------------------------------------------------------
(* Type correctness, and what a task works on.                             *)

LEMMA ItemsTyped ==
    ASSUME RequestsInv, NEW r \in Request, Handler(r) \/ Task(r)
    PROVE  /\ exists \subseteq exists' /\ exists' \subseteq Name
           /\ items' \in [Name -> SUBSET Item]
           /\ \A n \in Name : items'[n] # {} => n \in exists'
<1> USE DEF RequestsInv, collections
<1>0. /\ exists \subseteq Name /\ items \in [Name -> SUBSET Item]
      /\ \A n \in Name : items[n] # {} => n \in exists
  BY DEF TypeOK
<1>1. CASE TaskChanges(r)
  <2>1. PICK s \in results(r) : items' = [items EXCEPT ![target(r)] = s]
    BY <1>1 DEF TaskChanges
  <2>2. target(r) \in Name /\ target(r) \in exists /\ s \subseteq Item /\ exists' = exists
    BY <1>1, ResultsTyped DEF TaskChanges
  <2> QED
    BY <1>0, <2>1, <2>2
<1>2. CASE Create(r)
  <2>1. target(r) \in Name
    BY <1>2, CallsAre DEF Create, At, CallsAreKnown, target
  <2> QED
    BY <1>0, <1>2, <2>1 DEF Create
<1>3. CASE \/ Receive(r) \/ Admit(r) \/ Lookup(r) \/ CreateFails(r) \/ Answer(r) \/ TimesOut(r)
           \/ TaskVersion(r) \/ TaskSnapshot(r) \/ TaskConflicts(r)
           \/ TaskRejects(r) \/ TaskReads(r) \/ TaskFails(r)
  <2>1. UNCHANGED <<exists, items>>
    BY <1>3 DEF Receive, Admit, Lookup, CreateFails, Answer, TimesOut, TaskVersion,
       TaskSnapshot, TaskConflicts, TaskRejects, TaskReads, TaskFails
  <2> QED
    BY <1>0, <2>1
<1> QED
  BY <1>1, <1>2, <1>3 DEF Handler, Task

LEMMA MutatesTyped ==
    ASSUME TypeOK, NEW r \in Request, Mutates(r)
    PROVE  /\ version' \in [Name -> Nat]
           /\ overtaken' \in [Request -> BOOLEAN] /\ squeezed' \in [Request -> BOOLEAN]
<1>0. /\ version \in [Name -> Nat]
      /\ overtaken \in [Request -> BOOLEAN] /\ squeezed \in [Request -> BOOLEAN]
  BY DEF TypeOK
<1> DEFINE o(q) == overtaken[q] \/ q \in Overtakes(r)
           s(q) == squeezed[q] \/ q \in Overtakes(r)
<1>1. CASE Compressing(r)
  <2>1. squeezed' = [q \in Request |-> s(q)] /\ UNCHANGED <<version, overtaken>>
    BY Zenon, <1>1 DEF Mutates
  <2>2. \A q \in Request : s(q) \in BOOLEAN
    OBVIOUS
  <2> HIDE DEF s
  <2> QED
    BY <1>0, <2>1, <2>2
<1>2. CASE ~Compressing(r)
  <2>1. /\ overtaken' = [q \in Request |-> o(q)] /\ UNCHANGED squeezed
        /\ version' = [version EXCEPT ![target(r)] = @ + 1]
    BY Zenon, <1>2 DEF Mutates
  <2>2. \A q \in Request : o(q) \in BOOLEAN
    OBVIOUS
  <2>3. version[target(r)] + 1 \in Nat \/ target(r) \notin Name
    BY <1>0
  <2> HIDE DEF o
  <2> QED
    BY <1>0, <2>1, <2>2, <2>3
<1> QED
  BY <1>1, <1>2

LEMMA VersionTyped ==
    ASSUME RequestsInv, NEW r \in Request, Handler(r) \/ Task(r)
    PROVE  /\ version' \in [Name -> Nat]
           /\ overtaken' \in [Request -> BOOLEAN] /\ squeezed' \in [Request -> BOOLEAN]
<1> USE DEF RequestsInv, changes
<1>0. /\ version \in [Name -> Nat]
      /\ overtaken \in [Request -> BOOLEAN] /\ squeezed \in [Request -> BOOLEAN]
  BY DEF TypeOK
<1>1. CASE Receive(r)
  BY <1>0, <1>1 DEF Receive, collections
<1>2. CASE Ended(r) \/ TaskChanges(r)
  BY <1>0, <1>2, MutatesTyped DEF Ended, TaskChanges
<1>3. CASE Onward(r) \/ Answer(r) \/ TimesOut(r) \/ TaskVersion(r) \/ TaskSnapshot(r)
  BY <1>0, <1>3 DEF Onward, Answer, TimesOut, TaskVersion, TaskSnapshot, collections
<1> QED
  BY <1>1, <1>2, <1>3, HandlerKinds, TaskKinds

LEMMA PastTyped ==
    ASSUME RequestsInv, NEW r \in Request, Handler(r) \/ Task(r)
    PROVE  past' \in [Request -> [Name -> SUBSET SUBSET Item]]
<1> USE DEF RequestsInv
<1>0. /\ past \in [Request -> [Name -> SUBSET SUBSET Item]]
      /\ items \in [Name -> SUBSET Item] /\ items' \in [Name -> SUBSET Item]
      /\ NoPast \in [Name -> SUBSET SUBSET Item]
  BY ItemsTyped DEF TypeOK, NoPast
<1>1. CASE Receive(r)
  <2>1. PICK c \in Call : past' = [past EXCEPT ![r] = [n \in Name |->
                       {items[n] : i \in {j \in DOMAIN c.from : c.from[j] = n}}]]
    BY <1>1 DEF Receive
  <2> QED
    BY <1>0, <2>1
<1>2. CASE TaskChanges(r)
  <2> DEFINE p(q) == IF q = r \/ ~Pending(q) THEN NoPast
                     ELSE [n \in Name |-> IF past[q][n] = {} THEN {}
                                           ELSE past[q][n] \cup {items'[n]}]
  <2>1. past' = [q \in Request |-> p(q)]
    BY <1>2 DEF TaskChanges
  <2>2. \A q \in Request : p(q) \in [Name -> SUBSET SUBSET Item]
    BY <1>0
  <2> QED
    BY <2>1, <2>2
<1>3. CASE Answer(r)
  BY <1>0, <1>3 DEF Answer
<1>4. CASE Onward(r) \/ Ended(r) \/ TimesOut(r) \/ TaskVersion(r) \/ TaskSnapshot(r)
  BY <1>0, <1>4 DEF Onward, Ended, TimesOut, TaskVersion, TaskSnapshot
<1> QED
  BY <1>1, <1>2, <1>3, <1>4, HandlerKinds, TaskKinds

LEMMA AnswerTyped ==
    ASSUME RequestsInv, NEW r \in Request, Handler(r) \/ Task(r)
    PROVE  answer' \in [Request -> Statuses \cup {0, 408}]
<1> USE DEF RequestsInv
<1>0. answer \in [Request -> Statuses \cup {0, 408}] /\ req[r].status \in Statuses \cup {0}
  BY ReqTyped DEF TypeOK
<1>1. CASE Receive(r)
  BY <1>0, <1>1 DEF Receive
<1>2. CASE Answer(r)
  BY <1>0, <1>2 DEF Answer
<1>3. CASE TimesOut(r)
  BY <1>0, <1>3 DEF TimesOut
<1>4. CASE Onward(r) \/ Ended(r) \/ TaskVersion(r) \/ TaskSnapshot(r) \/ TaskChanges(r)
  BY <1>0, <1>4 DEF Onward, Ended, TaskVersion, TaskSnapshot, TaskChanges
<1> QED
  BY <1>1, <1>2, <1>3, <1>4, HandlerKinds, TaskKinds

LEMMA SpentTyped ==
    ASSUME RequestsInv, NEW r \in Request, Handler(r) \/ Task(r)
    PROVE  spent' \in [sends : 0 .. Sends, faults : 0 .. MaxFault]
<1>0. spent \in [sends : 0 .. Sends, faults : 0 .. MaxFault]
      /\ Sends \in Nat /\ MaxFault \in Nat
  BY RequestsAssumption DEF RequestsInv, TypeOK
<1>1. CASE UNCHANGED spent
  BY <1>0, <1>1
<1>2. CASE spent.sends < Sends /\ spent' = [spent EXCEPT !.sends = @ + 1]
  BY <1>0, <1>2
<1>3. CASE spent.faults < MaxFault /\ spent' = [spent EXCEPT !.faults = @ + 1]
  BY <1>0, <1>3
<1> QED
  BY <1>1, <1>2, <1>3 DEF Handler, Task, Receive, Admit, Lookup, Create, CreateFails,
     Answer, TimesOut, TaskVersion, TaskSnapshot, TaskChanges, TaskConflicts,
     TaskRejects, TaskReads, TaskFails, Fails

LEMMA TypeKept ==
    ASSUME RequestsInv, NEW r \in Request, Handler(r) \/ Task(r)
    PROVE  TypeOK'
BY StepOnly, ItemsTyped, VersionTyped, PastTyped, AnswerTyped, SpentTyped DEF TypeOK, Only

-----------------------------------------------------------------------------
(* The rest of the invariant, step by step.                                *)

LEMMA SameCall ==
    ASSUME NEW q \in Request, req'[q].call = req[q].call
    PROVE  route(q)' = route(q) /\ sources(q)' = sources(q) /\ target(q)' = target(q)
BY DEF route, sources, target

LEMMA OthersKept ==
    ASSUME NEW r \in Request, Only(r), NEW q \in Request, q # r
    PROVE  /\ req'[q] = req[q] /\ route(q)' = route(q) /\ sources(q)' = sources(q)
           /\ target(q)' = target(q) /\ Pending(q)' = Pending(q)
BY DEF Only, route, sources, target, Pending

LEMMA PendingCall ==
    ASSUME RequestsInv, NEW q \in Request, Pending(q) \/ route(q).checked
    PROVE  req[q].call \in Call /\ target(q) \in Name
<1>1. req[q].call # NoCall
  BY CallsAre, NoCallIs DEF RequestsInv, CallsAreKnown, Pending, route
<1> QED
  BY <1>1, SourcesAre DEF RequestsInv

LEMMA CallsKept ==
    ASSUME RequestsInv, NEW r \in Request, Handler(r) \/ Task(r)
    PROVE  CallsAreKnown'
<1> USE DEF RequestsInv
<1>0. Only(r) /\ CallsAreKnown /\ 0 \notin Statuses
      /\ answer \in [Request -> Statuses \cup {0, 408}]
  BY StepOnly DEF TypeOK, Statuses
<1>1. \A q \in Request : q # r => req'[q] = req[q] /\ answer'[q] = answer[q]
  <2>1. \A q \in Request : q # r => answer'[q] = answer[q]
    <3>1. CASE Receive(r) \/ Answer(r) \/ TimesOut(r)
      BY <1>0, <3>1 DEF Receive, Answer, TimesOut
    <3>2. CASE Onward(r) \/ Ended(r) \/ TaskVersion(r) \/ TaskSnapshot(r) \/ TaskChanges(r)
      BY <1>0, <3>2 DEF Onward, Ended, TaskVersion, TaskSnapshot, TaskChanges
    <3> QED
      BY <3>1, <3>2, HandlerKinds, TaskKinds
  <2> QED
    BY <1>0, <2>1 DEF Only
<1> SUFFICES
      /\ req'[r].pc # "idle" => req'[r].call \in Call
      /\ req'[r].pc \in {"answer", "over"} => req'[r].status \in Statuses
      /\ req'[r].pc = "over" => answer'[r] # 0
  BY <1>0, <1>1 DEF CallsAreKnown
<1>2. CASE Receive(r)
  <2>1. PICK c \in Call :
          req' = [req EXCEPT ![r] = [call |-> c, pc |-> "received", seen |-> 0,
                                     snaps |-> <<>>, status |-> 0]]
    BY <1>2 DEF Receive
  <2> QED
    BY <2>1, ReceivesOnly
<1>3. CASE Onward(r)
  <2>1. PICK pc \in {"lookup", "create", "version", "snapshot", "work"} :
          Goes(r, pc) /\ req[r].pc \in {"received", "lookup", "create"}
    BY <1>3 DEF Onward
  <2> QED
    BY <1>0, <2>1, GoesOnly DEF CallsAreKnown, Phases
<1>4. CASE Ended(r)
  BY <1>4, EndsOnly, PendingCall DEF Ended
<1>5. CASE Answer(r)
  <2>1. /\ req'[r].pc = "over" /\ req'[r].call = req[r].call /\ req'[r].status = req[r].status
        /\ req[r].pc = "answer"
    BY <1>5, GoesOnly DEF Answer, At, Phases
  <2>2. answer'[r] = IF answer[r] = 0 THEN req[r].status ELSE answer[r]
    BY <1>0, <1>5 DEF Answer
  <2> QED
    BY <1>0, <2>1, <2>2 DEF CallsAreKnown
<1>6. CASE TimesOut(r)
  BY <1>0, <1>6 DEF TimesOut, CallsAreKnown
<1>7. CASE TaskVersion(r)
  <2>1. req'[r].pc \in {"snapshot", "work"} /\ req'[r].call = req[r].call
    BY <1>7, VersionOnly
  <2>2. req[r].pc = "version"
    BY <1>7 DEF TaskVersion, At
  <2> QED
    BY <1>0, <2>1, <2>2 DEF CallsAreKnown
<1>8. CASE TaskSnapshot(r)
  <2>1. req'[r].pc \in {"snapshot", "work"} /\ req'[r].call = req[r].call
    BY <1>8, SnapshotOnly
  <2>2. req[r].pc = "snapshot"
    BY <1>8 DEF TaskSnapshot, At
  <2> QED
    BY <1>0, <2>1, <2>2 DEF CallsAreKnown
<1>9. CASE TaskChanges(r)
  BY <1>0, <1>9, EndsOnly DEF TaskChanges, At, CallsAreKnown, Statuses
<1> QED
  BY <1>2, <1>3, <1>4, <1>5, <1>6, <1>7, <1>8, <1>9, HandlerKinds, TaskKinds

LEMMA TargetsKept ==
    ASSUME RequestsInv, NEW r \in Request, Handler(r) \/ Task(r)
    PROVE  TargetsExist'
<1> USE DEF RequestsInv
<1>0. Only(r) /\ exists \subseteq exists'
  BY StepOnly, ItemsTyped
<1>1. ASSUME NEW q \in Request, q # r
      PROVE  (req'[q].pc \in {"version", "snapshot", "work"} /\ route(q)'.target # "none")
             => target(q)' \in exists'
  BY <1>0, <1>1, OthersKept DEF TargetsExist
<1> SUFFICES (req'[r].pc \in {"version", "snapshot", "work"} /\ route(r)'.target # "none")
             => target(r)' \in exists'
  BY <1>1 DEF TargetsExist
<1>2. CASE Receive(r)
  <2>1. PICK c \in Call :
          req' = [req EXCEPT ![r] = [call |-> c, pc |-> "received", seen |-> 0,
                                     snaps |-> <<>>, status |-> 0]]
    BY <1>2 DEF Receive
  <2> QED
    BY <2>1, ReceivesOnly
<1>3. CASE Onward(r)
  <2>1. PICK pc \in {"lookup", "create", "version", "snapshot", "work"} :
          /\ Goes(r, pc)
          /\ (pc \in {"version", "snapshot", "work"} /\ route(r).target # "none")
             => target(r) \in exists'
    BY <1>3 DEF Onward
  <2>2. req'[r].pc = pc /\ req'[r].call = req[r].call
    BY <2>1, GoesOnly DEF Phases
  <2> QED
    BY <2>1, <2>2, SameCall
<1>4. CASE Ended(r) \/ Answer(r) \/ TaskChanges(r)
  BY <1>4, EndsOnly, GoesOnly DEF Ended, Answer, TaskChanges, Phases, Statuses
<1>5. CASE TimesOut(r)
  BY <1>0, <1>5, SameCall DEF TimesOut, TargetsExist
<1>6. CASE TaskVersion(r)
  BY <1>0, <1>6, VersionOnly, SameCall DEF TaskVersion, At, TargetsExist
<1>7. CASE TaskSnapshot(r)
  BY <1>0, <1>7, SnapshotOnly, SameCall DEF TaskSnapshot, At, TargetsExist
<1> QED
  BY <1>2, <1>3, <1>4, <1>5, <1>6, <1>7, HandlerKinds, TaskKinds

LEMMA CountKept ==
    ASSUME RequestsInv, NEW r \in Request, Handler(r) \/ Task(r)
    PROVE  SnapshotsAreCounted'
<1> USE DEF RequestsInv
<1>0. Only(r) /\ Len(<<>>) = 0
  BY StepOnly
<1>1. ASSUME NEW q \in Request, q # r
      PROVE  /\ req'[q].pc \in {"received", "lookup", "create", "version"}
                  => Len(req'[q].snaps) = 0
             /\ req'[q].pc = "snapshot" => Len(req'[q].snaps) < route(q)'.sources
             /\ req'[q].pc = "work" => Len(req'[q].snaps) = route(q)'.sources
  BY <1>0, <1>1, OthersKept DEF SnapshotsAreCounted
<1> SUFFICES /\ req'[r].pc \in {"received", "lookup", "create", "version"}
                  => Len(req'[r].snaps) = 0
             /\ req'[r].pc = "snapshot" => Len(req'[r].snaps) < route(r)'.sources
             /\ req'[r].pc = "work" => Len(req'[r].snaps) = route(r)'.sources
  BY <1>1 DEF SnapshotsAreCounted
<1>2. CASE Receive(r)
  <2>1. PICK c \in Call :
          req' = [req EXCEPT ![r] = [call |-> c, pc |-> "received", seen |-> 0,
                                     snaps |-> <<>>, status |-> 0]]
    BY <1>2 DEF Receive
  <2> QED
    BY <1>0, <2>1, ReceivesOnly
<1>3. CASE Onward(r)
  <2>1. PICK pc \in {"lookup", "create", "version", "snapshot", "work"} :
          /\ Goes(r, pc) /\ req[r].pc \in {"received", "lookup", "create"}
          /\ pc = "snapshot" => route(r).sources > 0
          /\ pc = "work" => route(r).sources = 0
    BY <1>3 DEF Onward
  <2>2. /\ req'[r].pc = pc /\ req'[r].call = req[r].call /\ req'[r].snaps = req[r].snaps
    BY <2>1, GoesOnly DEF Phases
  <2>3. Len(req[r].snaps) = 0
    BY <2>1 DEF SnapshotsAreCounted
  <2> QED
    BY <2>1, <2>2, <2>3, SameCall, SourcesAre DEF Sound
<1>4. CASE Ended(r) \/ Answer(r) \/ TaskChanges(r)
  BY <1>4, EndsOnly, GoesOnly DEF Ended, Answer, TaskChanges, Phases, Statuses
<1>5. CASE TimesOut(r)
  BY <1>0, <1>5, SameCall DEF TimesOut, SnapshotsAreCounted
<1>6. CASE TaskVersion(r)
  <2>1. Len(req[r].snaps) = 0 /\ route(r).sources \in 0 .. 2
    BY <1>6, SourcesAre DEF TaskVersion, At, SnapshotsAreCounted, Sound
  <2> QED
    BY <1>6, <2>1, VersionOnly, SameCall
<1>7. CASE TaskSnapshot(r)
  <2> DEFINE n == sources(r)[Len(req[r].snaps) + 1]
  <2>1. /\ req[r].snaps \in Seq(SUBSET Item) /\ items[n] \in SUBSET Item
        /\ Len(req[r].snaps) + 1 \in 1 .. route(r).sources
        /\ req'[r].snaps = Append(req[r].snaps, items[n])
    BY <1>7, SnapshotOnly, ReqTyped DEF TypeOK
  <2>2. Len(req'[r].snaps) = Len(req[r].snaps) + 1
    BY <2>1, AppendProperties
  <2>3. Len(req[r].snaps) \in Nat /\ route(r).sources \in 0 .. 2
    BY <2>1, LenProperties, SourcesAre DEF Sound
  <2> HIDE DEF n
  <2> QED
    BY <1>7, <2>1, <2>2, <2>3, SnapshotOnly, SameCall
<1> QED
  BY <1>2, <1>3, <1>4, <1>5, <1>6, <1>7, HandlerKinds, TaskKinds

(* The values a request's sources have held, for one request.              *)
PastKept(q) ==
    Pending(q) =>
        /\ \A n \in Name : past[q][n] # {} => items[n] \in past[q][n]
        /\ \A i \in 1 .. route(q).sources : past[q][sources(q)[i]] # {}
        /\ \A i \in 1 .. Len(req[q].snaps) :
               req[q].snaps[i] \in past[q][sources(q)[i]]

LEMMA PastStays ==
    ASSUME RequestsInv, NEW q \in Request, UNCHANGED items, past'[q] = past[q],
           Pending(q)' => Pending(q),
           req'[q].call = req[q].call, req'[q].snaps = req[q].snaps
    PROVE  PastKept(q)'
<1>1. PastKept(q)
  BY DEF RequestsInv, PastsAreKept, PastKept
<1> QED
  BY <1>1, SameCall DEF PastKept

LEMMA PastsKept ==
    ASSUME RequestsInv, NEW r \in Request, Handler(r) \/ Task(r)
    PROVE  PastsAreKept'
<1> USE DEF RequestsInv
<1>0. /\ Only(r) /\ \A q \in Request : PastKept(q)
      /\ past \in [Request -> [Name -> SUBSET SUBSET Item]]
      /\ items \in [Name -> SUBSET Item] /\ items' \in [Name -> SUBSET Item]
  BY StepOnly, ItemsTyped DEF PastsAreKept, PastKept, TypeOK
<1> SUFFICES ASSUME NEW q \in Request PROVE PastKept(q)'
  BY DEF PastsAreKept, PastKept
<1>1. CASE q # r /\ ~TaskChanges(r)
  <2>1. UNCHANGED items /\ past'[q] = past[q]
    <3>1. CASE Receive(r)
      <4>1. \E p : past' = [past EXCEPT ![r] = p]
        BY <3>1 DEF Receive
      <4> QED
        BY <1>0, <1>1, <3>1, <4>1 DEF Receive, collections
    <3>2. CASE Onward(r) \/ Ended(r)
      BY <3>2 DEF Onward, Ended
    <3>3. CASE Answer(r) \/ TimesOut(r) \/ TaskVersion(r) \/ TaskSnapshot(r)
      BY <1>0, <1>1, <3>3 DEF Answer, TimesOut, TaskVersion, TaskSnapshot, collections
    <3> QED
      BY <1>1, <3>1, <3>2, <3>3, HandlerKinds, TaskKinds
  <2>2. req'[q] = req[q] /\ Pending(q)' = Pending(q)
    BY <1>0, <1>1, OthersKept
  <2> QED
    BY <2>1, <2>2, PastStays
<1>2. CASE q # r /\ TaskChanges(r) /\ Pending(q)
  <2>1. /\ req'[q] = req[q] /\ route(q)' = route(q) /\ sources(q)' = sources(q)
    BY <1>0, <1>2, OthersKept
  <2>2. past'[q] = [n \in Name |-> IF past[q][n] = {} THEN {} ELSE past[q][n] \cup {items'[n]}]
    BY <1>2 DEF TaskChanges
  <2>3. /\ \A i \in 1 .. route(q).sources : sources(q)[i] \in Name
        /\ Len(req[q].snaps) \in Nat /\ Len(req[q].snaps) <= route(q).sources
        /\ route(q).sources \in Nat
    <3>1. route(q).sources \in 0 .. 2 /\ \A i \in 1 .. route(q).sources : sources(q)[i] \in Name
      BY SourcesAre DEF Sound
    <3>2. Len(req[q].snaps) \in Nat
      BY ReqTyped, LenProperties
    <3>3. req[q].pc \in {"received", "lookup", "create", "version", "snapshot", "work"}
      BY <1>2, ReqTyped DEF Pending, Phases
    <3> QED
      BY <3>1, <3>2, <3>3 DEF SnapshotsAreCounted
  <2>4. \A i \in 1 .. Len(req[q].snaps) : i \in 1 .. route(q).sources
    BY <2>3
  <2>5. PastKept(q)
    BY <1>0
  <2> QED
    BY <1>0, <1>2, <2>1, <2>2, <2>3, <2>4, <2>5 DEF PastKept
<1>3. CASE q # r /\ ~Pending(q)
  BY <1>0, <1>3, OthersKept DEF PastKept
<1>4. CASE q = r
  <2>1. CASE Receive(r)
    <3>1. PICK c \in Call :
            /\ req' = [req EXCEPT ![r] = [call |-> c, pc |-> "received", seen |-> 0,
                                          snaps |-> <<>>, status |-> 0]]
            /\ past' = [past EXCEPT ![r] = [n \in Name |->
                          {items[n] : i \in {j \in DOMAIN c.from : c.from[j] = n}}]]
      BY <2>1 DEF Receive
    <3>2. req'[r].call = c /\ req'[r].snaps = <<>> /\ UNCHANGED items
      BY <2>1, <3>1, ReceivesOnly DEF Receive, collections
    <3>3. route(r)' = c.route /\ sources(r)' = c.from /\ Len(req'[r].snaps) = 0
      BY <3>2 DEF route, sources
    <3>4. \A n \in Name : past'[r][n] =
            {items[n] : i \in {j \in DOMAIN c.from : c.from[j] = n}}
      BY <1>0, <3>1
    <3>5. c.from \in [1 .. c.route.sources -> Name]
      BY CallsAre
    <3>6. \A i \in 1 .. c.route.sources : items[c.from[i]] \in past'[r][c.from[i]]
      <4> SUFFICES ASSUME NEW i \in 1 .. c.route.sources
                   PROVE  items[c.from[i]] \in past'[r][c.from[i]]
        OBVIOUS
      <4>1. c.from[i] \in Name /\ i \in {j \in DOMAIN c.from : c.from[j] = c.from[i]}
        BY <3>5
      <4> DEFINE J == {j \in DOMAIN c.from : c.from[j] = c.from[i]}
      <4>2. past'[r][c.from[i]] = {items[c.from[i]] : j \in J} /\ i \in J
        BY <3>4, <4>1
      <4> HIDE DEF J
      <4> QED
        BY <4>2
    <3>7. \A n \in Name : past'[r][n] # {} => items[n] \in past'[r][n]
      BY <3>4
    <3> QED
      BY <1>4, <3>2, <3>3, <3>6, <3>7 DEF PastKept
  <2>2. CASE Onward(r)
    <3>1. PICK pc \in {"lookup", "create", "version", "snapshot", "work"} :
            Goes(r, pc) /\ req[r].pc \in {"received", "lookup", "create"}
      BY <2>2 DEF Onward
    <3>2. Pending(r) /\ req'[r].call = req[r].call /\ req'[r].snaps = req[r].snaps
      BY <3>1, GoesOnly DEF Phases, Pending
    <3> QED
      BY <1>4, <2>2, <3>2, PastStays DEF Onward
  <2>3. CASE Ended(r) \/ Answer(r) \/ TaskChanges(r)
    <3>1. req'[r].pc \in {"answer", "over"}
      BY <2>3, EndsOnly, GoesOnly DEF Ended, Answer, TaskChanges, Phases, Statuses
    <3> QED
      BY <1>4, <3>1 DEF PastKept, Pending
  <2>4. CASE TimesOut(r)
    BY <1>4, <2>4, PastStays DEF TimesOut, Pending, collections
  <2>5. CASE TaskVersion(r)
    <3>1. Pending(r) /\ UNCHANGED <<items, past>>
      BY <2>5 DEF TaskVersion, At, Pending, collections
    <3>2. req'[r].call = req[r].call /\ req'[r].snaps = req[r].snaps
      BY <2>5, VersionOnly
    <3> QED
      BY <1>4, <3>1, <3>2, PastStays
  <2>6. CASE TaskSnapshot(r)
    <3> DEFINE s == req[r].snaps
               k == Len(s) + 1
               n == sources(r)[k]
    <3>1. Pending(r) /\ UNCHANGED <<items, past>>
      BY <2>6 DEF TaskSnapshot, At, Pending, collections
    <3>2. /\ s \in Seq(SUBSET Item) /\ n \in Name /\ k \in 1 .. route(r).sources
          /\ req'[r].call = req[r].call /\ req'[r].snaps = Append(s, items[n])
          /\ items[n] \in SUBSET Item
      BY <1>0, <2>6, SnapshotOnly, ReqTyped
    <3>3. /\ Len(Append(s, items[n])) = k /\ Append(s, items[n])[k] = items[n]
          /\ \A i \in 1 .. Len(s) : Append(s, items[n])[i] = s[i]
      BY <3>2, AppendProperties
    <3>4. Len(s) \in Nat
      BY <3>2, LenProperties
    <3>5. items[n] \in past[r][n]
      BY <1>0, <3>1, <3>2 DEF PastKept
    <3>6. \A i \in 1 .. k : Append(s, items[n])[i] \in past[r][sources(r)[i]]
      <4> SUFFICES ASSUME NEW i \in 1 .. k
                   PROVE  Append(s, items[n])[i] \in past[r][sources(r)[i]]
        OBVIOUS
      <4>1. CASE i = k
        BY <3>3, <3>5, <4>1
      <4>2. CASE i # k
        <5>1. i \in 1 .. Len(s)
          BY <3>4, <4>2
        <5> QED
          BY <1>0, <3>1, <3>3, <5>1 DEF PastKept
      <4> QED
        BY <4>1, <4>2
    <3>7. route(r)' = route(r) /\ sources(r)' = sources(r)
      BY <3>2, SameCall
    <3>8. /\ \A m \in Name : past[r][m] # {} => items[m] \in past[r][m]
          /\ \A i \in 1 .. route(r).sources : past[r][sources(r)[i]] # {}
      BY <1>0, <3>1 DEF PastKept
    <3> HIDE DEF n, k
    <3> QED
      BY <1>4, <3>1, <3>2, <3>3, <3>6, <3>7, <3>8 DEF PastKept
  <2> QED
    BY <2>1, <2>2, <2>3, <2>4, <2>5, <2>6, HandlerKinds, TaskKinds
<1> QED
  BY <1>1, <1>2, <1>3, <1>4

(* What a checked call's version tells, for one request.                   *)
VersionTells(q) ==
    route(q).checked =>
        /\ req[q].pc \in {"received", "lookup", "create", "version"} => ~overtaken[q]
        /\ req[q].pc \in {"snapshot", "work"} =>
             /\ req[q].seen <= version[target(q)]
             /\ overtaken[q] <=> ~unchanged_since(q)
             /\ \A i \in 1 .. Len(req[q].snaps) :
                    (sources(q)[i] = target(q) /\ unchanged_since(q) /\ ~squeezed[q])
                    => req[q].snaps[i] = items[target(q)]

LEMMA TellsTheSame ==
    ASSUME RequestsInv, NEW q \in Request, UNCHANGED <<items, version>>,
           req'[q] = req[q], overtaken'[q] = overtaken[q], squeezed'[q] = squeezed[q]
    PROVE  VersionTells(q)'
<1>1. VersionTells(q)
  BY DEF RequestsInv, VersionsTell, VersionTells
<1> QED
  BY <1>1, SameCall DEF VersionTells, unchanged_since

(* A mutation by another request.                                          *)
LEMMA TellsMutation ==
    ASSUME RequestsInv, NEW r \in Request, Only(r), NEW q \in Request, q # r, Mutates(r),
           target(r) \in Name,
           \A n \in Name : n # target(r) => items'[n] = items[n]
    PROVE  VersionTells(q)'
<1> USE DEF RequestsInv
<1> SUFFICES ASSUME route(q).checked PROVE VersionTells(q)'
  BY OthersKept DEF VersionTells
<1>1. /\ req'[q] = req[q] /\ route(q)' = route(q) /\ sources(q)' = sources(q)
      /\ target(q)' = target(q)
  BY OthersKept
<1>2. target(q) \in Name /\ version \in [Name -> Nat] /\ req[q].seen \in Nat
      /\ VersionTells(q)
  BY PendingCall, ReqTyped DEF VersionsTell, VersionTells, TypeOK
<1>3. q \in Overtakes(r) <=> req[q].pc \in {"snapshot", "work"} /\ target(q) = target(r)
  BY DEF Overtakes
<1>4. CASE Compressing(r)
  <2>1. /\ version' = version /\ overtaken' = overtaken
        /\ squeezed' = [p \in Request |-> squeezed[p] \/ p \in Overtakes(r)]
    BY Zenon, <1>4 DEF Mutates
  <2>2. squeezed'[q] <=> squeezed[q] \/ q \in Overtakes(r)
    BY Zenon, <2>1
  <2>3. unchanged_since(q)' <=> unchanged_since(q)
    BY <1>1, <2>1 DEF unchanged_since
  <2>4. CASE target(q) = target(r)
    <3>1. req[q].pc \in {"snapshot", "work"} => squeezed'[q]
      BY <1>3, <2>2, <2>4
    <3> QED
      BY <1>1, <1>2, <2>1, <2>3, <3>1 DEF VersionTells
  <2>5. CASE target(q) # target(r)
    <3>1. (squeezed'[q] <=> squeezed[q]) /\ items'[target(q)] = items[target(q)]
      BY <1>2, <1>3, <2>2, <2>5
    <3> QED
      BY <1>1, <1>2, <2>1, <2>3, <3>1 DEF VersionTells
  <2> QED
    BY <2>4, <2>5
<1>5. CASE ~Compressing(r)
  <2>1. /\ version' = [version EXCEPT ![target(r)] = @ + 1] /\ squeezed' = squeezed
        /\ overtaken' = [p \in Request |-> overtaken[p] \/ p \in Overtakes(r)]
    BY Zenon, <1>5 DEF Mutates
  <2>2. overtaken'[q] <=> overtaken[q] \/ q \in Overtakes(r)
    BY Zenon, <2>1
  <2>3. CASE target(q) = target(r)
    <3>1. version'[target(q)] = version[target(q)] + 1 /\ version[target(q)] \in Nat
      BY <1>2, <2>1, <2>3
    <3>2. req[q].pc \in {"received", "lookup", "create", "version"} => ~overtaken'[q]
      BY <1>2, <1>3, <2>2 DEF VersionTells
    <3>3. req[q].pc \in {"snapshot", "work"} =>
            /\ overtaken'[q] /\ req[q].seen <= version'[target(q)]
            /\ version'[target(q)] # req[q].seen
      BY <1>2, <1>3, <2>2, <2>3, <3>1 DEF VersionTells
    <3> QED
      BY <1>1, <3>2, <3>3 DEF VersionTells, unchanged_since
  <2>4. CASE target(q) # target(r)
    <3>1. version'[target(q)] = version[target(q)] /\ items'[target(q)] = items[target(q)]
      BY <1>2, <2>1, <2>4
    <3>2. overtaken'[q] <=> overtaken[q]
      BY <1>3, <2>2, <2>4
    <3> QED
      BY <1>1, <1>2, <2>1, <3>1, <3>2 DEF VersionTells, unchanged_since
  <2> QED
    BY <2>3, <2>4
<1> QED
  BY <1>4, <1>5

LEMMA VersionsKept ==
    ASSUME RequestsInv, NEW r \in Request, Handler(r) \/ Task(r)
    PROVE  VersionsTell'
<1> USE DEF RequestsInv, changes
<1>0. /\ Only(r) /\ \A q \in Request : VersionTells(q)
      /\ overtaken \in [Request -> BOOLEAN] /\ squeezed \in [Request -> BOOLEAN]
      /\ items \in [Name -> SUBSET Item]
  BY StepOnly DEF VersionsTell, VersionTells, TypeOK
<1> SUFFICES ASSUME NEW q \in Request PROVE VersionTells(q)'
  BY DEF VersionsTell, VersionTells
<1>1. CASE q # r
  <2>1. CASE Receive(r)
    <3>1. overtaken'[q] = overtaken[q] /\ squeezed'[q] = squeezed[q]
      BY <1>0, <1>1, <2>1 DEF Receive
    <3> QED
      BY <1>0, <1>1, <2>1, <3>1, OthersKept, TellsTheSame DEF Receive, collections
  <2>2. CASE /\ Onward(r) \/ Ended(r) \/ Answer(r) \/ TimesOut(r)
                \/ TaskVersion(r) \/ TaskSnapshot(r)
             /\ UNCHANGED <<version, changes>>
    <3>1. UNCHANGED items
      BY <2>2 DEF Onward, Ended, Answer, TimesOut, TaskVersion, TaskSnapshot, collections
    <3> QED
      BY <1>0, <1>1, <2>2, <3>1, OthersKept, TellsTheSame
  <2>3. CASE Ended(r) /\ Mutates(r)
    <3>1. target(r) \in Name /\ UNCHANGED items
      BY <2>3, PendingCall DEF Ended
    <3> QED
      BY <1>0, <1>1, <2>3, <3>1, TellsMutation
  <2>4. CASE TaskChanges(r)
    <3>1. target(r) \in Name /\ Mutates(r)
      BY <2>4, ResultsTyped DEF TaskChanges
    <3>2. \A n \in Name : n # target(r) => items'[n] = items[n]
      BY <1>0, <2>4 DEF TaskChanges
    <3> QED
      BY <1>0, <1>1, <3>1, <3>2, TellsMutation
  <2>5. Onward(r) \/ Answer(r) \/ TimesOut(r) \/ TaskVersion(r) \/ TaskSnapshot(r)
        => UNCHANGED <<version, changes>>
    BY DEF Onward, Answer, TimesOut, TaskVersion, TaskSnapshot, collections
  <2>6. Ended(r) => UNCHANGED <<version, changes>> \/ Mutates(r)
    BY DEF Ended
  <2> QED
    BY <2>1, <2>2, <2>3, <2>4, <2>5, <2>6, HandlerKinds, TaskKinds
<1>2. CASE q = r
  <2>1. CASE Receive(r)
    <3>1. PICK c \in Call :
            req' = [req EXCEPT ![r] = [call |-> c, pc |-> "received", seen |-> 0,
                                       snaps |-> <<>>, status |-> 0]]
      BY <2>1 DEF Receive
    <3>2. req'[r].pc = "received" /\ ~overtaken'[r]
      BY <1>0, <2>1, <3>1, ReceivesOnly DEF Receive
    <3> QED
      BY <1>2, <3>2 DEF VersionTells
  <2>2. CASE Onward(r)
    <3>1. PICK pc \in {"lookup", "create", "version", "snapshot", "work"} :
            /\ Goes(r, pc) /\ req[r].pc \in {"received", "lookup", "create"}
            /\ pc \in {"snapshot", "work"} => ~route(r).checked
      BY <2>2 DEF Onward
    <3>2. req'[r].pc = pc /\ req'[r].call = req[r].call /\ overtaken' = overtaken
      BY <2>2, <3>1, GoesOnly DEF Phases, Onward
    <3> QED
      BY <1>0, <1>2, <3>1, <3>2, SameCall DEF VersionTells
  <2>3. CASE Ended(r) \/ Answer(r) \/ TaskChanges(r)
    <3>1. req'[r].pc \in {"answer", "over"}
      BY <2>3, EndsOnly, GoesOnly DEF Ended, Answer, TaskChanges, Phases, Statuses
    <3> QED
      BY <1>2, <3>1 DEF VersionTells
  <2>4. CASE TimesOut(r)
    BY <1>0, <1>2, <2>4, TellsTheSame DEF TimesOut, collections
  <2>5. CASE TaskVersion(r)
    <3>1. /\ req'[r].call = req[r].call /\ req'[r].seen = version[target(r)]
          /\ req'[r].snaps = req[r].snaps /\ req'[r].pc \in {"snapshot", "work"}
      BY <2>5, VersionOnly
    <3>2. req[r].pc = "version" /\ UNCHANGED <<items, version, overtaken, squeezed>>
      BY <2>5 DEF TaskVersion, At, collections
    <3>3. Len(req[r].snaps) = 0
      BY <3>2 DEF SnapshotsAreCounted
    <3> SUFFICES ASSUME route(r).checked PROVE VersionTells(r)'
      BY <1>2, <3>1, SameCall DEF VersionTells
    <3>4. ~overtaken[r] /\ target(r) \in Name
      BY <1>0, <3>2, PendingCall DEF VersionTells
    <3>5. version[target(r)] \in Nat
      BY <3>4 DEF TypeOK
    <3> QED
      BY <3>1, <3>2, <3>3, <3>4, <3>5, SameCall DEF VersionTells, unchanged_since
  <2>6. CASE TaskSnapshot(r)
    <3> DEFINE s == req[r].snaps
               k == Len(s) + 1
               n == sources(r)[k]
    <3>1. req[r].pc = "snapshot" /\ UNCHANGED <<items, version, overtaken, squeezed>>
      BY <2>6 DEF TaskSnapshot, At, collections
    <3>2. /\ s \in Seq(SUBSET Item) /\ n \in Name /\ k \in 1 .. route(r).sources
          /\ req'[r].call = req[r].call /\ req'[r].snaps = Append(s, items[n])
          /\ items[n] \in SUBSET Item /\ req'[r].seen = req[r].seen
      BY <1>0, <2>6, SnapshotOnly, ReqTyped
    <3>3. /\ Len(Append(s, items[n])) = k /\ Append(s, items[n])[k] = items[n]
          /\ \A i \in 1 .. Len(s) : Append(s, items[n])[i] = s[i]
          /\ Len(s) \in Nat
      BY <3>2, AppendProperties, LenProperties
    <3>4. route(r)' = route(r) /\ sources(r)' = sources(r) /\ target(r)' = target(r)
      BY <3>2, SameCall
    <3>5. req'[r].pc \in {"snapshot", "work"}
      BY <2>6, SnapshotOnly
    <3>6. VersionTells(r) /\ unchanged_since(r)' = unchanged_since(r)
      BY <1>0, <3>1, <3>2, <3>4 DEF unchanged_since
    <3>7. ASSUME route(r).checked, unchanged_since(r), ~squeezed[r], NEW i \in 1 .. k,
                 sources(r)[i] = target(r)
          PROVE  Append(s, items[n])[i] = items[target(r)]
      <4>1. CASE i = k
        BY <3>3, <3>7, <4>1
      <4>2. CASE i # k
        <5>1. i \in 1 .. Len(s)
          BY <3>3, <4>2
        <5> QED
          BY <3>1, <3>3, <3>6, <3>7, <5>1 DEF VersionTells
      <4> QED
        BY <4>1, <4>2
    <3> HIDE DEF n, k
    <3>8. req'[r].pc \notin {"received", "lookup", "create", "version"}
      BY <3>5
    <3>9. route(r).checked =>
             /\ req[r].seen <= version[target(r)]
             /\ overtaken[r] <=> ~unchanged_since(r)
      BY <3>1, <3>6 DEF VersionTells
    <3> QED
      BY <1>2, <3>1, <3>2, <3>3, <3>4, <3>6, <3>7, <3>8, <3>9 DEF VersionTells
  <2> QED
    BY <2>1, <2>2, <2>3, <2>4, <2>5, <2>6, HandlerKinds, TaskKinds
<1> QED
  BY <1>1, <1>2

LEMMA RequestsInitially == Init => RequestsInv
<1> SUFFICES ASSUME Init PROVE RequestsInv
  OBVIOUS
<1>1. /\ \A r \in Request : req[r].pc = "idle" /\ req[r].call = NoCall
      /\ req \in [Request -> States]
  <2>1. <<>> \in Seq(SUBSET Item)
    BY EmptySeq
  <2>2. \A k \in [call : {NoCall}, pc : {"idle"}, seen : {0}, snaps : {<<>>}, status : {0}] :
          k.pc = "idle" /\ k.call = NoCall /\ k \in States
    <3> SUFFICES ASSUME NEW k \in [call : {NoCall}, pc : {"idle"}, seen : {0},
                                   snaps : {<<>>}, status : {0}]
                 PROVE  k.pc = "idle" /\ k.call = NoCall /\ k \in States
      OBVIOUS
    <3>1. k = [call |-> NoCall, pc |-> "idle", seen |-> 0, snaps |-> <<>>, status |-> 0]
      OBVIOUS
    <3>2. [call |-> NoCall, pc |-> "idle", seen |-> 0, snaps |-> <<>>, status |-> 0] \in States
      BY <2>1 DEF States, Phases
    <3> QED
      BY <3>1, <3>2
  <2> QED
    BY <2>2 DEF Init
<1>2. TypeOK
  <2>1. items \in [Name -> SUBSET Item] /\ \A n \in Name : items[n] # {} => n \in exists
    BY DEF Init, Item
  <2>2. past \in [Request -> [Name -> SUBSET SUBSET Item]]
    BY DEF Init, NoPast
  <2>3. spent \in [sends : 0 .. Sends, faults : 0 .. MaxFault]
    BY RequestsAssumption DEF Init
  <2> QED
    BY <1>1, <2>1, <2>2, <2>3 DEF Init, TypeOK
<1>3. ~Reading.checked
  BY NoCallIs
<1> QED
  BY <1>1, <1>2, <1>3, NoCallIs
  DEF RequestsInv, CallsAreKnown, TargetsExist, SnapshotsAreCounted, PastsAreKept, VersionsTell,
      Pending, route

LEMMA RequestsKept == RequestsInv /\ [Next]_vars => RequestsInv'
<1> SUFFICES ASSUME RequestsInv, [Next]_vars PROVE RequestsInv'
  OBVIOUS
<1>1. CASE Next
  BY <1>1, TypeKept, CallsKept, TargetsKept, CountKept, PastsKept, VersionsKept
  DEF Next, RequestsInv
<1>2. CASE UNCHANGED vars
  <2>1. TypeOK' /\ CallsAreKnown' /\ SnapshotsAreCounted'
    BY <1>2 DEF vars, RequestsInv, TypeOK, CallsAreKnown, SnapshotsAreCounted, route
  <2>2. TargetsExist'
    BY <1>2 DEF vars, RequestsInv, TargetsExist, route, target
  <2>3. PastsAreKept'
    BY <1>2 DEF vars, RequestsInv, PastsAreKept, Pending, route, sources
  <2>4. VersionsTell'
    BY <1>2 DEF vars, RequestsInv, VersionsTell, route, sources, target, unchanged_since
  <2> QED
    BY <2>1, <2>2, <2>3, <2>4 DEF RequestsInv
<1> QED
  BY <1>1, <1>2

(* Every handler keeps every variable to its type.                         *)
THEOREM RequestsTypeCorrect == Spec => []TypeOK
<1>1. RequestsInv => TypeOK
  BY DEF RequestsInv
<1> QED
  BY <1>1, RequestsInitially, RequestsKept, PTL DEF Spec

(* A checked load succeeds only if no other call has written or replaced   *)
(* the target since its version was read, and is refused only if one has.  *)
THEOREM ConflictsCorrect == Spec => ConflictsAreExact
<1> DEFINE Exact == \A r \in Request :
             /\ (TaskChanges(r) /\ route(r).checked) => ~overtaken[r]
             /\ TaskConflicts(r) => overtaken[r]
<1>1. RequestsInv => Exact
  BY DEF RequestsInv, VersionsTell, TaskChanges, TaskConflicts, conflicting, At
<1>2. RequestsInv /\ [Next]_vars => [Exact]_vars
  BY <1>1
<1> QED
  BY <1>2, RequestsInitially, RequestsKept, PTL DEF Spec, ConflictsAreExact

-----------------------------------------------------------------------------
(* The handlers implement AtomicCalls.                                     *)

LEMMA PhaseOf ==
    ASSUME NEW k
    PROVE  /\ k.pc = "idle" => abstract_phase(k) = "idle"
           /\ k.pc \notin {"idle", "answer", "over"} => abstract_phase(k) = "pending"
           /\ k.pc \in {"answer", "over"} =>
                abstract_phase(k) = IF k.status = 200 THEN "done" ELSE "refused"
BY DEF abstract_phase

LEMMA ToldOf ==
    ASSUME NEW a \in Statuses \cup {0, 408}
    PROVE  abstract_told(a) = IF a = 0 THEN "nothing"
                              ELSE IF a = 200 THEN "ok"
                              ELSE IF a = 408 THEN "late" ELSE "error"
BY DEF abstract_told

LEMMA CallOf ==
    ASSUME NEW c \in Call \cup {NoCall}
    PROVE  /\ abstract_call(c) \in AbstractCall
           /\ abstract_call(c).makes = c.route.makes
           /\ abstract_call(c).checked = c.route.checked
           /\ abstract_call(c).from = c.from
           /\ c # NoCall => abstract_call(c).target = c.target
<1>1. CASE c = NoCall
  <2>1. /\ c.route.makes \in {h.makes : h \in Routes} /\ c.route.checked \in BOOLEAN
    <3>1. c.route.makes = "nothing" /\ c.route.checked = FALSE
      BY <1>1 DEF NoCall, Reading
    <3> QED
      BY <3>1, ReadingMakes DEF Makes
  <2>2. (CHOOSE n \in Name : TRUE) \in Name
    BY RequestsAssumption
  <2>3. c.from \in [1 .. 0 -> Name]
    <3>1. c.from = <<>> /\ 1 .. 0 = {}
      BY <1>1, NoCallIs
    <3> QED
      BY <3>1
  <2> QED
    BY <1>1, <2>1, <2>2, <2>3 DEF abstract_call, AbstractCall, Makes
<1>2. CASE c # NoCall
  <2>1. /\ c.route \in Routes /\ Sound(c.route) /\ c.target \in Name
        /\ c.from \in [1 .. c.route.sources -> Name]
    BY <1>2, CallsAre, RoutesSound
  <2>2. c.route.makes \in {h.makes : h \in Routes} /\ c.route.checked \in BOOLEAN
    <3>1. c.route.checked \in BOOLEAN
      BY <2>1 DEF Sound
    <3>2. c.route.makes \in {h.makes : h \in Routes}
      BY <2>1
    <3> QED
      BY <3>1, <3>2
  <2>3. c.from \in UNION {[1 .. k -> Name] : k \in 0 .. 2}
    <3>1. c.route.sources \in 0 .. 2
      BY <2>1 DEF Sound
    <3>2. [1 .. c.route.sources -> Name] \in {[1 .. k -> Name] : k \in 0 .. 2}
      BY <3>1
    <3> QED
      BY <2>1, <3>2
  <2> DEFINE a == [makes |-> c.route.makes, checked |-> c.route.checked,
                   target |-> c.target, from |-> c.from]
  <2>4. abstract_call(c) = a
    BY <1>2 DEF abstract_call
  <2>5. a \in AbstractCall
    BY <2>1, <2>2, <2>3 DEF AbstractCall
  <2> QED
    BY <2>4, <2>5
<1> QED
  BY <1>1, <1>2

(* What a step of one request changes of the mapped state.                 *)
LEMMA Mapped ==
    ASSUME NEW r \in Request, Only(r)
    PROVE  /\ phases' = [phases EXCEPT ![r] = abstract_phase(req'[r])]
           /\ calls' = [calls EXCEPT ![r] = abstract_call(req'[r].call)]
           /\ req'[r].call = req[r].call => calls' = calls
           /\ abstract_phase(req'[r]) = abstract_phase(req[r]) => phases' = phases
BY DEF Only, phases, calls

LEMMA MappedTold ==
    ASSUME NEW r \in Request, NEW a, answer' = [answer EXCEPT ![r] = a],
           answer \in [Request -> Statuses \cup {0, 408}]
    PROVE  tolds' = [tolds EXCEPT ![r] = abstract_told(a)]
BY DEF tolds

LEMMA MappedPast ==
    ASSUME NEW r \in Request, Only(r), NEW p,
           \A q \in Request : q # r => past'[q] = past[q],
           (IF Pending(r)' THEN past'[r] ELSE NoPast) = p
    PROVE  pasts' = [pasts EXCEPT ![r] = p]
<1>1. \A q \in Request : q # r => Pending(q)' = Pending(q)
  BY OthersKept
<1> QED
  BY <1>1 DEF pasts

LEMMA NoPastOf == Abstract!NoPast = NoPast
BY DEF NoPast, Abstract!NoPast

LEMMA MapsReceive ==
    ASSUME RequestsInv, NEW r \in Request, Receive(r)
    PROVE  Abstract!Ask(r)
<1> USE DEF RequestsInv
<1>1. PICK c \in Call :
        /\ req' = [req EXCEPT ![r] = [call |-> c, pc |-> "received", seen |-> 0,
                                      snaps |-> <<>>, status |-> 0]]
        /\ past' = [past EXCEPT ![r] = [n \in Name |->
                      {items[n] : i \in {j \in DOMAIN c.from : c.from[j] = n}}]]
  BY DEF Receive
<1>2. /\ Only(r) /\ req'[r].pc = "received" /\ req'[r].call = c
      /\ answer' = [answer EXCEPT ![r] = 0] /\ UNCHANGED items
      /\ answer \in [Request -> Statuses \cup {0, 408}]
      /\ past \in [Request -> [Name -> SUBSET SUBSET Item]]
  BY <1>1, ReceivesOnly DEF Receive, collections, TypeOK
<1>3. phases' = [phases EXCEPT ![r] = "pending"]
  BY <1>2, Mapped, PhaseOf
<1>4. tolds' = [tolds EXCEPT ![r] = "nothing"]
  <2>1. abstract_told(0) = "nothing"
    BY DEF abstract_told
  <2> QED
    BY <1>2, <2>1, MappedTold
<1>5. phases[r] = "idle" \/ (phases[r] # "pending" /\ tolds[r] # "nothing")
  <2>1. CASE req[r].pc = "idle"
    BY <2>1, PhaseOf DEF phases
  <2>2. CASE req[r].pc = "over"
    <3>1. answer[r] # 0 /\ answer[r] \in Statuses \cup {0, 408}
      BY <1>2, <2>2 DEF CallsAreKnown
    <3>2. tolds[r] # "nothing"
      BY <3>1, ToldOf DEF tolds
    <3>3. phases[r] # "pending"
      BY <2>2, PhaseOf DEF phases
    <3> QED
      BY <3>2, <3>3
  <2> QED
    BY <2>1, <2>2 DEF Receive, At
<1> DEFINE a == abstract_call(c)
           p == [n \in Name |-> {items[n] : i \in {j \in DOMAIN a.from : a.from[j] = n}}]
<1>6. a \in AbstractCall /\ a.from = c.from /\ calls' = [calls EXCEPT ![r] = a]
  BY <1>2, CallOf, Mapped
<1>7. pasts' = [pasts EXCEPT ![r] = p]
  <2>1. past'[r] = p /\ \A q \in Request : q # r => past'[q] = past[q]
    BY <1>1, <1>2, <1>6
  <2>2. Pending(r)'
    BY <1>2 DEF Pending
  <2> HIDE DEF p
  <2> QED
    BY <1>2, <2>1, <2>2, MappedPast
<1> HIDE DEF a
<1> QED
  BY <1>2, <1>3, <1>4, <1>5, <1>6, <1>7 DEF Abstract!Ask

LEMMA MapsStutter ==
    ASSUME RequestsInv, NEW r \in Request, Onward(r) \/ TaskVersion(r) \/ TaskSnapshot(r)
    PROVE  UNCHANGED Abstract!vars
<1> USE DEF RequestsInv
<1>1. /\ Only(r) /\ Pending(r) /\ Pending(r)' /\ req'[r].call = req[r].call
      /\ UNCHANGED <<items, answer, past>>
  <2>1. CASE Onward(r)
    <3>1. PICK pc \in {"lookup", "create", "version", "snapshot", "work"} :
            Goes(r, pc) /\ req[r].pc \in {"received", "lookup", "create"}
      BY <2>1 DEF Onward
    <3>2. req'[r].pc = pc /\ req'[r].call = req[r].call /\ Only(r)
      BY <3>1, GoesOnly DEF Phases
    <3> QED
      BY <2>1, <3>1, <3>2 DEF Onward, Pending
  <2>2. CASE TaskVersion(r)
    <3>1. req'[r].pc \in {"snapshot", "work"} /\ req'[r].call = req[r].call /\ Only(r)
      BY <2>2, VersionOnly
    <3> QED
      BY <2>2, <3>1 DEF TaskVersion, At, Pending, collections
  <2>3. CASE TaskSnapshot(r)
    <3>1. req'[r].pc \in {"snapshot", "work"} /\ req'[r].call = req[r].call /\ Only(r)
      BY <2>3, SnapshotOnly
    <3> QED
      BY <2>3, <3>1 DEF TaskSnapshot, At, Pending, collections
  <2> QED
    BY <2>1, <2>2, <2>3
<1>2. calls' = calls /\ phases' = phases
  BY <1>1, Mapped, PhaseOf DEF Pending
<1>3. tolds' = tolds
  BY <1>1 DEF tolds
<1>4. pasts' = pasts
  BY <1>1, OthersKept DEF pasts
<1> QED
  BY <1>1, <1>2, <1>3, <1>4 DEF Abstract!vars

(* A call that ends with another status than 200 was refused.              *)
LEMMA EndsPending ==
    ASSUME RequestsInv, NEW r \in Request, NEW status \in Statuses,
           Ends(r, status), Pending(r)
    PROVE  /\ Only(r) /\ ~Pending(r)' /\ phases[r] = "pending" /\ UNCHANGED calls
           /\ phases' = [phases EXCEPT ![r] = IF status = 200 THEN "done" ELSE "refused"]
<1>1. /\ Only(r) /\ req'[r].pc = "answer" /\ req'[r].call = req[r].call
      /\ req'[r].status = status
  BY EndsOnly DEF RequestsInv
<1>2. phases[r] = "pending"
  BY PhaseOf DEF phases, Pending
<1>3. abstract_phase(req'[r]) = IF status = 200 THEN "done" ELSE "refused"
  BY <1>1, PhaseOf
<1>4. ~Pending(r)'
  BY <1>1 DEF Pending
<1> QED
  BY <1>1, <1>2, <1>3, <1>4, Mapped

LEMMA MapsRefusal ==
    ASSUME RequestsInv, NEW r \in Request, NEW status \in Statuses, Ends(r, status),
           Pending(r), status # 200, UNCHANGED <<items, answer, past>>
    PROVE  Abstract!Refuse(r)
<1>1. /\ Only(r) /\ ~Pending(r)' /\ phases[r] = "pending" /\ UNCHANGED calls
      /\ phases' = [phases EXCEPT ![r] = "refused"]
  BY EndsPending
<1>2. pasts' = [pasts EXCEPT ![r] = NoPast]
  BY <1>1, MappedPast
<1>3. tolds' = tolds
  BY DEF tolds
<1> QED
  BY <1>1, <1>2, <1>3, NoPastOf DEF Abstract!Refuse

LEMMA MapsAnswer ==
    ASSUME RequestsInv, NEW r \in Request, Answer(r)
    PROVE  Abstract!Tell(r) \/ UNCHANGED Abstract!vars
<1> USE DEF RequestsInv
<1>1. /\ Only(r) /\ req[r].pc = "answer" /\ req'[r].pc = "over"
      /\ req'[r].call = req[r].call /\ req'[r].status = req[r].status
  BY GoesOnly DEF Answer, At, Phases
<1>2. /\ answer' = [answer EXCEPT ![r] = IF @ = 0 THEN req[r].status ELSE @]
      /\ past' = [past EXCEPT ![r] = NoPast] /\ UNCHANGED items
      /\ answer \in [Request -> Statuses \cup {0, 408}]
      /\ past \in [Request -> [Name -> SUBSET SUBSET Item]]
      /\ req[r].status \in Statuses
  BY <1>1 DEF Answer, collections, TypeOK, CallsAreKnown
<1>3. calls' = calls /\ phases' = phases
      /\ phases[r] = IF req[r].status = 200 THEN "done" ELSE "refused"
  BY <1>1, Mapped, PhaseOf DEF phases
<1>4. pasts' = pasts
  <2>1. ~Pending(r) /\ ~Pending(r)'
    BY <1>1 DEF Pending
  <2> QED
    BY <1>1, <1>2, <2>1, OthersKept DEF pasts
<1>5. CASE answer[r] = 0
  <2>1. answer' = [answer EXCEPT ![r] = req[r].status]
    BY <1>2, <1>5
  <2>2. tolds[r] = "nothing"
    BY <1>2, <1>5, ToldOf DEF tolds
  <2>3. abstract_told(req[r].status) = IF phases[r] = "done" THEN "ok" ELSE "error"
    BY <1>2, <1>3, ToldOf DEF Statuses
  <2>4. tolds' = [tolds EXCEPT ![r] = IF phases[r] = "done" THEN "ok" ELSE "error"]
    <3>1. tolds' = [tolds EXCEPT ![r] = abstract_told(req[r].status)]
      BY <1>2, <2>1, MappedTold
    <3> QED
      BY <2>3, <3>1
  <2> QED
    BY <1>2, <1>3, <1>4, <2>2, <2>4 DEF Abstract!Tell
<1>6. CASE answer[r] # 0
  <2>1. answer' = answer
    BY <1>2, <1>6
  <2> QED
    BY <1>2, <1>3, <1>4, <2>1 DEF Abstract!vars, tolds
<1> QED
  BY <1>5, <1>6

LEMMA MapsTimeout ==
    ASSUME RequestsInv, NEW r \in Request, TimesOut(r)
    PROVE  Abstract!TellLate(r)
<1>1. /\ UNCHANGED <<items, req, past>> /\ answer' = [answer EXCEPT ![r] = 408]
      /\ answer \in [Request -> Statuses \cup {0, 408}] /\ answer[r] = 0
      /\ req[r].pc \in {"version", "snapshot", "work"}
  BY DEF TimesOut, RequestsInv, TypeOK, collections
<1>2. tolds' = [tolds EXCEPT ![r] = "late"] /\ tolds[r] = "nothing"
  <2>1. abstract_told(408) = "late" /\ abstract_told(0) = "nothing"
    BY DEF abstract_told
  <2>2. /\ answer' = [answer EXCEPT ![r] = 408]
        /\ answer \in [Request -> Statuses \cup {0, 408}]
    BY <1>1
  <2>3. tolds' = [tolds EXCEPT ![r] = abstract_told(408)]
    BY <2>2, MappedTold
  <2>4. tolds[r] = "nothing"
    BY <1>1, <2>1 DEF tolds
  <2> QED
    BY <2>1, <2>3, <2>4
<1>3. phases[r] # "idle"
  BY <1>1, PhaseOf DEF phases
<1>4. UNCHANGED <<calls, phases, pasts>>
  BY <1>1 DEF calls, phases, pasts, Pending
<1> QED
  BY <1>1, <1>2, <1>3, <1>4 DEF Abstract!TellLate

(* The call takes effect: what its client may still see of the others.     *)
LEMMA PastsPerformed ==
    ASSUME RequestsInv, NEW r \in Request, Only(r), ~Pending(r)',
           \A q \in Request : q # r /\ Pending(q) =>
               past'[q] = [n \in Name |-> IF past[q][n] = {} THEN {}
                                          ELSE past[q][n] \cup {items'[n]}]
    PROVE  pasts' = [q \in Request |->
                        IF phases'[q] # "pending" THEN NoPast
                        ELSE [n \in Name |-> IF pasts[q][n] = {} THEN {}
                                              ELSE pasts[q][n] \cup {items'[n]}]]
<1> DEFINE p(q) == IF phases'[q] # "pending" THEN NoPast
                   ELSE [n \in Name |-> IF pasts[q][n] = {} THEN {}
                                         ELSE pasts[q][n] \cup {items'[n]}]
<1>1. \A q \in Request : phases'[q] # "pending" <=> ~Pending(q)'
  <2> SUFFICES ASSUME NEW q \in Request PROVE phases'[q] # "pending" <=> ~Pending(q)'
    OBVIOUS
  <2>1. phases'[q] = abstract_phase(req'[q])
    BY DEF phases
  <2>2. /\ req'[q].pc = "idle" => abstract_phase(req'[q]) = "idle"
        /\ req'[q].pc \notin {"idle", "answer", "over"} => abstract_phase(req'[q]) = "pending"
        /\ req'[q].pc \in {"answer", "over"} => abstract_phase(req'[q]) \in {"done", "refused"}
    BY DEF abstract_phase
  <2> QED
    BY <2>1, <2>2 DEF Pending
<1>2. ASSUME NEW q \in Request PROVE (IF Pending(q)' THEN past'[q] ELSE NoPast) = p(q)
  <2>1. CASE ~Pending(q)'
    BY <1>1, <2>1
  <2>2. CASE Pending(q)'
    <3>1. q # r /\ Pending(q)
      BY <2>2, OthersKept
    <3>2. pasts[q] = past[q]
      BY <3>1 DEF pasts
    <3> QED
      BY <1>1, <2>2, <3>1, <3>2
  <2> QED
    BY <2>1, <2>2
<1>3. pasts' = [q \in Request |-> IF Pending(q)' THEN past'[q] ELSE NoPast]
  BY DEF pasts
<1> QED
  BY <1>2, <1>3

LEMMA MapsRead ==
    ASSUME RequestsInv, NEW r \in Request, Ends(r, 200), Pending(r),
           route(r).makes = "nothing", UNCHANGED <<items, answer, past>>
    PROVE  Abstract!Perform(r)
<1> USE DEF RequestsInv
<1>1. /\ Only(r) /\ ~Pending(r)' /\ phases[r] = "pending" /\ UNCHANGED calls
      /\ phases' = [phases EXCEPT ![r] = "done"]
  BY EndsPending DEF Statuses
<1>2. tolds' = tolds
  BY DEF tolds
<1>3. /\ past \in [Request -> [Name -> SUBSET SUBSET Item]] /\ items \in [Name -> SUBSET Item]
      /\ \A q \in Request : Pending(q) =>
           \A n \in Name : past[q][n] # {} => items[n] \in past[q][n]
  BY DEF TypeOK, PastsAreKept
<1>4. ASSUME NEW q \in Request, Pending(q)
      PROVE  past'[q] = [n \in Name |-> IF past[q][n] = {} THEN {}
                                        ELSE past[q][n] \cup {items'[n]}]
  <2>1. \A n \in Name : past[q][n] = IF past[q][n] = {} THEN {}
                                     ELSE past[q][n] \cup {items[n]}
    BY <1>3, <1>4
  <2>2. past[q] = [n \in Name |-> past[q][n]]
    BY <1>3
  <2> QED
    BY <2>1, <2>2
<1>5. /\ calls[r].makes = "nothing" /\ calls[r].target = target(r) /\ target(r) \in Name
  <2>1. req[r].call \in Call /\ req[r].call # NoCall /\ target(r) \in Name
    BY PendingCall, CallsAre
  <2>2. calls[r] = abstract_call(req[r].call)
    BY DEF calls
  <2> QED
    BY <2>1, <2>2, CallOf DEF route, target
<1>6. Abstract!Meaning(r) = {items[target(r)]}
  BY <1>5 DEF Abstract!Meaning
<1>7. items' = [items EXCEPT ![calls[r].target] = items[target(r)]]
  BY <1>3, <1>5
<1>8. \E s \in Abstract!Meaning(r) : items' = [items EXCEPT ![calls[r].target] = s]
  BY <1>6, <1>7
<1> QED
  BY <1>1, <1>2, <1>4, <1>8, PastsPerformed, NoPastOf DEF Abstract!Perform

LEMMA InCombined ==
    ASSUME NEW A, NEW B, NEW x \in A, NEW y \in B, NEW S \in SUBSET (x \cup y)
    PROVE  S \in UNION {SUBSET (p[1] \cup p[2]) : p \in A \X B}
<1> DEFINE q == <<x, y>>
<1>1. q \in A \X B /\ q[1] = x /\ q[2] = y
  OBVIOUS
<1> HIDE DEF q
<1>2. SUBSET (q[1] \cup q[2]) \in {SUBSET (p[1] \cup p[2]) : p \in A \X B}
  BY <1>1
<1> QED
  BY <1>1, <1>2

(* What a task makes of its target is what the abstract call means: its    *)
(* snapshots are values the sources have held, and of a source that is its *)
(* target the value it holds now.                                          *)
LEMMA MapsMeaning ==
    ASSUME RequestsInv, NEW r \in Request, At(r, "work"), Changing(r), ~conflicting(r),
           ~Undoing(r)
    PROVE  /\ results(r) \subseteq Abstract!Meaning(r)
           /\ calls[r].target = target(r)
<1> USE DEF RequestsInv
<1>1. req[r].call \in Call /\ req[r].call # NoCall /\ Pending(r) /\ Sound(route(r))
  BY CallsAre, SourcesAre DEF At, CallsAreKnown, Pending
<1>2. /\ calls[r].makes = route(r).makes /\ calls[r].checked = route(r).checked
      /\ calls[r].from = sources(r) /\ calls[r].target = target(r)
  <2>1. calls[r] = abstract_call(req[r].call)
    BY DEF calls
  <2> QED
    BY <1>1, <2>1, CallOf DEF route, sources, target
<1>3. pasts[r] = past[r]
  BY <1>1 DEF pasts
<1>4. Len(req[r].snaps) = route(r).sources
  BY DEF At, SnapshotsAreCounted
<1>5. \A i \in 1 .. route(r).sources : req[r].snaps[i] \in Abstract!Seen(r, i)
  <2> SUFFICES ASSUME NEW i \in 1 .. route(r).sources
               PROVE  req[r].snaps[i] \in Abstract!Seen(r, i)
    OBVIOUS
  <2>1. CASE sources(r)[i] = target(r) /\ route(r).checked
    <3>1. unchanged_since(r) /\ ~squeezed[r]
      <4>1. i \in DOMAIN sources(r)
        BY <1>1, SourcesAre
      <4> QED
        BY <2>1, <4>1 DEF conflicting, Undoing
    <3>2. req[r].snaps[i] = items[target(r)]
      BY <1>4, <2>1, <3>1 DEF VersionsTell, At
    <3>3. Abstract!Seen(r, i) = {items[target(r)]}
      BY <1>2, <2>1 DEF Abstract!Seen
    <3> QED
      BY <3>2, <3>3
  <2>2. CASE ~(sources(r)[i] = target(r) /\ route(r).checked)
    <3>1. Abstract!Seen(r, i) = past[r][sources(r)[i]]
      BY <1>2, <1>3, <2>2 DEF Abstract!Seen
    <3> QED
      BY <1>1, <1>4, <3>1 DEF PastsAreKept
  <2> QED
    BY <2>1, <2>2
<1>6. /\ route(r).makes \in {"both", "part"} =>
           /\ req[r].snaps[1] \in Abstract!Seen(r, 1)
           /\ req[r].snaps[2] \in Abstract!Seen(r, 2)
      /\ route(r).makes = "same" => req[r].snaps[1] \in Abstract!Seen(r, 1)
  BY <1>1, <1>5 DEF Sound
<1>7. results(r) \subseteq Abstract!Meaning(r)
  <2>1. route(r).makes \in {"more", "new", "itself", "both", "part", "same"}
    BY <1>1 DEF Sound, Changing
  <2>2. CASE route(r).makes = "more"
    BY <1>2, <2>2 DEF results, Abstract!Meaning
  <2>3. CASE route(r).makes = "new"
    BY <1>2, <2>3 DEF results, Abstract!Meaning
  <2>4. CASE route(r).makes = "itself"
    BY <1>2, <2>4 DEF results, Abstract!Meaning
  <2>5. CASE route(r).makes = "both"
    <3>1. results(r) = SUBSET (req[r].snaps[1] \cup req[r].snaps[2])
      BY <2>5 DEF results
    <3>2. Abstract!Meaning(r) = Abstract!Combined(Abstract!Seen(r, 1), Abstract!Seen(r, 2))
      BY <1>2, <2>5 DEF Abstract!Meaning
    <3>3. /\ req[r].snaps[1] \in Abstract!Seen(r, 1)
          /\ req[r].snaps[2] \in Abstract!Seen(r, 2)
      BY <1>6, <2>5
    <3> DEFINE A == Abstract!Seen(r, 1)
               B == Abstract!Seen(r, 2)
               x == req[r].snaps[1]
               y == req[r].snaps[2]
    <3>4. Abstract!Combined(A, B) = UNION {SUBSET (p[1] \cup p[2]) : p \in A \X B}
      BY DEF Abstract!Combined
    <3>5. x \in A /\ y \in B /\ results(r) = SUBSET (x \cup y)
          /\ Abstract!Meaning(r) = Abstract!Combined(A, B)
      BY <3>1, <3>2, <3>3
    <3> HIDE DEF A, B, x, y
    <3>6. \A S \in SUBSET (x \cup y) : S \in UNION {SUBSET (p[1] \cup p[2]) : p \in A \X B}
      BY <3>5, InCombined
    <3> QED
      BY <3>4, <3>5, <3>6
  <2>6. CASE route(r).makes = "part"
    <3>1. results(r) = SUBSET req[r].snaps[1]
      BY <2>6 DEF results
    <3>2. Abstract!Meaning(r) = UNION {SUBSET a : a \in Abstract!Seen(r, 1)}
      BY <1>2, <2>6 DEF Abstract!Meaning
    <3> QED
      BY <1>6, <2>6, <3>1, <3>2
  <2>7. CASE route(r).makes = "same"
    BY <1>2, <1>6, <2>7 DEF results, Abstract!Meaning
  <2> QED
    BY <2>1, <2>2, <2>3, <2>4, <2>5, <2>6, <2>7
<1> QED
  BY <1>2, <1>7

LEMMA MapsChange ==
    ASSUME RequestsInv, NEW r \in Request, TaskChanges(r), ~Undoing(r)
    PROVE  Abstract!Perform(r)
<1>1. PICK s \in results(r) : items' = [items EXCEPT ![target(r)] = s]
  BY DEF TaskChanges
<1>2. /\ At(r, "work") /\ Changing(r) /\ ~conflicting(r) /\ Pending(r) /\ Ends(r, 200)
      /\ past' = [q \in Request |->
                    IF q = r \/ ~Pending(q) THEN NoPast
                    ELSE [n \in Name |-> IF past[q][n] = {} THEN {}
                                          ELSE past[q][n] \cup {items'[n]}]]
      /\ answer' = answer
  BY DEF TaskChanges, At, Pending
<1>3. /\ Only(r) /\ ~Pending(r)' /\ phases[r] = "pending" /\ UNCHANGED calls
      /\ phases' = [phases EXCEPT ![r] = "done"]
  BY <1>2, EndsPending DEF Statuses
<1>4. tolds' = tolds
  BY <1>2 DEF tolds
<1>5. \A q \in Request : q # r /\ Pending(q) =>
        past'[q] = [n \in Name |-> IF past[q][n] = {} THEN {}
                                   ELSE past[q][n] \cup {items'[n]}]
  BY <1>2
<1>6. \E v \in Abstract!Meaning(r) : items' = [items EXCEPT ![calls[r].target] = v]
  BY <1>1, <1>2, MapsMeaning
<1> QED
  BY <1>3, <1>4, <1>5, <1>6, PastsPerformed, NoPastOf DEF Abstract!Perform

(* Every step of a handler or of its task is a step of the abstract call,  *)
(* or none.                                                                *)
LEMMA StepMaps ==
    ASSUME RequestsInv, [Next]_vars, \A r \in Request : ~Undoing(r)
    PROVE  [Abstract!Next]_(Abstract!vars)
<1>1. CASE UNCHANGED vars
  BY <1>1 DEF vars, Abstract!vars, calls, phases, tolds, pasts, Pending
<1>2. CASE Next
  <2>1. PICK r \in Request : Handler(r) \/ Task(r)
    BY <1>2 DEF Next
  <2>2. CASE Receive(r)
    BY <2>2, MapsReceive DEF Abstract!Next
  <2>3. CASE Onward(r) \/ TaskVersion(r) \/ TaskSnapshot(r)
    BY <2>3, MapsStutter
  <2>4. CASE Ended(r)
    <3>1. PICK status \in Statuses :
            /\ Ends(r, status) /\ Pending(r) /\ UNCHANGED <<items, answer, past>>
            /\ status = 200 => route(r).makes = "nothing"
      BY <2>4 DEF Ended
    <3>2. CASE status = 200
      BY <3>1, <3>2, MapsRead DEF Abstract!Next
    <3>3. CASE status # 200
      BY <3>1, <3>3, MapsRefusal DEF Abstract!Next
    <3> QED
      BY <3>2, <3>3
  <2>5. CASE Answer(r)
    BY <2>5, MapsAnswer DEF Abstract!Next
  <2>6. CASE TimesOut(r)
    BY <2>6, MapsTimeout DEF Abstract!Next
  <2>7. CASE TaskChanges(r)
    BY <2>7, MapsChange DEF Abstract!Next
  <2> QED
    BY <2>1, <2>2, <2>3, <2>4, <2>5, <2>6, <2>7, HandlerKinds, TaskKinds
<1> QED
  BY <1>1, <1>2

LEMMA InitMaps == Init => Abstract!Init
<1> SUFFICES ASSUME Init PROVE Abstract!Init
  OBVIOUS
<1>1. items \in [Name -> {{}} \cup {{n} : n \in Name}]
  BY DEF Init
<1>2. \A r \in Request : req[r].call = NoCall /\ req[r].pc = "idle"
  BY DEF Init
<1>3. calls \in [Request -> AbstractCall]
  BY <1>2, CallOf DEF calls
<1>4. phases = [r \in Request |-> "idle"]
  BY <1>2, PhaseOf DEF phases
<1>5. tolds = [r \in Request |-> "nothing"]
  <2>1. abstract_told(0) = "nothing"
    BY DEF abstract_told
  <2> QED
    BY <2>1 DEF Init, tolds
<1>6. pasts = [r \in Request |-> NoPast]
  BY <1>2 DEF pasts, Pending
<1> QED
  BY <1>1, <1>3, <1>4, <1>5, <1>6, NoPastOf DEF Abstract!Init

(* The HTTP calls are atomic: Requests implements AtomicCalls, unless a    *)
(* compress comes between the version and the load of a call that replaces *)
(* the compressed collection by what it read of it.                        *)
THEOREM AtomicCorrect == SparedSpec => CallsAreAtomic
<1> DEFINE Spared == \A r \in Request : ~Undoing(r)
           SparedNext == Next /\ ~\E r \in Request : Undoing(r)'
<1>1. Init => Spared
  BY DEF Init, Undoing
<1>2. Spared /\ [SparedNext]_vars => Spared'
  <2>1. CASE SparedNext
    BY <2>1
  <2>2. ASSUME Spared, UNCHANGED vars PROVE Spared'
    <3>1. req' = req /\ squeezed' = squeezed
      BY <2>2 DEF vars
    <3> QED
      BY <2>2, <3>1 DEF Undoing, sources, target
  <2> QED
    BY <2>1, <2>2
<1>3. [SparedNext]_vars => [Next]_vars
  OBVIOUS
<1>4. RequestsInv /\ Spared /\ [Next]_vars => [Abstract!Next]_(Abstract!vars)
  BY StepMaps
<1> QED
  BY <1>1, <1>2, <1>3, <1>4, InitMaps, RequestsInitially, RequestsKept, PTL
  DEF SparedSpec, CallsAreAtomic, Abstract!Spec

=============================================================================
