----------------------------- MODULE HiveProofs -----------------------------
(***************************************************************************)
(* Theorems about Hive and their proofs, for any names, clients and bounds.*)
(***************************************************************************)
EXTENDS Hive, TLAPS

(* What a client at each step of a call has in hand.                       *)
Formed(k) ==
    /\ k.pc # "idle" => k.name \in Name
    /\ k.pc \in {"found", "registered", "drop"} => k.id \in Id
    /\ k.pc = "holding" => k.object \in Object

CallsAreFormed == \A c \in Client : Formed(call[c])

TypeInv == TypeOK /\ CallsAreFormed

(* The client c has the id i, or an object of it, under the name n.        *)
CallClaims(c, n, i) ==
    /\ call[c].name = n
    /\ \/ call[c].id = i
       \/ call[c].pc = "holding" /\ objects[call[c].object].id = i

CacheClaims(n, i) ==
    collections[n] # None /\ objects[collections[n]].id = i

RecordsClaim(n, i) == \E v \in Content(records[i]) : learned[v].name = n

(* The name n lays claim to the id i: it is registered, or was when the    *)
(* call, the object or the record that says so came about.                 *)
Claims(n, i) ==
    \/ registry[n] = i
    \/ \E c \in Client : CallClaims(c, n, i)
    \/ CacheClaims(n, i)
    \/ RecordsClaim(n, i)

ClaimsUnique ==
    \A n, m \in Name : \A i \in Id : Claims(n, i) /\ Claims(m, i) => n = m

ClaimsIssued ==
    \A n \in Name : \A i \in Id : Claims(n, i) => i < next_collection_id

ContentLearned ==
    \A i \in Id : \A v \in Content(records[i]) :
        v <= written /\ learned[v].id = i /\ learned[v].name \in Name

ClaimsInv == ClaimsUnique /\ ClaimsIssued /\ ContentLearned

DisjointInv == TypeInv /\ ClaimsInv

-----------------------------------------------------------------------------
(* Types.                                                                  *)

LEMMA RacedTyped ==
    ASSUME TypeOK, Next
    PROVE  raced' \subseteq Name
BY DEF TypeOK, Next

LEMMA NoLocationsTyped == NoLocations \in Locations
BY HiveAssumption DEF NoLocations, Locations, None

LEMMA CallTyped ==
    ASSUME TypeInv, NEW c \in Client, NEW k \in Calls, Formed(k),
           call' = [call EXCEPT ![c] = k]
    PROVE  call' \in [Client -> Calls] /\ CallsAreFormed'
BY DEF TypeInv, TypeOK, CallsAreFormed, Formed

LEMMA GoesTyped ==
    ASSUME TypeInv, NEW c \in Client,
           NEW pc \in {"get", "found", "create", "registered", "drop", "dropped"},
           NEW n \in Name, NEW i \in Id \cup {None},
           pc \in {"found", "registered", "drop"} => i \in Id,
           Goes(c, pc, n, i)
    PROVE  call' \in [Client -> Calls] /\ CallsAreFormed'
<1> DEFINE k == [pc |-> pc, name |-> n, id |-> i, object |-> None]
<1>1. k \in Calls
  BY DEF Calls, None
<1>2. Formed(k)
  BY DEF Formed
<1> QED
  BY <1>1, <1>2, CallTyped DEF Goes

LEMMA EndsTyped ==
    ASSUME TypeInv, NEW c \in Client, Ends(c)
    PROVE  call' \in [Client -> Calls] /\ CallsAreFormed'
<1>1. Idle \in Calls /\ Formed(Idle)
  BY DEF Calls, Idle, Formed, None
<1> QED
  BY <1>1, CallTyped DEF Ends

LEMMA HoldTyped ==
    ASSUME TypeInv, NEW c \in Client, NEW n \in Name, NEW o \in Object,
           Hold(c, n, o)
    PROVE  call' \in [Client -> Calls] /\ CallsAreFormed'
<1> DEFINE k == [pc |-> "holding", name |-> n, id |-> None, object |-> o]
<1>1. k \in Calls
  BY DEF Calls, None
<1>2. Formed(k)
  BY DEF Formed
<1> QED
  BY <1>1, <1>2, CallTyped DEF Hold

LEMMA OpenTyped ==
    ASSUME TypeInv, NEW c \in Client, NEW n \in Name, NEW i \in Id,
           Open(c, n, i)
    PROVE  /\ call' \in [Client -> Calls] /\ CallsAreFormed'
           /\ collections' \in [Name -> Object \cup {None}]
           /\ objects' \in [Object -> [id : Id \cup {None}, data : Locations]]
<1>1. PICK o \in Object \ Live :
          /\ objects' = [objects EXCEPT ![o] = [id |-> i, data |-> opened(i)]]
          /\ collections' = [collections EXCEPT ![n] = o]
          /\ Hold(c, n, o)
  BY DEF Open
<1>2. opened(i) \in Locations
  BY DEF opened, TypeInv, TypeOK
<1>3. call' \in [Client -> Calls] /\ CallsAreFormed'
  BY <1>1, HoldTyped
<1>4. collections' \in [Name -> Object \cup {None}]
  BY <1>1 DEF TypeInv, TypeOK
<1>5. objects' \in [Object -> [id : Id \cup {None}, data : Locations]]
  BY <1>1, <1>2 DEF TypeInv, TypeOK
<1> QED
  BY <1>3, <1>4, <1>5

LEMMA InitTyped == Init => TypeInv
<1> SUFFICES ASSUME Init PROVE TypeInv
  OBVIOUS
<1>1. Idle \in Calls /\ Formed(Idle)
  BY DEF Calls, Idle, Formed, None
<1>2. call \in [Client -> Calls] /\ CallsAreFormed
  BY <1>1 DEF Init, CallsAreFormed
<1>3. records \in [Id -> Locations]
  BY NoLocationsTyped DEF Init
<1>4. objects \in [Object -> [id : Id \cup {None}, data : Locations]]
  BY NoLocationsTyped DEF Init, NoObject
<1>5. learned \in [Vector -> [name : Name \cup {None}, id : Id \cup {None}]]
  BY DEF Init, Nowhere
<1>6. /\ registry \in [Name -> Id \cup {None}]
      /\ next_collection_id \in 1 .. MaxId + 1
      /\ collections \in [Name -> Object \cup {None}]
      /\ lock \in Client \cup {None}
      /\ written \in 0 .. MaxWrite
      /\ raced \subseteq Name
  BY HiveAssumption DEF Init, None
<1> QED
  BY <1>2, <1>3, <1>4, <1>5, <1>6 DEF TypeInv, TypeOK

LEMMA ReopenTyped ==
    ASSUME TypeInv, Reopen, Next
    PROVE  TypeInv'
<1>1. Idle \in Calls /\ Formed(Idle)
  BY DEF Calls, Idle, Formed, None
<1>2. call' \in [Client -> Calls] /\ CallsAreFormed'
  BY <1>1 DEF Reopen, CallsAreFormed
<1>3. objects' \in [Object -> [id : Id \cup {None}, data : Locations]]
  BY NoLocationsTyped DEF Reopen, NoObject
<1> QED
  BY <1>2, <1>3, RacedTyped DEF Reopen, stored, TypeInv, TypeOK, None

LEMMA LookupTyped ==
    ASSUME TypeInv, NEW c \in Client, Lookup(c), Next
    PROVE  TypeInv'
<1>1. ASSUME NEW n \in Name, LookupCached(c, n) PROVE TypeInv'
  <2>1. collections[n] \in Object
    BY <1>1 DEF LookupCached, TypeInv, TypeOK
  <2>2. call' \in [Client -> Calls] /\ CallsAreFormed'
    BY <1>1, <2>1, HoldTyped DEF LookupCached
  <2> QED
    BY <1>1, <2>2, RacedTyped DEF LookupCached, stored, TypeInv, TypeOK
<1>2. ASSUME NEW n \in Name, LookupMissed(c, n) PROVE TypeInv'
  <2>1. call' \in [Client -> Calls] /\ CallsAreFormed'
    BY <1>2, GoesTyped DEF LookupMissed
  <2> QED
    BY <1>2, <2>1, RacedTyped DEF LookupMissed, stored, TypeInv, TypeOK
<1>3. CASE ReadId(c)
  <2>1. call[c].name \in Name
    BY <1>3 DEF ReadId, TypeInv, CallsAreFormed, Formed
  <2>2. registry[call[c].name] # None => registry[call[c].name] \in Id
    BY <2>1 DEF TypeInv, TypeOK
  <2>3. call' \in [Client -> Calls] /\ CallsAreFormed'
    BY <1>3, <2>1, <2>2, GoesTyped, EndsTyped DEF ReadId
  <2> QED
    BY <1>3, <2>3, RacedTyped DEF ReadId, stored, TypeInv, TypeOK
<1>4. CASE LoadFound(c)
  <2> DEFINE n == call[c].name
  <2>1. n \in Name /\ call[c].id \in Id
    BY <1>4 DEF LoadFound, TypeInv, CallsAreFormed, Formed
  <2>2. CASE collections[n] # None
    <3>1. collections[n] \in Object
      BY <2>1, <2>2 DEF TypeInv, TypeOK
    <3>2. call' \in [Client -> Calls] /\ CallsAreFormed'
      BY <1>4, <2>1, <2>2, <3>1, HoldTyped DEF LoadFound
    <3> QED
      BY <1>4, <2>2, <3>2, RacedTyped DEF LoadFound, stored, TypeInv, TypeOK
  <2>3. CASE collections[n] = None
    <3>1. Open(c, n, call[c].id)
      BY <1>4, <2>3 DEF LoadFound
    <3> QED
      BY <1>4, <2>1, <3>1, OpenTyped, RacedTyped DEF LoadFound, stored, TypeInv, TypeOK
  <2> QED
    BY <2>2, <2>3
<1>5. CASE CreateCached(c)
  <2> DEFINE n == call[c].name
  <2>1. n \in Name
    BY <1>5 DEF CreateCached, TypeInv, CallsAreFormed, Formed
  <2>2. collections[n] \in Object
    BY <1>5, <2>1 DEF CreateCached, TypeInv, TypeOK
  <2>3. call' \in [Client -> Calls] /\ CallsAreFormed'
    BY <1>5, <2>1, <2>2, HoldTyped DEF CreateCached
  <2> QED
    BY <1>5, <2>3, RacedTyped DEF CreateCached, stored, TypeInv, TypeOK
<1>6. CASE Register(c)
  <2> DEFINE n == call[c].name
  <2>1. n \in Name
    BY <1>6 DEF Register, TypeInv, CallsAreFormed, Formed
  <2>2. CASE registry[n] # None
    <3>1. registry[n] \in Id
      BY <2>1, <2>2 DEF TypeInv, TypeOK
    <3>2. call' \in [Client -> Calls] /\ CallsAreFormed'
      BY <1>6, <2>1, <2>2, <3>1, GoesTyped DEF Register
    <3> QED
      BY <1>6, <2>2, <3>2, RacedTyped DEF Register, TypeInv, TypeOK
  <2>3. CASE registry[n] = None
    <3>1. /\ next_collection_id \in Id
          /\ Goes(c, "registered", n, next_collection_id)
          /\ registry' = [registry EXCEPT ![n] = next_collection_id]
          /\ next_collection_id' = next_collection_id + 1
      BY <1>6, <2>3 DEF Register, load_next_collection_id
    <3>2. call' \in [Client -> Calls] /\ CallsAreFormed'
      BY <2>1, <3>1, GoesTyped
    <3>3. next_collection_id' \in 1 .. MaxId + 1
      BY <3>1, HiveAssumption DEF Id
    <3>4. registry' \in [Name -> Id \cup {None}]
      BY <2>1, <3>1 DEF TypeInv, TypeOK
    <3> QED
      BY <1>6, <3>2, <3>3, <3>4, RacedTyped DEF Register, TypeInv, TypeOK
  <2> QED
    BY <2>2, <2>3
<1>7. CASE OpenRegistered(c)
  <2>1. call[c].name \in Name /\ call[c].id \in Id
    BY <1>7 DEF OpenRegistered, TypeInv, CallsAreFormed, Formed
  <2> QED
    BY <1>7, <2>1, OpenTyped, RacedTyped
    DEF OpenRegistered, stored, TypeInv, TypeOK, None
<1>8. CASE OpenFails(c)
  <2>1. call' \in [Client -> Calls] /\ CallsAreFormed'
    BY <1>8, EndsTyped DEF OpenFails
  <2> QED
    BY <1>8, <2>1, RacedTyped DEF OpenFails, stored, TypeInv, TypeOK
<1> QED
  BY <1>1, <1>2, <1>3, <1>4, <1>5, <1>6, <1>7, <1>8 DEF Lookup

LEMMA WriteTyped ==
    ASSUME TypeInv, NEW c \in Client, Write(c), Next
    PROVE  TypeInv'
<1> DEFINE o == call[c].object
           i == objects[o].id
           l == objects[o].data.next_id
           v == written + 1
<1>1. o \in Object /\ call[c].name \in Name
  BY DEF Write, TypeInv, CallsAreFormed, Formed
<1>2. i \in Id \cup {None} /\ objects[o].data \in Locations
  BY <1>1 DEF TypeInv, TypeOK
<1>3. v \in Vector /\ l \in LocId /\ written' = v
  BY HiveAssumption DEF Write, TypeInv, TypeOK, Vector
<1>4. ASSUME NEW x \in Locations PROVE Appended(x, l, v) \in Locations
  BY <1>3, HiveAssumption DEF Appended, Locations, LocId, Vector
<1>5. objects' \in [Object -> [id : Id \cup {None}, data : Locations]]
  BY <1>1, <1>2, <1>4 DEF Write, TypeInv, TypeOK
<1>6. records' \in [Id -> Locations]
  BY <1>4 DEF Write, TypeInv, TypeOK
<1>7. learned' \in [Vector -> [name : Name \cup {None}, id : Id \cup {None}]]
  BY <1>1, <1>2, <1>3 DEF Write, TypeInv, TypeOK
<1>8. call' \in [Client -> Calls] /\ CallsAreFormed'
  BY EndsTyped DEF Write
<1>9. written' \in 0 .. MaxWrite
  BY <1>3, HiveAssumption DEF Vector
<1> QED
  BY <1>5, <1>6, <1>7, <1>8, <1>9, RacedTyped DEF Write, TypeInv, TypeOK

LEMMA UseTyped ==
    ASSUME TypeInv, NEW c \in Client, Use(c), Next
    PROVE  TypeInv'
<1>1. CASE Write(c)
  BY <1>1, WriteTyped
<1>2. CASE Release(c)
  <2>1. call' \in [Client -> Calls] /\ CallsAreFormed'
    BY <1>2, EndsTyped DEF Release
  <2> QED
    BY <1>2, <2>1, RacedTyped DEF Release, stored, TypeInv, TypeOK
<1> QED
  BY <1>1, <1>2 DEF Use

LEMMA DropTyped ==
    ASSUME TypeInv, NEW c \in Client, Drop(c), Next
    PROVE  TypeInv'
<1>1. ASSUME NEW n \in Name, DropReadId(c, n) PROVE TypeInv'
  <2>1. registry[n] \in Id
    BY <1>1 DEF DropReadId, TypeInv, TypeOK
  <2>2. call' \in [Client -> Calls] /\ CallsAreFormed'
    BY <1>1, <2>1, GoesTyped DEF DropReadId
  <2> QED
    BY <1>1, <2>2, RacedTyped DEF DropReadId, stored, TypeInv, TypeOK
<1>2. CASE DropDelete(c)
  <2>1. call[c].name \in Name /\ call[c].id \in Id
    BY <1>2 DEF DropDelete, TypeInv, CallsAreFormed, Formed
  <2>2. call' \in [Client -> Calls] /\ CallsAreFormed'
    BY <1>2, <2>1, GoesTyped, EndsTyped DEF DropDelete
  <2>3. /\ registry' \in [Name -> Id \cup {None}]
        /\ records' \in [Id -> Locations]
        /\ next_collection_id' = next_collection_id
    BY <1>2, NoLocationsTyped
    DEF DropDelete, delete_collection, stored, TypeInv, TypeOK
  <2> QED
    BY <1>2, <2>2, <2>3, RacedTyped DEF DropDelete, TypeInv, TypeOK
<1>3. CASE DropUncache(c)
  <2>1. call' \in [Client -> Calls] /\ CallsAreFormed'
    BY <1>3, EndsTyped DEF DropUncache
  <2>2. collections' \in [Name -> Object \cup {None}]
    BY <1>3 DEF DropUncache, Uncache, TypeInv, TypeOK
  <2> QED
    BY <1>3, <2>1, <2>2, RacedTyped DEF DropUncache, stored, TypeInv, TypeOK
<1> QED
  BY <1>1, <1>2, <1>3 DEF Drop

LEMMA TypeKept == TypeInv /\ [Next]_vars => TypeInv'
<1> SUFFICES ASSUME TypeInv, [Next]_vars PROVE TypeInv'
  OBVIOUS
<1>1. CASE Next
  BY <1>1, ReopenTyped, LookupTyped, UseTyped, DropTyped DEF Next
<1>2. CASE UNCHANGED vars
  BY <1>2 DEF vars, TypeInv, TypeOK, CallsAreFormed, Formed
<1> QED
  BY <1>1, <1>2

(* Whatever the clients do at a time, each variable of a Hive keeps to its *)
(* type: ids, objects and vectors stay within their ranges, and no call    *)
(* goes on without the name, id or object it needs.                        *)
THEOREM HiveTypeCorrect == Spec => []TypeOK
<1>1. Init => TypeInv
  BY InitTyped
<1>2. TypeInv /\ [Next]_vars => TypeInv'
  BY TypeKept
<1>3. TypeInv => TypeOK
  BY DEF TypeInv
<1> QED
  BY <1>1, <1>2, <1>3, PTL DEF Spec

-----------------------------------------------------------------------------
(* Who claims an id.                                                       *)

LEMMA ClaimsKept ==
    ASSUME ClaimsUnique, ClaimsIssued,
           next_collection_id' = next_collection_id,
           \A n \in Name : \A i \in Id : Claims(n, i)' => Claims(n, i)
    PROVE  ClaimsUnique' /\ ClaimsIssued'
<1>1. ClaimsUnique'
  BY DEF ClaimsUnique
<1>2. ClaimsIssued'
  BY DEF ClaimsIssued
<1> QED
  BY <1>1, <1>2

LEMMA ContentKept ==
    ASSUME ContentLearned, UNCHANGED <<records, written, learned>>
    PROVE  /\ ContentLearned'
           /\ \A n \in Name : \A i \in Id : RecordsClaim(n, i)' => RecordsClaim(n, i)
BY DEF ContentLearned, RecordsClaim, Content

(* One call goes on to k, and everything k, the cache, the registry and    *)
(* the records then claim was claimed before.                              *)
LEMMA CallKeepsClaims ==
    ASSUME TypeInv, NEW c \in Client, NEW k \in Calls,
           NEW n \in Name, NEW i \in Id,
           call' = [call EXCEPT ![c] = k],
           \A o \in Object : o \in Live => objects'[o].id = objects[o].id,
           registry'[n] = i => Claims(n, i),
           k.name = n /\ k.id = i => Claims(n, i),
           k.name = n /\ k.pc = "holding" /\ objects'[k.object].id = i => Claims(n, i),
           CacheClaims(n, i)' => Claims(n, i),
           RecordsClaim(n, i)' => Claims(n, i),
           Claims(n, i)'
    PROVE  Claims(n, i)
<1>1. ASSUME NEW d \in Client, CallClaims(d, n, i)' PROVE Claims(n, i)
  <2>1. CASE d = c
    <3>1. call'[d] = k
      BY <2>1 DEF TypeInv, TypeOK
    <3> QED
      BY <1>1, <3>1 DEF CallClaims
  <2>2. CASE d # c
    <3>1. call'[d] = call[d]
      BY <2>2 DEF TypeInv, TypeOK
    <3>2. CASE call[d].pc = "holding" /\ objects'[call[d].object].id = i
      <4>1. call[d].object \in Object /\ call[d].object \in Live
        BY <3>2 DEF TypeInv, CallsAreFormed, Formed, Live
      <4>2. CallClaims(d, n, i)
        BY <1>1, <3>1, <3>2, <4>1 DEF CallClaims
      <4> QED
        BY <4>2 DEF Claims
    <3>3. CASE call[d].id = i
      BY <1>1, <3>1, <3>3 DEF CallClaims, Claims
    <3> QED
      BY <1>1, <3>1, <3>2, <3>3 DEF CallClaims
  <2> QED
    BY <2>1, <2>2
<1> QED
  BY <1>1 DEF Claims

(* The next steps change the calls and the registry at most, and give no   *)
(* name an id it had not.                                                  *)
LEMMA CallOnlyKeeps ==
    ASSUME DisjointInv, NEW c \in Client, NEW k \in Calls,
           call' = [call EXCEPT ![c] = k],
           UNCHANGED <<records, written, learned, objects, next_collection_id>>,
           \A n \in Name : registry'[n] = registry[n] \/ registry'[n] = None,
           \A n \in Name : collections'[n] = collections[n] \/ collections'[n] = None,
           \A n \in Name : \A i \in Id : k.name = n /\ k.id = i => Claims(n, i),
           \A n \in Name : \A i \in Id :
               k.name = n /\ k.pc = "holding" /\ objects[k.object].id = i => Claims(n, i)
    PROVE  ClaimsInv'
<1>1. ContentLearned'
  BY ContentKept DEF DisjointInv, ClaimsInv
<1>2. ASSUME NEW n \in Name, NEW i \in Id, Claims(n, i)'
      PROVE  Claims(n, i)
  <2>1. registry'[n] = i => Claims(n, i)
    BY HiveAssumption DEF Claims, Id, None
  <2>2. CacheClaims(n, i)' => Claims(n, i)
    BY DEF CacheClaims, Claims
  <2>3. RecordsClaim(n, i)' => Claims(n, i)
    BY ContentKept DEF DisjointInv, ClaimsInv, Claims
  <2> QED
    BY <1>2, <2>1, <2>2, <2>3, CallKeepsClaims DEF DisjointInv
<1>3. ClaimsUnique' /\ ClaimsIssued'
  BY <1>2, ClaimsKept DEF DisjointInv, ClaimsInv
<1> QED
  BY <1>1, <1>3 DEF ClaimsInv

LEMMA EndKeeps ==
    ASSUME DisjointInv, NEW c \in Client, Ends(c),
           UNCHANGED <<records, written, learned, objects, next_collection_id>>,
           \A n \in Name : registry'[n] = registry[n] \/ registry'[n] = None,
           \A n \in Name : collections'[n] = collections[n] \/ collections'[n] = None
    PROVE  ClaimsInv'
<1>1. Idle \in Calls
  BY DEF Idle, Calls, None
<1>2. Idle.pc # "holding" /\ \A i \in Id : Idle.id # i
  BY HiveAssumption DEF Idle, Id, None
<1> QED
  BY <1>1, <1>2, CallOnlyKeeps DEF Ends

LEMMA GoKeeps ==
    ASSUME DisjointInv, NEW c \in Client,
           NEW pc \in {"get", "found", "create", "registered", "drop", "dropped"},
           NEW n \in Name, NEW i \in Id \cup {None}, Goes(c, pc, n, i),
           UNCHANGED <<records, written, learned, objects, next_collection_id>>,
           \A m \in Name : registry'[m] = registry[m] \/ registry'[m] = None,
           UNCHANGED collections,
           i \in Id => Claims(n, i)
    PROVE  ClaimsInv'
<1> DEFINE k == [pc |-> pc, name |-> n, id |-> i, object |-> None]
<1>1. k \in Calls
  BY DEF Calls, None
<1>2. \A m \in Name : \A j \in Id : k.name = m /\ k.id = j => Claims(m, j)
  OBVIOUS
<1>3. k.pc # "holding"
  OBVIOUS
<1>4. call' = [call EXCEPT ![c] = k]
  BY DEF Goes
<1> HIDE DEF k
<1> QED
  BY <1>1, <1>2, <1>3, <1>4, CallOnlyKeeps

(* A cached object is handed out under the name it is cached for.          *)
LEMMA HoldKeeps ==
    ASSUME DisjointInv, NEW c \in Client, NEW n \in Name,
           collections[n] # None, Hold(c, n, collections[n]),
           UNCHANGED <<records, written, learned, objects, next_collection_id>>,
           UNCHANGED <<registry, collections>>
    PROVE  ClaimsInv'
<1> DEFINE k == [pc |-> "holding", name |-> n, id |-> None,
                 object |-> collections[n]]
<1>1. k \in Calls
  BY DEF Calls, DisjointInv, TypeInv, TypeOK
<1>2. \A i \in Id : k.id # i
  BY HiveAssumption DEF Id, None
<1>3. \A m \in Name : \A i \in Id :
          k.name = m /\ k.pc = "holding" /\ objects[k.object].id = i => Claims(m, i)
  BY DEF Claims, CacheClaims
<1>4. call' = [call EXCEPT ![c] = k]
  BY DEF Hold
<1> HIDE DEF k
<1> QED
  BY <1>1, <1>2, <1>3, <1>4, CallOnlyKeeps

(* A new object takes none that a call or the cache still refers to.       *)
LEMMA OpenKeeps ==
    ASSUME DisjointInv, NEW c \in Client, NEW n \in Name, NEW i \in Id,
           Open(c, n, i), Claims(n, i),
           UNCHANGED <<stored, written, learned>>
    PROVE  ClaimsInv'
<1>1. PICK o \in Object \ Live :
          /\ objects' = [objects EXCEPT ![o] = [id |-> i, data |-> opened(i)]]
          /\ collections' = [collections EXCEPT ![n] = o]
          /\ Hold(c, n, o)
  BY DEF Open
<1> DEFINE k == [pc |-> "holding", name |-> n, id |-> None, object |-> o]
<1>2. k \in Calls /\ \A j \in Id : k.id # j
  BY HiveAssumption DEF Calls, Id, None
<1>3. call' = [call EXCEPT ![c] = k]
  BY <1>1 DEF Hold
<1>4. objects'[o].id = i
  BY <1>1 DEF DisjointInv, TypeInv, TypeOK
<1>5. \A p \in Object : p \in Live => objects'[p].id = objects[p].id
  BY <1>1 DEF DisjointInv, TypeInv, TypeOK
<1>6. UNCHANGED <<records, registry, next_collection_id, written, learned>>
  BY DEF stored
<1>7. ASSUME NEW m \in Name, NEW j \in Id, Claims(m, j)'
      PROVE  Claims(m, j)
  <2>1. k.name = m /\ k.pc = "holding" /\ objects'[k.object].id = j => Claims(m, j)
    BY <1>4
  <2>2. CacheClaims(m, j)' => Claims(m, j)
    <3>1. CASE m = n
      <4>1. collections'[m] = o
        BY <1>1, <3>1 DEF DisjointInv, TypeInv, TypeOK
      <4> QED
        BY <1>4, <3>1, <4>1 DEF CacheClaims
    <3>2. CASE m # n
      <4>1. collections'[m] = collections[m]
        BY <1>1, <3>2 DEF DisjointInv, TypeInv, TypeOK
      <4>2. collections[m] # None => collections[m] \in Object /\ collections[m] \in Live
        BY DEF DisjointInv, TypeInv, TypeOK, Live
      <4> QED
        BY <1>5, <4>1, <4>2 DEF CacheClaims, Claims
    <3> QED
      BY <3>1, <3>2
  <2>3. RecordsClaim(m, j)' => Claims(m, j)
    BY <1>6, ContentKept DEF DisjointInv, ClaimsInv, Claims
  <2>4. registry'[m] = j => Claims(m, j)
    BY <1>6 DEF Claims
  <2>5. k.name = m /\ k.id = j => Claims(m, j)
    BY <1>2
  <2> HIDE DEF k
  <2> QED
    BY <1>2, <1>3, <1>5, <1>7, <2>1, <2>2, <2>3, <2>4, <2>5, CallKeepsClaims
    DEF DisjointInv
<1>8. ClaimsUnique' /\ ClaimsIssued'
  BY <1>6, <1>7, ClaimsKept DEF DisjointInv, ClaimsInv
<1>9. ContentLearned'
  BY <1>6, ContentKept DEF DisjointInv, ClaimsInv
<1> QED
  BY <1>8, <1>9 DEF ClaimsInv

-----------------------------------------------------------------------------
(* The actions.                                                            *)

(* An id that is registered is new: the counter is above every id that was *)
(* ever claimed.                                                           *)
LEMMA RegisterKeeps ==
    ASSUME DisjointInv, NEW c \in Client, Register(c)
    PROVE  ClaimsInv'
<1> DEFINE n == call[c].name
<1>1. n \in Name
  BY DEF Register, DisjointInv, TypeInv, CallsAreFormed, Formed
<1>2. UNCHANGED <<records, collections, objects, written, learned>>
  BY DEF Register
<1>3. CASE registry[n] # None
  <2>1. /\ Goes(c, "registered", n, registry[n])
        /\ UNCHANGED <<registry, next_collection_id>>
    BY <1>3 DEF Register
  <2>2. registry[n] \in Id /\ Claims(n, registry[n])
    BY <1>1, <1>3 DEF DisjointInv, TypeInv, TypeOK, Claims
  <2> QED
    BY <1>1, <1>2, <2>1, <2>2, GoKeeps
<1>4. CASE registry[n] = None
  <2> DEFINE new == next_collection_id
             k == [pc |-> "registered", name |-> n, id |-> new, object |-> None]
  <2>1. /\ new \in Id
        /\ call' = [call EXCEPT ![c] = k]
        /\ registry' = [registry EXCEPT ![n] = new]
        /\ next_collection_id' = new + 1
    BY <1>4 DEF Register, load_next_collection_id, Goes
  <2>2. k \in Calls
    BY <1>1, <2>1 DEF Calls, None
  <2>3. ContentLearned'
    BY <1>2, ContentKept DEF DisjointInv, ClaimsInv
  <2>4. ASSUME NEW m \in Name, NEW i \in Id, Claims(m, i)', m # n \/ i # new
        PROVE  Claims(m, i)
    <3>1. registry'[m] = i => Claims(m, i)
      BY <1>1, <2>1, <2>4 DEF DisjointInv, TypeInv, TypeOK, Claims
    <3>2. k.name = m /\ k.id = i => Claims(m, i)
      BY <2>4
    <3>3. k.pc # "holding"
      OBVIOUS
    <3>4. CacheClaims(m, i)' => Claims(m, i)
      BY <1>2 DEF CacheClaims, Claims
    <3>5. RecordsClaim(m, i)' => Claims(m, i)
      BY <1>2, ContentKept DEF DisjointInv, ClaimsInv, Claims
    <3> HIDE DEF k
    <3> QED
      BY <1>2, <2>1, <2>2, <2>4, <3>1, <3>2, <3>3, <3>4, <3>5, CallKeepsClaims
      DEF DisjointInv
  <2>5. \A m \in Name : \A i \in Id : Claims(m, i) => i < new
    BY DEF DisjointInv, ClaimsInv, ClaimsIssued
  <2>6. ClaimsUnique'
    <3> SUFFICES ASSUME NEW m \in Name, NEW p \in Name, NEW i \in Id,
                        Claims(m, i)', Claims(p, i)'
                 PROVE  m = p
      BY DEF ClaimsUnique
    <3>1. CASE i = new
      <4>1. ~Claims(m, i) /\ ~Claims(p, i)
        BY <2>1, <2>5, <3>1 DEF Id
      <4> QED
        BY <2>4, <4>1
    <3>2. CASE i # new
      <4>1. Claims(m, i) /\ Claims(p, i)
        BY <2>4, <3>2
      <4> QED
        BY <4>1 DEF DisjointInv, ClaimsInv, ClaimsUnique
    <3> QED
      BY <3>1, <3>2
  <2>7. ClaimsIssued'
    <3> SUFFICES ASSUME NEW m \in Name, NEW i \in Id, Claims(m, i)'
                 PROVE  i < next_collection_id'
      BY DEF ClaimsIssued
    <3>1. i = new \/ i < new
      BY <2>4, <2>5
    <3> QED
      BY <2>1, <3>1 DEF Id
  <2> QED
    BY <2>3, <2>6, <2>7 DEF ClaimsInv
<1> QED
  BY <1>3, <1>4

LEMMA LookupKeeps ==
    ASSUME DisjointInv, NEW c \in Client, Lookup(c)
    PROVE  ClaimsInv'
<1>1. ASSUME NEW n \in Name, LookupCached(c, n) PROVE ClaimsInv'
  BY <1>1, HoldKeeps DEF LookupCached, stored
<1>2. ASSUME NEW n \in Name, LookupMissed(c, n) PROVE ClaimsInv'
  <2>1. None \notin Id
    BY HiveAssumption DEF Id, None
  <2>2. UNCHANGED <<registry, next_collection_id, records, collections, objects,
                    written, learned>>
    BY <1>2 DEF LookupMissed, stored
  <2>3. Goes(c, "get", n, None) \/ Goes(c, "create", n, None)
    BY <1>2 DEF LookupMissed
  <2> QED
    BY <2>1, <2>2, <2>3, GoKeeps
<1>3. CASE ReadId(c)
  <2> DEFINE n == call[c].name
  <2>1. n \in Name
    BY <1>3 DEF ReadId, DisjointInv, TypeInv, CallsAreFormed, Formed
  <2>2. UNCHANGED <<registry, next_collection_id, records, collections, objects,
                    written, learned>>
    BY <1>3 DEF ReadId, stored
  <2>3. CASE registry[n] = None
    BY <1>3, <2>2, <2>3, EndKeeps DEF ReadId
  <2>4. CASE registry[n] # None
    <3>1. registry[n] \in Id /\ Claims(n, registry[n])
      BY <2>1, <2>4 DEF DisjointInv, TypeInv, TypeOK, Claims
    <3>2. Goes(c, "found", n, registry[n])
      BY <1>3, <2>4 DEF ReadId
    <3> QED
      BY <2>1, <2>2, <3>1, <3>2, GoKeeps
  <2> QED
    BY <2>3, <2>4
<1>4. CASE LoadFound(c)
  <2> DEFINE n == call[c].name
  <2>1. n \in Name /\ call[c].id \in Id
    BY <1>4 DEF LoadFound, DisjointInv, TypeInv, CallsAreFormed, Formed
  <2>2. CASE collections[n] # None
    BY <1>4, <2>1, <2>2, HoldKeeps DEF LoadFound, stored
  <2>3. CASE collections[n] = None
    <3>1. Claims(n, call[c].id)
      BY DEF Claims, CallClaims
    <3>2. Open(c, n, call[c].id) /\ UNCHANGED <<stored, written, learned>>
      BY <1>4, <2>3 DEF LoadFound
    <3> QED
      BY <2>1, <3>1, <3>2, OpenKeeps
  <2> QED
    BY <2>2, <2>3
<1>5. CASE CreateCached(c)
  <2>1. call[c].name \in Name
    BY <1>5 DEF CreateCached, DisjointInv, TypeInv, CallsAreFormed, Formed
  <2> QED
    BY <1>5, <2>1, HoldKeeps DEF CreateCached, stored
<1>6. CASE Register(c)
  BY <1>6, RegisterKeeps
<1>7. CASE OpenRegistered(c)
  <2>1. call[c].name \in Name /\ call[c].id \in Id
    BY <1>7 DEF OpenRegistered, DisjointInv, TypeInv, CallsAreFormed, Formed
  <2>2. Claims(call[c].name, call[c].id)
    BY DEF Claims, CallClaims
  <2> QED
    BY <1>7, <2>1, <2>2, OpenKeeps DEF OpenRegistered
<1>8. CASE OpenFails(c)
  BY <1>8, EndKeeps DEF OpenFails, stored
<1> QED
  BY <1>1, <1>2, <1>3, <1>4, <1>5, <1>6, <1>7, <1>8 DEF Lookup

(* A write goes to the records of the id its object has, which the name it *)
(* was looked up under has a claim to.                                     *)
LEMMA WriteKeeps ==
    ASSUME DisjointInv, NEW c \in Client, Write(c)
    PROVE  ClaimsInv'
<1> DEFINE o == call[c].object
           b == objects[o].id
           l == objects[o].data.next_id
           w == written + 1
<1>1. /\ o \in Object /\ call[c].name \in Name
      /\ l \in LocId /\ w \in Vector /\ written' = w
  BY HiveAssumption
  DEF Write, DisjointInv, TypeInv, TypeOK, CallsAreFormed, Formed, Vector
<1>2. /\ objects' = [objects EXCEPT ![o].data = Appended(@, l, w)]
      /\ records' = [records EXCEPT ![b] = Appended(@, l, w)]
      /\ learned' = [learned EXCEPT ![w] = [name |-> call[c].name, id |-> b]]
      /\ call' = [call EXCEPT ![c] = Idle]
      /\ UNCHANGED <<registry, next_collection_id, collections>>
  BY DEF Write, Ends
<1>3. \A p \in Object : objects'[p].id = objects[p].id
  BY <1>1, <1>2 DEF DisjointInv, TypeInv, TypeOK
<1>4. learned'[w] = [name |-> call[c].name, id |-> b]
  BY <1>1, <1>2 DEF DisjointInv, TypeInv, TypeOK
<1>5. \A v \in Vector : v # w => learned'[v] = learned[v]
  BY <1>2 DEF DisjointInv, TypeInv, TypeOK
<1>6. ASSUME NEW i \in Id, NEW v \in Content(records'[i])
      PROVE  (v \in Content(records[i]) /\ v \in Vector) \/ (v = w /\ i = b)
  <2>1. PICK x \in LocId : v = records'[i].locs[x] /\ v # None
    BY <1>6 DEF Content
  <2>2. records[i] \in Locations
    BY DEF DisjointInv, TypeInv, TypeOK
  <2>3. CASE i = b
    <3>1. records'[i] = Appended(records[i], l, w)
      BY <1>2, <2>3 DEF DisjointInv, TypeInv, TypeOK
    <3>2. v = IF x = l THEN w ELSE records[i].locs[x]
      BY <2>1, <2>2, <3>1 DEF Appended, Locations
    <3> QED
      BY <2>1, <2>2, <2>3, <3>2 DEF Content, Locations
  <2>4. CASE i # b
    <3>1. records'[i] = records[i]
      BY <1>2, <2>4 DEF DisjointInv, TypeInv, TypeOK
    <3> QED
      BY <2>1, <2>2, <3>1 DEF Content, Locations
  <2> QED
    BY <2>3, <2>4
<1>7. ASSUME NEW i \in Id, NEW v \in Content(records[i]), v \in Vector
      PROVE  v <= written /\ learned'[v] = learned[v]
  <2>1. v <= written
    BY <1>7 DEF DisjointInv, ClaimsInv, ContentLearned
  <2> QED
    BY <1>1, <1>5, <1>7, <2>1, HiveAssumption DEF DisjointInv, TypeInv, TypeOK, Vector
<1>8. ContentLearned'
  <2> SUFFICES ASSUME NEW i \in Id, NEW v \in Content(records'[i])
               PROVE  /\ v <= written'
                      /\ learned'[v].id = i /\ learned'[v].name \in Name
    BY DEF ContentLearned, Content
  <2>1. CASE v \in Content(records[i]) /\ v \in Vector
    BY <1>1, <1>7, <2>1, HiveAssumption
    DEF DisjointInv, ClaimsInv, ContentLearned, TypeInv, TypeOK, Vector
  <2>2. CASE v = w /\ i = b
    BY <1>1, <1>4, <2>2 DEF Vector
  <2> QED
    BY <1>6, <2>1, <2>2
<1>9. ASSUME NEW n \in Name, NEW i \in Id, Claims(n, i)'
      PROVE  Claims(n, i)
  <2>1. Idle \in Calls /\ Idle.pc # "holding" /\ Idle.id # i
    BY HiveAssumption DEF Idle, Calls, Id, None
  <2>2. registry'[n] = i => Claims(n, i)
    BY <1>2 DEF Claims
  <2>3. CacheClaims(n, i)' => Claims(n, i)
    <3>1. collections[n] # None => collections[n] \in Object
      BY DEF DisjointInv, TypeInv, TypeOK
    <3> QED
      BY <1>2, <1>3, <3>1 DEF CacheClaims, Claims
  <2>4. RecordsClaim(n, i)' => Claims(n, i)
    <3> SUFFICES ASSUME NEW v \in Content(records'[i]), learned'[v].name = n
                 PROVE  Claims(n, i)
      BY DEF RecordsClaim, Content
    <3>1. CASE v \in Content(records[i]) /\ v \in Vector
      BY <1>7, <3>1 DEF RecordsClaim, Claims
    <3>2. CASE v = w /\ i = b
      <4>1. CallClaims(c, n, i)
        BY <1>4, <3>2 DEF CallClaims, Write
      <4> QED
        BY <4>1 DEF Claims
    <3> QED
      BY <1>6, <3>1, <3>2
  <2> QED
    BY <1>2, <1>3, <1>9, <2>1, <2>2, <2>3, <2>4, CallKeepsClaims DEF DisjointInv
<1>10. ClaimsUnique' /\ ClaimsIssued'
  BY <1>2, <1>9, ClaimsKept DEF DisjointInv, ClaimsInv
<1> QED
  BY <1>8, <1>10 DEF ClaimsInv

LEMMA UseKeeps ==
    ASSUME DisjointInv, NEW c \in Client, Use(c)
    PROVE  ClaimsInv'
<1>1. CASE Write(c)
  BY <1>1, WriteKeeps
<1>2. CASE Release(c)
  BY <1>2, EndKeeps DEF Release, stored
<1> QED
  BY <1>1, <1>2 DEF Use

LEMMA DeleteKeeps ==
    ASSUME DisjointInv, NEW c \in Client, call[c].pc = "drop",
           delete_collection(call[c].name, call[c].id),
           Goes(c, "dropped", call[c].name, None),
           UNCHANGED <<collections, objects, written, learned>>
    PROVE  ClaimsInv'
<1> DEFINE k == [pc |-> "dropped", name |-> call[c].name, id |-> None, object |-> None]
<1>1. call[c].name \in Name
  BY DEF DisjointInv, TypeInv, CallsAreFormed, Formed
<1>2. k \in Calls /\ k.pc # "holding" /\ \A i \in Id : k.id # i
  BY <1>1, HiveAssumption DEF Calls, Id, None
<1>3. /\ call' = [call EXCEPT ![c] = k]
      /\ registry' = [registry EXCEPT ![call[c].name] = None]
      /\ records' = [records EXCEPT ![call[c].id] = NoLocations]
      /\ next_collection_id' = next_collection_id
  BY DEF Goes, delete_collection
<1>4. ASSUME NEW i \in Id PROVE Content(records'[i]) \subseteq Content(records[i])
  <2>1. CASE i = call[c].id
    <3>1. records'[i] = NoLocations
      BY <1>3, <2>1 DEF DisjointInv, TypeInv, TypeOK
    <3> QED
      BY <3>1 DEF Content, NoLocations
  <2>2. CASE i # call[c].id
    BY <1>3, <2>2 DEF DisjointInv, TypeInv, TypeOK
  <2> QED
    BY <2>1, <2>2
<1>6. ContentLearned'
  <2> SUFFICES ASSUME NEW i \in Id, NEW v \in Content(records'[i])
               PROVE  /\ v <= written'
                      /\ learned'[v].id = i /\ learned'[v].name \in Name
    BY DEF ContentLearned, Content
  <2> QED
    BY <1>4 DEF DisjointInv, ClaimsInv, ContentLearned
<1>7. ASSUME NEW n \in Name, NEW i \in Id, Claims(n, i)'
      PROVE  Claims(n, i)
  <2>1. registry'[n] = i => Claims(n, i)
    <3>1. registry'[n] = registry[n] \/ registry'[n] = None
      BY <1>1, <1>3 DEF DisjointInv, TypeInv, TypeOK
    <3> QED
      BY <3>1, HiveAssumption DEF Claims, Id, None
  <2>2. CacheClaims(n, i)' => Claims(n, i)
    BY DEF CacheClaims, Claims
  <2>3. RecordsClaim(n, i)' => Claims(n, i)
    <3> SUFFICES ASSUME NEW v \in Content(records'[i]), learned'[v].name = n
                 PROVE  Claims(n, i)
      BY DEF RecordsClaim, Content
    <3> QED
      BY <1>4 DEF RecordsClaim, Claims
  <2> HIDE DEF k
  <2> QED
    BY <1>2, <1>3, <1>7, <2>1, <2>2, <2>3, CallKeepsClaims DEF DisjointInv
<1>8. ClaimsUnique' /\ ClaimsIssued'
  BY <1>3, <1>7, ClaimsKept DEF DisjointInv, ClaimsInv
<1> QED
  BY <1>6, <1>8 DEF ClaimsInv

LEMMA DropKeeps ==
    ASSUME DisjointInv, NEW c \in Client, Drop(c)
    PROVE  ClaimsInv'
<1>1. ASSUME NEW n \in Name, DropReadId(c, n) PROVE ClaimsInv'
  <2>1. registry[n] \in Id /\ Claims(n, registry[n])
    BY <1>1 DEF DropReadId, DisjointInv, TypeInv, TypeOK, Claims
  <2>2. /\ UNCHANGED <<registry, next_collection_id, records, collections, objects,
                       written, learned>>
        /\ Goes(c, "drop", n, registry[n])
    BY <1>1 DEF DropReadId, stored
  <2> QED
    BY <2>1, <2>2, GoKeeps
<1>2. CASE DropDelete(c)
  <2>1. CASE Ends(c) /\ UNCHANGED stored
    BY <1>2, <2>1, EndKeeps DEF DropDelete, stored
  <2>2. CASE ~(Ends(c) /\ UNCHANGED stored)
    BY <1>2, <2>2, DeleteKeeps DEF DropDelete
  <2> QED
    BY <2>1, <2>2
<1>3. CASE DropUncache(c)
  <2>1. \A n \in Name : collections'[n] = collections[n] \/ collections'[n] = None
    BY <1>3 DEF DropUncache, Uncache, DisjointInv, TypeInv, TypeOK
  <2> QED
    BY <1>3, <2>1, EndKeeps DEF DropUncache, stored
<1> QED
  BY <1>1, <1>2, <1>3 DEF Drop

LEMMA ReopenKeeps ==
    ASSUME DisjointInv, Reopen
    PROVE  ClaimsInv'
<1>1. /\ UNCHANGED <<registry, next_collection_id, records, written, learned>>
      /\ call' = [c \in Client |-> Idle]
      /\ collections' = [n \in Name |-> None]
  BY DEF Reopen, stored
<1>2. ASSUME NEW n \in Name, NEW i \in Id, Claims(n, i)'
      PROVE  Claims(n, i)
  <2>1. \A c \in Client : ~CallClaims(c, n, i)'
    BY <1>1, HiveAssumption DEF CallClaims, Idle, Id, None
  <2>2. ~CacheClaims(n, i)'
    BY <1>1 DEF CacheClaims
  <2>3. RecordsClaim(n, i)' => Claims(n, i)
    BY <1>1, ContentKept DEF DisjointInv, ClaimsInv, Claims
  <2> QED
    BY <1>1, <1>2, <2>1, <2>2, <2>3 DEF Claims
<1>3. ClaimsUnique' /\ ClaimsIssued'
  BY <1>1, <1>2, ClaimsKept DEF DisjointInv, ClaimsInv
<1>4. ContentLearned'
  BY <1>1, ContentKept DEF DisjointInv, ClaimsInv
<1> QED
  BY <1>3, <1>4 DEF ClaimsInv

LEMMA InitClaims == Init => ClaimsInv
<1> SUFFICES ASSUME Init PROVE ClaimsInv
  OBVIOUS
<1>1. \A i \in Id : Content(records[i]) = {}
  BY DEF Init, Content, NoLocations
<1>2. \A n \in Name : \A i \in Id : ~Claims(n, i)
  <2> SUFFICES ASSUME NEW n \in Name, NEW i \in Id PROVE ~Claims(n, i)
    OBVIOUS
  <2>1. i # None
    BY HiveAssumption DEF Id, None
  <2>2. \A c \in Client : ~CallClaims(c, n, i)
    BY <2>1 DEF Init, CallClaims, Idle
  <2>3. registry[n] # i /\ ~CacheClaims(n, i) /\ ~RecordsClaim(n, i)
    BY <1>1, <2>1 DEF Init, CacheClaims, RecordsClaim
  <2> QED
    BY <2>2, <2>3 DEF Claims
<1> QED
  BY <1>1, <1>2 DEF ClaimsInv, ClaimsUnique, ClaimsIssued, ContentLearned

LEMMA DisjointKept == DisjointInv /\ [Next]_vars => DisjointInv'
<1> SUFFICES ASSUME DisjointInv, [Next]_vars PROVE DisjointInv'
  OBVIOUS
<1>1. TypeInv'
  BY TypeKept DEF DisjointInv
<1>2. CASE Next
  BY <1>1, <1>2, ReopenKeeps, LookupKeeps, UseKeeps, DropKeeps DEF Next, DisjointInv
<1>3. CASE UNCHANGED vars
  BY <1>1, <1>3 DEF vars, DisjointInv, ClaimsInv, ClaimsUnique, ClaimsIssued,
     ContentLearned, Claims, CallClaims, CacheClaims, RecordsClaim, Content
<1> QED
  BY <1>2, <1>3

LEMMA DisjointMeans == DisjointInv => CollectionsAreDisjoint
<1> SUFFICES ASSUME DisjointInv, NEW n \in Name, registry[n] # None,
                    NEW v \in Content(records[registry[n]])
             PROVE  learned[v] = [name |-> n, id |-> registry[n]]
  BY DEF CollectionsAreDisjoint
<1> DEFINE i == registry[n]
<1>1. i \in Id
  BY DEF DisjointInv, TypeInv, TypeOK
<1>2. learned[v].id = i /\ learned[v].name \in Name
  BY <1>1 DEF DisjointInv, ClaimsInv, ContentLearned
<1>3. Claims(n, i) /\ Claims(learned[v].name, i)
  BY DEF Claims, RecordsClaim
<1>4. learned[v].name = n
  BY <1>1, <1>2, <1>3 DEF DisjointInv, ClaimsInv, ClaimsUnique
<1>5. v \in Vector
  BY <1>1 DEF DisjointInv, TypeInv, TypeOK, Locations, Content
<1> QED
  BY <1>2, <1>4, <1>5 DEF DisjointInv, TypeInv, TypeOK

(* What is stored under a name was acknowledged to a request for that      *)
(* name, however lookups, drops, writes through kept Arcs and restarts     *)
(* interleave: the ids drop_collection frees are never given to another    *)
(* collection.                                                             *)
THEOREM DisjointCorrect == Spec => []CollectionsAreDisjoint
<1>1. Init => DisjointInv
  BY InitTyped, InitClaims DEF DisjointInv
<1>2. DisjointInv /\ [Next]_vars => DisjointInv'
  BY DisjointKept
<1>3. DisjointInv => CollectionsAreDisjoint
  BY DisjointMeans
<1> QED
  BY <1>1, <1>2, <1>3, PTL DEF Spec

-----------------------------------------------------------------------------
(* The names no drop raced for.                                            *)

(* Only a client that uses a collection has an object; the one that loads  *)
(* a collection it registered keeps the lock, and the cache has none.      *)
Loading ==
    \A c \in Client :
        /\ call[c].pc # "holding" => call[c].object = None
        /\ call[c].pc = "registered" => lock = c /\ collections[call[c].name] = None

(* An id a call has read is still the registered one.                      *)
IdsCurrent(n) ==
    \A c \in Client : call[c].name = n =>
        /\ call[c].pc \in {"found", "registered", "drop"} => registry[n] = call[c].id
        /\ call[c].pc = "dropped" => registry[n] = None

(* What is cached is registered, except while a drop is between its        *)
(* transaction and the cache.                                              *)
Dropping(n) == \E c \in Client : call[c].pc = "dropped" /\ call[c].name = n

CacheCurrent(n) ==
    (collections[n] # None /\ ~Dropping(n)) => objects[collections[n]].id = registry[n]

(* An object of the registered collection is the cached one, and as stored.*)
ObjectsCached(n) ==
    \A o \in Live \ {None} :
        (registry[n] # None /\ objects[o].id = registry[n])
        => o = collections[n] /\ objects[o].data = records[registry[n]]

(* The stored location counter is above the stored locations.              *)
InOrder(n) ==
    registry[n] # None =>
        \A l \in LocId : l >= records[registry[n]].next_id =>
            records[registry[n]].locs[l] = None

WritesStored(n) ==
    registry[n] # None =>
        \A v \in Vector : learned[v].id = registry[n] => v \in Content(records[registry[n]])

Whole(n) ==
    IdsCurrent(n) /\ CacheCurrent(n) /\ ObjectsCached(n) /\ InOrder(n) /\ WritesStored(n)

(* Nothing is stored under an id that was not given yet.                   *)
IdsAreUnused ==
    /\ \A i \in Id : i >= next_collection_id => records[i] = NoLocations
    /\ \A v \in Vector : learned[v].id < next_collection_id

UndisturbedInv == \A n \in Undisturbed : ~Racing(n) /\ Whole(n)

HiveInv == DisjointInv /\ Loading /\ IdsAreUnused /\ UndisturbedInv

LEMMA NoneApart == None \notin Id /\ None \notin Object /\ None \notin Client
BY HiveAssumption DEF None, Id, Object

(* A step of one call that changes nothing else.                           *)
LEMMA CallOnly ==
    ASSUME HiveInv, NEW c \in Client, NEW k \in Calls, call' = [call EXCEPT ![c] = k],
           UNCHANGED <<stored, collections, objects, learned>>,
           call[c].pc # "dropped", k.pc # "dropped", k.object \in Live \cup {None},
           NEW n \in Undisturbed,
           (k.name = n /\ k.pc \in {"found", "registered", "drop"}) => registry[n] = k.id
    PROVE  Whole(n)'
<1> USE DEF HiveInv
<1>1. Whole(n) /\ UNCHANGED <<registry, records>>
  BY DEF UndisturbedInv, stored
<1>2. call'[c] = k /\ \A d \in Client : d # c => call'[d] = call[d]
  BY DEF DisjointInv, TypeInv, TypeOK
<1>3. IdsCurrent(n)'
  BY <1>1, <1>2 DEF Whole, IdsCurrent
<1>4. Dropping(n)' = Dropping(n)
  BY <1>2 DEF Dropping
<1>5. CacheCurrent(n)'
  BY <1>1, <1>4 DEF Whole, CacheCurrent
<1>6. Live' \subseteq Live \cup {None}
  BY <1>2 DEF Live
<1>7. ObjectsCached(n)'
  BY <1>1, <1>6 DEF Whole, ObjectsCached
<1>8. InOrder(n)' /\ WritesStored(n)'
  BY <1>1 DEF Whole, InOrder, WritesStored, Content
<1> QED
  BY <1>3, <1>5, <1>7, <1>8 DEF Whole

LEMMA CallHas ==
    ASSUME HiveInv, NEW c \in Client
    PROVE  /\ call[c] \in Calls /\ Formed(call[c])
           /\ call[c].pc # "idle" => call[c].name \in Name
           /\ call[c].object \in Live
           /\ call[c].pc # "holding" => call[c].object = None
BY DEF HiveInv, Loading, DisjointInv, TypeInv, TypeOK, CallsAreFormed, Formed, Live

LEMMA GoneTo ==
    ASSUME NEW c \in Client, NEW pc \in {"get", "found", "create", "registered", "drop", "dropped"},
           NEW n \in Name, NEW i \in Id \cup {None}, Goes(c, pc, n, i)
    PROVE  \E k \in Calls : /\ call' = [call EXCEPT ![c] = k]
                            /\ k.pc = pc /\ k.name = n /\ k.id = i /\ k.object = None
<1> DEFINE k == [pc |-> pc, name |-> n, id |-> i, object |-> None]
<1>1. k \in Calls
  BY DEF Calls
<1>2. call' = [call EXCEPT ![c] = k]
  BY DEF Goes
<1>3. k.pc = pc /\ k.name = n /\ k.id = i /\ k.object = None
  OBVIOUS
<1> HIDE DEF k
<1> QED
  BY <1>1, <1>2, <1>3

LEMMA HeldTo ==
    ASSUME NEW c \in Client, NEW n \in Name, NEW o \in Object, Hold(c, n, o)
    PROVE  \E k \in Calls : /\ call' = [call EXCEPT ![c] = k]
                            /\ k.pc = "holding" /\ k.name = n /\ k.object = o
<1> DEFINE k == [pc |-> "holding", name |-> n, id |-> None, object |-> o]
<1>1. k \in Calls
  BY DEF Calls
<1>2. call' = [call EXCEPT ![c] = k]
  BY DEF Hold
<1>3. k.pc = "holding" /\ k.name = n /\ k.object = o
  OBVIOUS
<1> HIDE DEF k
<1> QED
  BY <1>1, <1>2, <1>3

LEMMA IdleCall == Idle \in Calls /\ Idle.pc = "idle" /\ Idle.object = None
BY DEF Idle, Calls

(* What lookups and drops do that change the call alone.                   *)
CallStep(c) ==
    \/ \E n \in Name : LookupCached(c, n) \/ LookupMissed(c, n) \/ DropReadId(c, n)
    \/ ReadId(c) \/ CreateCached(c) \/ OpenFails(c) \/ Release(c)
    \/ LoadFound(c) /\ collections[call[c].name] # None
    \/ Register(c) /\ registry[call[c].name] # None
    \/ DropDelete(c) /\ Ends(c) /\ UNCHANGED stored

LEMMA CallStepDoes ==
    ASSUME HiveInv, NEW c \in Client, CallStep(c)
    PROVE  /\ UNCHANGED <<stored, collections, objects, written, learned>>
           /\ call[c].pc # "dropped"
           /\ \E k \in Calls :
                /\ call' = [call EXCEPT ![c] = k]
                /\ k.pc # "dropped" /\ k.object \in Live \cup {None}
                /\ k.pc # "holding" => k.object = None
                /\ k.pc \in {"found", "registered", "drop"} =>
                     registry[k.name] = k.id
                /\ k.pc = "registered" => Register(c) /\ k.name = call[c].name
<1>1. UNCHANGED <<stored, collections, objects, written, learned>> /\ call[c].pc # "dropped"
  BY DEF CallStep, LookupCached, LookupMissed, DropReadId, ReadId, CreateCached, OpenFails,
     Release, LoadFound, Register, DropDelete, stored
<1>2. call[c].pc # "idle" => call[c].name \in Name
  BY CallHas
<1>3. /\ \A n \in Name : collections[n] \in Live
      /\ \A n \in Name : collections[n] # None => collections[n] \in Object
      /\ \A n \in Name : registry[n] \in Id \cup {None}
  BY DEF Live, HiveInv, DisjointInv, TypeInv, TypeOK
<1>4. CASE \E n \in Name : LookupCached(c, n)
  BY <1>1, <1>3, <1>4, HeldTo DEF LookupCached
<1>5. CASE \E n \in Name : LookupMissed(c, n)
  BY <1>1, <1>5, GoneTo DEF LookupMissed
<1>6. CASE \E n \in Name : DropReadId(c, n)
  BY <1>1, <1>3, <1>6, GoneTo DEF DropReadId
<1>7. CASE ReadId(c)
  <2>1. CASE Ends(c)
    BY <1>1, <2>1, IdleCall DEF Ends
  <2>2. CASE Goes(c, "found", call[c].name, registry[call[c].name])
    BY <1>1, <1>2, <1>3, <1>7, <2>2, GoneTo DEF ReadId
  <2> QED
    BY <1>7, <2>1, <2>2 DEF ReadId
<1>8. CASE CreateCached(c) \/ (LoadFound(c) /\ collections[call[c].name] # None)
  <2>1. Hold(c, call[c].name, collections[call[c].name]) /\ collections[call[c].name] # None
        /\ call[c].name \in Name
    BY <1>2, <1>8 DEF CreateCached, LoadFound
  <2> QED
    BY <1>1, <1>3, <2>1, HeldTo
<1>9. CASE OpenFails(c) \/ Release(c) \/ (DropDelete(c) /\ Ends(c) /\ UNCHANGED stored)
  BY <1>1, <1>9, IdleCall DEF OpenFails, Release, Ends
<1>10. CASE Register(c) /\ registry[call[c].name] # None
  BY <1>1, <1>2, <1>3, <1>10, GoneTo DEF Register
<1> QED
  BY <1>4, <1>5, <1>6, <1>7, <1>8, <1>9, <1>10 DEF CallStep

(* Two names do not claim one id.                                          *)
LEMMA OthersId ==
    ASSUME HiveInv, NEW n \in Name, NEW m \in Name, NEW i \in Id, Claims(m, i), registry[n] = i
    PROVE  n = m
BY DEF HiveInv, DisjointInv, ClaimsInv, ClaimsUnique, Claims

(* A new object, of an id that was read under its name.                    *)
Opens(c) ==
    \/ LoadFound(c) /\ collections[call[c].name] = None
    \/ OpenRegistered(c)

LEMMA OpensWhole ==
    ASSUME HiveInv, NEW c \in Client, Opens(c), NEW n \in Undisturbed
    PROVE  Whole(n)'
<1> USE DEF HiveInv
<1> DEFINE m == call[c].name
           i == call[c].id
<1>1. /\ Open(c, m, i) /\ collections[m] = None
      /\ call[c].pc \in {"found", "registered"} /\ m \in Name /\ i \in Id
      /\ UNCHANGED <<stored, learned>>
  BY CallHas DEF Opens, LoadFound, OpenRegistered, Loading, Formed
<1>2. Whole(n) /\ UNCHANGED <<registry, records>> /\ n \in Name
  BY <1>1 DEF UndisturbedInv, stored, Undisturbed
<1>3. PICK o \in Object \ Live :
        /\ objects' = [objects EXCEPT ![o] = [id |-> i, data |-> opened(i)]]
        /\ collections' = [collections EXCEPT ![m] = o]
        /\ Hold(c, m, o)
  BY <1>1 DEF Open
<1>4. PICK k \in Calls : /\ call' = [call EXCEPT ![c] = k]
                         /\ k.pc = "holding" /\ k.name = m /\ k.object = o
  BY <1>1, <1>3, HeldTo
<1>5. call'[c] = k /\ \A d \in Client : d # c => call'[d] = call[d]
  BY <1>4 DEF DisjointInv, TypeInv, TypeOK
<1>6. /\ objects'[o].id = i /\ objects'[o].data = records[i]
      /\ \A p \in Object : p # o => objects'[p] = objects[p]
      /\ collections'[m] = o /\ \A p \in Name : p # m => collections'[p] = collections[p]
  BY <1>1, <1>3 DEF opened, DisjointInv, TypeInv, TypeOK
<1>7. IF n = m THEN registry[n] = i ELSE registry[n] # i
  <2>1. n = m => registry[n] = i
    BY <1>1, <1>2 DEF Whole, IdsCurrent
  <2>2. Claims(m, i)
    BY DEF Claims, CallClaims
  <2> QED
    BY <1>1, <1>2, <2>1, <2>2, OthersId
<1> HIDE DEF m, i
<1>8. IdsCurrent(n)'
  BY <1>2, <1>4, <1>5 DEF Whole, IdsCurrent
<1>9. Dropping(n)' => Dropping(n)
  BY <1>4, <1>5 DEF Dropping
<1>10. Dropping(n) => Dropping(n)'
  BY <1>1, <1>5 DEF Dropping
<1>11. collections[n] \in Live /\ (collections[n] # None => collections[n] \in Object)
  BY <1>2 DEF Live, DisjointInv, TypeInv, TypeOK
<1>12. CacheCurrent(n)'
  BY <1>2, <1>3, <1>6, <1>7, <1>10, <1>11 DEF Whole, CacheCurrent
<1>13. Live' \subseteq Live \cup {o}
  BY <1>4, <1>5, <1>6 DEF Live
<1>14. Live \ {None} \subseteq Object
  BY DEF Live, DisjointInv, TypeInv, TypeOK, Calls
<1>15. ObjectsCached(n)'
  <2> SUFFICES ASSUME NEW p \in Live' \ {None}, registry[n] # None, objects'[p].id = registry[n]
               PROVE  p = collections'[n] /\ objects'[p].data = records[registry[n]]
    BY <1>2 DEF ObjectsCached
  <2>1. CASE p = o
    BY <1>6, <1>7, <2>1
  <2>2. CASE p # o
    <3>1. p \in Live \ {None} /\ objects'[p] = objects[p]
      BY <1>6, <1>13, <1>14, <2>2
    <3>2. p = collections[n] /\ objects[p].data = records[registry[n]]
      BY <1>2, <3>1 DEF Whole, ObjectsCached
    <3> QED
      BY <1>1, <1>2, <1>6, <3>1, <3>2
  <2> QED
    BY <2>1, <2>2
<1>16. InOrder(n)' /\ WritesStored(n)'
  BY <1>1, <1>2 DEF Whole, InOrder, WritesStored, Content
<1> QED
  BY <1>8, <1>12, <1>15, <1>16 DEF Whole

(* A new id: nothing has it.                                               *)
LEMMA RegistersWhole ==
    ASSUME HiveInv, NEW c \in Client, Register(c), registry[call[c].name] = None,
           NEW n \in Undisturbed, ~Racing(n)'
    PROVE  Whole(n)'
<1> USE DEF HiveInv
<1> DEFINE m == call[c].name
           i == next_collection_id
<1>1. /\ call[c].pc = "create" /\ m \in Name /\ i \in Id /\ collections[m] = None
      /\ Goes(c, "registered", m, i) /\ registry' = [registry EXCEPT ![m] = i]
      /\ UNCHANGED <<records, collections, objects, learned>>
  BY CallHas DEF Register, load_next_collection_id
<1>2. PICK k \in Calls : /\ call' = [call EXCEPT ![c] = k] /\ k.pc = "registered"
                         /\ k.name = m /\ k.id = i /\ k.object = None
  BY <1>1, GoneTo
<1>3. call'[c] = k /\ \A d \in Client : d # c => call'[d] = call[d]
  BY <1>2 DEF DisjointInv, TypeInv, TypeOK
<1>4. registry'[m] = i /\ \A p \in Name : p # m => registry'[p] = registry[p]
  BY <1>1 DEF DisjointInv, TypeInv, TypeOK
<1>5. Whole(n) /\ n \in Name
  BY DEF UndisturbedInv, Undisturbed
<1>6. /\ records[i] = NoLocations
      /\ \A v \in Vector : learned[v].id # i
  <2>1. i \in Nat /\ \A v \in Vector : learned[v].id < i
    BY <1>1 DEF IdsAreUnused, Id
  <2>2. \A j \in Id : j >= i => records[j] = NoLocations
    BY DEF IdsAreUnused
  <2>3. \A v \in Vector : learned[v].id # i
    <3> SUFFICES ASSUME NEW v \in Vector, learned[v].id = i PROVE FALSE
      OBVIOUS
    <3> QED
      BY <2>1
  <2>4. i >= i
    BY <2>1
  <2> QED
    BY <1>1, <2>2, <2>3, <2>4
<1>7. \A o \in Live \ {None} : objects[o].id # i
  <2> SUFFICES ASSUME NEW o \in Live \ {None}, objects[o].id = i PROVE FALSE
    OBVIOUS
  <2>1. \E p \in Name : Claims(p, i)
    <3>1. CASE \E p \in Name : o = collections[p]
      BY <3>1 DEF Claims, CacheClaims
    <3>2. CASE \E d \in Client : o = call[d].object
      <4>1. PICK d \in Client : o = call[d].object
        BY <3>2
      <4>2. call[d].pc = "holding" /\ call[d].name \in Name
        BY <4>1, CallHas
      <4> QED
        BY <4>1, <4>2 DEF Claims, CallClaims
    <3> QED
      BY <3>1, <3>2 DEF Live
  <2>2. i < i
    BY <1>1, <2>1 DEF DisjointInv, ClaimsInv, ClaimsIssued
  <2> QED
    BY <1>1, <2>2 DEF Id
<1> HIDE DEF m, i
<1>8. Live' \subseteq Live \cup {None}
  BY <1>1, <1>2, <1>3 DEF Live
<1>9. CASE n = m
  <2>1. \A d \in Client : d # c /\ call[d].name = n =>
          call[d].pc \notin {"found", "registered", "drop", "dropped"}
    <3> SUFFICES ASSUME NEW d \in Client, d # c, call[d].name = n,
                        call[d].pc \in {"found", "registered", "drop", "dropped"}
                 PROVE  FALSE
      OBVIOUS
    <3>1. call[d].pc \in {"drop", "dropped"} => Racing(n)
      BY <1>1, <1>9 DEF Racing, m
    <3>2. call[d].pc \in {"found", "registered", "drop"} => call[d].id = None
      BY <1>5, <1>9 DEF Whole, IdsCurrent, m
    <3>3. call[d].pc \in {"found", "registered"} => call[d].id \in Id
      BY CallHas DEF Formed
    <3> QED
      BY <3>1, <3>2, <3>3, NoneApart DEF UndisturbedInv
  <2>2. IdsCurrent(n)'
    BY <1>2, <1>3, <1>4, <1>9, <2>1 DEF IdsCurrent
  <2>3. CacheCurrent(n)'
    BY <1>1, <1>9 DEF CacheCurrent
  <2>4. ObjectsCached(n)'
    BY <1>1, <1>4, <1>7, <1>8, <1>9 DEF ObjectsCached
  <2>5. InOrder(n)' /\ WritesStored(n)'
    BY <1>1, <1>4, <1>6, <1>9 DEF InOrder, WritesStored, NoLocations
  <2> QED
    BY <2>2, <2>3, <2>4, <2>5 DEF Whole
<1>10. CASE n # m
  <2>1. registry'[n] = registry[n]
    BY <1>4, <1>5, <1>10
  <2>2. IdsCurrent(n)'
    BY <1>2, <1>3, <1>5, <1>10, <2>1 DEF Whole, IdsCurrent
  <2>3. Dropping(n)' = Dropping(n)
    BY <1>1, <1>2, <1>3 DEF Dropping
  <2>4. CacheCurrent(n)'
    BY <1>1, <1>5, <2>1, <2>3 DEF Whole, CacheCurrent
  <2>5. ObjectsCached(n)'
    BY <1>1, <1>5, <1>8, <2>1 DEF Whole, ObjectsCached
  <2>6. InOrder(n)' /\ WritesStored(n)'
    BY <1>1, <1>5, <2>1 DEF Whole, InOrder, WritesStored, Content
  <2> QED
    BY <2>2, <2>4, <2>5, <2>6 DEF Whole
<1> QED
  BY <1>9, <1>10

(* The transaction of a drop: no call on the same name is on its way.      *)
LEMMA DeletesWhole ==
    ASSUME HiveInv, NEW c \in Client, DropDelete(c), call'[c].pc = "dropped",
           NEW n \in Undisturbed
    PROVE  Whole(n)'
<1> USE DEF HiveInv
<1> DEFINE m == call[c].name
           i == call[c].id
<1>0. ~Ends(c)
  BY IdleCall DEF Ends, DisjointInv, TypeInv, TypeOK
<1>1. /\ call[c].pc = "drop" /\ m \in Name /\ i \in Id
      /\ delete_collection(m, i) /\ Goes(c, "dropped", m, None)
      /\ UNCHANGED <<collections, objects, learned>>
  BY <1>0, CallHas DEF DropDelete, Formed
<1>2. PICK k \in Calls : /\ call' = [call EXCEPT ![c] = k] /\ k.pc = "dropped"
                         /\ k.name = m /\ k.object = None
  BY <1>1, GoneTo
<1>3. call'[c] = k /\ \A d \in Client : d # c => call'[d] = call[d]
  BY <1>2 DEF DisjointInv, TypeInv, TypeOK
<1>4. /\ registry'[m] = None /\ \A p \in Name : p # m => registry'[p] = registry[p]
      /\ \A j \in Id : j # i => records'[j] = records[j]
  BY <1>1 DEF delete_collection, DisjointInv, TypeInv, TypeOK
<1>5. Whole(n) /\ ~Racing(n) /\ n \in Name /\ registry[n] \in Id \cup {None}
  BY DEF UndisturbedInv, Undisturbed, DisjointInv, TypeInv, TypeOK
<1>6. n # m => registry[n] # i
  <2>1. Claims(m, i)
    BY DEF Claims, CallClaims
  <2> QED
    BY <1>1, <1>5, <2>1, OthersId
<1>7. Live' \subseteq Live \cup {None}
  BY <1>1, <1>2, <1>3 DEF Live
<1>8. CASE n = m
  <2>1. \A d \in Client : d # c /\ call[d].name = n => call[d].pc \in {"idle", "holding"}
    BY <1>1, <1>5, <1>8 DEF Racing
  <2>2. IdsCurrent(n)'
    BY <1>2, <1>3, <1>4, <1>8, <2>1 DEF IdsCurrent
  <2>3. Dropping(n)'
    BY <1>2, <1>3, <1>8 DEF Dropping
  <2> QED
    BY <1>4, <1>8, <2>2, <2>3
    DEF Whole, CacheCurrent, ObjectsCached, InOrder, WritesStored
<1>9. CASE n # m
  <2>1. registry'[n] = registry[n] /\ (registry[n] # None => records'[registry[n]] = records[registry[n]])
    BY <1>4, <1>5, <1>6, <1>9
  <2> HIDE DEF m, i
  <2>2. IdsCurrent(n)'
    BY <1>2, <1>3, <1>5, <1>9, <2>1 DEF Whole, IdsCurrent
  <2>3. Dropping(n)' = Dropping(n)
    BY <1>1, <1>2, <1>3, <1>9 DEF Dropping, m
  <2>4. CacheCurrent(n)'
    BY <1>1, <1>5, <2>1, <2>3 DEF Whole, CacheCurrent
  <2>5. ObjectsCached(n)'
    BY <1>1, <1>5, <1>7, <2>1 DEF Whole, ObjectsCached
  <2>6. InOrder(n)' /\ WritesStored(n)'
    BY <1>1, <1>5, <2>1 DEF Whole, InOrder, WritesStored, Content
  <2> QED
    BY <2>2, <2>4, <2>5, <2>6 DEF Whole
<1> QED
  BY <1>8, <1>9

LEMMA UncachesWhole ==
    ASSUME HiveInv, NEW c \in Client, DropUncache(c), NEW n \in Undisturbed
    PROVE  Whole(n)'
<1> USE DEF HiveInv
<1> DEFINE m == call[c].name
<1>1. /\ call[c].pc = "dropped" /\ m \in Name
      /\ collections' = [collections EXCEPT ![m] = None]
      /\ call' = [call EXCEPT ![c] = Idle]
      /\ UNCHANGED <<registry, records, objects, learned>>
  BY CallHas DEF DropUncache, Uncache, Ends, stored
<1>2. call'[c] = Idle /\ \A d \in Client : d # c => call'[d] = call[d]
  BY <1>1 DEF DisjointInv, TypeInv, TypeOK
<1>3. collections'[m] = None /\ \A p \in Name : p # m => collections'[p] = collections[p]
  BY <1>1 DEF DisjointInv, TypeInv, TypeOK
<1>4. Whole(n) /\ n \in Name
  BY DEF UndisturbedInv, Undisturbed
<1>5. IdsCurrent(n)'
  BY <1>1, <1>2, <1>4, IdleCall DEF Whole, IdsCurrent
<1>6. InOrder(n)' /\ WritesStored(n)'
  BY <1>1, <1>4 DEF Whole, InOrder, WritesStored, Content
<1>7. CASE n = m
  <2>1. registry[n] = None
    BY <1>1, <1>4, <1>7 DEF Whole, IdsCurrent
  <2> QED
    BY <1>1, <1>3, <1>5, <1>6, <1>7, <2>1 DEF Whole, CacheCurrent, ObjectsCached
<1>8. CASE n # m
  <2>1. collections'[n] = collections[n]
    BY <1>3, <1>4, <1>8
  <2>2. Dropping(n)' = Dropping(n)
    BY <1>1, <1>2, <1>8, IdleCall DEF Dropping
  <2>3. Live' \subseteq Live \cup {None}
    BY <1>2, <1>3, IdleCall DEF Live
  <2>4. CacheCurrent(n)'
    BY <1>1, <1>4, <2>1, <2>2 DEF Whole, CacheCurrent
  <2>5. ObjectsCached(n)'
    BY <1>1, <1>4, <2>1, <2>3 DEF Whole, ObjectsCached
  <2> QED
    BY <1>5, <1>6, <2>4, <2>5 DEF Whole
<1> QED
  BY <1>7, <1>8

LEMMA ReopensWhole ==
    ASSUME HiveInv, Reopen, NEW n \in Undisturbed
    PROVE  Whole(n)'
<1>1. Whole(n) /\ n \in Name
  BY DEF HiveInv, UndisturbedInv, Undisturbed
<1>2. /\ \A c \in Client : call'[c] = Idle
      /\ \A m \in Name : collections'[m] = None
      /\ UNCHANGED <<registry, records, learned>>
  BY DEF Reopen, stored
<1>3. Live' \subseteq {None}
  BY <1>2, IdleCall DEF Live
<1>4. IdsCurrent(n)' /\ CacheCurrent(n)' /\ ObjectsCached(n)'
  BY <1>1, <1>2, <1>3, IdleCall DEF IdsCurrent, CacheCurrent, ObjectsCached
<1>5. InOrder(n)' /\ WritesStored(n)'
  BY <1>1, <1>2 DEF Whole, InOrder, WritesStored, Content
<1> QED
  BY <1>4, <1>5 DEF Whole

(* A write goes to the object and to the records it is the image of.       *)
LEMMA WritesWhole ==
    ASSUME HiveInv, NEW c \in Client, Write(c), NEW n \in Undisturbed
    PROVE  Whole(n)'
<1> USE DEF HiveInv
<1> DEFINE o == call[c].object
           i == objects[o].id
           l == objects[o].data.next_id
           v == written + 1
<1>1. /\ call[c].pc = "holding" /\ o \in Object /\ o \in Live /\ l \in LocId /\ v \in Vector
      /\ objects' = [objects EXCEPT ![o].data = Appended(@, l, v)]
      /\ records' = [records EXCEPT ![i] = Appended(@, l, v)]
      /\ learned' = [learned EXCEPT ![v] = [name |-> call[c].name, id |-> i]]
      /\ call' = [call EXCEPT ![c] = Idle]
      /\ UNCHANGED <<registry, collections>>
  <2>1. v \in Vector
    BY HiveAssumption DEF Write, Vector, DisjointInv, TypeInv, TypeOK
  <2> QED
    BY <2>1, CallHas DEF Write, Ends, Formed
<1>2. call'[c] = Idle /\ \A d \in Client : d # c => call'[d] = call[d]
  BY <1>1 DEF DisjointInv, TypeInv, TypeOK
<1>3. /\ objects'[o].id = i /\ objects'[o].data = Appended(objects[o].data, l, v)
      /\ \A p \in Object : p # o => objects'[p] = objects[p]
  BY <1>1 DEF DisjointInv, TypeInv, TypeOK
<1>4. /\ i \in Id => records'[i] = Appended(records[i], l, v)
      /\ \A j \in Id : j # i => records'[j] = records[j]
      /\ learned'[v].id = i /\ \A u \in Vector : u # v => learned'[u] = learned[u]
  BY <1>1 DEF DisjointInv, TypeInv, TypeOK
<1>5. Whole(n) /\ n \in Name /\ registry[n] \in Id \cup {None}
  BY DEF UndisturbedInv, Undisturbed, DisjointInv, TypeInv, TypeOK
<1>6. /\ \A p \in Live \ {None} : p \in Object
      /\ collections[n] # None => collections[n] \in Object
  BY <1>5 DEF Live, DisjointInv, TypeInv, TypeOK, Calls
<1>7. o # None /\ v # None
  BY <1>1, NoneApart DEF Vector, None
<1>8. \A j \in Id : records[j].locs \in [LocId -> Vector \cup {None}]
  BY DEF DisjointInv, TypeInv, TypeOK, Locations
<1> HIDE DEF o, i, l, v
<1>9. registry[n] # None /\ registry[n] = i => /\ o = collections[n] /\ i \in Id
                                              /\ objects[o].data = records[i]
                                              /\ records[i].next_id = l
  BY <1>1, <1>5, <1>7 DEF Whole, ObjectsCached, i, l
<1>10. IdsCurrent(n)'
  BY <1>1, <1>2, <1>5, IdleCall DEF Whole, IdsCurrent
<1>11. Dropping(n)' = Dropping(n)
  BY <1>1, <1>2, IdleCall DEF Dropping
<1>12. \A p \in Object : objects'[p].id = objects[p].id
  BY <1>3 DEF i
<1>13. CacheCurrent(n)'
  BY <1>1, <1>5, <1>6, <1>11, <1>12 DEF Whole, CacheCurrent
<1>14. Live' \subseteq Live \cup {None}
  BY <1>1, <1>2, IdleCall DEF Live
<1>15. ObjectsCached(n)'
  <2> SUFFICES ASSUME NEW p \in Live \ {None}, registry[n] # None, objects[p].id = registry[n]
               PROVE  p = collections[n] /\ objects'[p].data = records'[registry[n]]
    BY <1>1, <1>6, <1>12, <1>14 DEF ObjectsCached
  <2>1. p = collections[n] /\ objects[p].data = records[registry[n]] /\ p \in Object
    BY <1>5, <1>6 DEF Whole, ObjectsCached
  <2>2. CASE p = o
    BY <1>3, <1>4, <1>9, <2>1, <2>2 DEF i
  <2>3. CASE p # o
    BY <1>3, <1>4, <1>5, <1>9, <2>1, <2>3
  <2> QED
    BY <2>2, <2>3
<1>16. CASE registry[n] # None /\ registry[n] = i
  <2>1. /\ records'[i].next_id = l + 1 /\ records'[i].locs = [records[i].locs EXCEPT ![l] = v]
        /\ records[i].locs \in [LocId -> Vector \cup {None}]
    BY <1>4, <1>8, <1>9, <1>16 DEF Appended
  <2>2. /\ records'[i].locs[l] = v
        /\ \A k \in LocId : k # l => records'[i].locs[k] = records[i].locs[k]
    BY <1>1, <2>1
  <2>3. \A k \in LocId : k >= l => records[i].locs[k] = None
    BY <1>5, <1>9, <1>16 DEF Whole, InOrder
  <2>4. InOrder(n)'
    <3> SUFFICES ASSUME NEW k \in LocId, k >= l + 1
                 PROVE  records'[i].locs[k] = None
      BY <1>1, <1>16, <2>1 DEF InOrder
    <3>1. k >= l /\ k # l
      BY <1>1 DEF LocId
    <3> QED
      BY <2>2, <2>3, <3>1
  <2>5. WritesStored(n)'
    <3> SUFFICES ASSUME NEW u \in Vector, learned'[u].id = i
                 PROVE  u \in Content(records'[i])
      BY <1>1, <1>16 DEF WritesStored
    <3>1. CASE u = v
      BY <1>1, <1>7, <2>2, <3>1 DEF Content
    <3>2. CASE u # v
      <4>1. u \in Content(records[i])
        BY <1>4, <1>5, <1>16, <3>2 DEF Whole, WritesStored
      <4>2. PICK k \in LocId : records[i].locs[k] = u /\ u # None
        BY <4>1 DEF Content
      <4>3. k # l
        BY <1>1, <2>3, <4>2 DEF LocId
      <4> QED
        BY <2>2, <4>2, <4>3 DEF Content
    <3> QED
      BY <3>1, <3>2
  <2> QED
    BY <1>10, <1>13, <1>15, <2>4, <2>5 DEF Whole
<1>17. CASE registry[n] = None
  BY <1>1, <1>10, <1>13, <1>15, <1>17 DEF Whole, InOrder, WritesStored
<1>18. CASE registry[n] # None /\ registry[n] # i
  <2>1. records'[registry[n]] = records[registry[n]]
    BY <1>4, <1>5, <1>18
  <2>2. InOrder(n)'
    BY <1>1, <1>5, <2>1 DEF Whole, InOrder
  <2>3. WritesStored(n)'
    BY <1>1, <1>4, <1>5, <1>18, <2>1 DEF Whole, WritesStored, Content
  <2> QED
    BY <1>10, <1>13, <1>15, <2>2, <2>3 DEF Whole
<1> QED
  BY <1>16, <1>17, <1>18

(* The steps, by what they change of an undisturbed name.                  *)
LEMMA StepKinds ==
    ASSUME HiveInv, NEW c \in Client, Lookup(c) \/ Use(c) \/ Drop(c)
    PROVE  \/ CallStep(c) \/ Opens(c)
           \/ Register(c) /\ registry[call[c].name] = None
           \/ DropDelete(c) /\ call'[c].pc = "dropped"
           \/ DropUncache(c) \/ Write(c)
<1>1. CASE Lookup(c)
  BY <1>1 DEF Lookup, CallStep, Opens
<1>2. CASE Use(c)
  BY <1>2 DEF Use, CallStep
<1>3. CASE Drop(c)
  <2>1. CASE DropDelete(c)
    <3>1. CASE Goes(c, "dropped", call[c].name, None)
      <4>1. call' = [call EXCEPT ![c] = [pc |-> "dropped", name |-> call[c].name,
                                         id |-> None, object |-> None]]
        BY <3>1 DEF Goes
      <4> QED
        BY <2>1, <4>1 DEF HiveInv, DisjointInv, TypeInv, TypeOK
    <3> QED
      BY <2>1, <3>1 DEF DropDelete, CallStep
  <2> QED
    BY <1>3, <2>1 DEF Drop, CallStep
<1> QED
  BY <1>1, <1>2, <1>3

LEMMA UndisturbedShrinks ==
    ASSUME HiveInv, Next
    PROVE  \A n \in Undisturbed' : n \in Undisturbed /\ ~Racing(n)'
BY DEF Next, Undisturbed

LEMMA StepWhole ==
    ASSUME HiveInv, NEW c \in Client, Lookup(c) \/ Use(c) \/ Drop(c),
           NEW n \in Undisturbed, ~Racing(n)'
    PROVE  Whole(n)'
<1>1. CASE CallStep(c)
  <2>1. /\ UNCHANGED <<stored, collections, objects, learned>> /\ call[c].pc # "dropped"
        /\ \E k \in Calls :
             /\ call' = [call EXCEPT ![c] = k]
             /\ k.pc # "dropped" /\ k.object \in Live \cup {None}
             /\ k.pc \in {"found", "registered", "drop"} => registry[k.name] = k.id
    BY <1>1, CallStepDoes
  <2> QED
    BY <2>1, CallOnly
<1>2. CASE Opens(c)
  BY <1>2, OpensWhole
<1>3. CASE Register(c) /\ registry[call[c].name] = None
  BY <1>3, RegistersWhole
<1>4. CASE DropDelete(c) /\ call'[c].pc = "dropped"
  BY <1>4, DeletesWhole
<1>5. CASE DropUncache(c)
  BY <1>5, UncachesWhole
<1>6. CASE Write(c)
  BY <1>6, WritesWhole
<1> QED
  BY <1>1, <1>2, <1>3, <1>4, <1>5, <1>6, StepKinds

LEMMA UndisturbedKept ==
    ASSUME HiveInv, Next
    PROVE  UndisturbedInv'
<1> SUFFICES ASSUME NEW n \in Undisturbed' PROVE ~Racing(n)' /\ Whole(n)'
  BY DEF UndisturbedInv
<1>1. n \in Undisturbed /\ ~Racing(n)'
  BY UndisturbedShrinks
<1> QED
  BY <1>1, StepWhole, ReopensWhole DEF Next

(* A call under way keeps what it has of the lock and of the cache.        *)
LEMMA LoadingStep ==
    ASSUME HiveInv, NEW c \in Client, NEW k \in Calls, call' = [call EXCEPT ![c] = k],
           k.pc # "holding" => k.object = None,
           k.pc = "registered" => lock' = c /\ collections'[k.name] = None,
           \A d \in Client : d # c /\ call[d].pc = "registered" =>
               lock' = lock /\ UNCHANGED collections
    PROVE  Loading'
<1>1. call'[c] = k /\ \A d \in Client : d # c => call'[d] = call[d]
  BY DEF HiveInv, DisjointInv, TypeInv, TypeOK
<1> QED
  BY <1>1 DEF HiveInv, Loading

LEMMA LoadingKept ==
    ASSUME HiveInv, NEW c \in Client, Lookup(c) \/ Use(c) \/ Drop(c)
    PROVE  Loading'
<1>0. /\ call[c].pc # "idle" => call[c].name \in Name
      /\ call[c].pc \in {"found", "registered", "drop"} => call[c].id \in Id
  BY CallHas DEF Formed
<1>1. /\ \A d \in Client : call[d].pc = "registered" => lock = d
      /\ None \notin Client
  BY NoneApart DEF HiveInv, Loading
<1>2. CASE CallStep(c)
  <2>1. UNCHANGED collections
    BY <1>2, CallStepDoes
  <2>2. PICK k \in Calls :
          /\ call' = [call EXCEPT ![c] = k]
          /\ k.pc # "holding" => k.object = None
          /\ k.pc = "registered" => Register(c) /\ k.name = call[c].name
    BY <1>2, CallStepDoes
  <2>3. k.pc = "registered" => lock' = c /\ collections'[k.name] = None
    BY <2>1, <2>2 DEF Register
  <2>4. \A d \in Client : d # c /\ call[d].pc = "registered" => lock' = lock
    BY <1>1, <1>2 DEF CallStep, LookupCached, LookupMissed, DropReadId, ReadId, CreateCached,
       OpenFails, Release, LoadFound, Register, DropDelete, Unlocked
  <2> QED
    BY <2>1, <2>2, <2>3, <2>4, LoadingStep
<1>3. CASE Opens(c)
  <2>1. \A d \in Client : d # c => call[d].pc # "registered"
    BY <1>1, <1>3 DEF Opens, LoadFound, OpenRegistered, Unlocked
  <2>2. Open(c, call[c].name, call[c].id) /\ call[c].name \in Name
    BY <1>0, <1>3 DEF Opens, LoadFound, OpenRegistered
  <2>3. PICK o \in Object : Hold(c, call[c].name, o)
    BY <2>2 DEF Open
  <2> QED
    BY <2>1, <2>2, <2>3, HeldTo, LoadingStep
<1>4. CASE Register(c) /\ registry[call[c].name] = None
  <2>1. /\ \A d \in Client : call[d].pc # "registered"
        /\ lock' = c /\ collections' = collections /\ collections[call[c].name] = None
    BY <1>1, <1>4 DEF Register, Unlocked
  <2>2. /\ Goes(c, "registered", call[c].name, load_next_collection_id)
        /\ load_next_collection_id \in Id /\ call[c].name \in Name
    BY <1>0, <1>4 DEF Register
  <2> QED
    BY <2>1, <2>2, GoneTo, LoadingStep
<1>5. CASE DropDelete(c) /\ call'[c].pc = "dropped"
  <2>1. UNCHANGED <<collections, lock>> /\ call[c].name \in Name
    BY <1>0, <1>5 DEF DropDelete
  <2>2. CASE Goes(c, "dropped", call[c].name, None)
    BY <2>1, <2>2, GoneTo, LoadingStep
  <2>3. CASE Ends(c)
    BY <2>1, <2>3, IdleCall, LoadingStep DEF Ends
  <2> QED
    BY <1>5, <2>2, <2>3 DEF DropDelete
<1>6. CASE DropUncache(c)
  <2>1. (\A d \in Client : call[d].pc # "registered") /\ Ends(c)
    BY <1>1, <1>6 DEF DropUncache, Unlocked
  <2> QED
    BY <2>1, IdleCall, LoadingStep DEF Ends
<1>7. CASE Write(c)
  BY <1>7, IdleCall, LoadingStep DEF Write, Ends
<1> QED
  BY <1>2, <1>3, <1>4, <1>5, <1>6, <1>7, StepKinds

LEMMA UnusedKept ==
    ASSUME HiveInv, NEW c \in Client, Lookup(c) \/ Use(c) \/ Drop(c)
    PROVE  IdsAreUnused'
<1> USE DEF HiveInv
<1>1. IdsAreUnused /\ next_collection_id \in 1 .. MaxId + 1 /\ MaxId \in Nat
  BY HiveAssumption DEF DisjointInv, TypeInv, TypeOK
<1>2. CASE CallStep(c) \/ Opens(c) \/ DropUncache(c)
  <2>1. UNCHANGED <<stored, learned>>
    BY <1>2, CallStepDoes DEF Opens, LoadFound, OpenRegistered, DropUncache
  <2> QED
    BY <1>1, <2>1 DEF IdsAreUnused, stored
<1>3. CASE Register(c) /\ registry[call[c].name] = None
  <2>1. UNCHANGED <<records, learned>> /\ next_collection_id' = next_collection_id + 1
    BY <1>3 DEF Register, load_next_collection_id
  <2>2. \A v \in Vector : learned[v].id \in Id \cup {None}
    BY DEF DisjointInv, TypeInv, TypeOK
  <2> QED
    BY <1>1, <2>1, <2>2 DEF IdsAreUnused, Id, None
<1>4. CASE DropDelete(c) /\ call'[c].pc = "dropped"
  <2>1. /\ UNCHANGED <<next_collection_id, learned>>
        /\ \A j \in Id : records'[j] \in {records[j], NoLocations}
    BY <1>4 DEF DropDelete, delete_collection, stored, DisjointInv, TypeInv, TypeOK
  <2> QED
    BY <1>1, <2>1 DEF IdsAreUnused
<1>5. CASE Write(c)
  <2> DEFINE i == objects[call[c].object].id
             v == written + 1
  <2>1. /\ call[c].pc = "holding" /\ i \in Id \cup {None} /\ call[c].name \in Name
        /\ \A j \in Id : j # i => records'[j] = records[j]
        /\ \A u \in Vector : learned'[u].id \in {learned[u].id, i}
        /\ UNCHANGED next_collection_id
    <3>1. call[c].pc = "holding" /\ call[c].name \in Name /\ call[c].object \in Object
      BY <1>5, CallHas DEF Write, Formed
    <3>2. /\ \A j \in Id : j # i => records'[j] = records[j]
          /\ UNCHANGED next_collection_id
      BY <1>5 DEF Write, DisjointInv, TypeInv, TypeOK
    <3>3. learned' = [learned EXCEPT ![v] = [name |-> call[c].name, id |-> i]]
      BY <1>5 DEF Write
    <3>4. \A u \in Vector : learned'[u].id \in {learned[u].id, i}
      BY <3>3 DEF DisjointInv, TypeInv, TypeOK
    <3> QED
      BY <3>1, <3>2, <3>4 DEF DisjointInv, TypeInv, TypeOK
  <2>2. i < next_collection_id
    <3>1. CASE i \in Id
      BY <2>1, <3>1 DEF DisjointInv, ClaimsInv, ClaimsIssued, Claims, CallClaims
    <3>2. CASE i = None
      BY <1>1, <3>2 DEF None
    <3> QED
      BY <2>1, <3>1, <3>2
  <2> HIDE DEF i
  <2>3. \A j \in Id : j >= next_collection_id => j # i
    BY <1>1, <2>1, <2>2 DEF Id, None
  <2> QED
    BY <1>1, <2>1, <2>2, <2>3 DEF IdsAreUnused
<1> QED
  BY <1>2, <1>3, <1>4, <1>5, StepKinds

LEMMA HiveInitially == Init => HiveInv
<1> SUFFICES ASSUME Init PROVE HiveInv
  OBVIOUS
<1>1. DisjointInv
  BY InitTyped, InitClaims DEF DisjointInv
<1>2. \A c \in Client : call[c] = Idle
  BY DEF Init
<1>3. Loading
  BY <1>2, IdleCall DEF Loading
<1>4. IdsAreUnused
  BY DEF Init, IdsAreUnused, Nowhere, None
<1>5. UndisturbedInv
  <2> SUFFICES ASSUME NEW n \in Undisturbed PROVE ~Racing(n) /\ Whole(n)
    BY DEF UndisturbedInv
  <2>1. /\ n \in Name /\ registry[n] = None
        /\ \A m \in Name : collections[m] = None
    BY DEF Init, Undisturbed
  <2>2. Live \subseteq {None}
    BY <1>2, <2>1, IdleCall DEF Live
  <2> QED
    BY <1>2, <2>1, <2>2, IdleCall
    DEF Racing, Whole, IdsCurrent, CacheCurrent, ObjectsCached, InOrder, WritesStored
<1> QED
  BY <1>1, <1>3, <1>4, <1>5 DEF HiveInv

LEMMA HiveKept == HiveInv /\ [Next]_vars => HiveInv'
<1> SUFFICES ASSUME HiveInv, [Next]_vars PROVE HiveInv'
  OBVIOUS
<1>1. DisjointInv'
  BY DisjointKept DEF HiveInv
<1>2. CASE Next
  <2>1. Loading' /\ IdsAreUnused'
    <3>1. CASE Reopen
      <4>1. /\ \A c \in Client : call'[c] = Idle
            /\ UNCHANGED <<records, next_collection_id, learned>>
        BY <3>1 DEF Reopen, stored
      <4> QED
        BY <4>1, IdleCall DEF HiveInv, Loading, IdsAreUnused
    <3>2. CASE \E c \in Client : Lookup(c) \/ Use(c) \/ Drop(c)
      BY <3>2, LoadingKept, UnusedKept
    <3> QED
      BY <1>2, <3>1, <3>2 DEF Next
  <2>2. UndisturbedInv'
    BY <1>2, UndisturbedKept
  <2> QED
    BY <1>1, <2>1, <2>2 DEF HiveInv
<1>3. CASE UNCHANGED vars
  <2>1. UNCHANGED <<Loading, IdsAreUnused, Undisturbed>>
    BY <1>3 DEF vars, Loading, IdsAreUnused, Undisturbed
  <2>2. \A n \in Undisturbed : Racing(n)' = Racing(n) /\ Whole(n)' = Whole(n)
    BY <1>3 DEF vars, Racing, Whole, IdsCurrent, CacheCurrent, Dropping, ObjectsCached, Live,
       InOrder, WritesStored, Content
  <2> QED
    BY <1>1, <2>1, <2>2 DEF HiveInv, UndisturbedInv
<1> QED
  BY <1>2, <1>3

(* The cache of an undisturbed name holds what the registry has, except    *)
(* between the two halves of drop_collection.                              *)
THEOREM CacheCorrect == Spec => []CacheIsRegistered
<1>1. HiveInv => CacheIsRegistered
  BY DEF HiveInv, UndisturbedInv, Whole, CacheCurrent, Dropping, CacheIsRegistered
<1> QED
  BY <1>1, HiveInitially, HiveKept, PTL DEF Spec

(* get_collection, create_collection and every reopening give the requests *)
(* of one registered collection the same object.                           *)
THEOREM OneObjectCorrect == Spec => []OneObject
<1>1. HiveInv => OneObject
  <2> SUFFICES ASSUME HiveInv, NEW o \in Live \ {None}, NEW p \in Live \ {None},
                      objects[o].id = objects[p].id, objects[o].id \in Registered
               PROVE  o = p
    BY DEF OneObject
  <2>1. PICK n \in Undisturbed : registry[n] = objects[o].id /\ registry[n] # None
    BY DEF Registered
  <2> QED
    BY <2>1 DEF HiveInv, UndisturbedInv, Whole, ObjectsCached
<1> QED
  BY <1>1, HiveInitially, HiveKept, PTL DEF Spec

(* A write that was acknowledged is in the records of its collection, and  *)
(* no object of that collection writes over it.                            *)
THEOREM AcknowledgedCorrect == Spec => []AcknowledgedIsStored
<1>1. HiveInv => AcknowledgedIsStored
  <2> SUFFICES ASSUME HiveInv, NEW v \in Vector, learned[v].id \in Registered
               PROVE  v \in Content(records[learned[v].id])
    BY DEF AcknowledgedIsStored
  <2>1. PICK n \in Undisturbed : registry[n] = learned[v].id /\ registry[n] # None
    BY DEF Registered
  <2> QED
    BY <2>1 DEF HiveInv, UndisturbedInv, Whole, WritesStored
<1> QED
  BY <1>1, HiveInitially, HiveKept, PTL DEF Spec

=============================================================================
