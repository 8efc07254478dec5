---------------------------- MODULE SessionsProofs ----------------------------
(***************************************************************************)
(* Theorems about Sessions and their proofs.                               *)
(***************************************************************************)
EXTENDS Sessions, TLAPS

-----------------------------------------------------------------------------
(* The inductive invariants.                                               *)

(* Requests and sweeps are in progress only while the server is up.        *)
QuietUnlessUp ==
    phase # "up" => (\A r \in Request : request[r] = Waiting) /\ gc = NoSweep

(* A request that goes on with a bearer token has one a client was given.  *)
Holds(k, t) ==
    \/ k.pc \in {"issued", "admitted", "revoking"} /\ t \in k.bearer
    \/ k.pc = "expired" /\ t = k.token

BearersAreIssued ==
    \A r \in Request : \A t \in Token : Holds(request[r], t) => issued[t] # None

(* A token being minted is nobody else's, and in LMDB as it will be issued.*)
Minting(r, t) == request[r].pc = "minting" /\ request[r].token = t

MintsAreNew ==
    \A r \in Request : \A t \in Token : Minting(r, t) =>
        /\ issued[t] = None /\ cache[t] = None
        /\ disk[t] \in {None, request[r].entry}
        /\ \A q \in Request : Minting(q, t) => q = r

(* An issued token is nowhere other than it was issued.                    *)
CopiesAgree ==
    \A t \in Token : issued[t] # None =>
        disk[t] \in {None, issued[t]} /\ cache[t] \in {None, issued[t]}

(* A token whose revocation is under way is out of the cache; one whose    *)
(* revocation has reached LMDB is nowhere.                                 *)
RevokedAreGone ==
    \A t \in Token :
        /\ revoked[t] # "no" => issued[t] # None
        /\ revoked[t] = "removed" => cache[t] = None /\ disk[t] = None
        /\ \A r \in Request : (request[r].pc = "revoking" /\ t \in request[r].bearer)
                                  => cache[t] = None /\ revoked[t] # "no"

(* The sweep has found no token that may still be used.                    *)
RanOut(table, t) == table[t] # None /\ ~Live(table[t])

SweptAreExpired ==
    gc.pc = "found" => \A t \in gc.tokens : RanOut(cache, t) \/ RanOut(issued, t)

(* A token in LMDB that may be used is in the cache, once that is loaded.  *)
StoredAreCached ==
    phase # "down" =>
        \A t \in Token :
            (issued[t] # None /\ Live(issued[t]) /\ disk[t] # None /\ revoked[t] = "no")
            => cache[t] = issued[t]

TokensInv ==
    /\ TypeOK
    /\ QuietUnlessUp /\ BearersAreIssued /\ MintsAreNew /\ CopiesAgree
    /\ RevokedAreGone /\ SweptAreExpired /\ StoredAreCached

(* No two users have a password hash in common, and none has one that was  *)
(* a user's before.                                                        *)
HashesAreFresh ==
    /\ over \subseteq 1 .. hashes
    /\ \A n \in Name : users[n] # None =>
         /\ users[n].name = n
         /\ users[n].hash <= hashes /\ users[n].hash \notin over
         /\ \A m \in Name : (users[m] # None /\ users[m].hash = users[n].hash) => m = n

(* A request was admitted where the scope its user had then allows it.     *)
AdmittedWereAuthorized ==
    \A r \in Request : request[r].pc = "admitted" =>
        \/ request[r].path.route \in {"mint", "revoke"}
        \/ is_authorized(request[r].user.scope, request[r].path)

CredentialsInv == TypeOK /\ HashesAreFresh /\ AdmittedWereAuthorized

-----------------------------------------------------------------------------
(* Types.                                                                  *)

LEMMA NoneIsNothing == None \notin Entry /\ None \notin User
<1>1. DOMAIN None = {"absent"}
  BY DEF None
<1>2. \A e \in Entry : "user" \in DOMAIN e
  BY DEF Entry
<1>3. \A u \in User : "name" \in DOMAIN u
  BY DEF User
<1> QED
  BY <1>1, <1>2, <1>3

LEMMA CallFields ==
    ASSUME NEW k \in Calls
    PROVE  /\ k.pc \in {"waiting", "issued", "admitted", "expired", "minting", "revoking"}
           /\ k.pc = "waiting" => k = Waiting
           /\ k.pc \in {"issued", "admitted"} =>
                k.user \in User /\ k.bearer \subseteq Token /\ k.path \in Path
           /\ k.pc = "expired" => k.token \in Token
           /\ k.pc = "minting" => k.token \in Token /\ k.entry \in Entry
           /\ k.pc = "revoking" => k.bearer \subseteq Token
BY DEF Calls, Waiting

LEMMA CallMade ==
    /\ Waiting \in Calls
    /\ \A u \in User, B \in SUBSET Token, p \in Path :
         /\ [pc |-> "issued", user |-> u, bearer |-> B, path |-> p] \in Calls
         /\ [pc |-> "admitted", user |-> u, bearer |-> B, path |-> p] \in Calls
    /\ \A t \in Token : [pc |-> "expired", token |-> t] \in Calls
    /\ \A t \in Token, e \in Entry :
         [pc |-> "minting", token |-> t, entry |-> e] \in Calls
    /\ \A B \in SUBSET Token : [pc |-> "revoking", bearer |-> B] \in Calls
BY DEF Calls

LEMMA WithoutTyped ==
    ASSUME NEW table \in [Token -> Entry \cup {None}], NEW gone
    PROVE  /\ Without(table, gone) \in [Token -> Entry \cup {None}]
           /\ \A t \in Token : Without(table, gone)[t] = IF t \in gone THEN None ELSE table[t]
BY DEF Without

LEMMA RemovedTyped ==
    ASSUME TypeOK, NEW gone, Removed(gone)
    PROVE  /\ disk' \in [Token -> Entry \cup {None}]
           /\ \A t \in Token : disk'[t] \in {disk[t], None}
BY WithoutTyped DEF TypeOK, Removed

LEMMA BecomesTyped ==
    ASSUME TypeOK, NEW r \in Request, NEW k \in Calls, Becomes(r, k)
    PROVE  /\ request' \in [Request -> Calls]
           /\ request'[r] = k
           /\ \A q \in Request : q # r => request'[q] = request[q]
BY DEF TypeOK, Becomes

LEMMA AdmittedTyped ==
    ASSUME NEW user \in User, NEW bearer \in SUBSET Token, NEW path \in Path
    PROVE  /\ Admitted(user, bearer, path) \in Calls
           /\ Admitted(user, bearer, path).pc \in {"admitted", "waiting"}
           /\ Admitted(user, bearer, path).pc = "admitted" =>
                Admitted(user, bearer, path).bearer = bearer
BY CallMade DEF Admitted, Waiting

LEMMA InitTyped == Init => TypeOK
<1> SUFFICES ASSUME Init PROVE TypeOK
  OBVIOUS
<1>1. clock \in Time /\ hashes \in 0 .. MaxHash
  BY SessionsAssumption DEF Init, Time
<1>2. request \in [Request -> Calls]
  BY CallMade DEF Init
<1> QED
  BY <1>1, <1>2 DEF Init, TypeOK

LEMMA HashedTyped ==
    ASSUME TypeOK, hashes < MaxHash,
           NEW n \in Name, NEW scope \in Scope, NEW created \in Time
    PROVE  Hashed(n, scope, created) \in User /\ hashes + 1 \in 0 .. MaxHash
BY SessionsAssumption DEF TypeOK, Hashed, User

LEMMA CreateTyped ==
    ASSUME TypeOK, NEW n \in Name, NEW scope \in Scope, create(n, scope)
    PROVE  /\ users' = [users EXCEPT ![n] = Hashed(n, scope, clock)]
           /\ users' \in [Name -> User \cup {None}]
           /\ hashes' = hashes + 1 /\ hashes' \in 0 .. MaxHash
           /\ over' = over
<1>1. /\ hashes < MaxHash /\ hashes' = hashes + 1 /\ over' = over
      /\ users' = [users EXCEPT ![n] = Hashed(n, scope, clock)]
  BY DEF create, put_user, Hashed
<1>2. Hashed(n, scope, clock) \in User /\ hashes + 1 \in 0 .. MaxHash
  BY <1>1, HashedTyped DEF TypeOK
<1> QED
  BY <1>1, <1>2 DEF TypeOK

LEMMA SetPasswordTyped ==
    ASSUME TypeOK, NEW n \in Name, set_password(n)
    PROVE  /\ users' = [users EXCEPT ![n] = Hashed(n, users[n].scope, users[n].created)]
           /\ users' \in [Name -> User \cup {None}]
           /\ hashes' = hashes + 1 /\ hashes' \in 0 .. MaxHash
           /\ over' = over \cup {users[n].hash} /\ over' \subseteq 1 .. MaxHash
<1>1. /\ hashes < MaxHash /\ hashes' = hashes + 1 /\ over' = over \cup {users[n].hash}
      /\ users' = [users EXCEPT ![n] = Hashed(n, users[n].scope, users[n].created)]
  BY DEF set_password, put_user, Hashed
<1>2. users[n] \in User
  BY DEF set_password, TypeOK
<1>3. users[n].scope \in Scope /\ users[n].created \in Time /\ users[n].hash \in 1 .. MaxHash
  BY <1>2 DEF User
<1>4. /\ Hashed(n, users[n].scope, users[n].created) \in User
      /\ hashes + 1 \in 0 .. MaxHash
  BY <1>1, <1>3, HashedTyped
<1> QED
  BY <1>1, <1>3, <1>4 DEF TypeOK

LEMMA DeleteTyped ==
    ASSUME TypeOK, NEW n \in Name, delete(n)
    PROVE  /\ users' = [users EXCEPT ![n] = None]
           /\ users' \in [Name -> User \cup {None}]
           /\ over' = over \cup {users[n].hash} /\ over' \subseteq 1 .. MaxHash
           /\ hashes' = hashes
<1>1. users[n] \in User
  BY DEF delete, TypeOK
<1>2. users[n].hash \in 1 .. MaxHash
  BY <1>1 DEF User
<1> QED
  BY <1>2 DEF delete, TypeOK

LEMMA CliTyped ==
    ASSUME TypeOK, Cli
    PROVE  TypeOK'
<1>1. UNCHANGED <<clock, phase, disk, cache, request, gc, issued, revoked>>
  BY DEF Cli
<1> SUFFICES users' \in [Name -> User \cup {None}] /\ hashes' \in 0 .. MaxHash
              /\ over' \subseteq 1 .. MaxHash
  BY <1>1 DEF TypeOK
<1>2. PICK n \in Name : \/ \E scope \in Scope : create(n, scope)
                        \/ set_password(n)
                        \/ delete(n)
  BY DEF Cli
<1>3. CASE \E scope \in Scope : create(n, scope)
  BY <1>3, CreateTyped DEF TypeOK
<1>4. CASE set_password(n)
  BY <1>4, SetPasswordTyped DEF TypeOK
<1>5. CASE delete(n)
  BY <1>5, DeleteTyped DEF TypeOK
<1> QED
  BY <1>2, <1>3, <1>4, <1>5

LEMMA ServerTyped ==
    ASSUME TypeOK, Server
    PROVE  TypeOK'
<1>1. CASE Load
  <2>1. load \in [Token -> Entry \cup {None}]
    BY WithoutTyped DEF load, TypeOK
  <2> QED
    BY <1>1, <2>1 DEF Load, TypeOK
<1>2. CASE BootstrapLooks
  BY <1>2 DEF BootstrapLooks, TypeOK
<1>3. CASE BootstrapCreates
  <2>1. /\ users' \in [Name -> User \cup {None}] /\ hashes' \in 0 .. MaxHash
        /\ over' = over /\ phase' \in {"up", "down"}
    BY <1>3, CreateTyped, SessionsAssumption DEF BootstrapCreates, TypeOK, Scope
  <2>2. cache' \in [Token -> Entry \cup {None}]
    BY <1>3 DEF BootstrapCreates, TypeOK
  <2> QED
    BY <1>3, <2>1, <2>2 DEF BootstrapCreates, TypeOK
<1>4. CASE Stop
  <2>1. request' \in [Request -> Calls]
    BY <1>4, CallMade DEF Stop
  <2> QED
    BY <1>4, <2>1 DEF Stop, TypeOK
<1> QED
  BY <1>1, <1>2, <1>3, <1>4 DEF Server

LEMMA TickTyped ==
    ASSUME TypeOK, Tick
    PROVE  TypeOK'
BY SessionsAssumption DEF Tick, TypeOK, Time

LEMMA GcTyped ==
    ASSUME TypeOK, Gc
    PROVE  TypeOK'
<1>1. CASE GcLooks
  <2>1. Expired(cache) \in SUBSET Token
    BY DEF Expired
  <2>2. gc' \in [pc : {"found", "uncached"}, tokens : SUBSET Token]
    BY <1>1, <2>1 DEF GcLooks
  <2> QED
    BY <1>1, <2>2 DEF GcLooks, TypeOK
<1>2. CASE GcUncaches
  <2>1. gc \in [pc : {"found", "uncached"}, tokens : SUBSET Token]
    BY <1>2 DEF GcUncaches, TypeOK, NoSweep
  <2>2. gc' \in [pc : {"found", "uncached"}, tokens : SUBSET Token]
    BY <1>2, <2>1 DEF GcUncaches
  <2>3. cache' \in [Token -> Entry \cup {None}]
    BY <1>2, WithoutTyped DEF GcUncaches, TypeOK
  <2> QED
    BY <1>2, <2>2, <2>3 DEF GcUncaches, TypeOK
<1>3. CASE GcRemoves
  <2>1. disk' \in [Token -> Entry \cup {None}]
    BY <1>3, RemovedTyped DEF GcRemoves
  <2> QED
    BY <1>3, <2>1 DEF GcRemoves, TypeOK
<1> QED
  BY <1>1, <1>2, <1>3 DEF Gc

(* What the steps of a request do to it.  All but four leave the tokens    *)
(* and the users as they are.                                              *)
Goes(r, k) == Becomes(r, k) /\ Same

LEMMA BasicGoes ==
    ASSUME TypeOK, NEW r \in Request, NEW n \in Name, NEW path \in Path, Basic(r, n, path)
    PROVE  \E k \in Calls : /\ Goes(r, k) /\ phase = "up"
                            /\ k = Admitted(users[n], {}, path) /\ users[n] \in User
                            /\ k.pc \in {"waiting", "admitted"}
                            /\ k.pc = "admitted" => k.bearer = {}
<1>1. users[n] \in User
  BY DEF Basic, TypeOK
<1>2. Goes(r, Admitted(users[n], {}, path)) /\ phase = "up"
  BY DEF Basic, Goes
<1> QED
  BY <1>1, <1>2, AdmittedTyped

LEMMA BearerGoes ==
    ASSUME TypeOK, NEW r \in Request, NEW t \in Token, NEW path \in Path, Bearer(r, t, path)
    PROVE  \E k \in Calls : /\ Goes(r, k) /\ phase = "up"
                            /\ k.pc \in {"issued", "expired"}
                            /\ \A s \in Token : Holds(k, s) => s = t
                            /\ issued[t] # None
<1>1. cache[t] \in Entry /\ cache[t].user \in User
  BY DEF Bearer, TypeOK, Entry
<1> DEFINE k == IF Live(cache[t])
                THEN [pc |-> "issued", user |-> cache[t].user, bearer |-> {t}, path |-> path]
                ELSE [pc |-> "expired", token |-> t]
<1>2. k \in Calls
  BY <1>1, CallMade
<1>4. k.pc \in {"issued", "expired"} /\ (\A s \in Token : Holds(k, s) => s = t)
  BY DEF Holds
<1>5. Goes(r, k) /\ phase = "up" /\ issued[t] # None
  BY DEF Bearer, Goes
<1> HIDE DEF k
<1> QED
  BY <1>2, <1>4, <1>5

LEMMA ResolveGoes ==
    ASSUME TypeOK, NEW r \in Request, Resolve(r)
    PROVE  /\ request[r].pc = "issued" /\ request[r] \in Calls
           /\ \E k \in Calls :
                /\ Goes(r, k)
                /\ k.pc \in {"waiting", "admitted"}
                /\ k.pc = "admitted" =>
                     LET user == request[r].user
                     IN /\ same_user(users[user.name], user)
                        /\ k = Admitted(users[user.name], request[r].bearer, request[r].path)
                        /\ users[user.name] \in User
                        /\ k.bearer = request[r].bearer
<1> DEFINE user == request[r].user
<1>1. request[r].pc = "issued" /\ request[r] \in Calls
  BY DEF Resolve, TypeOK
<1>2. user \in User /\ request[r].bearer \in SUBSET Token /\ request[r].path \in Path
  BY <1>1, CallFields
<1>3. user.name \in Name
  BY <1>2 DEF User
<1>4. CASE same_user(users[user.name], user)
  <2> DEFINE k == Admitted(users[user.name], request[r].bearer, request[r].path)
  <2>1. users[user.name] \in User
    BY <1>3, <1>4 DEF same_user, TypeOK
  <2>2. /\ k \in Calls /\ k.pc \in {"waiting", "admitted"}
        /\ k.pc = "admitted" => k.bearer = request[r].bearer
    BY <1>2, <2>1, AdmittedTyped
  <2>3. Goes(r, k)
    BY <1>4 DEF Resolve, Goes
  <2> HIDE DEF k
  <2>4. k = Admitted(users[user.name], request[r].bearer, request[r].path)
    BY DEF k
  <2> QED
    BY <1>1, <1>4, <2>1, <2>2, <2>3, <2>4
<1>5. CASE ~same_user(users[user.name], user)
  <2>1. Goes(r, Waiting)
    BY <1>5 DEF Resolve, Goes
  <2> QED
    BY <1>1, <2>1, CallMade DEF Waiting
<1> QED
  BY <1>4, <1>5

LEMMA EndsGo ==
    ASSUME NEW r \in Request, Serve(r) \/ MintRefuses(r) \/ RevokeFails(r)
    PROVE  Goes(r, Waiting)
BY DEF Serve, MintRefuses, RevokeFails, Goes

LEMMA GoesTyped ==
    ASSUME TypeOK, NEW r \in Request, NEW k \in Calls, Goes(r, k)
    PROVE  TypeOK'
<1>1. request' \in [Request -> Calls]
  BY BecomesTyped DEF Goes
<1> QED
  BY <1>1 DEF Goes, Same, TypeOK

(* The four that do more.                                                  *)
LEMMA SweepOneDoes ==
    ASSUME TypeOK, NEW r \in Request, SweepOne(r)
    PROVE  /\ request[r] \in Calls /\ request[r].pc = "expired"
           /\ request[r].token \in Token
           /\ cache' = IF Live(cache[request[r].token]) THEN cache
                       ELSE Without(cache, {request[r].token})
           /\ Removed({request[r].token})
           /\ Becomes(r, Waiting)
<1>1. request[r] \in Calls /\ request[r].pc = "expired"
  BY DEF SweepOne, TypeOK
<1> QED
  BY <1>1, CallFields DEF SweepOne

LEMMA MintPersistsDoes ==
    ASSUME TypeOK, NEW r \in Request, MintPersists(r)
    PROVE  \E t \in Token \ Used, entry \in Entry :
             /\ request[r].pc = "admitted"
             /\ disk' \in {disk, [disk EXCEPT ![t] = entry]}
             /\ Becomes(r, [pc |-> "minting", token |-> t, entry |-> entry])
<1>1. request[r] \in Calls /\ request[r].pc = "admitted"
  BY DEF MintPersists, TypeOK
<1>2. request[r].user \in User
  BY <1>1, CallFields
<1> DEFINE entry == [user |-> request[r].user, expires_at |-> clock + TTL]
<1>3. entry \in Entry
  <2>1. clock + TTL \in 0 .. MaxClock + TTL
    BY SessionsAssumption DEF TypeOK, Time
  <2> QED
    BY <1>2, <2>1 DEF Entry
<1>4. PICK t \in Token \ Used : \E saved \in BOOLEAN :
        /\ disk' = IF saved THEN [disk EXCEPT ![t] = entry] ELSE disk
        /\ Becomes(r, [pc |-> "minting", token |-> t, entry |-> entry])
  BY DEF MintPersists
<1> HIDE DEF entry
<1> QED
  BY <1>1, <1>3, <1>4

LEMMA MintCachesDoes ==
    ASSUME TypeOK, NEW r \in Request, MintCaches(r)
    PROVE  /\ request[r].pc = "minting"
           /\ request[r].token \in Token /\ request[r].entry \in Entry
           /\ cache' = [cache EXCEPT ![request[r].token] = request[r].entry]
           /\ issued' = [issued EXCEPT ![request[r].token] = request[r].entry]
           /\ Becomes(r, Waiting)
<1>1. request[r] \in Calls /\ request[r].pc = "minting"
  BY DEF MintCaches, TypeOK
<1> QED
  BY <1>1, CallFields DEF MintCaches

LEMMA RevokeUncachesDoes ==
    ASSUME TypeOK, NEW r \in Request, RevokeUncaches(r)
    PROVE  /\ request[r].pc = "admitted" /\ request[r].bearer \in SUBSET Token
           /\ cache' = Without(cache, request[r].bearer)
           /\ \E k \in {Waiting, [pc |-> "revoking", bearer |-> request[r].bearer]} :
                k \in Calls /\ Becomes(r, k)
           /\ revoked' = Marked(request[r].bearer, "asked")
<1>1. request[r] \in Calls /\ request[r].pc = "admitted"
  BY DEF RevokeUncaches, TypeOK
<1>2. request[r].bearer \in SUBSET Token
  BY <1>1, CallFields
<1>3. \/ Becomes(r, Waiting)
      \/ Becomes(r, [pc |-> "revoking", bearer |-> request[r].bearer])
  BY DEF RevokeUncaches
<1> QED
  BY <1>1, <1>2, <1>3, CallMade DEF RevokeUncaches

LEMMA RevokeRemovesDoes ==
    ASSUME TypeOK, NEW r \in Request, RevokeRemoves(r)
    PROVE  /\ request[r].pc = "revoking" /\ request[r].bearer \in SUBSET Token
           /\ disk' = Without(disk, request[r].bearer)
           /\ Becomes(r, Waiting)
           /\ revoked' = Marked(request[r].bearer, "removed")
<1>1. request[r] \in Calls /\ request[r].pc = "revoking"
  BY DEF RevokeRemoves, TypeOK
<1> QED
  BY <1>1, CallFields DEF RevokeRemoves

LEMMA MarkedTyped ==
    ASSUME TypeOK, NEW T \in SUBSET Token, NEW how \in {"asked", "removed"}
    PROVE  Marked(T, how) \in [Token -> {"no", "asked", "removed"}]
BY DEF TypeOK, Marked

LEMMA StepTyped ==
    ASSUME TypeOK, NEW r \in Request, Step(r)
    PROVE  TypeOK'
<1>0. cache \in [Token -> Entry \cup {None}]
  BY DEF TypeOK
<1>1. CASE Authenticate(r)
  <2>1. PICK path \in Path : \/ \E n \in Name : Basic(r, n, path)
                             \/ \E t \in Token : Bearer(r, t, path)
    BY <1>1 DEF Authenticate
  <2>2. PICK k \in Calls : Goes(r, k)
    BY <2>1, BasicGoes, BearerGoes
  <2> QED
    BY <2>2, GoesTyped
<1>2. CASE Resolve(r)
  BY <1>2, ResolveGoes, GoesTyped
<1>3. CASE Serve(r) \/ MintRefuses(r) \/ RevokeFails(r)
  BY <1>3, CallMade, EndsGo, GoesTyped
<1>4. CASE SweepOne(r)
  <2>1. request' \in [Request -> Calls] /\ disk' \in [Token -> Entry \cup {None}]
    BY <1>4, CallMade, SweepOneDoes, BecomesTyped, RemovedTyped
  <2>2. cache' \in [Token -> Entry \cup {None}]
    <3>1. cache' \in {cache, Without(cache, {request[r].token})}
      BY <1>4, SweepOneDoes
    <3>2. Without(cache, {request[r].token}) \in [Token -> Entry \cup {None}]
      BY <1>0, WithoutTyped
    <3> QED
      BY <1>0, <3>1, <3>2
  <2> QED
    BY <1>4, <2>1, <2>2 DEF SweepOne, TypeOK
<1>5. CASE MintPersists(r)
  <2>1. PICK t \in Token, entry \in Entry :
          /\ disk' \in {disk, [disk EXCEPT ![t] = entry]}
          /\ Becomes(r, [pc |-> "minting", token |-> t, entry |-> entry])
    BY <1>5, MintPersistsDoes
  <2>2. request' \in [Request -> Calls]
    BY <2>1, CallMade, BecomesTyped
  <2>3. disk' \in [Token -> Entry \cup {None}]
    BY <2>1 DEF TypeOK
  <2> QED
    BY <1>5, <2>2, <2>3 DEF MintPersists, TypeOK
<1>6. CASE MintCaches(r)
  <2>1. request' \in [Request -> Calls]
    BY <1>6, CallMade, MintCachesDoes, BecomesTyped
  <2>2. /\ cache' \in [Token -> Entry \cup {None}]
        /\ issued' \in [Token -> Entry \cup {None}]
    BY <1>6, MintCachesDoes DEF TypeOK
  <2> QED
    BY <1>6, <2>1, <2>2 DEF MintCaches, TypeOK
<1>7. CASE RevokeUncaches(r)
  <2>1. request' \in [Request -> Calls]
    BY <1>7, RevokeUncachesDoes, BecomesTyped
  <2>2. cache' \in [Token -> Entry \cup {None}]
    <3>1. cache' = Without(cache, request[r].bearer)
      BY <1>7, RevokeUncachesDoes
    <3>2. Without(cache, request[r].bearer) \in [Token -> Entry \cup {None}]
      BY <1>0, WithoutTyped
    <3> QED
      BY <3>1, <3>2
  <2>3. revoked' \in [Token -> {"no", "asked", "removed"}]
    BY <1>7, RevokeUncachesDoes, MarkedTyped
  <2> QED
    BY <1>7, <2>1, <2>2, <2>3 DEF RevokeUncaches, TypeOK
<1>8. CASE RevokeRemoves(r)
  <2>1. request' \in [Request -> Calls]
    BY <1>8, CallMade, RevokeRemovesDoes, BecomesTyped
  <2>2. disk' \in [Token -> Entry \cup {None}]
    BY <1>8, RevokeRemovesDoes, WithoutTyped DEF TypeOK
  <2>3. revoked' \in [Token -> {"no", "asked", "removed"}]
    BY <1>8, RevokeRemovesDoes, MarkedTyped
  <2> QED
    BY <1>8, <2>1, <2>2, <2>3 DEF RevokeRemoves, TypeOK
<1> QED
  BY <1>1, <1>2, <1>3, <1>4, <1>5, <1>6, <1>7, <1>8 DEF Step, Handle

LEMMA TypeKept == TypeOK /\ [Next]_vars => TypeOK'
<1> SUFFICES ASSUME TypeOK, [Next]_vars PROVE TypeOK'
  OBVIOUS
<1>1. CASE UNCHANGED vars
  BY <1>1 DEF vars, TypeOK
<1> QED
  BY <1>1, CliTyped, ServerTyped, TickTyped, GcTyped, StepTyped DEF Next

(* Type correctness, of the tables in LMDB and in memory, the requests and *)
(* the sweep.                                                              *)
THEOREM SessionsTypeCorrect == Spec => []TypeOK
BY InitTyped, TypeKept, PTL DEF Spec

-----------------------------------------------------------------------------
(* The tokens.                                                             *)

LEMMA SweepTyped ==
    ASSUME TypeOK, gc.pc \in {"found", "uncached"}
    PROVE  gc.tokens \in SUBSET Token
<1>1. gc \in [pc : {"found", "uncached"}, tokens : SUBSET Token]
  BY DEF TypeOK, NoSweep
<1> QED
  BY <1>1

LEMMA InitTokens == Init => TokensInv
<1> SUFFICES ASSUME Init PROVE TokensInv
  OBVIOUS
<1>1. TypeOK
  BY InitTyped
<1>2. QuietUnlessUp
  BY DEF Init, QuietUnlessUp
<1>3. BearersAreIssued /\ MintsAreNew
  BY DEF Init, BearersAreIssued, Holds, MintsAreNew, Minting, Waiting
<1>4. CopiesAgree /\ StoredAreCached
  BY DEF Init, CopiesAgree, StoredAreCached
<1>5. RevokedAreGone /\ SweptAreExpired
  BY DEF Init, RevokedAreGone, SweptAreExpired, Waiting, NoSweep
<1> QED
  BY <1>1, <1>2, <1>3, <1>4, <1>5 DEF TokensInv

(* The users are no part of it.                                            *)
LEMMA UsersApart ==
    ASSUME TokensInv, TypeOK',
           UNCHANGED <<clock, phase, disk, cache, request, gc, issued, revoked>>
    PROVE  TokensInv'
<1>1. QuietUnlessUp' /\ BearersAreIssued' /\ MintsAreNew'
  BY DEF TokensInv, QuietUnlessUp, BearersAreIssued, Holds, MintsAreNew, Minting
<1>2. CopiesAgree' /\ StoredAreCached'
  BY DEF TokensInv, CopiesAgree, StoredAreCached, Live
<1>3. RevokedAreGone' /\ SweptAreExpired'
  BY DEF TokensInv, RevokedAreGone, SweptAreExpired, RanOut, Live
<1> QED
  BY <1>1, <1>2, <1>3 DEF TokensInv

(* With no request and no sweep in progress the tables are all there is.   *)
LEMMA QuietTokens ==
    ASSUME TypeOK', QuietUnlessUp', (\A r \in Request : request[r] = Waiting)', (gc = NoSweep)',
           CopiesAgree', StoredAreCached',
           \A t \in Token : revoked'[t] # "no" => issued'[t] # None,
           \A t \in Token : revoked'[t] = "removed" => cache'[t] = None /\ disk'[t] = None
    PROVE  TokensInv'
<1>1. \A r \in Request : request'[r].pc = "waiting"
  BY DEF Waiting
<1>2. BearersAreIssued' /\ MintsAreNew'
  BY <1>1 DEF BearersAreIssued, Holds, MintsAreNew, Minting
<1>3. RevokedAreGone' /\ SweptAreExpired'
  BY <1>1 DEF RevokedAreGone, SweptAreExpired, NoSweep
<1> QED
  BY <1>2, <1>3 DEF TokensInv

LEMMA ServerTokens ==
    ASSUME TokensInv, Server
    PROVE  TokensInv'
<1> USE DEF TokensInv
<1>0. TypeOK' /\ cache' \in [Token -> Entry \cup {None}] /\ disk \in [Token -> Entry \cup {None}]
  BY ServerTyped DEF TypeOK
<1>1. CASE Load
  <2>1. (\A r \in Request : request[r] = Waiting) /\ gc = NoSweep
    BY <1>1 DEF Load, QuietUnlessUp
  <2>2. QuietUnlessUp' /\ (\A r \in Request : request[r] = Waiting)' /\ (gc = NoSweep)'
    BY <1>1, <2>1 DEF Load, QuietUnlessUp
  <2>3. \A t \in Token : cache'[t] = disk'[t] /\ disk'[t] \in {None, disk[t]}
    BY <1>0, <1>1, WithoutTyped DEF Load, load
  <2>4. CopiesAgree' /\ StoredAreCached'
    BY <1>1, <2>3 DEF Load, CopiesAgree, StoredAreCached
  <2> QED
    BY <1>0, <1>1, <2>2, <2>3, <2>4, QuietTokens DEF Load, RevokedAreGone
<1>2. CASE BootstrapLooks
  <2>1. (\A r \in Request : request[r] = Waiting) /\ gc = NoSweep
    BY <1>2 DEF BootstrapLooks, QuietUnlessUp
  <2>2. QuietUnlessUp' /\ (\A r \in Request : request[r] = Waiting)' /\ (gc = NoSweep)'
    BY <1>2, <2>1 DEF BootstrapLooks, QuietUnlessUp
  <2>3. CopiesAgree' /\ StoredAreCached'
    BY <1>2 DEF BootstrapLooks, CopiesAgree, StoredAreCached, Live
  <2> QED
    BY <1>0, <1>2, <2>2, <2>3, QuietTokens DEF BootstrapLooks, RevokedAreGone
<1>3. CASE BootstrapCreates
  <2>1. (\A r \in Request : request[r] = Waiting) /\ gc = NoSweep
    BY <1>3 DEF BootstrapCreates, QuietUnlessUp
  <2>2. QuietUnlessUp' /\ (\A r \in Request : request[r] = Waiting)' /\ (gc = NoSweep)'
    BY <1>3, <2>1 DEF BootstrapCreates, QuietUnlessUp
  <2>3. /\ \A t \in Token : cache'[t] \in {None, cache[t]}
        /\ phase' # "down" => cache' = cache
    BY <1>3 DEF BootstrapCreates
  <2>4. CopiesAgree'
    BY <1>3, <2>3 DEF BootstrapCreates, CopiesAgree
  <2>5. StoredAreCached'
    BY <1>3, <2>3 DEF BootstrapCreates, StoredAreCached, Live
  <2> QED
    BY <1>0, <1>3, <2>2, <2>3, <2>4, <2>5, QuietTokens DEF BootstrapCreates, RevokedAreGone
<1>4. CASE Stop
  <2>1. QuietUnlessUp' /\ (\A r \in Request : request[r] = Waiting)' /\ (gc = NoSweep)'
    BY <1>4 DEF Stop, QuietUnlessUp
  <2>2. \A t \in Token : cache'[t] = None
    BY <1>4 DEF Stop
  <2>3. CopiesAgree' /\ StoredAreCached'
    BY <1>4, <2>2 DEF Stop, CopiesAgree, StoredAreCached
  <2> QED
    BY <1>0, <1>4, <2>1, <2>2, <2>3, QuietTokens DEF Stop, RevokedAreGone
<1> QED
  BY <1>1, <1>2, <1>3, <1>4 DEF Server

(* Time lets entries run out and none come back.                           *)
LEMMA TickTokens ==
    ASSUME TokensInv, Tick
    PROVE  TokensInv'
<1> USE DEF TokensInv
<1>1. QuietUnlessUp' /\ BearersAreIssued' /\ MintsAreNew'
  BY DEF Tick, QuietUnlessUp, BearersAreIssued, Holds, MintsAreNew, Minting
<1>2. CopiesAgree' /\ RevokedAreGone'
  BY DEF Tick, CopiesAgree, RevokedAreGone
<1>3. \A e \in Entry : e.expires_at > clock' => e.expires_at > clock
  <2>1. clock \in Nat /\ clock' = clock + 1
    BY SessionsAssumption DEF Tick, TypeOK, Time
  <2>2. \A e \in Entry : e.expires_at \in 0 .. MaxClock + TTL
    BY DEF Entry
  <2> QED
    BY <2>1, <2>2, SessionsAssumption
<1>4. \A t \in Token : /\ RanOut(cache, t) => RanOut(cache, t)'
                       /\ RanOut(issued, t) => RanOut(issued, t)'
                       /\ Live(issued[t])' => Live(issued[t])
  BY <1>3 DEF Tick, TypeOK, RanOut, Live
<1>5. SweptAreExpired'
  BY <1>4, SweepTyped DEF Tick, SweptAreExpired
<1>6. StoredAreCached'
  BY <1>4 DEF Tick, StoredAreCached
<1> QED
  BY <1>1, <1>2, <1>5, <1>6, TickTyped

(* The sweep.                                                              *)
LEMMA GcTokens ==
    ASSUME TokensInv, Gc
    PROVE  TokensInv'
<1> USE DEF TokensInv
<1>0. TypeOK' /\ cache \in [Token -> Entry \cup {None}]
  BY GcTyped DEF TypeOK
<1>1. phase = "up"
  BY DEF Gc, GcLooks, GcUncaches, GcRemoves, QuietUnlessUp, NoSweep
<1>2. QuietUnlessUp' /\ BearersAreIssued'
  BY <1>1 DEF Gc, GcLooks, GcUncaches, GcRemoves, QuietUnlessUp, BearersAreIssued, Holds
<1>3. CASE GcLooks
  <2>1. SweptAreExpired'
    BY <1>3 DEF GcLooks, SweptAreExpired, Expired, RanOut, Live
  <2>2. MintsAreNew' /\ CopiesAgree'
    BY <1>3 DEF GcLooks, MintsAreNew, Minting, CopiesAgree
  <2>3. RevokedAreGone' /\ StoredAreCached'
    BY <1>3 DEF GcLooks, RevokedAreGone, StoredAreCached, Live
  <2> QED
    BY <1>0, <1>2, <2>1, <2>2, <2>3
<1>4. CASE GcUncaches
  <2>1. \A t \in Token : cache'[t] = IF t \in gc.tokens THEN None ELSE cache[t]
    BY <1>0, <1>4, WithoutTyped DEF GcUncaches
  <2>2. SweptAreExpired'
    <3>1. gc \in [pc : {"found", "uncached"}, tokens : SUBSET Token]
      BY <1>4 DEF GcUncaches, TypeOK, NoSweep
    <3> QED
      BY <1>4, <3>1 DEF GcUncaches, SweptAreExpired
  <2>3. MintsAreNew' /\ CopiesAgree'
    BY <1>4, <2>1 DEF GcUncaches, MintsAreNew, Minting, CopiesAgree
  <2>4. RevokedAreGone'
    BY <1>4, <2>1 DEF GcUncaches, RevokedAreGone
  <2>5. StoredAreCached'
    <3> SUFFICES ASSUME NEW t \in Token, issued[t] # None, Live(issued[t]), disk[t] # None,
                        revoked[t] = "no"
                 PROVE  cache'[t] = issued[t]
      BY <1>4 DEF GcUncaches, StoredAreCached, Live
    <3>1. cache[t] = issued[t]
      BY <1>1 DEF StoredAreCached
    <3>2. t \notin gc.tokens
      BY <1>4, <3>1 DEF GcUncaches, SweptAreExpired, RanOut
    <3> QED
      BY <2>1, <3>1, <3>2
  <2> QED
    BY <1>0, <1>2, <2>2, <2>3, <2>4, <2>5
<1>5. CASE GcRemoves
  <2>1. \A t \in Token : disk'[t] \in {disk[t], None}
    BY <1>5, RemovedTyped DEF GcRemoves
  <2>2. SweptAreExpired'
    BY <1>5 DEF GcRemoves, SweptAreExpired, NoSweep
  <2>3. MintsAreNew' /\ CopiesAgree'
    BY <1>5, <2>1 DEF GcRemoves, MintsAreNew, Minting, CopiesAgree
  <2>4. RevokedAreGone' /\ StoredAreCached'
    BY <1>5, <2>1 DEF GcRemoves, RevokedAreGone, StoredAreCached, Live
  <2> QED
    BY <1>0, <1>2, <2>2, <2>3, <2>4
<1> QED
  BY <1>3, <1>4, <1>5 DEF Gc

(* A request that goes on, or ends, without a change to the tables.        *)
LEMMA GoesTokens ==
    ASSUME TokensInv, NEW r \in Request, NEW k \in Calls, Goes(r, k),
           phase = "up", k.pc \notin {"minting", "revoking"},
           \A t \in Token : Holds(k, t) => issued[t] # None
    PROVE  TokensInv'
<1> USE DEF TokensInv
<1>0. /\ TypeOK' /\ request'[r] = k
      /\ \A q \in Request : q # r => request'[q] = request[q]
  BY GoesTyped, BecomesTyped DEF Goes
<1>1. UNCHANGED <<clock, phase, users, disk, cache, gc, hashes, issued, revoked, over>>
  BY DEF Goes, Same
<1>2. QuietUnlessUp'
  BY <1>1 DEF QuietUnlessUp
<1>3. BearersAreIssued'
  BY <1>0, <1>1 DEF BearersAreIssued
<1>4. MintsAreNew'
  BY <1>0, <1>1 DEF MintsAreNew, Minting
<1>5. CopiesAgree' /\ StoredAreCached'
  BY <1>1 DEF CopiesAgree, StoredAreCached, Live
<1>6. RevokedAreGone'
  BY <1>0, <1>1 DEF RevokedAreGone
<1>7. SweptAreExpired'
  BY <1>1 DEF SweptAreExpired, RanOut, Live
<1> QED
  BY <1>0, <1>2, <1>3, <1>4, <1>5, <1>6, <1>7

LEMMA NoBearer ==
    ASSUME NEW k \in Calls, k.pc = "waiting"
    PROVE  \A t \in Token : ~Holds(k, t)
BY DEF Holds

LEMMA NotWaiting ==
    ASSUME QuietUnlessUp, NEW r \in Request, request[r].pc # "waiting"
    PROVE  phase = "up"
BY DEF QuietUnlessUp, Waiting

LEMMA SweepOneTokens ==
    ASSUME TokensInv, NEW r \in Request, SweepOne(r)
    PROVE  TokensInv'
<1> USE DEF TokensInv
<1> DEFINE s == request[r].token
<1>1. /\ TypeOK' /\ phase = "up" /\ s \in Token /\ issued[s] # None
      /\ UNCHANGED <<clock, phase, users, gc, hashes, issued, revoked, over>>
  <2>1. request[r].pc = "expired" /\ s \in Token
    BY SweepOneDoes
  <2>2. issued[s] # None
    BY <2>1 DEF BearersAreIssued, Holds
  <2>3. TypeOK' /\ phase = "up"
    BY <2>1, StepTyped, NotWaiting DEF Step, Handle
  <2> QED
    BY <2>1, <2>2, <2>3 DEF SweepOne
<1>2. request'[r] = Waiting /\ \A q \in Request : q # r => request'[q] = request[q]
  BY SweepOneDoes, CallMade, BecomesTyped
<1>3. \A t \in Token : disk'[t] \in {disk[t], None}
  BY SweepOneDoes, RemovedTyped
<1>4. \A t \in Token : cache'[t] = IF t = s /\ ~Live(cache[s]) THEN None ELSE cache[t]
  <2>1. cache \in [Token -> Entry \cup {None}]
    BY DEF TypeOK
  <2>2. cache' = IF Live(cache[s]) THEN cache ELSE Without(cache, {s})
    BY SweepOneDoes
  <2> QED
    BY <2>1, <2>2, WithoutTyped
<1> HIDE DEF s
<1>5. QuietUnlessUp' /\ BearersAreIssued'
  BY <1>1, <1>2 DEF QuietUnlessUp, BearersAreIssued, Holds, Waiting
<1>6. MintsAreNew'
  BY <1>1, <1>2, <1>3, <1>4 DEF MintsAreNew, Minting, Waiting
<1>7. CopiesAgree'
  BY <1>1, <1>3, <1>4 DEF CopiesAgree
<1>8. RevokedAreGone'
  BY <1>1, <1>2, <1>3, <1>4 DEF RevokedAreGone, Waiting
<1>9. SweptAreExpired'
  <2> SUFFICES ASSUME gc.pc = "found", NEW t \in gc.tokens
               PROVE  RanOut(cache, t)' \/ RanOut(issued, t)'
    BY <1>1 DEF SweptAreExpired
  <2>1. t \in Token
    BY SweepTyped
  <2>2. RanOut(cache, t) \/ RanOut(issued, t)
    BY DEF SweptAreExpired
  <2>3. RanOut(cache, t) /\ issued[t] # None => RanOut(issued, t)
    BY <2>1 DEF CopiesAgree, RanOut
  <2> QED
    BY <1>1, <1>4, <2>1, <2>2, <2>3 DEF RanOut, Live
<1>10. StoredAreCached'
  <2> SUFFICES ASSUME NEW t \in Token, issued[t] # None, Live(issued[t]), disk[t] # None,
                      revoked[t] = "no"
               PROVE  cache'[t] = issued[t]
    BY <1>1, <1>3 DEF StoredAreCached, Live
  <2>1. cache[t] = issued[t]
    BY <1>1 DEF StoredAreCached
  <2> QED
    BY <1>4, <2>1
<1> QED
  BY <1>1, <1>5, <1>6, <1>7, <1>8, <1>9, <1>10

LEMMA MintPersistsTokens ==
    ASSUME TokensInv, NEW r \in Request, MintPersists(r)
    PROVE  TokensInv'
<1> USE DEF TokensInv
<1>1. PICK s \in Token \ Used, entry \in Entry :
        /\ request[r].pc = "admitted"
        /\ disk' \in {disk, [disk EXCEPT ![s] = entry]}
        /\ Becomes(r, [pc |-> "minting", token |-> s, entry |-> entry])
  BY MintPersistsDoes
<1>2. /\ TypeOK' /\ phase = "up"
      /\ UNCHANGED <<clock, phase, users, cache, gc, hashes, issued, revoked, over>>
  BY <1>1, StepTyped, NotWaiting DEF Step, Handle, MintPersists
<1>3. /\ request'[r] = [pc |-> "minting", token |-> s, entry |-> entry]
      /\ \A q \in Request : q # r => request'[q] = request[q]
  BY <1>1, CallMade, BecomesTyped
<1>4. /\ disk[s] = None /\ cache[s] = None /\ issued[s] = None
      /\ \A q \in Request : ~Minting(q, s)
  BY DEF Used, Minting
<1>5. /\ \A t \in Token : t # s => disk'[t] = disk[t]
      /\ disk'[s] \in {None, entry}
  BY <1>1, <1>4 DEF TypeOK
<1>6. QuietUnlessUp' /\ BearersAreIssued'
  BY <1>2, <1>3 DEF QuietUnlessUp, BearersAreIssued, Holds
<1>7. MintsAreNew'
  <2> SUFFICES ASSUME NEW q \in Request, NEW t \in Token, Minting(q, t)'
               PROVE  /\ issued[t] = None /\ cache[t] = None
                      /\ disk'[t] \in {None, request'[q].entry}
                      /\ \A p \in Request : Minting(p, t)' => p = q
    BY <1>2 DEF MintsAreNew
  <2>1. CASE q = r
    <3>1. t = s /\ request'[q].entry = entry
      BY <1>3, <2>1 DEF Minting
    <3> QED
      BY <1>3, <1>4, <1>5, <2>1, <3>1 DEF Minting
  <2>2. CASE q # r
    <3>1. Minting(q, t) /\ t # s
      BY <1>3, <1>4, <2>2 DEF Minting
    <3>2. \A p \in Request : Minting(p, t)' => Minting(p, t)
      BY <1>3, <3>1 DEF Minting
    <3> QED
      BY <1>3, <1>5, <2>2, <3>1, <3>2 DEF MintsAreNew
  <2> QED
    BY <2>1, <2>2
<1>8. CopiesAgree'
  BY <1>2, <1>4, <1>5 DEF CopiesAgree
<1>9. RevokedAreGone'
  BY <1>2, <1>3, <1>4, <1>5 DEF RevokedAreGone
<1>10. SweptAreExpired'
  BY <1>2 DEF SweptAreExpired, RanOut, Live
<1>11. StoredAreCached'
  BY <1>2, <1>4, <1>5 DEF StoredAreCached, Live
<1> QED
  BY <1>2, <1>6, <1>7, <1>8, <1>9, <1>10, <1>11

LEMMA MintCachesTokens ==
    ASSUME TokensInv, NEW r \in Request, MintCaches(r)
    PROVE  TokensInv'
<1> USE DEF TokensInv
<1> DEFINE s == request[r].token
           entry == request[r].entry
<1>1. /\ TypeOK' /\ phase = "up" /\ s \in Token /\ Minting(r, s) /\ entry \in Entry
      /\ UNCHANGED <<clock, phase, users, disk, gc, hashes, revoked, over>>
  BY MintCachesDoes, StepTyped, NotWaiting DEF Step, Handle, MintCaches, Minting
<1>2. request'[r] = Waiting /\ \A q \in Request : q # r => request'[q] = request[q]
  BY MintCachesDoes, CallMade, BecomesTyped
<1>3. /\ cache'[s] = entry /\ issued'[s] = entry /\ entry # None
      /\ \A t \in Token : t # s => cache'[t] = cache[t] /\ issued'[t] = issued[t]
  BY <1>1, MintCachesDoes, NoneIsNothing DEF TypeOK
<1>4. /\ issued[s] = None /\ cache[s] = None /\ disk[s] \in {None, entry}
      /\ \A q \in Request : q # r => ~Minting(q, s)
  BY <1>1 DEF MintsAreNew
<1>5. revoked[s] = "no"
  BY <1>1, <1>4 DEF RevokedAreGone
<1> HIDE DEF s, entry
<1>6. QuietUnlessUp' /\ BearersAreIssued'
  BY <1>1, <1>2, <1>3 DEF QuietUnlessUp, BearersAreIssued, Holds, Waiting
<1>7. MintsAreNew'
  <2> SUFFICES ASSUME NEW q \in Request, NEW t \in Token, Minting(q, t)'
               PROVE  /\ issued'[t] = None /\ cache'[t] = None
                      /\ disk[t] \in {None, request'[q].entry}
                      /\ \A p \in Request : Minting(p, t)' => p = q
    BY <1>1 DEF MintsAreNew
  <2>1. q # r /\ Minting(q, t) /\ t # s
    BY <1>2, <1>4 DEF Minting, Waiting
  <2>2. \A p \in Request : Minting(p, t)' => Minting(p, t)
    BY <1>2 DEF Minting, Waiting
  <2> QED
    BY <1>2, <1>3, <2>1, <2>2 DEF MintsAreNew
<1>8. CopiesAgree'
  BY <1>1, <1>3, <1>4 DEF CopiesAgree
<1>9. RevokedAreGone'
  <2> SUFFICES ASSUME NEW t \in Token
               PROVE  /\ revoked[t] # "no" => issued'[t] # None
                      /\ revoked[t] = "removed" => cache'[t] = None /\ disk[t] = None
                      /\ \A q \in Request :
                           (request'[q].pc = "revoking" /\ t \in request'[q].bearer)
                               => cache'[t] = None /\ revoked[t] # "no"
    BY <1>1 DEF RevokedAreGone
  <2>1. CASE t = s
    BY <1>2, <1>4, <1>5, <2>1 DEF BearersAreIssued, Holds, Waiting
  <2>2. CASE t # s
    BY <1>2, <1>3, <2>2 DEF RevokedAreGone, Waiting
  <2> QED
    BY <2>1, <2>2
<1>10. SweptAreExpired'
  <2> SUFFICES ASSUME gc.pc = "found", NEW t \in gc.tokens
               PROVE  RanOut(cache, t)' \/ RanOut(issued, t)'
    BY <1>1 DEF SweptAreExpired
  <2>1. t \in Token /\ t # s
    BY <1>4, SweepTyped DEF SweptAreExpired, RanOut
  <2> QED
    BY <1>1, <1>3, <2>1 DEF SweptAreExpired, RanOut, Live
<1>11. StoredAreCached'
  BY <1>1, <1>3 DEF StoredAreCached, Live
<1> QED
  BY <1>1, <1>6, <1>7, <1>8, <1>9, <1>10, <1>11

LEMMA RevokeUncachesTokens ==
    ASSUME TokensInv, NEW r \in Request, RevokeUncaches(r)
    PROVE  TokensInv'
<1> USE DEF TokensInv
<1> DEFINE B == request[r].bearer
<1>1. /\ TypeOK' /\ phase = "up" /\ B \in SUBSET Token
      /\ \A t \in B : issued[t] # None
      /\ UNCHANGED <<clock, phase, users, disk, gc, hashes, issued, over>>
  <2>1. request[r].pc = "admitted" /\ B \in SUBSET Token
    BY RevokeUncachesDoes
  <2>2. \A t \in B : issued[t] # None
    BY <2>1 DEF BearersAreIssued, Holds
  <2> QED
    BY <2>1, <2>2, StepTyped, NotWaiting DEF Step, Handle, RevokeUncaches
<1>2. PICK k \in {Waiting, [pc |-> "revoking", bearer |-> B]} : k \in Calls /\ Becomes(r, k)
  BY RevokeUncachesDoes
<1>3. request'[r] = k /\ \A q \in Request : q # r => request'[q] = request[q]
  BY <1>2, BecomesTyped
<1>4. \A t \in Token : cache'[t] = IF t \in B THEN None ELSE cache[t]
  <2>1. cache \in [Token -> Entry \cup {None}]
    BY DEF TypeOK
  <2>2. cache' = Without(cache, B)
    BY RevokeUncachesDoes
  <2> QED
    BY <2>1, <2>2, WithoutTyped
<1>5. \A t \in Token : revoked'[t] = IF t \in B THEN "asked" ELSE revoked[t]
  BY RevokeUncachesDoes DEF Marked
<1>6. k.pc \in {"waiting", "revoking"} /\ (k.pc = "revoking" => k.bearer = B)
  BY <1>2 DEF Waiting
<1> HIDE DEF B
<1>7. QuietUnlessUp' /\ BearersAreIssued'
  BY <1>1, <1>3, <1>6 DEF QuietUnlessUp, BearersAreIssued, Holds
<1>8. MintsAreNew'
  BY <1>1, <1>3, <1>4, <1>6 DEF MintsAreNew, Minting
<1>9. CopiesAgree'
  BY <1>1, <1>4 DEF CopiesAgree
<1>10. RevokedAreGone'
  <2> SUFFICES ASSUME NEW t \in Token
               PROVE  /\ revoked'[t] # "no" => issued[t] # None
                      /\ revoked'[t] = "removed" => cache'[t] = None /\ disk[t] = None
                      /\ \A q \in Request :
                           (request'[q].pc = "revoking" /\ t \in request'[q].bearer)
                               => cache'[t] = None /\ revoked'[t] # "no"
    BY <1>1 DEF RevokedAreGone
  <2>1. revoked'[t] # "no" => issued[t] # None
    BY <1>1, <1>5 DEF RevokedAreGone
  <2>2. revoked'[t] = "removed" => cache'[t] = None /\ disk[t] = None
    BY <1>4, <1>5 DEF RevokedAreGone
  <2>3. ASSUME NEW q \in Request, request'[q].pc = "revoking", t \in request'[q].bearer
        PROVE  cache'[t] = None /\ revoked'[t] # "no"
    BY <1>3, <1>4, <1>5, <1>6, <2>3 DEF RevokedAreGone
  <2> QED
    BY <2>1, <2>2, <2>3
<1>11. SweptAreExpired'
  <2> SUFFICES ASSUME gc.pc = "found", NEW t \in gc.tokens
               PROVE  RanOut(cache, t)' \/ RanOut(issued, t)'
    BY <1>1 DEF SweptAreExpired
  <2>1. t \in Token
    BY SweepTyped
  <2>2. RanOut(cache, t) \/ RanOut(issued, t)
    BY DEF SweptAreExpired
  <2>3. RanOut(cache, t) /\ issued[t] # None => RanOut(issued, t)
    BY <2>1 DEF CopiesAgree, RanOut
  <2> QED
    BY <1>1, <1>4, <2>1, <2>2, <2>3 DEF RanOut, Live
<1>12. StoredAreCached'
  <2> SUFFICES ASSUME NEW t \in Token, issued[t] # None, Live(issued[t]), disk[t] # None,
                      revoked'[t] = "no"
               PROVE  cache'[t] = issued[t]
    BY <1>1 DEF StoredAreCached, Live
  <2>1. t \notin B /\ revoked[t] = "no"
    BY <1>5
  <2> QED
    BY <1>1, <1>4, <2>1 DEF StoredAreCached
<1> QED
  BY <1>1, <1>7, <1>8, <1>9, <1>10, <1>11, <1>12

LEMMA RevokeRemovesTokens ==
    ASSUME TokensInv, NEW r \in Request, RevokeRemoves(r)
    PROVE  TokensInv'
<1> USE DEF TokensInv
<1> DEFINE B == request[r].bearer
<1>1. /\ TypeOK' /\ phase = "up" /\ B \in SUBSET Token
      /\ \A t \in B : issued[t] # None /\ cache[t] = None
      /\ UNCHANGED <<clock, phase, users, cache, gc, hashes, issued, over>>
  <2>1. request[r].pc = "revoking" /\ B \in SUBSET Token
    BY RevokeRemovesDoes
  <2>2. \A t \in B : issued[t] # None /\ cache[t] = None
    BY <2>1 DEF BearersAreIssued, Holds, RevokedAreGone
  <2> QED
    BY <2>1, <2>2, StepTyped, NotWaiting DEF Step, Handle, RevokeRemoves
<1>2. request'[r] = Waiting /\ \A q \in Request : q # r => request'[q] = request[q]
  BY RevokeRemovesDoes, CallMade, BecomesTyped
<1>3. \A t \in Token : disk'[t] = IF t \in B THEN None ELSE disk[t]
  <2>1. disk \in [Token -> Entry \cup {None}]
    BY DEF TypeOK
  <2> QED
    BY <2>1, RevokeRemovesDoes, WithoutTyped
<1>4. \A t \in Token : revoked'[t] = IF t \in B THEN "removed" ELSE revoked[t]
  BY RevokeRemovesDoes DEF Marked
<1> HIDE DEF B
<1>5. QuietUnlessUp' /\ BearersAreIssued'
  BY <1>1, <1>2 DEF QuietUnlessUp, BearersAreIssued, Holds, Waiting
<1>6. MintsAreNew'
  BY <1>1, <1>2, <1>3 DEF MintsAreNew, Minting, Waiting
<1>7. CopiesAgree'
  BY <1>1, <1>3 DEF CopiesAgree
<1>8. RevokedAreGone'
  BY <1>1, <1>2, <1>3, <1>4 DEF RevokedAreGone, Waiting
<1>9. SweptAreExpired'
  BY <1>1 DEF SweptAreExpired, RanOut, Live
<1>10. StoredAreCached'
  BY <1>1, <1>3, <1>4 DEF StoredAreCached, Live
<1> QED
  BY <1>1, <1>5, <1>6, <1>7, <1>8, <1>9, <1>10

LEMMA StepTokens ==
    ASSUME TokensInv, NEW r \in Request, Step(r)
    PROVE  TokensInv'
<1> USE DEF TokensInv
<1>1. ASSUME NEW n \in Name, NEW path \in Path, Basic(r, n, path) PROVE TokensInv'
  <2>1. PICK k \in Calls : /\ Goes(r, k) /\ phase = "up" /\ k.pc \in {"waiting", "admitted"}
                           /\ k.pc = "admitted" => k.bearer = {}
    BY <1>1, BasicGoes
  <2>2. \A t \in Token : ~Holds(k, t)
    BY <2>1 DEF Holds
  <2> QED
    BY <2>1, <2>2, GoesTokens
<1>2. ASSUME NEW t \in Token, NEW path \in Path, Bearer(r, t, path) PROVE TokensInv'
  BY <1>2, BearerGoes, GoesTokens
<1>3. CASE Resolve(r)
  <2>1. PICK k \in Calls : /\ Goes(r, k) /\ k.pc \in {"waiting", "admitted"}
                           /\ k.pc = "admitted" => k.bearer = request[r].bearer
    BY <1>3, ResolveGoes
  <2>2. phase = "up" /\ \A t \in Token : Holds(k, t) => Holds(request[r], t)
    BY <1>3, <2>1, ResolveGoes, NotWaiting DEF Holds
  <2> QED
    BY <2>1, <2>2, GoesTokens DEF BearersAreIssued
<1>4. CASE Serve(r) \/ MintRefuses(r) \/ RevokeFails(r)
  <2>1. phase = "up"
    BY <1>4, NotWaiting DEF Serve, MintRefuses, RevokeFails
  <2>2. Waiting \in Calls /\ Waiting.pc = "waiting"
    BY CallMade DEF Waiting
  <2> QED
    BY <1>4, <2>1, <2>2, EndsGo, NoBearer, GoesTokens
<1> QED
  BY <1>1, <1>2, <1>3, <1>4, SweepOneTokens, MintPersistsTokens, MintCachesTokens,
     RevokeUncachesTokens, RevokeRemovesTokens DEF Step, Authenticate, Handle

LEMMA TokensKept == TokensInv /\ [Next]_vars => TokensInv'
<1> SUFFICES ASSUME TokensInv, [Next]_vars PROVE TokensInv'
  OBVIOUS
<1>1. TypeOK'
  BY TypeKept DEF TokensInv
<1>2. CASE UNCHANGED vars
  BY <1>1, <1>2, UsersApart DEF vars
<1>3. CASE Cli
  BY <1>1, <1>3, UsersApart DEF Cli
<1> QED
  BY <1>2, <1>3, ServerTokens, TickTokens, GcTokens, StepTokens DEF Next

LEMMA TokensAlways == Spec => []TokensInv
BY InitTokens, TokensKept, PTL DEF Spec

(* A token in LMDB that a client was given, that has not run out and that  *)
(* nobody asked to revoke is accepted whenever the server is up, as it was *)
(* minted: whatever the sweep, the second look at an expired token, other  *)
(* requests and restarts do, in any order.                                 *)
THEOREM TokensKeptCorrect == Spec => []TokensAreKept
<1>1. TokensInv => TokensAreKept
  BY DEF TokensInv, CopiesAgree, StoredAreCached, TokensAreKept
<1> QED
  BY <1>1, TokensAlways, PTL

(* Once its revocation has reached LMDB no request and no restart brings a *)
(* token back: in particular not a minting, or a load, under way.          *)
THEOREM RevokedCorrect == Spec => []RevokedIsRevoked
<1>1. TokensInv => RevokedIsRevoked
  BY DEF TokensInv, RevokedAreGone, RevokedIsRevoked
<1> QED
  BY <1>1, TokensAlways, PTL

-----------------------------------------------------------------------------
(* The credentials.                                                        *)

LEMMA InitCredentials == Init => CredentialsInv
<1> SUFFICES ASSUME Init PROVE CredentialsInv
  OBVIOUS
<1>1. HashesAreFresh
  BY DEF Init, HashesAreFresh
<1>2. AdmittedWereAuthorized
  BY DEF Init, AdmittedWereAuthorized, Waiting
<1> QED
  BY <1>1, <1>2, InitTyped DEF CredentialsInv

(* A record that was hashed just now; one that goes.                       *)
LEMMA HashFresh ==
    ASSUME TypeOK, HashesAreFresh, NEW n \in Name, NEW scope \in Scope, NEW created \in Time,
           hashes' = hashes + 1, users' = [users EXCEPT ![n] = Hashed(n, scope, created)],
           over' \in {over} \cup {over \cup {users[n].hash}},
           over' # over => users[n] # None,
           users[n] # None => over' # over
    PROVE  HashesAreFresh'
<1>1. hashes \in Nat
  BY SessionsAssumption DEF TypeOK
<1>2. /\ users'[n].name = n /\ users'[n].hash = hashes + 1
      /\ \A m \in Name : m # n => users'[m] = users[m]
  BY DEF TypeOK, Hashed
<1>3. \A m \in Name : users[m] # None => users[m].hash \in 1 .. hashes
  <2> SUFFICES ASSUME NEW m \in Name, users[m] # None PROVE users[m].hash \in 1 .. hashes
    OBVIOUS
  <2>1. users[m] \in User
    BY DEF TypeOK
  <2>2. users[m].hash \in 1 .. MaxHash /\ users[m].hash <= hashes
    BY <2>1 DEF HashesAreFresh, User
  <2> QED
    BY <1>1, <2>2, SessionsAssumption
<1>4. over' \subseteq 1 .. hashes'
  BY <1>1, <1>3 DEF HashesAreFresh
<1>5. \A m \in Name : m # n /\ users[m] # None => users[m].hash \notin over'
  BY DEF HashesAreFresh
<1>6. hashes + 1 \notin over'
  BY <1>1, <1>3 DEF HashesAreFresh
<1>7. ASSUME NEW m \in Name, users'[m] # None
      PROVE  /\ users'[m].name = m
             /\ users'[m].hash <= hashes' /\ users'[m].hash \notin over'
             /\ \A l \in Name : (users'[l] # None /\ users'[l].hash = users'[m].hash) => l = m
  <2>1. CASE m = n
    BY <1>1, <1>2, <1>3, <1>6, <2>1
  <2>2. CASE m # n
    BY <1>1, <1>2, <1>3, <1>5, <1>7, <2>2 DEF HashesAreFresh
  <2> QED
    BY <2>1, <2>2
<1> QED
  BY <1>4, <1>7 DEF HashesAreFresh

LEMMA CliFresh ==
    ASSUME TypeOK, HashesAreFresh, Cli
    PROVE  HashesAreFresh'
<1>1. PICK n \in Name : \/ \E scope \in Scope : create(n, scope)
                        \/ set_password(n)
                        \/ delete(n)
  BY DEF Cli
<1>2. users[n] # None => /\ users[n].scope \in Scope /\ users[n].created \in Time
                         /\ users[n].hash <= hashes /\ users[n].hash \notin over
                         /\ users[n].hash \in 1 .. MaxHash
  <2>1. users[n] # None => users[n] \in User
    BY DEF TypeOK
  <2> QED
    BY <2>1 DEF HashesAreFresh, User
<1>3. CASE \E scope \in Scope : create(n, scope)
  <2>1. PICK scope \in Scope : create(n, scope)
    BY <1>3
  <2>2. users[n] = None /\ clock \in Time
    BY <2>1 DEF create, TypeOK
  <2> QED
    BY <2>1, <2>2, CreateTyped, HashFresh
<1>4. CASE set_password(n)
  <2>1. users[n] # None
    BY <1>4 DEF set_password
  <2>2. over' # over
    BY <1>2, <1>4, <2>1, SetPasswordTyped
  <2> QED
    BY <1>2, <1>4, <2>1, <2>2, SetPasswordTyped, HashFresh
<1>5. CASE delete(n)
  <2>1. users[n] # None
    BY <1>5 DEF delete
  <2>2. hashes' = hashes /\ over' = over \cup {users[n].hash}
    BY <1>5, DeleteTyped
  <2>3. users'[n] = None /\ \A m \in Name : m # n => users'[m] = users[m]
    BY <1>5, DeleteTyped DEF TypeOK
  <2>4. hashes \in Nat
    BY SessionsAssumption DEF TypeOK
  <2>5. over' \subseteq 1 .. hashes'
    <3>1. users[n].hash \in 1 .. hashes
      BY <1>2, <2>1, <2>4, SessionsAssumption
    <3>2. over \subseteq 1 .. hashes
      BY DEF HashesAreFresh
    <3> QED
      BY <2>2, <3>1, <3>2
  <2>6. ASSUME NEW m \in Name, users'[m] # None
        PROVE  /\ users'[m].name = m
               /\ users'[m].hash <= hashes' /\ users'[m].hash \notin over'
               /\ \A l \in Name : (users'[l] # None /\ users'[l].hash = users'[m].hash) => l = m
    <3>1. m # n /\ users'[m] = users[m]
      BY <2>3, <2>6
    <3> QED
      BY <2>1, <2>2, <2>3, <2>6, <3>1 DEF HashesAreFresh
  <2> QED
    BY <2>5, <2>6 DEF HashesAreFresh
<1> QED
  BY <1>1, <1>3, <1>4, <1>5

LEMMA NextFresh ==
    ASSUME TypeOK, HashesAreFresh, [Next]_vars
    PROVE  HashesAreFresh'
<1>1. CASE UNCHANGED <<users, hashes, over>>
  BY <1>1 DEF HashesAreFresh
<1>2. CASE BootstrapCreates /\ users[Admin] = None
  <2>1. create(Admin, "root") /\ clock \in Time /\ Admin \in Name /\ "root" \in Scope
    BY <1>2, SessionsAssumption DEF BootstrapCreates, TypeOK, Scope
  <2> QED
    BY <1>2, <2>1, CreateTyped, HashFresh
<1>3. CASE BootstrapCreates /\ users[Admin] # None
  BY <1>1, <1>3 DEF BootstrapCreates
<1>4. CASE Server \/ Tick \/ Gc \/ UNCHANGED vars
  BY <1>1, <1>2, <1>3, <1>4
     DEF Server, Load, BootstrapLooks, Stop, Tick, Gc, GcLooks, GcUncaches, GcRemoves, vars
<1>5. ASSUME NEW r \in Request, Step(r) PROVE UNCHANGED <<users, hashes, over>>
  BY <1>5 DEF Step, Authenticate, Basic, Bearer, Handle, SweepOne, Resolve, Serve,
     MintPersists, MintCaches, MintRefuses, RevokeUncaches, RevokeRemoves, RevokeFails, Same
<1> QED
  BY <1>1, <1>4, <1>5, CliFresh DEF Next

(* A request is admitted with what Admitted lets through.                  *)
LEMMA AdmittedOnes ==
    ASSUME NEW user \in User, NEW bearer \in SUBSET Token, NEW path \in Path,
           Admitted(user, bearer, path).pc = "admitted"
    PROVE  LET k == Admitted(user, bearer, path)
           IN /\ k.user = user
              /\ k.path.route \in {"mint", "revoke"} \/ is_authorized(k.user.scope, k.path)
BY DEF Admitted, Waiting

LEMMA StepAuthorized ==
    ASSUME TypeOK, AdmittedWereAuthorized, NEW r \in Request, Step(r)
    PROVE  AdmittedWereAuthorized'
<1> DEFINE Fits(k) == k.pc = "admitted" => \/ k.path.route \in {"mint", "revoke"}
                                           \/ is_authorized(k.user.scope, k.path)
<1>1. ASSUME NEW k \in Calls, Becomes(r, k), Fits(k) PROVE AdmittedWereAuthorized'
  <2>1. request'[r] = k /\ \A q \in Request : q # r => request'[q] = request[q]
    BY <1>1, BecomesTyped
  <2> QED
    BY <1>1, <2>1 DEF AdmittedWereAuthorized
<1>2. ASSUME NEW k \in Calls, Becomes(r, k), k.pc # "admitted" PROVE AdmittedWereAuthorized'
  BY <1>1, <1>2
<1> HIDE DEF Fits
<1>3. ASSUME NEW n \in Name, NEW path \in Path, Basic(r, n, path)
      PROVE  AdmittedWereAuthorized'
  <2>1. PICK k \in Calls : Goes(r, k) /\ k = Admitted(users[n], {}, path) /\ users[n] \in User
    BY <1>3, BasicGoes
  <2>2. Fits(k)
    BY <2>1, AdmittedOnes DEF Fits
  <2> QED
    BY <1>1, <2>1, <2>2 DEF Goes
<1>4. ASSUME NEW t \in Token, NEW path \in Path, Bearer(r, t, path)
      PROVE  AdmittedWereAuthorized'
  <2>1. PICK k \in Calls : Goes(r, k) /\ k.pc \in {"issued", "expired"}
    BY <1>4, BearerGoes
  <2> QED
    BY <1>2, <2>1 DEF Goes
<1>5. CASE Resolve(r)
  <2>1. PICK k \in Calls :
          /\ Goes(r, k)
          /\ k.pc = "admitted" =>
               LET user == request[r].user
               IN /\ k = Admitted(users[user.name], request[r].bearer, request[r].path)
                  /\ users[user.name] \in User
    BY <1>5, ResolveGoes
  <2>2. request[r].bearer \in SUBSET Token /\ request[r].path \in Path
    BY <1>5, ResolveGoes, CallFields
  <2>3. Fits(k)
    BY <2>1, <2>2, AdmittedOnes DEF Fits
  <2> QED
    BY <1>1, <2>1, <2>3 DEF Goes
<1>6. CASE \/ Serve(r) \/ MintRefuses(r) \/ RevokeFails(r) \/ SweepOne(r) \/ MintCaches(r)
           \/ RevokeRemoves(r)
  <2>1. Becomes(r, Waiting)
    BY <1>6 DEF Serve, MintRefuses, RevokeFails, SweepOne, MintCaches, RevokeRemoves
  <2> QED
    BY <1>2, <2>1, CallMade DEF Waiting
<1>7. CASE MintPersists(r)
  <2>1. PICK t \in Token, entry \in Entry :
          Becomes(r, [pc |-> "minting", token |-> t, entry |-> entry])
    BY <1>7, MintPersistsDoes
  <2> QED
    BY <1>2, <2>1, CallMade
<1>8. CASE RevokeUncaches(r)
  <2>1. PICK k \in {Waiting, [pc |-> "revoking", bearer |-> request[r].bearer]} :
          k \in Calls /\ Becomes(r, k)
    BY <1>8, RevokeUncachesDoes
  <2> QED
    BY <1>2, <2>1 DEF Waiting
<1> QED
  BY <1>3, <1>4, <1>5, <1>6, <1>7, <1>8 DEF Step, Authenticate, Handle

LEMMA CredentialsKept == CredentialsInv /\ [Next]_vars => CredentialsInv'
<1> SUFFICES ASSUME CredentialsInv, [Next]_vars PROVE CredentialsInv'
  OBVIOUS
<1> USE DEF CredentialsInv
<1>1. TypeOK' /\ HashesAreFresh'
  BY TypeKept, NextFresh
<1>2. CASE request' = request
  BY <1>1, <1>2 DEF AdmittedWereAuthorized
<1>3. CASE Stop
  BY <1>1, <1>3 DEF Stop, AdmittedWereAuthorized, Waiting
<1>4. CASE Cli \/ Server \/ Tick \/ Gc \/ UNCHANGED vars
  BY <1>2, <1>3, <1>4 DEF Cli, Server, Load, BootstrapLooks, BootstrapCreates, Tick,
     Gc, GcLooks, GcUncaches, GcRemoves, vars
<1> QED
  BY <1>1, <1>4, StepAuthorized DEF Next

LEMMA CredentialsAlways == Spec => []CredentialsInv
BY InitCredentials, CredentialsKept, PTL DEF Spec

(* A request admitted with the scope of one database reaches the data of   *)
(* no other, and no log its policy keeps from users: the classification of *)
(* a route and what the route then touches agree, for every route.         *)
THEOREM ScopeCorrect == Spec => []ScopeIsKept
<1>1. ASSUME CredentialsInv PROVE ScopeIsKept
  <2> SUFFICES ASSUME NEW r \in Request, request[r].pc = "admitted",
                      request[r].user.scope # "root"
               PROVE  LET scope == request[r].user.scope
                          reached == touches(request[r].path)
                      IN /\ reached.data \subseteq {scope}
                         /\ reached.log \subseteq {scope} \cap OpenLog
    BY DEF ScopeIsKept
  <2> DEFINE path == request[r].path
             scope == request[r].user.scope
  <2>1. path \in Path /\ (path.route \in {"mint", "revoke"} \/ is_authorized(scope, path))
    <3>1. request[r] \in Calls
      BY <1>1 DEF CredentialsInv, TypeOK
    <3> QED
      BY <1>1, <3>1, CallFields DEF CredentialsInv, AdmittedWereAuthorized
  <2>2. path.route \in {"data", "audit", "databases", "unscoped", "vec", "mint", "revoke"}
    BY <2>1 DEF Path
  <2> HIDE DEF path, scope
  <2>3. scope # "root"
    BY DEF scope
  <2>4. touches(path).data \subseteq {scope} /\ touches(path).log \subseteq {scope} \cap OpenLog
    BY <2>1, <2>2, <2>3 DEF touches, is_authorized
  <2> QED
    BY <2>4 DEF path, scope
<1> QED
  BY <1>1, CredentialsAlways, PTL

(* A bearer's token admits a request only while the password it was issued *)
(* under is the user's: no token, and no minting under way, survives a     *)
(* change of password or the removal of its user, who may be created again.*)
THEOREM OldCredentialsCorrect == Spec => OldCredentialsAreRefused
<1>1. ASSUME CredentialsInv, [Next]_vars PROVE [BearerIsCurrent]_vars
  <2> USE DEF CredentialsInv
  <2> SUFFICES ASSUME NEW r \in Request, request[r].pc = "issued", request'[r].pc = "admitted"
               PROVE  request[r].user.hash \notin over
    BY DEF BearerIsCurrent
  <2>1. Resolve(r)
    <3>1. PICK q \in Request : Step(q)
      BY <1>1 DEF Next, Cli, Server, Load, BootstrapLooks, BootstrapCreates, Stop, Tick,
         Gc, GcLooks, GcUncaches, GcRemoves, vars, Waiting
    <3>2. q = r
      BY <1>1, <3>1 DEF Step, Authenticate, Basic, Bearer, Handle, SweepOne, Resolve, Serve,
         MintPersists, MintCaches, MintRefuses, RevokeUncaches, RevokeRemoves, RevokeFails,
         Becomes, TypeOK
    <3> QED
      BY <3>1, <3>2 DEF Step, Authenticate, Basic, Bearer, Handle, SweepOne, Serve,
         MintPersists, MintCaches, MintRefuses, RevokeUncaches, RevokeRemoves, RevokeFails
  <2>2. PICK k \in Calls :
          /\ Becomes(r, k)
          /\ k.pc = "admitted" => same_user(users[request[r].user.name], request[r].user)
    BY <1>1, <2>1, ResolveGoes DEF Goes
  <2>3. k.pc = "admitted"
    BY <1>1, <2>2, BecomesTyped
  <2>4. request[r].user.name \in Name
    <3>1. request[r] \in Calls
      BY <1>1 DEF TypeOK
    <3> QED
      BY <3>1, CallFields DEF User
  <2> QED
    BY <1>1, <2>2, <2>3, <2>4 DEF HashesAreFresh, same_user
<1> QED
  BY <1>1, CredentialsAlways, PTL DEF Spec, OldCredentialsAreRefused

===============================================================================
