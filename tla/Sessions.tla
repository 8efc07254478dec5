------------------------------ MODULE Sessions ------------------------------
(***************************************************************************)
(* Who may do what on a server: the users in LMDB, which the CLI changes   *)
(* from processes of its own; the session tokens in LMDB and in a cache in *)
(* memory; the middleware that turns the credentials of a request into a   *)
(* user and checks the user's scope against the path; the endpoints that   *)
(* mint and revoke tokens; the sweep of expired ones; start-up with the    *)
(* first administrator.                                                    *)
(*                                                                         *)
(* Data abstraction.  A password hash is a number: hashing takes a fresh   *)
(* salt, so no two calls give the same.  A client that authenticates with  *)
(* a password knows the one that is current.  A path is what the router    *)
(* and the classifier tell apart of it.  Time is in units of a token's     *)
(* life.                                                                   *)
(***************************************************************************)
EXTENDS Integers, FiniteSets

CONSTANTS
    Name,      \* user names
    Admin,     \* the one start-up creates
    Db,        \* database names
    Default,   \* the one the unscoped routes serve
    OpenLog,   \* databases whose audit.visibility is DbUsers
    Token,     \* bound: tokens ever minted
    Request,   \* bound: requests at a time
    TTL,       \* a token's life
    MaxClock,  \* bound: the clock
    MaxHash    \* bound: passwords ever set

ASSUME SessionsAssumption ==
    /\ Admin \in Name /\ Default \in Db /\ OpenLog \subseteq Db
    /\ TTL \in Nat /\ MaxClock \in Nat /\ MaxHash \in Nat

Time  == 0 .. MaxClock
Scope == {"root"} \cup Db
User  == [name : Name, hash : 1 .. MaxHash, scope : Scope, created : Time]

None == [absent |-> TRUE]
Entry == [user : User, expires_at : 0 .. MaxClock + TTL]

(* /db/{name}/..., with the access log apart, /db itself, the routes of    *)
(* the default database, the vector calculator, the identity endpoints.    *)
Path ==
    [route : {"data", "audit"}, db : Db]
    \cup [route : {"databases", "unscoped", "vec", "mint", "revoke"}]

VARIABLES
    clock,       \* now_secs(), in every process
    phase,       \* of the server: "down", "loaded", "empty", "up"
    users,       \* LMDB: users
    disk,        \* LMDB: tokens
    cache,       \* the tokens in memory
    request,     \* what each request is doing
    gc,          \* the sweep: the tokens it has found and not yet removed
    hashes,      \* passwords hashed so far
    issued,      \* history: entries whose token a client was given
    revoked,     \* history: whether a token's revocation was asked for, and
                 \* whether it has reached LMDB
    over         \* history: hashes that are no user's any more

vars == <<clock, phase, users, disk, cache, request, gc, hashes,
          issued, revoked, over>>

Waiting == [pc |-> "waiting"]
Calls ==
    {Waiting}
    \cup [pc : {"issued", "admitted"}, user : User, bearer : SUBSET Token,
          path : Path]
    \cup [pc : {"expired"}, token : Token]
    \cup [pc : {"minting"}, token : Token, entry : Entry]
    \cup [pc : {"revoking"}, bearer : SUBSET Token]

NoSweep == [pc |-> "resting"]

Init ==
    /\ clock = 0
    /\ phase = "down"
    /\ users = [n \in Name |-> None]
    /\ disk = [t \in Token |-> None]
    /\ cache = [t \in Token |-> None]
    /\ request = [r \in Request |-> Waiting]
    /\ gc = NoSweep
    /\ hashes = 0
    /\ issued = [t \in Token |-> None]
    /\ revoked = [t \in Token |-> "no"]
    /\ over = {}

-----------------------------------------------------------------------------
Live(entry) == entry # None /\ entry.expires_at > clock

Expired_too_soon(table) ==
    {t \in Token : table[t] # None /\ table[t].expires_at <= clock + 1}

Expired(table) == {t \in Token : table[t] # None /\ ~Live(table[t])}

Without(table, gone) == [t \in Token |-> IF t \in gone THEN None ELSE table[t]]

(* A transaction that may fail; every caller goes on regardless.           *)
Removed(gone) == disk' \in {disk, Without(disk, gone)}

-----------------------------------------------------------------------------
(* The user store.  Each call is one write transaction of LMDB.            *)

is_empty == \A n \in Name : users[n] = None

Hashed(n, scope, created) ==
    [name |-> n, hash |-> hashes + 1, scope |-> scope, created |-> created]

put_user(user) ==
    /\ hashes < MaxHash
    /\ hashes' = hashes + 1
    /\ users' = [users EXCEPT ![user.name] = user]

create(n, scope) ==
    /\ users[n] = None
    /\ put_user(Hashed(n, scope, clock))
    /\ UNCHANGED over

set_password(n) ==
    /\ users[n] # None
    /\ put_user(Hashed(n, users[n].scope, users[n].created))
    /\ over' = over \cup {users[n].hash}

delete(n) ==
    /\ users[n] # None
    /\ users' = [users EXCEPT ![n] = None]
    /\ over' = over \cup {users[n].hash}
    /\ UNCHANGED hashes

(* The CLI, whether the server runs or not.                                *)
Cli ==
    /\ \E n \in Name :
         \/ \E scope \in Scope : create(n, scope)
         \/ set_password(n)
         \/ delete(n)
    /\ UNCHANGED <<clock, phase, disk, cache, request, gc, issued,
                   revoked>>

-----------------------------------------------------------------------------
(* Start-up, the end of the process, time.                                 *)

(* Tokens::load takes the live entries and deletes the others.             *)
load == Without(disk, Expired(disk))

Load ==
    /\ phase = "down"
    /\ phase' = "loaded"
    /\ cache' = load
    /\ disk' = load
    /\ UNCHANGED <<clock, users, request, gc, hashes, issued, revoked, over>>

(* bootstrap_admin_if_needed looks first and creates afterwards.           *)
BootstrapLooks ==
    /\ phase = "loaded"
    /\ phase' = IF is_empty THEN "empty" ELSE "up"
    /\ UNCHANGED <<clock, users, disk, cache, request, gc, hashes,
                   issued, revoked, over>>

BootstrapCreates ==
    /\ phase = "empty"
    /\ IF users[Admin] = None
       THEN create(Admin, "root") /\ phase' = "up"
       ELSE phase' = "down" /\ UNCHANGED <<users, hashes, over>>
    /\ cache' = IF phase' = "up" THEN cache ELSE [t \in Token |-> None]
    /\ UNCHANGED <<clock, disk, request, gc, issued, revoked>>

(* Killed, or shut down: nothing is saved on the way out.                  *)
Stop ==
    /\ phase # "down"
    /\ phase' = "down"
    /\ cache' = [t \in Token |-> None]
    /\ request' = [r \in Request |-> Waiting]
    /\ gc' = NoSweep
    /\ UNCHANGED <<clock, users, disk, hashes, issued, revoked, over>>

Tick ==
    /\ clock < MaxClock
    /\ clock' = clock + 1
    /\ UNCHANGED <<phase, users, disk, cache, request, gc, hashes,
                   issued, revoked, over>>

-----------------------------------------------------------------------------
(* The middleware.                                                         *)

Becomes(r, state) == request' = [request EXCEPT ![r] = state]

Same == UNCHANGED <<clock, phase, users, disk, cache, gc, hashes,
                    issued, revoked, over>>

is_authorized_by_prefix(scope, path) ==
    \/ scope = "root"
    \/ path.route \in {"data", "audit"} /\ path.db = scope
    \/ path.route = "unscoped" /\ scope = Default

is_authorized(scope, path) ==
    \/ scope = "root"
    \/ path.route = "data" /\ path.db = scope
    \/ path.route = "audit" /\ path.db = scope /\ scope \in OpenLog
    \/ path.route = "unscoped" /\ scope = Default

(* The identity endpoints are for every user; nothing shared is read       *)
(* between the resolution of the user and this.                            *)
Admitted(user, bearer, path) ==
    IF path.route \in {"mint", "revoke"} \/ is_authorized(user.scope, path)
    THEN [pc |-> "admitted", user |-> user, bearer |-> bearer, path |-> path]
    ELSE Waiting

(* users.verify: the record is read, then the password checked.            *)
Basic(r, n, path) ==
    /\ phase = "up" /\ request[r].pc = "waiting"
    /\ users[n] # None
    /\ Becomes(r, Admitted(users[n], {}, path))
    /\ Same

(* tokens.verify, up to the first look at the cache.                       *)
Bearer(r, t, path) ==
    /\ phase = "up" /\ request[r].pc = "waiting"
    /\ issued[t] # None /\ cache[t] # None
    /\ Becomes(r, IF Live(cache[t])
                  THEN [pc |-> "issued", user |-> cache[t].user, bearer |-> {t},
                        path |-> path]
                  ELSE [pc |-> "expired", token |-> t])
    /\ Same

(* The second look, under the write lock, and the delete.                  *)
SweepOne(r) ==
    /\ request[r].pc = "expired"
    /\ LET t == request[r].token
       IN /\ cache' = IF Live(cache[t]) THEN cache ELSE Without(cache, {t})
          /\ Removed({t})
    /\ Becomes(r, Waiting)
    /\ UNCHANGED <<clock, phase, users, gc, hashes, issued, revoked,
                   over>>

same_name(current, user) == current # None /\ current.name = user.name

same_user(current, user) ==
    /\ current # None
    /\ current.hash = user.hash
    /\ current.created = user.created
    /\ current.scope = user.scope

(* users.get: the user the token was issued to, as it is now.              *)
Resolve(r) ==
    /\ request[r].pc = "issued"
    /\ LET user == request[r].user
       IN Becomes(r, IF same_user(users[user.name], user)
                     THEN Admitted(users[user.name], request[r].bearer,
                                   request[r].path)
                     ELSE Waiting)
    /\ Same

(* A handler of the routers for data ends.                                 *)
Serve(r) ==
    /\ request[r].pc = "admitted"
    /\ request[r].path.route \notin {"mint", "revoke"}
    /\ Becomes(r, Waiting)
    /\ Same

-----------------------------------------------------------------------------
(* POST /auth/token: the entry is persisted, then cached, then answered.   *)

Used == {t \in Token : \/ disk[t] # None \/ cache[t] # None \/ issued[t] # None
                       \/ \E r \in Request : /\ request[r].pc = "minting"
                                             /\ request[r].token = t}

MintPersists(r) ==
    /\ request[r].pc = "admitted" /\ request[r].path.route = "mint"
    /\ request[r].bearer = {}
    /\ \E t \in Token \ Used :
         LET entry == [user |-> request[r].user, expires_at |-> clock + TTL]
         IN \E saved \in BOOLEAN :
              /\ disk' = IF saved THEN [disk EXCEPT ![t] = entry] ELSE disk
              /\ Becomes(r, [pc |-> "minting", token |-> t, entry |-> entry])
    /\ UNCHANGED <<clock, phase, users, cache, gc, hashes, issued,
                   revoked, over>>

MintCaches(r) ==
    /\ request[r].pc = "minting"
    /\ cache' = [cache EXCEPT ![request[r].token] = request[r].entry]
    /\ issued' = [issued EXCEPT ![request[r].token] = request[r].entry]
    /\ Becomes(r, Waiting)
    /\ UNCHANGED <<clock, phase, users, disk, gc, hashes, revoked,
                   over>>

(* A token cannot be used to mint another.                                 *)
MintRefuses(r) ==
    /\ request[r].pc = "admitted" /\ request[r].path.route = "mint"
    /\ request[r].bearer # {}
    /\ Becomes(r, Waiting)
    /\ Same

Marked(T, how) == [t \in Token |-> IF t \in T THEN how ELSE revoked[t]]

(* POST /auth/token/revoke: out of the cache, then out of LMDB; a request  *)
(* without a bearer token is a bad one.                                    *)
RevokeUncaches(r) ==
    /\ request[r].pc = "admitted" /\ request[r].path.route = "revoke"
    /\ cache' = Without(cache, request[r].bearer)
    /\ Becomes(r, IF request[r].bearer = {} THEN Waiting
                  ELSE [pc |-> "revoking", bearer |-> request[r].bearer])
    /\ revoked' = Marked(request[r].bearer, "asked")
    /\ UNCHANGED <<clock, phase, users, disk, gc, hashes, issued, over>>

RevokeRemoves_never(r) ==
    /\ request[r].pc = "revoking"
    /\ revoked' = Marked(request[r].bearer, "removed")
    /\ Becomes(r, Waiting)
    /\ UNCHANGED <<clock, phase, users, disk, cache, gc, hashes,
                   issued, over>>

RevokeRemoves(r) ==
    /\ request[r].pc = "revoking"
    /\ disk' = Without(disk, request[r].bearer)
    /\ revoked' = Marked(request[r].bearer, "removed")
    /\ Becomes(r, Waiting)
    /\ UNCHANGED <<clock, phase, users, cache, gc, hashes, issued,
                   over>>

(* The transaction fails, and the client hears that its token is revoked.  *)
RevokeFails(r) ==
    /\ request[r].pc = "revoking"
    /\ Becomes(r, Waiting)
    /\ Same

-----------------------------------------------------------------------------
(* gc(), every five minutes: look, uncache, delete.                        *)

GcLooks ==
    /\ phase = "up" /\ gc = NoSweep
    /\ Expired(cache) # {}
    /\ gc' = [pc |-> "found", tokens |-> Expired(cache)]
    /\ UNCHANGED <<clock, phase, users, disk, cache, request, hashes,
                   issued, revoked, over>>

GcUncaches_not ==
    /\ gc.pc = "found"
    /\ gc' = [gc EXCEPT !.pc = "uncached"]
    /\ UNCHANGED <<clock, phase, users, disk, cache, request, hashes, issued,
                   revoked, over>>

GcUncaches ==
    /\ gc.pc = "found"
    /\ cache' = Without(cache, gc.tokens)
    /\ gc' = [gc EXCEPT !.pc = "uncached"]
    /\ UNCHANGED <<clock, phase, users, disk, request, hashes, issued,
                   revoked, over>>

GcRemoves ==
    /\ gc.pc = "uncached"
    /\ Removed(gc.tokens)
    /\ gc' = NoSweep
    /\ UNCHANGED <<clock, phase, users, cache, request, hashes,
                   issued, revoked, over>>

Gc == GcLooks \/ GcUncaches \/ GcRemoves

-----------------------------------------------------------------------------
Server == Load \/ BootstrapLooks \/ BootstrapCreates \/ Stop

Authenticate(r) ==
    \E path \in Path : \/ \E n \in Name : Basic(r, n, path)
                       \/ \E t \in Token : Bearer(r, t, path)

Handle(r) ==
    \/ SweepOne(r) \/ Resolve(r) \/ Serve(r)
    \/ MintPersists(r) \/ MintCaches(r) \/ MintRefuses(r)
    \/ RevokeUncaches(r) \/ RevokeRemoves(r) \/ RevokeFails(r)

Step(r) == Authenticate(r) \/ Handle(r)

Next == Cli \/ Server \/ Tick \/ Gc \/ \E r \in Request : Step(r)

(* The sweep is a task of the runtime, on a timer.                         *)
Fairness == WF_vars(Gc)

Spec == Init /\ [][Next]_vars /\ Fairness

-----------------------------------------------------------------------------
TypeOK ==
    /\ clock \in Time /\ phase \in {"down", "loaded", "empty", "up"}
    /\ users \in [Name -> User \cup {None}]
    /\ disk \in [Token -> Entry \cup {None}]
    /\ cache \in [Token -> Entry \cup {None}]
    /\ issued \in [Token -> Entry \cup {None}]
    /\ request \in [Request -> Calls]
    /\ gc \in {NoSweep} \cup [pc : {"found", "uncached"}, tokens : SUBSET Token]
    /\ hashes \in 0 .. MaxHash
    /\ revoked \in [Token -> {"no", "asked", "removed"}]
    /\ over \subseteq 1 .. MaxHash

(* Tokens survive restarts: one that is in LMDB, was given to a client,    *)
(* has not run out and nobody asked to revoke is accepted whenever the     *)
(* server is up, with the user and the expiry it was minted with; no sweep *)
(* and no second look takes it away.                                       *)
TokensAreKept ==
    \A t \in Token :
        (phase = "up" /\ issued[t] # None /\ Live(issued[t]) /\ disk[t] # None
         /\ revoked[t] = "no")
        => cache[t] = issued[t] /\ disk[t] = issued[t]

(* Revocation is final: a token whose revocation reached LMDB is accepted  *)
(* by no later request, across restarts too.                               *)
RevokedIsRevoked == \A t \in Token : revoked[t] = "removed" => cache[t] = None

(* Deleting a user or changing its password invalidates the tokens issued  *)
(* before, also when a user of that name is created again, and also a      *)
(* token whose minting was under way: none of them admits a request.       *)
BearerIsCurrent ==
    \A r \in Request :
        (request[r].pc = "issued" /\ request'[r].pc = "admitted")
        => request[r].user.hash \notin over

OldCredentialsAreRefused == [][BearerIsCurrent]_vars

(* What a route of the router reads or changes.                            *)
touches(path) ==
    CASE path.route = "data"                -> [data |-> {path.db}, log |-> {}]
      [] path.route = "audit"               -> [data |-> {}, log |-> {path.db}]
      [] path.route = "databases"           -> [data |-> Db, log |-> {}]
      [] path.route = "unscoped"            -> [data |-> {Default}, log |-> {}]
      [] OTHER                              -> [data |-> {}, log |-> {}]

(* A user with the scope of one database gets at the data of no other,     *)
(* and at a log only where the database's policy says so.                  *)
ScopeIsKept ==
    \A r \in Request :
        (request[r].pc = "admitted" /\ request[r].user.scope # "root")
        => LET scope == request[r].user.scope
               reached == touches(request[r].path)
           IN /\ reached.data \subseteq {scope}
              /\ reached.log \subseteq {scope} \cap OpenLog

(* An expired token leaves the memory, although nobody presents it again.  *)
ExpiredIsSwept ==
    \A t \in Token : (phase = "up" /\ t \in Expired(cache))
                      ~> (phase # "up" \/ t \notin Expired(cache))

=============================================================================
