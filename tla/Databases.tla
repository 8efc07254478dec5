----------------------------- MODULE Databases -----------------------------
(***************************************************************************)
(* The Server: the databases of one data directory.  Each is a directory   *)
(* db/<name>/ with a db.toml (configuration and format) and an LMDB        *)
(* environment; `inner`, a map behind an RwLock, holds the Hive of each    *)
(* mounted one.  Opening the server mounts what it finds; create_database  *)
(* and drop_database take the lock only around the map, so that everything *)
(* they do to directories interleaves with other calls, and the process    *)
(* may die between any two steps.                                          *)
(*                                                                         *)
(* Data abstraction.  A directory has an identity that a rename keeps: a   *)
(* Hive goes on using the directory it was opened in.  A configuration is  *)
(* a name and one of a few values, the content of a database the set of    *)
(* writes it has acknowledged.  The name in a db.toml need not be that of  *)
(* its directory: a snapshot restored under another name keeps the old     *)
(* one.  One process owns the data directory (engine.lock).                *)
(***************************************************************************)
EXTENDS Integers, FiniteSets

CONSTANTS
    Name,       \* database names
    Default,    \* the name of the database that always exists
    Config,     \* configurations (dimension, map size, ...)
    Client,     \* requests in flight
    Boot,       \* the process that opens the server
    MaxDir,     \* bound: directories ever made
    MaxWrite    \* bound: writes in a behaviour

ASSUME DatabasesAssumption ==
    /\ Default \in Name
    /\ Boot \notin Client
    /\ MaxDir \in Nat /\ MaxWrite \in Nat
    /\ 0 \notin Config
    /\ IsFiniteSet(Name) /\ Cardinality(Name) <= MaxDir

Dir    == 1 .. MaxDir
Vector == 1 .. MaxWrite

None == 0    \* no directory, no configuration, no name

(* Format versions of db.toml, against the one this build writes.          *)
Old == 0
FORMAT_VERSION == 1
Newer == 2

VARIABLES
    place,    \* the directory at db/<name>/
    dirs,     \* what each directory holds
    made,     \* how many directories were made
    trash,    \* directories in _trash/
    phase,    \* of the process: "down", "scanning", "creating" or "up"
    scan,     \* the entries of db/ still to visit at boot
    inner,    \* the mounted databases
    refused,  \* the databases of a newer format found at boot
    call,     \* what each client, and the boot, is doing
    written,  \* how many writes clients have made
    served,   \* history: writes acknowledged under a name and not dropped
    failed,   \* history: names of which a create or drop failed since boot
    astray    \* history: names whose directory was found with another's db.toml

vars == <<place, dirs, made, trash, phase, scan, inner, refused, call, written,
          served, failed, astray>>

disk   == <<place, dirs, made, trash>>
memory == <<inner, refused>>
booting == <<phase, scan>>
history == <<written, served, failed, astray>>

(* db.toml, if there is one (its name, the rest of its configuration, its  *)
(* format), and data/.                                                     *)
Directory ==
    {d \in [toml : Config \cup {None}, name : Name \cup {None},
            format : {Old, FORMAT_VERSION, Newer}, content : SUBSET Vector] :
        d.toml # None => d.name \in Name}

Empty == [toml |-> None, name |-> None, format |-> FORMAT_VERSION,
          content |-> {}]

NoHive == [dir |-> None, cfg |-> None]
Hives  == {NoHive} \cup [dir : Dir, cfg : Config]

Idle == [pc |-> "idle", name |-> None, cfg |-> None, dir |-> None,
         purge |-> FALSE]

Calls == [pc : {"idle", "mkdir", "save", "open", "insert", "move", "purge",
                "using"},
          name : Name \cup {None}, cfg : Config \cup {None},
          dir : Dir \cup {None}, purge : BOOLEAN]

Actor == Client \cup {Boot}

Mounted(n) == inner[n] # NoHive

(* What another run, another release or a restore may have left in db/.    *)
Found == {Empty} \cup [toml : Config, name : Name,
                       format : {Old, FORMAT_VERSION, Newer}, content : {{}}]

Injections == {f \in [Name -> 1 .. Cardinality(Name)] :
                  \A n, m \in Name : f[n] = f[m] => n = m}

home == CHOOSE f \in Injections : TRUE

Init ==
    /\ made = Cardinality(Name)
    /\ \E kept \in SUBSET Name :
         /\ place = [n \in Name |-> IF n \in kept THEN home[n] ELSE None]
         /\ dirs \in [Dir -> Found]
         /\ \A d \in Dir : (\A n \in kept : home[n] # d) => dirs[d] = Empty
    /\ trash = {}
    /\ phase = "down" /\ scan = {}
    /\ inner = [n \in Name |-> NoHive]
    /\ refused = {}
    /\ call = [c \in Actor |-> Idle]
    /\ written = 0
    /\ served = [n \in Name |-> {}]
    /\ failed = {}
    /\ astray = {n \in Name : place[n] # None /\ dirs[place[n]].toml # None
                                /\ dirs[place[n]].name # n}

-----------------------------------------------------------------------------
Goes(c, next) == call' = [call EXCEPT ![c] = next]

Ends(c) == Goes(c, Idle)

Mount(n, hive) == inner' = [inner EXCEPT ![n] = hive]

(* The db.toml of d saved with the configuration cfg of a database n, in   *)
(* this build's format.                                                    *)
save(d, n, cfg) ==
    dirs' = [dirs EXCEPT ![d].toml = cfg, ![d].name = n,
                         ![d].format = FORMAT_VERSION]

make_dir_anew(n) ==
    /\ made < MaxDir
    /\ made' = made + 1
    /\ place' = [place EXCEPT ![n] = made + 1]

(* create_dir_all of the directory of a database, by name.                 *)
make_dir(n) ==
    IF place[n] # None
    THEN UNCHANGED <<place, made>>
    ELSE /\ made < MaxDir
         /\ made' = made + 1
         /\ place' = [place EXCEPT ![n] = made + 1]

-----------------------------------------------------------------------------
(* Server::open                                                            *)

Start ==
    /\ phase = "down"
    /\ phase' = "scanning"
    /\ scan' = {n \in Name : place[n] # None}
    /\ UNCHANGED <<disk, memory, call, history>>

readable(d) == dirs[d].toml # None /\ dirs[d].format <= FORMAT_VERSION

BootEntry_upgrade_only(n) ==
    LET d == place[n]
    IN /\ phase = "scanning" /\ n \in scan
       /\ scan' = scan \ {n}
       /\ IF readable(d)
          THEN /\ save(d, dirs[d].name, dirs[d].toml)
               /\ make_dir(dirs[d].name)
               /\ IF dirs[d].format = FORMAT_VERSION
                  THEN Mount(n, [dir |-> place'[dirs[d].name],
                                 cfg |-> dirs[d].toml])
                  ELSE UNCHANGED inner
               /\ UNCHANGED refused
          ELSE /\ refused' = IF dirs[d].toml = None THEN refused
                                                    ELSE refused \cup {n}
               /\ UNCHANGED <<place, made, dirs, inner>>
       /\ UNCHANGED <<trash, phase, call, history>>

(* An entry of db/: no db.toml, nothing to mount; a newer format, refused; *)
(* otherwise marked current if it is an older one, and mounted under the   *)
(* directory's name.  What open_hive_for opens is the directory of the     *)
(* name in db.toml, made if there is none; when that is another database's *)
(* the two share it.  (LMDB may refuse to be opened twice: then the start  *)
(* fails, which is Stop.)                                                  *)
BootEntry(n) ==
    LET d == place[n]
    IN /\ phase = "scanning" /\ n \in scan
       /\ scan' = scan \ {n}
       /\ IF readable(d)
          THEN /\ save(d, dirs[d].name, dirs[d].toml)
               /\ make_dir(dirs[d].name)
               /\ Mount(n, [dir |-> place'[dirs[d].name], cfg |-> dirs[d].toml])
               /\ UNCHANGED refused
          ELSE /\ refused' = IF dirs[d].toml = None THEN refused
                                                    ELSE refused \cup {n}
               /\ UNCHANGED <<place, made, dirs, inner>>
       /\ UNCHANGED <<trash, phase, call, history>>

needs_default == ~Mounted(Default) /\ Default \notin refused

(* The scan is over and there is no default database.                      *)
BootDefault ==
    /\ phase = "scanning" /\ scan = {}
    /\ needs_default
    /\ phase' = "creating"
    /\ \E cfg \in Config :
         Goes(Boot, [Idle EXCEPT !.pc = "mkdir", !.name = Default, !.cfg = cfg])
    /\ UNCHANGED <<disk, memory, scan, history>>

(* The process serves requests once it has its default database; when that *)
(* one was refused it exits.                                               *)
BootReady ==
    /\ phase \in {"scanning", "creating"} /\ scan = {}
    /\ call[Boot].pc = "idle" /\ Mounted(Default)
    /\ phase' = "up"
    /\ UNCHANGED <<disk, memory, scan, call, history>>

(* The process dies or stops; so does an opening that fails.               *)
Stop ==
    /\ phase # "down"
    /\ phase' = "down" /\ scan' = {}
    /\ inner' = [n \in Name |-> NoHive]
    /\ refused' = {}
    /\ call' = [c \in Actor |-> Idle]
    /\ failed' = {}
    /\ UNCHANGED <<disk, written, served, astray>>

-----------------------------------------------------------------------------
(* create_database: the map, db.toml, the environment, the map again.      *)

CreateBegin(c, n, cfg) ==
    /\ phase = "up" /\ call[c].pc = "idle"
    /\ ~Mounted(n)
    /\ Goes(c, [Idle EXCEPT !.pc = "mkdir", !.name = n, !.cfg = cfg])
    /\ UNCHANGED <<disk, memory, booting, history>>

CreateDir(c) ==
    /\ call[c].pc = "mkdir"
    /\ make_dir(call[c].name)
    /\ Goes(c, [call[c] EXCEPT !.pc = "save"])
    /\ UNCHANGED <<dirs, trash, memory, booting, history>>

CreateSave_if_absent(c) ==
    LET d == place[call[c].name]
    IN /\ call[c].pc = "save"
       /\ d # None
       /\ IF dirs[d].toml = None THEN save(d, call[c].name, call[c].cfg)
                                 ELSE UNCHANGED dirs
       /\ Goes(c, [call[c] EXCEPT !.pc = "open"])
       /\ UNCHANGED <<place, made, trash, memory, booting, history>>

(* db.toml is replaced, whatever was there.                                *)
CreateSave(c) ==
    LET d == place[call[c].name]
    IN /\ call[c].pc = "save"
       /\ d # None
       /\ save(d, call[c].name, call[c].cfg)
       /\ Goes(c, [call[c] EXCEPT !.pc = "open"])
       /\ UNCHANGED <<place, made, trash, memory, booting, history>>

(* open_hive_for makes the directory again if it is gone.                  *)
CreateOpen(c) ==
    /\ call[c].pc = "open"
    /\ make_dir(call[c].name)
    /\ Goes(c, [call[c] EXCEPT !.pc = "insert", !.dir = place'[call[c].name]])
    /\ UNCHANGED <<dirs, trash, memory, booting, history>>

opened(c) == [dir |-> call[c].dir, cfg |-> call[c].cfg]

(* Of two concurrent creations the second to get here answers an error.    *)
CreateInsert(c) ==
    /\ call[c].pc = "insert"
    /\ IF Mounted(call[c].name) THEN UNCHANGED inner
                                ELSE Mount(call[c].name, opened(c))
    /\ Ends(c)
    /\ UNCHANGED <<disk, refused, booting, history>>

(* A directory, db.toml or environment cannot be made; done is done.       *)
CreateFails(c) ==
    /\ c # Boot
    /\ call[c].pc \in {"mkdir", "save", "open"}
    /\ failed' = failed \cup {call[c].name}
    /\ Ends(c)
    /\ UNCHANGED <<disk, memory, booting, written, served, astray>>

-----------------------------------------------------------------------------
(* drop_database_with: the map, then the directory.                        *)

droppable(n) == n # Default

DropUnmount(c, n, purge) ==
    /\ phase = "up" /\ call[c].pc = "idle"
    /\ droppable(n) /\ Mounted(n)
    /\ Mount(n, NoHive)
    /\ Goes(c, [Idle EXCEPT !.pc = "move", !.name = n, !.purge = purge])
    /\ UNCHANGED <<disk, refused, booting, history>>

(* Whatever is at db/<name>/ by now moves to the trash.                    *)
DropMove(c) ==
    LET n == call[c].name
    IN /\ call[c].pc = "move"
       /\ place' = [place EXCEPT ![n] = None]
       /\ trash' = trash \cup ({place[n]} \ {None})
       /\ IF call[c].purge /\ place[n] # None
          THEN Goes(c, [call[c] EXCEPT !.pc = "purge", !.dir = place[n]])
          ELSE Ends(c)
       /\ served' = [served EXCEPT ![n] = {}]
       /\ UNCHANGED <<dirs, made, memory, booting, written, failed, astray>>

(* The rename fails, 40 times: the database is unmounted, its directory    *)
(* still in place.                                                         *)
DropFails(c) ==
    /\ call[c].pc = "move"
    /\ place[call[c].name] # None
    /\ failed' = failed \cup {call[c].name}
    /\ Ends(c)
    /\ UNCHANGED <<disk, memory, booting, written, served, astray>>

DropPurge(c) ==
    /\ call[c].pc = "purge"
    /\ \/ /\ trash' = trash \ {call[c].dir}
          /\ dirs' = [dirs EXCEPT ![call[c].dir] = Empty]
       \/ UNCHANGED <<trash, dirs>>
    /\ Ends(c)
    /\ UNCHANGED <<place, made, memory, booting, history>>

-----------------------------------------------------------------------------
(* A request resolves its database once and keeps the Hive.                *)

Resolve(c, n) ==
    /\ phase = "up" /\ call[c].pc = "idle"
    /\ Mounted(n)
    /\ Goes(c, [Idle EXCEPT !.pc = "using", !.name = n, !.dir = inner[n].dir])
    /\ UNCHANGED <<disk, memory, booting, history>>

Write(c) ==
    LET n == call[c].name
        d == call[c].dir
    IN /\ call[c].pc = "using"
       /\ written < MaxWrite
       /\ written' = written + 1
       /\ dirs' = [dirs EXCEPT ![d].content = @ \cup {written + 1}]
       /\ served' = IF inner[n].dir = d
                    THEN [served EXCEPT ![n] = @ \cup {written + 1}]
                    ELSE served
       /\ Ends(c)
       /\ UNCHANGED <<place, made, trash, memory, booting, failed, astray>>

-----------------------------------------------------------------------------
Create(c) ==
    CreateDir(c) \/ CreateSave(c) \/ CreateOpen(c) \/ CreateInsert(c)

Drop(c) == DropMove(c) \/ DropFails(c) \/ DropPurge(c)

Begin(c, n) ==
    \/ \E cfg \in Config : CreateBegin(c, n, cfg)
    \/ \E purge \in BOOLEAN : DropUnmount(c, n, purge)

Use(c) == Write(c) \/ \E n \in Name : Resolve(c, n)

Continue ==
    \/ Start \/ BootDefault \/ BootReady \/ Stop
    \/ \E n \in Name : BootEntry(n)
    \/ \E c \in Actor : Create(c)
    \/ \E c \in Client : CreateFails(c) \/ Drop(c) \/ Use(c)

Next == Continue \/ \E c \in Client, n \in Name : Begin(c, n)

Spec == Init /\ [][Next]_vars

(* At most one create or drop of a name at a time; other calls interleave  *)
(* with it, and with the creations and drops of other names.               *)
Changing(c) == call[c].pc \notin {"idle", "using"}

BeginAlone(c, n) ==
    /\ \A d \in Client : Changing(d) => call[d].name # n
    /\ Begin(c, n)

SerialNext == Continue \/ \E c \in Client, n \in Name : BeginAlone(c, n)

SerialSpec == Init /\ [][SerialNext]_vars

-----------------------------------------------------------------------------
TypeOK ==
    /\ place \in [Name -> Dir \cup {None}]
    /\ dirs \in [Dir -> Directory]
    /\ made \in 0 .. MaxDir
    /\ trash \subseteq Dir
    /\ phase \in {"down", "scanning", "creating", "up"}
    /\ scan \subseteq Name /\ refused \subseteq Name /\ failed \subseteq Name
    /\ astray \subseteq Name
    /\ inner \in [Name -> Hives]
    /\ call \in [Actor -> Calls]
    /\ written \in 0 .. MaxWrite
    /\ served \in [Name -> SUBSET Vector]

(* A mounted database is the one its directory holds and the next start    *)
(* would mount: that directory is the one it has open, with the            *)
(* configuration it runs under and a format this build reads.              *)
AsSaved(n) ==
    Mounted(n) =>
        /\ place[n] = inner[n].dir
        /\ dirs[place[n]].toml = inner[n].cfg
        /\ dirs[place[n]].name = n
        /\ dirs[place[n]].format = FORMAT_VERSION

(* Of every database whose db.toml was not brought from another one, even  *)
(* beside those whose was.                                                 *)
MountedAsSaved == \A n \in Name \ astray : AsSaved(n)

(* Of every database ("Database name (matches the directory name)").       *)
EveryMountedAsSaved == \A n \in Name : AsSaved(n)

(* What was acknowledged under a name is in the directory of that name     *)
(* until a drop has moved it: neither a restart, nor a creation, nor a     *)
(* drop that failed takes it away, nor what a database astray does in it.  *)
ServedIsInPlace ==
    \A n \in Name \ astray : served[n] # {} =>
        /\ place[n] # None
        /\ served[n] \subseteq dirs[place[n]].content

(* A server that is up serves every database on disk that it can read,     *)
(* except one that a creation or a drop is at work on or has failed on.    *)
ReadableIsMounted ==
    phase = "up" => \A n \in Name :
        \/ Mounted(n)
        \/ place[n] = None \/ ~readable(place[n])
        \/ n \in failed
        \/ \E c \in Client : Changing(c) /\ call[c].name = n

=============================================================================
