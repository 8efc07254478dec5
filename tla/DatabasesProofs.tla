--------------------------- MODULE DatabasesProofs ---------------------------
(***************************************************************************)
(* Theorems about Databases: its type invariant under every interleaving,  *)
(* and its three safety properties when creations and drops of one name    *)
(* take turns, for any names, configurations, clients and bounds.          *)
(***************************************************************************)
EXTENDS Databases, FiniteSetTheorems, TLAPS

-----------------------------------------------------------------------------
(* What the types do not say: a call has the name, configuration and       *)
(* directory its next step uses ...                                        *)
CallsAreFormed ==
    \A c \in Actor :
        /\ call[c].pc # "idle" => call[c].name \in Name
        /\ call[c].pc \in {"mkdir", "save", "open", "insert"} => call[c].cfg \in Config
        /\ call[c].pc \in {"insert", "purge", "using"} => call[c].dir \in Dir

(* ... and nobody else is at work while the server boots.                  *)
BootIsAlone ==
    /\ phase # "up" => \A c \in Client : call[c].pc = "idle"
    /\ phase # "creating" => call[Boot].pc = "idle"
    /\ phase # "scanning" => scan = {}
    /\ \A n \in scan : place[n] # None

TypedInv == TypeOK /\ CallsAreFormed /\ BootIsAlone

-----------------------------------------------------------------------------
(* Initially every name has a directory of its own to be found in.         *)
LEMMA HomeIsInjective == home \in Injections
  <1>. DEFINE k == Cardinality(Name)
  <1>1. k \in Nat /\ ExistsBijection(1 .. k, Name)
    BY FS_CardinalityType, DatabasesAssumption
  <1>2. PICK f \in Bijection(1 .. k, Name) : TRUE
    BY <1>1 DEF ExistsBijection
  <1>3. f \in [1 .. k -> Name] /\ \A n \in Name : \E i \in 1 .. k : f[i] = n
    BY <1>2 DEF Bijection, Injection, Surjection
  <1>. DEFINE g == [n \in Name |-> CHOOSE i \in 1 .. k : f[i] = n]
  <1>4. \A n \in Name : g[n] \in 1 .. k /\ f[g[n]] = n
    BY <1>3
  <1>5. g \in [Name -> 1 .. k]
    BY <1>4
  <1>6. \A n, m \in Name : g[n] = g[m] => n = m
    BY <1>4
  <1>. HIDE DEF g
  <1>7. g \in Injections
    BY <1>5, <1>6 DEF Injections
  <1>. QED  BY <1>7 DEF home

LEMMA SaveEffect ==
  ASSUME dirs \in [Dir -> Directory], NEW d \in Dir, NEW n \in Name,
         NEW cfg \in Config, save(d, n, cfg)
  PROVE  /\ dirs' \in [Dir -> Directory]
         /\ dirs'[d].toml = cfg /\ dirs'[d].name = n
         /\ dirs'[d].format = FORMAT_VERSION
         /\ dirs'[d].content = dirs[d].content
         /\ \A e \in Dir : e # d => dirs'[e] = dirs[e]
  <1>1. dirs' = [dirs EXCEPT ![d] = [@ EXCEPT !.toml = cfg, !.name = n,
                                               !.format = FORMAT_VERSION]]
    BY DEF save, Directory
  <1>2. [dirs[d] EXCEPT !.toml = cfg, !.name = n, !.format = FORMAT_VERSION]
            \in Directory
    BY DEF Directory, FORMAT_VERSION
  <1>. QED  BY <1>1, <1>2 DEF Directory

LEMMA MakeDirEffect ==
  ASSUME place \in [Name -> Dir \cup {None}], made \in 0 .. MaxDir,
         NEW n \in Name, make_dir(n)
  PROVE  /\ place' \in [Name -> Dir \cup {None}] /\ made' \in 0 .. MaxDir
         /\ place'[n] \in Dir
         /\ place[n] # None => place'[n] = place[n] /\ made' = made
         /\ place[n] = None => place'[n] = made + 1 /\ made' = made + 1
         /\ \A m \in Name : m # n => place'[m] = place[m]
  BY DatabasesAssumption DEF make_dir, Dir, None

-----------------------------------------------------------------------------
(* Only the actor c moves, and its next state is well formed.              *)
Moves(c, next) ==
    /\ next \in Calls
    /\ next.pc # "idle" => next.name \in Name
    /\ next.pc \in {"mkdir", "save", "open", "insert"} => next.cfg \in Config
    /\ next.pc \in {"insert", "purge", "using"} => next.dir \in Dir
    /\ call' = [call EXCEPT ![c] = next]

LEMMA MovesKeeps ==
  ASSUME call \in [Actor -> Calls], CallsAreFormed,
         NEW c \in Actor, NEW next, Moves(c, next)
  PROVE  /\ call' \in [Actor -> Calls] /\ CallsAreFormed'
         /\ call'[c] = next
         /\ \A d \in Actor : d # c => call'[d] = call[d]
  <1>1. call' \in [Actor -> Calls] /\ call'[c] = next
    BY DEF Moves
  <1>2. \A d \in Actor : d # c => call'[d] = call[d]
    BY DEF Moves
  <1>3. CallsAreFormed'
    <2>. SUFFICES ASSUME NEW d \in Actor
                  PROVE  /\ call'[d].pc # "idle" => call'[d].name \in Name
                         /\ call'[d].pc \in {"mkdir", "save", "open", "insert"}
                                => call'[d].cfg \in Config
                         /\ call'[d].pc \in {"insert", "purge", "using"}
                                => call'[d].dir \in Dir
      BY DEF CallsAreFormed, Actor, Dir
    <2>1. CASE d = c   BY <2>1, <1>1 DEF Moves
    <2>2. CASE d # c   BY <2>2, <1>2 DEF CallsAreFormed
    <2>. QED  BY <2>1, <2>2
  <1>. QED  BY <1>1, <1>2, <1>3

LEMMA IdleIsFormed ==
  ASSUME NEW c \in Actor, Ends(c)
  PROVE  Moves(c, Idle)
  BY DEF Ends, Goes, Moves, Idle, Calls, None

(* An actor at work, or a client of a server that is up, moves on; the     *)
(* disk, the map and the history keep their types.                         *)
LEMMA ActorKeepsTypes ==
  ASSUME TypedInv, NEW c \in Actor, NEW next, Moves(c, next),
         call[c].pc # "idle" \/ (phase = "up" /\ c \in Client),
         UNCHANGED booting,
         place' \in [Name -> Dir \cup {None}], dirs' \in [Dir -> Directory],
         made' \in 0 .. MaxDir, trash' \subseteq Dir,
         inner' \in [Name -> Hives], refused' \subseteq Name,
         failed' \subseteq Name, astray' = astray, written' \in 0 .. MaxWrite,
         served' \in [Name -> SUBSET Vector]
  PROVE  TypedInv'
  <1>1. call' \in [Actor -> Calls] /\ CallsAreFormed' /\ call'[c] = next
        /\ \A d \in Actor : d # c => call'[d] = call[d]
    BY MovesKeeps DEF TypedInv, TypeOK
  <1>2. TypeOK'
    BY <1>1 DEF TypedInv, TypeOK, booting
  <1>3. \/ c = Boot /\ phase = "creating"
        \/ c \in Client /\ phase = "up"
    BY DEF TypedInv, BootIsAlone, Actor
  <1>4. scan = {} /\ phase' = phase /\ scan' = scan
    BY <1>3 DEF TypedInv, BootIsAlone, booting
  <1>5. (phase' # "up" => \A d \in Client : call'[d].pc = "idle")
        /\ (phase' # "creating" => call'[Boot].pc = "idle")
    BY <1>1, <1>3, <1>4, DatabasesAssumption DEF TypedInv, BootIsAlone, Actor
  <1>. QED  BY <1>1, <1>2, <1>4, <1>5 DEF TypedInv, BootIsAlone

LEMMA TypedInit == Init => TypedInv
  <1>. SUFFICES ASSUME Init PROVE TypedInv
    OBVIOUS
  <1>1. Cardinality(Name) \in Nat
    BY FS_CardinalityType, DatabasesAssumption
  <1>2. home \in [Name -> Dir]
    BY <1>1, HomeIsInjective, DatabasesAssumption DEF Injections, Dir
  <1>3. place \in [Name -> Dir \cup {None}]
    BY <1>2 DEF Init, None
  <1>4. Found \subseteq Directory
    BY DEF Found, Directory, Empty, None, Old, FORMAT_VERSION, Newer
  <1>5. dirs \in [Dir -> Directory]
    BY <1>4 DEF Init
  <1>6. Idle \in Calls
    BY DEF Idle, Calls, None
  <1>7. made \in 0 .. MaxDir /\ written \in 0 .. MaxWrite
    BY <1>1, DatabasesAssumption DEF Init
  <1>8. TypeOK
    BY <1>3, <1>5, <1>6, <1>7 DEF Init, TypeOK, Hives
  <1>9. CallsAreFormed /\ BootIsAlone
    BY DEF Init, CallsAreFormed, BootIsAlone, Idle, Actor
  <1>. QED  BY <1>8, <1>9 DEF TypedInv

LEMMA StartTyped == TypedInv /\ Start => TypedInv'
  BY DEF TypedInv, TypeOK, CallsAreFormed, BootIsAlone, Start, disk, memory, history,
         Actor

(* What the visit to a database this build can read does.                  *)
LEMMA BootEntryEffect ==
  ASSUME TypedInv, NEW n \in Name, BootEntry(n), readable(place[n])
  PROVE  /\ place[n] \in Dir /\ dirs[place[n]].toml \in Config
         /\ dirs[place[n]].name \in Name
         /\ dirs' \in [Dir -> Directory]
         /\ dirs'[place[n]].toml = dirs[place[n]].toml
         /\ dirs'[place[n]].name = dirs[place[n]].name
         /\ dirs'[place[n]].format = FORMAT_VERSION
         /\ dirs'[place[n]].content = dirs[place[n]].content
         /\ \A e \in Dir : e # place[n] => dirs'[e] = dirs[e]
         /\ place' \in [Name -> Dir \cup {None}] /\ made' \in 0 .. MaxDir
         /\ place'[dirs[place[n]].name] \in Dir
         /\ \A m \in Name : place[m] # None => place'[m] = place[m]
         /\ \/ made' = made /\ \A m \in Name : place'[m] = place[m]
            \/ /\ made' = made + 1
               /\ \A m \in Name \ {dirs[place[n]].name} : place'[m] = place[m]
               /\ place'[dirs[place[n]].name] = made + 1
         /\ inner' \in [Name -> Hives] /\ Mounted(n)'
         /\ inner'[n] = [dir |-> place'[dirs[place[n]].name],
                         cfg |-> dirs[place[n]].toml]
         /\ \A m \in Name : m # n => inner'[m] = inner[m]
         /\ refused' = refused
  <1>. DEFINE d == place[n]
              k == dirs[d].name
              hive == [dir |-> place'[k], cfg |-> dirs[d].toml]
  <1>1. d \in Dir
    BY DEF TypedInv, TypeOK, BootIsAlone, BootEntry
  <1>2. dirs[d].toml \in Config /\ k \in Name
    BY <1>1 DEF TypedInv, TypeOK, readable, Directory
  <1>3. save(d, k, dirs[d].toml) /\ make_dir(k) /\ Mount(n, hive) /\ refused' = refused
    BY DEF BootEntry
  <1>. HIDE DEF d, k, hive
  <1>4. /\ dirs' \in [Dir -> Directory]
        /\ dirs'[d].toml = dirs[d].toml /\ dirs'[d].name = k
        /\ dirs'[d].format = FORMAT_VERSION
        /\ dirs'[d].content = dirs[d].content
        /\ \A e \in Dir : e # d => dirs'[e] = dirs[e]
    BY <1>1, <1>2, <1>3, SaveEffect DEF TypedInv, TypeOK
  <1>5. /\ place' \in [Name -> Dir \cup {None}] /\ made' \in 0 .. MaxDir
        /\ place'[k] \in Dir
        /\ place[k] # None => place'[k] = place[k] /\ made' = made
        /\ place[k] = None => place'[k] = made + 1 /\ made' = made + 1
        /\ \A m \in Name : m # k => place'[m] = place[m]
    BY <1>2, <1>3, MakeDirEffect DEF TypedInv, TypeOK
  <1>6. hive \in Hives /\ hive # NoHive
    BY <1>2, <1>5 DEF hive, Hives, NoHive, Dir, None
  <1>7. inner' \in [Name -> Hives] /\ inner'[n] = hive
        /\ \A m \in Name : m # n => inner'[m] = inner[m]
    BY <1>3, <1>6 DEF TypedInv, TypeOK, Mount
  <1>8. Mounted(n)'
    BY <1>6, <1>7 DEF Mounted
  <1>. QED  BY <1>1, <1>2, <1>3, <1>4, <1>5, <1>7, <1>8 DEF d, k, hive

LEMMA BootEntryTyped ==
  ASSUME TypedInv, NEW n \in Name, BootEntry(n)
  PROVE  TypedInv'
  <1>1. UNCHANGED <<trash, phase, call, written, served, failed, astray>>
        /\ scan' \subseteq scan /\ phase = "scanning"
    BY DEF BootEntry, history
  <1>2. CASE readable(place[n])
    <2>1. TypeOK'
      BY <1>1, <1>2, BootEntryEffect DEF TypedInv, TypeOK
    <2>2. \A m \in scan' : place'[m] # None
      BY <1>1, <1>2, BootEntryEffect DEF TypedInv, TypeOK, BootIsAlone
    <2>. QED  BY <1>1, <2>1, <2>2
           DEF TypedInv, CallsAreFormed, BootIsAlone, Actor
  <1>3. CASE ~readable(place[n])
    BY <1>3 DEF TypedInv, TypeOK, CallsAreFormed, BootIsAlone, BootEntry, history, Actor
  <1>. QED  BY <1>2, <1>3

LEMMA BootDefaultTyped == TypedInv /\ BootDefault => TypedInv'
  <1>. SUFFICES ASSUME TypedInv, BootDefault PROVE TypedInv'
    OBVIOUS
  <1>1. PICK cfg \in Config :
            Goes(Boot, [Idle EXCEPT !.pc = "mkdir", !.name = Default, !.cfg = cfg])
    BY DEF BootDefault
  <1>. DEFINE next == [Idle EXCEPT !.pc = "mkdir", !.name = Default, !.cfg = cfg]
  <1>2. Moves(Boot, next)
    BY <1>1, DatabasesAssumption DEF Moves, Goes, Idle, Calls, None
  <1>. HIDE DEF next
  <1>3. call' \in [Actor -> Calls] /\ CallsAreFormed'
        /\ \A d \in Actor : d # Boot => call'[d] = call[d]
    BY <1>2, MovesKeeps DEF TypedInv, TypeOK, Actor
  <1>4. TypeOK'
    BY <1>3 DEF TypedInv, TypeOK, BootDefault, disk, memory, history
  <1>5. BootIsAlone'
    BY <1>3, DatabasesAssumption DEF TypedInv, BootIsAlone, BootDefault, disk, Actor
  <1>. QED  BY <1>3, <1>4, <1>5 DEF TypedInv

LEMMA BootReadyTyped == TypedInv /\ BootReady => TypedInv'
  BY DEF TypedInv, TypeOK, CallsAreFormed, BootIsAlone, BootReady, disk, memory,
         history, Actor

LEMMA StopTyped == TypedInv /\ Stop => TypedInv'
  BY DEF TypedInv, TypeOK, CallsAreFormed, BootIsAlone, Stop, disk, Actor, Idle, Calls,
         Hives, None

LEMMA CreateBeginTyped ==
  ASSUME TypedInv, NEW c \in Client, NEW n \in Name, NEW cfg \in Config,
         CreateBegin(c, n, cfg)
  PROVE  TypedInv'
  <1>1. Moves(c, [Idle EXCEPT !.pc = "mkdir", !.name = n, !.cfg = cfg])
    BY DEF CreateBegin, Moves, Goes, Idle, Calls, None
  <1>. QED  BY <1>1, ActorKeepsTypes
         DEF CreateBegin, TypedInv, TypeOK, disk, memory, history, Actor

(* An actor at work is at work on a name.                                  *)
LEMMA AtWorkOnAName ==
  ASSUME TypedInv, NEW c \in Actor, call[c].pc # "idle"
  PROVE  call[c] \in Calls /\ call[c].name \in Name
  BY DEF TypedInv, TypeOK, CallsAreFormed

LEMMA CreateDirTyped ==
  ASSUME TypedInv, NEW c \in Actor, CreateDir(c)
  PROVE  TypedInv'
  <1>1. call[c] \in Calls /\ call[c].name \in Name /\ call[c].cfg \in Config
    BY AtWorkOnAName DEF CreateDir, TypedInv, CallsAreFormed
  <1>2. Moves(c, [call[c] EXCEPT !.pc = "save"])
    BY <1>1 DEF CreateDir, Moves, Goes, Calls
  <1>3. place' \in [Name -> Dir \cup {None}] /\ made' \in 0 .. MaxDir
    BY <1>1, MakeDirEffect DEF CreateDir, TypedInv, TypeOK
  <1>. QED  BY <1>2, <1>3, ActorKeepsTypes
         DEF CreateDir, TypedInv, TypeOK, memory, history

LEMMA CreateSaveTyped ==
  ASSUME TypedInv, NEW c \in Actor, CreateSave(c)
  PROVE  TypedInv'
  <1>1. call[c] \in Calls /\ call[c].name \in Name /\ call[c].cfg \in Config
    BY AtWorkOnAName DEF CreateSave, TypedInv, CallsAreFormed
  <1>2. Moves(c, [call[c] EXCEPT !.pc = "open"])
    BY <1>1 DEF CreateSave, Moves, Goes, Calls
  <1>3. place[call[c].name] \in Dir /\ save(place[call[c].name], call[c].name, call[c].cfg)
    BY <1>1 DEF CreateSave, TypedInv, TypeOK
  <1>4. dirs' \in [Dir -> Directory]
    BY <1>1, <1>3, SaveEffect DEF TypedInv, TypeOK
  <1>. QED  BY <1>2, <1>4, ActorKeepsTypes
         DEF CreateSave, TypedInv, TypeOK, memory, history

LEMMA CreateOpenTyped ==
  ASSUME TypedInv, NEW c \in Actor, CreateOpen(c)
  PROVE  TypedInv'
  <1>1. call[c] \in Calls /\ call[c].name \in Name /\ call[c].cfg \in Config
    BY AtWorkOnAName DEF CreateOpen, TypedInv, CallsAreFormed
  <1>2. place' \in [Name -> Dir \cup {None}] /\ made' \in 0 .. MaxDir
        /\ place'[call[c].name] \in Dir
    BY <1>1, MakeDirEffect DEF CreateOpen, TypedInv, TypeOK
  <1>3. Moves(c, [call[c] EXCEPT !.pc = "insert", !.dir = place'[call[c].name]])
    BY <1>1, <1>2 DEF CreateOpen, Moves, Goes, Calls
  <1>. QED  BY <1>2, <1>3, ActorKeepsTypes
         DEF CreateOpen, TypedInv, TypeOK, memory, history

LEMMA CreateInsertTyped ==
  ASSUME TypedInv, NEW c \in Actor, CreateInsert(c)
  PROVE  TypedInv'
  <1>1. call[c].name \in Name /\ opened(c) \in Hives
    BY AtWorkOnAName DEF CreateInsert, TypedInv, CallsAreFormed, opened, Hives
  <1>2. Moves(c, Idle)
    BY IdleIsFormed DEF CreateInsert
  <1>3. inner' \in [Name -> Hives]
    BY <1>1 DEF CreateInsert, Mount, TypedInv, TypeOK
  <1>. QED  BY <1>2, <1>3, ActorKeepsTypes
         DEF CreateInsert, TypedInv, TypeOK, disk, history

LEMMA CreateFailsTyped ==
  ASSUME TypedInv, NEW c \in Client, CreateFails(c)
  PROVE  TypedInv'
  <1>1. call[c].name \in Name
    BY AtWorkOnAName DEF CreateFails, Actor
  <1>2. Moves(c, Idle)
    BY IdleIsFormed DEF CreateFails, Actor
  <1>. QED  BY <1>1, <1>2, ActorKeepsTypes
         DEF CreateFails, TypedInv, TypeOK, disk, memory, Actor

LEMMA DropUnmountTyped ==
  ASSUME TypedInv, NEW c \in Client, NEW n \in Name, NEW purge \in BOOLEAN,
         DropUnmount(c, n, purge)
  PROVE  TypedInv'
  <1>1. Moves(c, [Idle EXCEPT !.pc = "move", !.name = n, !.purge = purge])
    BY DEF DropUnmount, Moves, Goes, Idle, Calls, None
  <1>2. inner' \in [Name -> Hives]
    BY DEF DropUnmount, Mount, Hives, TypedInv, TypeOK
  <1>. QED  BY <1>1, <1>2, ActorKeepsTypes
         DEF DropUnmount, TypedInv, TypeOK, disk, history, Actor

LEMMA DropMoveTyped ==
  ASSUME TypedInv, NEW c \in Client, DropMove(c)
  PROVE  TypedInv'
  <1>. DEFINE n == call[c].name
  <1>1. call[c] \in Calls /\ n \in Name
    BY AtWorkOnAName DEF DropMove, Actor
  <1>2. \E next : Moves(c, next)
    <2>1. CASE call[c].purge /\ place[n] # None
      <3>1. place[n] \in Dir
        BY <1>1, <2>1 DEF TypedInv, TypeOK
      <3>2. Goes(c, [call[c] EXCEPT !.pc = "purge", !.dir = place[n]])
        BY <2>1 DEF DropMove
      <3>3. Moves(c, [call[c] EXCEPT !.pc = "purge", !.dir = place[n]])
        BY <1>1, <3>1, <3>2 DEF Moves, Goes, Calls
      <3>. QED  BY <3>3
    <2>2. CASE ~(call[c].purge /\ place[n] # None)
      BY <2>2, IdleIsFormed DEF DropMove, Actor
    <2>. QED  BY <2>1, <2>2
  <1>3. place' \in [Name -> Dir \cup {None}]
    BY DEF DropMove, TypedInv, TypeOK
  <1>4. trash' \subseteq Dir
    BY <1>1 DEF DropMove, TypedInv, TypeOK
  <1>5. served' \in [Name -> SUBSET Vector]
    BY DEF DropMove, TypedInv, TypeOK
  <1>. QED  BY <1>2, <1>3, <1>4, <1>5, ActorKeepsTypes
         DEF DropMove, TypedInv, TypeOK, memory, Actor

LEMMA DropFailsTyped ==
  ASSUME TypedInv, NEW c \in Client, DropFails(c)
  PROVE  TypedInv'
  <1>1. call[c].name \in Name
    BY AtWorkOnAName DEF DropFails, Actor
  <1>2. Moves(c, Idle)
    BY IdleIsFormed DEF DropFails, Actor
  <1>. QED  BY <1>1, <1>2, ActorKeepsTypes
         DEF DropFails, TypedInv, TypeOK, disk, memory, Actor

LEMMA DropPurgeTyped ==
  ASSUME TypedInv, NEW c \in Client, DropPurge(c)
  PROVE  TypedInv'
  <1>1. Moves(c, Idle)
    BY IdleIsFormed DEF DropPurge, Actor
  <1>2. Empty \in Directory
    BY DEF Empty, Directory, None
  <1>3. trash' \subseteq Dir /\ dirs' \in [Dir -> Directory]
    BY <1>2 DEF DropPurge, TypedInv, TypeOK
  <1>. QED  BY <1>1, <1>3, ActorKeepsTypes
         DEF DropPurge, TypedInv, TypeOK, memory, history, Actor

LEMMA ResolveTyped ==
  ASSUME TypedInv, NEW c \in Client, NEW n \in Name, Resolve(c, n)
  PROVE  TypedInv'
  <1>1. inner[n].dir \in Dir
    BY DEF Resolve, Mounted, TypedInv, TypeOK, Hives
  <1>2. Moves(c, [Idle EXCEPT !.pc = "using", !.name = n, !.dir = inner[n].dir])
    BY <1>1 DEF Resolve, Moves, Goes, Idle, Calls, None
  <1>. QED  BY <1>2, ActorKeepsTypes
         DEF Resolve, TypedInv, TypeOK, disk, memory, history, Actor

LEMMA WriteEffect ==
  ASSUME TypedInv, NEW c \in Client, Write(c)
  PROVE  /\ call[c].name \in Name /\ call[c].dir \in Dir
         /\ written + 1 \in Vector
         /\ dirs' \in [Dir -> Directory]
         /\ \A e \in Dir : /\ dirs'[e].toml = dirs[e].toml
                           /\ dirs'[e].name = dirs[e].name
                           /\ dirs'[e].format = dirs[e].format
                           /\ dirs[e].content \subseteq dirs'[e].content
         /\ written + 1 \in dirs'[call[c].dir].content
  <1>. DEFINE d == call[c].dir
              new == [dirs[d] EXCEPT !.content = @ \cup {written + 1}]
  <1>1. call[c].name \in Name /\ d \in Dir
    BY AtWorkOnAName DEF Write, TypedInv, CallsAreFormed, Actor
  <1>2. written + 1 \in Vector
    BY DatabasesAssumption DEF Write, TypedInv, TypeOK, Vector
  <1>3. dirs \in [Dir -> Directory] /\ dirs' = [dirs EXCEPT ![d] = new]
    BY DEF Write, TypedInv, TypeOK
  <1>4. new \in Directory /\ new.toml = dirs[d].toml /\ new.name = dirs[d].name
        /\ new.format = dirs[d].format
        /\ new.content = dirs[d].content \cup {written + 1}
    BY <1>1, <1>2, <1>3 DEF Directory
  <1>. HIDE DEF new
  <1>. QED  BY <1>1, <1>2, <1>3, <1>4

LEMMA WriteTyped ==
  ASSUME TypedInv, NEW c \in Client, Write(c)
  PROVE  TypedInv'
  <1>1. Moves(c, Idle)
    BY IdleIsFormed DEF Write, Actor
  <1>2. written' \in 0 .. MaxWrite
    BY DatabasesAssumption DEF Write, TypedInv, TypeOK
  <1>3. served' \in [Name -> SUBSET Vector]
    <2>. DEFINE n == call[c].name
                more == [served EXCEPT ![n] = @ \cup {written + 1}]
    <2>1. n \in Name /\ written + 1 \in Vector /\ served \in [Name -> SUBSET Vector]
      BY WriteEffect DEF TypedInv, TypeOK
    <2>2. more \in [Name -> SUBSET Vector]
      BY <2>1
    <2>3. served' = more \/ served' = served
      BY DEF Write
    <2>. QED  BY <2>1, <2>2, <2>3
  <1>. QED  BY <1>1, <1>2, <1>3, WriteEffect, ActorKeepsTypes
         DEF Write, TypedInv, TypeOK, memory, Actor

LEMMA TypedNext == TypedInv /\ [Next]_vars => TypedInv'
  <1>. SUFFICES ASSUME TypedInv, [Next]_vars PROVE TypedInv'
    OBVIOUS
  <1>1. CASE Continue
    <2>1. CASE Start \/ BootDefault \/ BootReady \/ Stop
      BY <2>1, StartTyped, BootDefaultTyped, BootReadyTyped, StopTyped
    <2>2. CASE \E n \in Name : BootEntry(n)
      BY <2>2, BootEntryTyped
    <2>3. CASE \E c \in Actor : Create(c)
      BY <2>3, CreateDirTyped, CreateSaveTyped, CreateOpenTyped, CreateInsertTyped
         DEF Create
    <2>4. CASE \E c \in Client : CreateFails(c) \/ Drop(c) \/ Use(c)
      BY <2>4, CreateFailsTyped, DropMoveTyped, DropFailsTyped, DropPurgeTyped,
         ResolveTyped, WriteTyped DEF Drop, Use
    <2>. QED  BY <1>1, <2>1, <2>2, <2>3, <2>4 DEF Continue
  <1>2. CASE \E c \in Client, n \in Name : Begin(c, n)
    BY <1>2, CreateBeginTyped, DropUnmountTyped DEF Begin
  <1>3. CASE UNCHANGED vars
    <2>1. TypeOK'
      BY <1>3 DEF vars, TypedInv, TypeOK
    <2>2. CallsAreFormed' /\ BootIsAlone'
      BY <1>3 DEF vars, TypedInv, CallsAreFormed, BootIsAlone
    <2>. QED  BY <2>1, <2>2 DEF TypedInv
  <1>. QED  BY <1>1, <1>2, <1>3 DEF Next

(* The values the variables take, whatever creations, drops, requests,     *)
(* failures and crashes interleave: no step of the server works on a       *)
(* directory or with a configuration it does not have.                     *)
THEOREM DatabasesTypeCorrect == Spec => []TypeOK
  <1>1. TypedInv => TypeOK
    BY DEF TypedInv
  <1>. QED  BY <1>1, TypedInit, TypedNext, PTL DEF Spec

-----------------------------------------------------------------------------
(* Creations and drops of one name at a time (SerialSpec).                 *)

OneAtATime ==
    \A c, d \in Actor :
        (Changing(c) /\ Changing(d) /\ call[c].name = call[d].name) => c = d

(* Directories are numbered as they are made; no two names have the same,  *)
(* and one that is being purged is at no name.                             *)
DirsAreApart ==
    /\ \A n \in Name : place[n] <= made
    /\ \A n, m \in Name : (place[n] = place[m] /\ place[n] # None) => n = m
    /\ \A c \in Actor : call[c].pc = "purge" =>
           call[c].dir <= made /\ \A n \in Name : place[n] # call[c].dir

(* Directories yet to be made hold no db.toml.                             *)
FreshAreBlank == \A d \in Dir : d <= made \/ dirs[d].toml = None

Saved(d, n, cfg) ==
    dirs[d].toml = cfg /\ dirs[d].name = n /\ dirs[d].format = FORMAT_VERSION

(* What a creation or a drop may rely on since its earlier steps.          *)
Relies(c) ==
    LET n == call[c].name
    IN /\ Changing(c) => ~Mounted(n)
       /\ call[c].pc \in {"save", "open", "insert"} => place[n] # None
       /\ call[c].pc \in {"open", "insert"} => Saved(place[n], n, call[c].cfg)
       /\ call[c].pc = "insert" => call[c].dir = place[n]
       /\ call[c].pc = "purge" => place[n] = None

InProgress == \A c \in Actor : Relies(c)

(* MountedAsSaved and ServedIsInPlace, of one name; and that its directory *)
(* names it.                                                               *)
Kept(n) ==
    n \notin astray =>
        /\ (place[n] # None /\ dirs[place[n]].toml # None) => dirs[place[n]].name = n
        /\ Mounted(n) => place[n] = inner[n].dir /\ Saved(place[n], n, inner[n].cfg)
        /\ served[n] # {} => /\ place[n] # None
                             /\ served[n] \subseteq dirs[place[n]].content

(* A name there is nothing left to do for, or somebody still does it.      *)
Attended(n) ==
    \/ n \in scan
    \/ Mounted(n)
    \/ place[n] = None
    \/ ~readable(place[n])
    \/ n \in failed
    \/ \E c \in Actor : Changing(c) /\ call[c].name = n

Visited == phase # "down" => \A n \in Name : Attended(n)

SerialInv ==
    /\ TypedInv
    /\ OneAtATime
    /\ DirsAreApart
    /\ FreshAreBlank
    /\ InProgress
    /\ \A n \in Name : Kept(n)
    /\ Visited

LEMMA PlacesAreDirs ==
  ASSUME TypedInv, NEW n \in Name, place[n] # None
  PROVE  place[n] \in Dir
  BY DEF TypedInv, TypeOK

(* Everything a step that works on the name n leaves alone: the other      *)
(* actors, and the other names with what is in their directories.          *)
SparesOthers(c, n) ==
    /\ \A d \in Actor : d # c => call'[d] = call[d]
    /\ astray' = astray
    /\ \A e \in Dir : dirs'[e] = dirs[e] \/ e <= made \/ dirs'[e].toml = None
    /\ \A m \in Name : m # n =>
         /\ place'[m] = place[m] /\ inner'[m] = inner[m] /\ served'[m] = served[m]
         /\ m \in failed => m \in failed'
         /\ m \in scan => m \in scan'
         /\ place[m] # None => dirs'[place[m]] = dirs[place[m]]
    /\ \/ place'[n] = place[n] /\ made' = made
       \/ place'[n] = None /\ made' = made
       \/ place'[n] = made + 1 /\ made' = made + 1

(* The actor c works on n, and nobody else does.                           *)
HasToItself(c, n) ==
    /\ Changing(c) => call[c].name = n
    /\ \A d \in Actor : (d # c /\ Changing(d)) => call[d].name # n

LEMMA AloneAtWork ==
  ASSUME OneAtATime, NEW c \in Actor, Changing(c)
  PROVE  HasToItself(c, call[c].name)
  BY DEF OneAtATime, HasToItself

(* What is left to show of a step of c on n: its own name and its call.    *)
LEMMA OthersAreKept ==
  ASSUME SerialInv, TypedInv', NEW c \in Actor, NEW n \in Name,
         SparesOthers(c, n), HasToItself(c, n), phase # "down",
         Changing(c)' => call'[c].name = n,
         call'[c].pc = "purge" =>
            place[n] # None /\ call'[c].dir = place[n] /\ place'[n] = None,
         Relies(c)', Kept(n)', Attended(n)'
  PROVE  SerialInv'
  <1>1. \A m \in Name : place[m] \in Nat /\ place[m] <= made /\ made \in Nat
    BY DatabasesAssumption DEF SerialInv, TypedInv, TypeOK, DirsAreApart, Dir, None
  <1>2. OneAtATime'
    <2>. SUFFICES ASSUME NEW a \in Actor, NEW b \in Actor, Changing(a)', Changing(b)',
                         call'[a].name = call'[b].name
                  PROVE  a = b
      BY DEF OneAtATime, Actor
    <2>1. \A d \in Actor : d # c /\ Changing(d)' => Changing(d) /\ call'[d].name # n
      BY DEF SparesOthers, HasToItself, Changing
    <2>2. \A d \in Actor : d # c => call'[d] = call[d]
      BY DEF SparesOthers
    <2>. QED  BY <2>1, <2>2 DEF SerialInv, OneAtATime
  <1>3. DirsAreApart'
    <2>1. \A m \in Name : place'[m] <= made'
      BY <1>1 DEF SparesOthers, None
    <2>2. \A l, m \in Name : (place'[l] = place'[m] /\ place'[l] # None) => l = m
      BY <1>1 DEF SparesOthers, SerialInv, DirsAreApart, None
    <2>3. ASSUME NEW d \in Actor, call'[d].pc = "purge"
          PROVE  call'[d].dir <= made' /\ \A m \in Name : place'[m] # call'[d].dir
      <3>1. CASE d = c
        <4>1. place[n] # None /\ call'[c].dir = place[n] /\ place'[n] = None
          BY <2>3, <3>1
        <4>2. made' = made
          BY <4>1, <1>1 DEF SparesOthers, None
        <4>. QED  BY <3>1, <4>1, <4>2, <1>1 DEF SparesOthers, SerialInv, DirsAreApart
      <3>2. CASE d # c
        <4>1. call'[d] = call[d]
          BY <3>2 DEF SparesOthers
        <4>2. call[d].dir <= made /\ \A m \in Name : place[m] # call[d].dir
          BY <2>3, <4>1 DEF SerialInv, DirsAreApart
        <4>3. call[d].dir \in Nat /\ call[d].dir # 0
          BY <2>3, <4>1 DEF SerialInv, TypedInv, CallsAreFormed, Dir
        <4>. QED  BY <4>1, <4>2, <4>3, <1>1 DEF SparesOthers, None
      <3>. QED  BY <3>1, <3>2
    <2>. QED  BY <2>1, <2>2, <2>3 DEF DirsAreApart, Actor
  <1>3a. FreshAreBlank'
    BY <1>1 DEF SerialInv, FreshAreBlank, SparesOthers, Dir, None
  <1>4. InProgress'
    <2>. SUFFICES ASSUME NEW d \in Actor, d # c PROVE Relies(d)'
      BY DEF InProgress, Actor
    <2>1. call'[d] = call[d] /\ Relies(d)
      BY DEF SparesOthers, SerialInv, InProgress
    <2>2. CASE Changing(d)
      <3>1. call[d].name \in Name /\ call[d].name # n
        BY <2>2 DEF Changing, HasToItself, SerialInv, TypedInv, CallsAreFormed
      <3>. QED  BY <2>1, <3>1
             DEF Relies, SparesOthers, Changing, Mounted, Saved
    <2>3. CASE ~Changing(d)
      BY <2>1, <2>3 DEF Relies, Changing
    <2>. QED  BY <2>2, <2>3
  <1>5. \A m \in Name : Kept(m)'
    <2>. SUFFICES ASSUME NEW m \in Name, m # n PROVE Kept(m)'
      OBVIOUS
    <2>1. Kept(m) /\ astray' = astray
      BY DEF SerialInv, SparesOthers
    <2>2. place'[m] = place[m] /\ inner'[m] = inner[m] /\ served'[m] = served[m]
      BY DEF SparesOthers
    <2>3. m \notin astray /\ Mounted(m) => place[m] # None
      <3>1. inner[m] # NoHive => inner[m].dir # None
        BY DEF SerialInv, TypedInv, TypeOK, Hives, Dir, None
      <3>. QED  BY <3>1, <2>1 DEF Kept, Mounted
    <2>4. CASE place[m] = None
      BY <2>1, <2>2, <2>3, <2>4 DEF Kept, Mounted
    <2>5. CASE place[m] # None
      <3>1. dirs'[place[m]] = dirs[place[m]]
        BY <2>5 DEF SparesOthers
      <3>. QED  BY <2>1, <2>2, <2>5, <3>1 DEF Kept, Mounted, Saved
    <2>. QED  BY <2>4, <2>5
  <1>6. Visited'
    <2>. SUFFICES ASSUME NEW m \in Name, m # n PROVE Attended(m)'
      BY DEF Visited
    <2>1. Attended(m)
      BY DEF SerialInv, Visited
    <2>2. CASE \E d \in Actor : Changing(d) /\ call[d].name = m
      <3>1. PICK d \in Actor : Changing(d) /\ call[d].name = m
        BY <2>2
      <3>2. d # c
        BY <3>1 DEF HasToItself
      <3>3. call'[d] = call[d]
        BY <3>2 DEF SparesOthers
      <3>. QED  BY <3>1, <3>3 DEF Attended, Changing, Actor
    <2>3. CASE ~(\E d \in Actor : Changing(d) /\ call[d].name = m)
      BY <2>1, <2>3 DEF Attended, SparesOthers, Mounted, readable
    <2>. QED  BY <2>2, <2>3
  <1>. QED  BY <1>2, <1>3, <1>3a, <1>4, <1>5, <1>6 DEF SerialInv

(* Who is at work, and that the server is not down meanwhile.              *)
LEMMA AtWork ==
  ASSUME SerialInv, NEW c \in Actor, Changing(c)
  PROVE  /\ call[c] \in Calls /\ call[c].name \in Name
         /\ HasToItself(c, call[c].name)
         /\ phase # "down"
         /\ ~Mounted(call[c].name) /\ Relies(c) /\ Kept(call[c].name)
  <1>1. call[c] \in Calls /\ call[c].name \in Name
    BY AtWorkOnAName DEF SerialInv, Changing
  <1>2. HasToItself(c, call[c].name)
    BY AloneAtWork DEF SerialInv
  <1>3. phase # "down"
    BY DEF SerialInv, TypedInv, BootIsAlone, Changing, Actor
  <1>4. Relies(c) /\ ~Mounted(call[c].name)
    BY DEF SerialInv, InProgress, Relies
  <1>. QED  BY <1>1, <1>2, <1>3, <1>4 DEF SerialInv

(* Only c's call changes.                                                  *)
LEMMA GoesMoves ==
  ASSUME TypedInv, NEW c \in Actor, NEW next, Goes(c, next)
  PROVE  /\ call'[c] = next
         /\ \A d \in Actor : d # c => call'[d] = call[d]
  BY DEF TypedInv, TypeOK, Goes

LEMMA SerialInit == Init => SerialInv
  <1>. SUFFICES ASSUME Init PROVE SerialInv
    OBVIOUS
  <1>1. TypedInv
    BY TypedInit
  <1>2. \A c \in Actor : call[c] = Idle /\ ~Changing(c)
    BY DEF Init, Changing, Idle
  <1>3. OneAtATime /\ InProgress
    BY <1>2 DEF OneAtATime, InProgress, Relies, Idle
  <1>4. DirsAreApart
    <2>1. home \in Injections
      BY HomeIsInjective
    <2>2. \A n \in Name : home[n] \in 1 .. made
      BY <2>1 DEF Init, Injections
    <2>3. Cardinality(Name) \in Nat
      BY FS_CardinalityType, DatabasesAssumption
    <2>4. \A n \in Name : place[n] = home[n] \/ place[n] = None
      BY DEF Init
    <2>5. \A n \in Name : place[n] <= made
      BY <2>2, <2>3, <2>4 DEF None, Init
    <2>6. \A n, m \in Name : (place[n] = place[m] /\ place[n] # None) => n = m
      BY <2>1, <2>4 DEF Injections
    <2>. QED  BY <2>5, <2>6, <1>2 DEF DirsAreApart, Idle
  <1>5. FreshAreBlank
    <2>. SUFFICES ASSUME NEW d \in Dir, ~(d <= made) PROVE dirs[d].toml = None
      BY DEF FreshAreBlank
    <2>1. PICK kept \in SUBSET Name :
              \A e \in Dir : (\A n \in kept : home[n] # e) => dirs[e] = Empty
      BY DEF Init
    <2>2. \A n \in kept : home[n] \in 1 .. made
      BY HomeIsInjective DEF Init, Injections
    <2>3. made \in Nat
      BY FS_CardinalityType, DatabasesAssumption DEF Init
    <2>4. \A n \in kept : home[n] # d
      BY <2>2, <2>3 DEF Dir
    <2>. QED  BY <2>1, <2>4 DEF Empty
  <1>6. \A n \in Name : Kept(n)
    BY DEF Init, Kept, Mounted
  <1>7. Visited
    BY DEF Init, Visited
  <1>. QED  BY <1>1, <1>3, <1>4, <1>5, <1>6, <1>7 DEF SerialInv

LEMMA StartSerial == SerialInv /\ Start => SerialInv'
  <1>. SUFFICES ASSUME SerialInv, Start PROVE SerialInv'
    OBVIOUS
  <1>1. TypedInv'
    BY StartTyped DEF SerialInv
  <1>2. OneAtATime' /\ DirsAreApart' /\ FreshAreBlank' /\ InProgress'
        /\ \A n \in Name : Kept(n)'
    BY DEF SerialInv, Start, disk, memory, history, OneAtATime, Changing, DirsAreApart,
           FreshAreBlank, InProgress, Relies, Mounted, Saved, Kept, Actor
  <1>3. Visited'
    BY DEF Start, disk, Visited, Attended
  <1>. QED  BY <1>1, <1>2, <1>3 DEF SerialInv

(* Nobody else is at work while the server boots.                          *)
LEMMA BootHasToItself ==
  ASSUME TypedInv, NEW n \in Name, phase = "scanning"
  PROVE  HasToItself(Boot, n) /\ \A c \in Actor : ~Changing(c)
  BY DEF TypedInv, BootIsAlone, HasToItself, Changing, Actor

LEMMA BootEntrySerial ==
  ASSUME SerialInv, NEW n \in Name, BootEntry(n)
  PROVE  SerialInv'
  <1>. DEFINE d == place[n]
              k == dirs[d].name
  <1>1. TypedInv'
    BY BootEntryTyped DEF SerialInv
  <1>2. phase = "scanning" /\ Boot \in Actor /\ \A m \in Name : Kept(m) /\ Attended(m)
    BY DEF SerialInv, BootEntry, Actor, Visited
  <1>3. HasToItself(Boot, n) /\ (\A c \in Actor : ~Changing(c)) /\ call[Boot].pc = "idle"
    BY <1>2, BootHasToItself DEF SerialInv, TypedInv, BootIsAlone
  <1>4. UNCHANGED <<call, phase, served, failed, astray>> /\ d \in Dir
        /\ \A m \in Name : m # n /\ m \in scan => m \in scan'
    BY DEF BootEntry, history, SerialInv, TypedInv, TypeOK, BootIsAlone
  <1>5. Relies(Boot)' /\ ~Changing(Boot)' /\ call'[Boot].pc # "purge"
    BY <1>3, <1>4 DEF Relies, Changing
  <1>6. CASE readable(d)
    <2>1. /\ k \in Name /\ place'[k] \in Dir
          /\ dirs'[d].toml = dirs[d].toml /\ dirs'[d].name = k
          /\ dirs'[d].format = FORMAT_VERSION /\ dirs'[d].content = dirs[d].content
          /\ Mounted(n)' /\ inner'[n] = [dir |-> place'[k], cfg |-> dirs[d].toml]
      BY <1>6, BootEntryEffect DEF SerialInv
    <2>2. \A e \in Dir : e # d => dirs'[e] = dirs[e]
      BY <1>6, BootEntryEffect DEF SerialInv
    <2>3. /\ \A m \in Name : place[m] # None => place'[m] = place[m]
          /\ \A m \in Name : m # n => inner'[m] = inner[m]
      BY <1>6, BootEntryEffect DEF SerialInv
    <2>4. \/ made' = made /\ \A m \in Name : place'[m] = place[m]
          \/ /\ made' = made + 1 /\ place'[k] = made + 1
             /\ \A m \in Name \ {k} : place'[m] = place[m]
      BY <1>6, BootEntryEffect DEF SerialInv
    <2>. HIDE DEF d, k
    <2>5. \A m \in Name : place[m] \in Nat /\ place[m] <= made /\ made \in Nat
      BY DatabasesAssumption DEF SerialInv, TypedInv, TypeOK, DirsAreApart, Dir, None
    <2>6. d <= made /\ d = place[n] /\ d # None
      BY <1>4, <2>5 DEF d, Dir, None
    <2>7. \A m \in Name : m # n /\ place[m] # None => dirs'[place[m]] = dirs[place[m]]
      BY <2>2, <2>6, PlacesAreDirs DEF SerialInv, DirsAreApart
    <2>8. DirsAreApart'
      <3>1. \A m \in Name : place'[m] <= made'
        BY <2>1, <2>4, <2>5
      <3>2. \A l, m \in Name : (place'[l] = place'[m] /\ place'[l] # None) => l = m
        BY <2>1, <2>4, <2>5 DEF SerialInv, DirsAreApart
      <3>3. \A c \in Actor : call'[c].pc # "purge"
        BY <1>3, <1>4 DEF Changing
      <3>. QED  BY <3>1, <3>2, <3>3 DEF DirsAreApart, Actor
    <2>9. FreshAreBlank'
      BY <2>2, <2>4, <2>5, <2>6 DEF SerialInv, FreshAreBlank, Dir
    <2>10. ASSUME NEW m \in Name, place[m] = None, place'[m] # None
           PROVE  dirs'[place'[m]].toml = None
      <3>1. place'[m] = made + 1
        BY <2>4, <2>10
      <3>2. place'[m] \in Dir
        BY <2>10, <1>1 DEF TypedInv, TypeOK
      <3>3. dirs[place'[m]].toml = None /\ place'[m] # d
        BY <3>1, <3>2, <2>5, <2>6 DEF SerialInv, FreshAreBlank
      <3>. QED  BY <3>2, <3>3, <2>2
    <2>11. Kept(n)'
      <3>. SUFFICES ASSUME n \notin astray PROVE Kept(n)'
        BY <1>4 DEF Kept
      <3>1. k = n
        BY <1>2, <1>6, <2>6 DEF Kept, k, d, readable
      <3>2. place'[n] = d
        BY <2>3, <2>6
      <3>. QED  BY <1>2, <1>4, <2>1, <2>6, <3>1, <3>2 DEF Kept, Saved
    <2>12. ASSUME NEW m \in Name, m # n PROVE Kept(m)'
      <3>. SUFFICES ASSUME m \notin astray PROVE Kept(m)'
        BY <1>4 DEF Kept
      <3>1. inner'[m] = inner[m] /\ served'[m] = served[m] /\ Kept(m)
        BY <1>2, <1>4, <2>3, <2>12
      <3>2. CASE place[m] # None
        BY <3>1, <3>2, <2>3, <2>7, <2>12 DEF Kept, Mounted, Saved
      <3>3. CASE place[m] = None
        <4>1. inner[m] # NoHive => inner[m].dir # None
          BY DEF SerialInv, TypedInv, TypeOK, Hives, Dir, None
        <4>2. ~Mounted(m)' /\ served'[m] = {}
          BY <3>1, <3>3, <4>1 DEF Kept, Mounted
        <4>. QED  BY <2>10, <3>3, <4>2 DEF Kept
      <3>. QED  BY <3>2, <3>3
    <2>13. ASSUME NEW m \in Name, m # n PROVE Attended(m)'
      <3>1. Attended(m) /\ ~\E c \in Actor : Changing(c) /\ call[c].name = m
        BY <1>2, <1>3
      <3>2. CASE place[m] # None
        BY <1>4, <2>3, <2>7, <2>13, <3>1, <3>2 DEF Attended, Mounted, readable
      <3>3. CASE place[m] = None
        BY <2>10, <3>3 DEF Attended, readable
      <3>. QED  BY <3>2, <3>3
    <2>14. Attended(n)'
      BY <2>1 DEF Attended
    <2>15. OneAtATime' /\ InProgress'
      BY <1>3, <1>4 DEF OneAtATime, InProgress, Relies, Changing, Actor
    <2>. QED  BY <1>1, <2>8, <2>9, <2>11, <2>12, <2>13, <2>14, <2>15
           DEF SerialInv, Visited
  <1>7. CASE ~readable(d)
    <2>1. dirs' = dirs /\ inner' = inner /\ place' = place /\ made' = made
      BY <1>7 DEF BootEntry
    <2>2. SparesOthers(Boot, n)
      BY <1>4, <2>1 DEF SparesOthers
    <2>3. Kept(n)'
      BY <1>2, <1>4, <2>1 DEF Kept, Saved, Mounted
    <2>4. Attended(n)'
      BY <1>7, <1>4, <2>1 DEF Attended, readable
    <2>. HIDE DEF d
    <2>. QED  BY <1>1, <1>2, <1>3, <1>5, <2>2, <2>3, <2>4, OthersAreKept
  <1>. QED  BY <1>6, <1>7

LEMMA BootDefaultSerial == SerialInv /\ BootDefault => SerialInv'
  <1>. SUFFICES ASSUME SerialInv, BootDefault PROVE SerialInv'
    OBVIOUS
  <1>1. TypedInv'
    BY BootDefaultTyped DEF SerialInv
  <1>2. PICK cfg \in Config :
            Goes(Boot, [Idle EXCEPT !.pc = "mkdir", !.name = Default, !.cfg = cfg])
    BY DEF BootDefault
  <1>3. Default \in Name /\ Boot \in Actor /\ phase = "scanning" /\ ~Mounted(Default)
    BY DatabasesAssumption DEF Actor, BootDefault, needs_default
  <1>. DEFINE next == [Idle EXCEPT !.pc = "mkdir", !.name = Default, !.cfg = cfg]
  <1>3a. next.pc = "mkdir" /\ next.name = Default
    BY DEF Idle
  <1>. HIDE DEF next
  <1>3b. Goes(Boot, next)
    BY <1>2 DEF next
  <1>4. call'[Boot].pc = "mkdir" /\ call'[Boot].name = Default
        /\ \A d \in Actor : d # Boot => call'[d] = call[d]
    BY <1>3, <1>3a, <1>3b, GoesMoves DEF SerialInv
  <1>5. HasToItself(Boot, Default)
    BY <1>3, BootHasToItself DEF SerialInv
  <1>6. UNCHANGED <<place, dirs, made, inner, failed, served, scan, astray>>
    BY DEF BootDefault, disk, memory, history
  <1>7. SparesOthers(Boot, Default)
    BY <1>4, <1>6 DEF SparesOthers
  <1>8. Relies(Boot)'
    BY <1>3, <1>4, <1>6 DEF Relies, Mounted
  <1>9. Kept(Default)'
    BY <1>3, <1>6 DEF SerialInv, Kept, Mounted, Saved
  <1>10. Attended(Default)'
    BY <1>3, <1>4 DEF Attended, Changing, Actor
  <1>. QED  BY <1>1, <1>3, <1>4, <1>5, <1>7, <1>8, <1>9, <1>10, OthersAreKept

LEMMA BootReadySerial == SerialInv /\ BootReady => SerialInv'
  <1>. SUFFICES ASSUME SerialInv, BootReady PROVE SerialInv'
    OBVIOUS
  <1>1. TypedInv'
    BY BootReadyTyped DEF SerialInv
  <1>2. OneAtATime' /\ DirsAreApart' /\ FreshAreBlank' /\ InProgress'
        /\ \A n \in Name : Kept(n)'
    BY DEF SerialInv, BootReady, disk, memory, history, OneAtATime, Changing,
           DirsAreApart, FreshAreBlank, InProgress, Relies, Mounted, Saved, Kept, Actor
  <1>3. Visited'
    BY DEF SerialInv, BootReady, disk, memory, history, Visited, Attended, Changing,
           Mounted, readable, Actor
  <1>. QED  BY <1>1, <1>2, <1>3 DEF SerialInv

LEMMA StopSerial == SerialInv /\ Stop => SerialInv'
  <1>. SUFFICES ASSUME SerialInv, Stop PROVE SerialInv'
    OBVIOUS
  <1>1. TypedInv'
    BY StopTyped DEF SerialInv
  <1>2. UNCHANGED <<place, dirs, made, served, astray>> /\ phase' = "down"
        /\ (\A n \in Name : ~Mounted(n)')
        /\ \A c \in Actor : call'[c] = Idle
    BY DEF Stop, disk, Mounted
  <1>3. OneAtATime' /\ InProgress'
    BY <1>2 DEF OneAtATime, InProgress, Relies, Changing, Idle, Actor
  <1>4. DirsAreApart' /\ FreshAreBlank'
    BY <1>2 DEF SerialInv, DirsAreApart, FreshAreBlank, Idle, Actor
  <1>5. \A n \in Name : Kept(n)'
    BY <1>2 DEF SerialInv, Kept
  <1>. QED  BY <1>1, <1>2, <1>3, <1>4, <1>5 DEF SerialInv, Visited

(* Nobody is at work on a name that can be begun with alone.               *)
LEMMA BeginsAlone ==
  ASSUME SerialInv, NEW c \in Client, NEW n \in Name, phase = "up",
         call[c].pc = "idle", \A d \in Client : Changing(d) => call[d].name # n
  PROVE  HasToItself(c, n) /\ c \in Actor
  BY DEF SerialInv, TypedInv, BootIsAlone, HasToItself, Changing, Actor

LEMMA CreateBeginSerial ==
  ASSUME SerialInv, NEW c \in Client, NEW n \in Name, NEW cfg \in Config,
         CreateBegin(c, n, cfg), \A d \in Client : Changing(d) => call[d].name # n
  PROVE  SerialInv'
  <1>1. TypedInv'
    BY CreateBeginTyped DEF SerialInv
  <1>2. HasToItself(c, n) /\ c \in Actor /\ phase # "down" /\ ~Mounted(n)
    BY BeginsAlone DEF CreateBegin
  <1>3. call'[c].pc = "mkdir" /\ call'[c].name = n
        /\ \A d \in Actor : d # c => call'[d] = call[d]
    BY <1>2, GoesMoves DEF SerialInv, CreateBegin, Idle
  <1>4. UNCHANGED <<place, dirs, made, inner, failed, served, scan, astray>>
    BY DEF CreateBegin, disk, memory, booting, history
  <1>5. SparesOthers(c, n)
    BY <1>3, <1>4 DEF SparesOthers
  <1>6. Relies(c)'
    BY <1>2, <1>3, <1>4 DEF Relies, Mounted
  <1>7. Kept(n)'
    BY <1>4 DEF SerialInv, Kept, Mounted, Saved
  <1>8. Attended(n)'
    BY <1>2, <1>3 DEF Attended, Changing, Actor
  <1>. QED  BY <1>1, <1>2, <1>3, <1>5, <1>6, <1>7, <1>8, OthersAreKept

LEMMA CreateDirSerial ==
  ASSUME SerialInv, NEW c \in Actor, CreateDir(c)
  PROVE  SerialInv'
  <1>0. PICK n \in Name : n = call[c].name
    BY AtWorkOnAName DEF SerialInv, CreateDir
  <1>1. TypedInv'
    BY CreateDirTyped DEF SerialInv
  <1>2. Changing(c)
    BY DEF CreateDir, Changing
  <1>3. call[c] \in Calls /\ HasToItself(c, n) /\ phase # "down"
        /\ ~Mounted(n) /\ Kept(n)
    BY <1>0, <1>2, AtWork
  <1>4. call'[c].pc = "save" /\ call'[c].name = n
        /\ \A d \in Actor : d # c => call'[d] = call[d]
    BY <1>0, <1>3, GoesMoves DEF SerialInv, CreateDir, Calls
  <1>5. UNCHANGED <<dirs, inner, failed, served, scan, astray>>
        /\ place'[n] \in Dir
        /\ (place[n] # None => place'[n] = place[n] /\ made' = made)
        /\ (place[n] = None => place'[n] = made + 1 /\ made' = made + 1)
        /\ \A m \in Name : m # n => place'[m] = place[m]
    BY <1>0, <1>3, MakeDirEffect
       DEF SerialInv, TypedInv, TypeOK, CreateDir, memory, booting, history
  <1>6. SparesOthers(c, n)
    BY <1>4, <1>5 DEF SparesOthers
  <1>7. Relies(c)'
    BY <1>0, <1>3, <1>4, <1>5 DEF Relies, Mounted, Dir, None
  <1>8. Kept(n)'
    <2>1. CASE place[n] = None
      <3>1. dirs[place'[n]].toml = None
        BY <1>5, <2>1, DatabasesAssumption
           DEF SerialInv, FreshAreBlank, TypedInv, TypeOK
      <3>. QED  BY <1>0, <1>3, <1>5, <2>1, <3>1 DEF Kept, Mounted
    <2>2. CASE place[n] # None
      BY <1>0, <1>3, <1>5, <2>2 DEF Kept, Mounted, Saved
    <2>. QED  BY <2>1, <2>2
  <1>9. Attended(n)'
    BY <1>4 DEF Attended, Changing, Actor
  <1>. QED  BY <1>1, <1>3, <1>4, <1>6, <1>7, <1>8, <1>9, OthersAreKept

LEMMA CreateSaveSerial ==
  ASSUME SerialInv, NEW c \in Actor, CreateSave(c)
  PROVE  SerialInv'
  <1>0. PICK n \in Name : n = call[c].name
    BY AtWorkOnAName DEF SerialInv, CreateSave
  <1>. DEFINE d == place[n]
              cfg == call[c].cfg
  <1>1. TypedInv'
    BY CreateSaveTyped DEF SerialInv
  <1>2. Changing(c) /\ cfg \in Config
    BY DEF CreateSave, Changing, SerialInv, TypedInv, CallsAreFormed
  <1>3. call[c] \in Calls /\ HasToItself(c, n) /\ phase # "down"
        /\ ~Mounted(n) /\ Kept(n)
    BY <1>0, <1>2, AtWork
  <1>4. call'[c].pc = "open" /\ call'[c].name = n /\ call'[c].cfg = cfg
        /\ \A e \in Actor : e # c => call'[e] = call[e]
    BY <1>0, <1>3, GoesMoves DEF SerialInv, CreateSave, Calls
  <1>5. UNCHANGED <<place, made, inner, failed, served, scan, astray>> /\ d \in Dir /\ d # None
    BY <1>0, <1>3, PlacesAreDirs DEF CreateSave, memory, booting, history, SerialInv
  <1>6. /\ dirs'[d].toml = cfg /\ dirs'[d].name = n /\ dirs'[d].format = FORMAT_VERSION
        /\ dirs'[d].content = dirs[d].content
        /\ \A e \in Dir : e # d => dirs'[e] = dirs[e]
    BY <1>0, <1>2, <1>5, SaveEffect DEF CreateSave, SerialInv, TypedInv, TypeOK
  <1>7. \A m \in Name : m # n /\ place[m] # None => dirs'[place[m]] = dirs[place[m]]
    BY <1>0, <1>3, <1>6, PlacesAreDirs DEF SerialInv, DirsAreApart
  <1>8. Relies(c)'
    BY <1>0, <1>3, <1>4, <1>5, <1>6 DEF Relies, Mounted, Saved
  <1>9. Kept(n)'
    BY <1>0, <1>3, <1>5, <1>6 DEF Kept, Mounted
  <1>. HIDE DEF d, cfg
  <1>10. SparesOthers(c, n)
    <2>1. d <= made
      BY DEF d, SerialInv, DirsAreApart
    <2>. QED  BY <1>4, <1>5, <1>6, <1>7, <2>1 DEF SparesOthers
  <1>11. Attended(n)'
    BY <1>4 DEF Attended, Changing, Actor
  <1>. QED  BY <1>1, <1>3, <1>4, <1>8, <1>9, <1>10, <1>11, OthersAreKept

LEMMA CreateOpenSerial ==
  ASSUME SerialInv, NEW c \in Actor, CreateOpen(c)
  PROVE  SerialInv'
  <1>0. PICK n \in Name : n = call[c].name
    BY AtWorkOnAName DEF SerialInv, CreateOpen
  <1>1. TypedInv'
    BY CreateOpenTyped DEF SerialInv
  <1>2. Changing(c)
    BY DEF CreateOpen, Changing
  <1>3. call[c] \in Calls /\ HasToItself(c, n) /\ phase # "down"
        /\ ~Mounted(n) /\ Kept(n) /\ Relies(c)
    BY <1>0, <1>2, AtWork
  <1>4. call'[c].pc = "insert" /\ call'[c].name = n /\ call'[c].dir = place'[n]
        /\ call'[c].cfg = call[c].cfg
        /\ \A d \in Actor : d # c => call'[d] = call[d]
    <2>. DEFINE next == [call[c] EXCEPT !.pc = "insert", !.dir = place'[call[c].name]]
    <2>1. next.pc = "insert" /\ next.name = n /\ next.dir = place'[n]
          /\ next.cfg = call[c].cfg
      BY <1>0, <1>3 DEF Calls
    <2>. HIDE DEF next
    <2>2. Goes(c, next)
      BY DEF CreateOpen, next
    <2>. QED  BY <2>1, <2>2, GoesMoves DEF SerialInv
  <1>5. place[n] # None /\ Saved(place[n], n, call[c].cfg)
    BY <1>0, <1>3 DEF Relies, CreateOpen
  <1>6. UNCHANGED <<dirs, inner, failed, served, scan, made, astray>>
        /\ \A m \in Name : place'[m] = place[m]
    BY <1>0, <1>3, <1>5, MakeDirEffect
       DEF SerialInv, TypedInv, TypeOK, CreateOpen, memory, booting, history
  <1>7. SparesOthers(c, n)
    BY <1>0, <1>3, <1>4, <1>6 DEF SparesOthers
  <1>8. Relies(c)'
    BY <1>0, <1>3, <1>4, <1>5, <1>6 DEF Relies, Mounted, Saved
  <1>9. Kept(n)'
    BY <1>0, <1>3, <1>6 DEF Kept, Mounted, Saved
  <1>10. Attended(n)'
    BY <1>4 DEF Attended, Changing, Actor
  <1>. QED  BY <1>1, <1>3, <1>4, <1>7, <1>8, <1>9, <1>10, OthersAreKept

LEMMA CreateInsertSerial ==
  ASSUME SerialInv, NEW c \in Actor, CreateInsert(c)
  PROVE  SerialInv'
  <1>0. PICK n \in Name : n = call[c].name
    BY AtWorkOnAName DEF SerialInv, CreateInsert
  <1>1. TypedInv'
    BY CreateInsertTyped DEF SerialInv
  <1>2. Changing(c) /\ call[c].dir \in Dir
    BY DEF CreateInsert, Changing, SerialInv, TypedInv, CallsAreFormed
  <1>3. call[c] \in Calls /\ HasToItself(c, n) /\ phase # "down"
        /\ ~Mounted(n) /\ Kept(n) /\ Relies(c)
    BY <1>0, <1>2, AtWork
  <1>4. call'[c] = Idle /\ \A d \in Actor : d # c => call'[d] = call[d]
    BY <1>0, <1>3, GoesMoves DEF SerialInv, CreateInsert, Ends
  <1>5. UNCHANGED <<place, dirs, made, failed, served, scan, astray>>
    BY DEF CreateInsert, disk, booting, history
  <1>6. inner'[n] = opened(c) /\ \A m \in Name : m # n => inner'[m] = inner[m]
    BY <1>0, <1>3 DEF CreateInsert, Mount, SerialInv, TypedInv, TypeOK
  <1>7. call[c].dir = place[n] /\ Saved(place[n], n, call[c].cfg)
    BY <1>0, <1>3 DEF Relies, CreateInsert
  <1>8. SparesOthers(c, n)
    BY <1>4, <1>5, <1>6 DEF SparesOthers
  <1>9. Relies(c)' /\ ~Changing(c)' /\ call'[c].pc # "purge"
    BY <1>4 DEF Relies, Changing, Idle
  <1>10. Kept(n)'
    BY <1>0, <1>3, <1>5, <1>6, <1>7 DEF Kept, opened, Saved
  <1>11. Attended(n)'
    BY <1>2, <1>6 DEF Attended, Mounted, opened, NoHive, Dir, None
  <1>. QED  BY <1>1, <1>3, <1>8, <1>9, <1>10, <1>11, OthersAreKept

(* A call that ends without success leaves its name among the failed.      *)
LEMMA FailsSerial ==
  ASSUME SerialInv, TypedInv', NEW c \in Actor, Changing(c), Ends(c),
         failed' = failed \cup {call[c].name},
         UNCHANGED <<place, dirs, made, inner, served, scan, astray>>
  PROVE  SerialInv'
  <1>0. PICK n \in Name : n = call[c].name
    BY AtWorkOnAName DEF SerialInv, Changing
  <1>1. HasToItself(c, n) /\ phase # "down" /\ Kept(n)
    BY <1>0, AtWork
  <1>2. call'[c] = Idle /\ \A d \in Actor : d # c => call'[d] = call[d]
    BY GoesMoves DEF SerialInv, Ends
  <1>3. SparesOthers(c, n)
    BY <1>2 DEF SparesOthers
  <1>4. Relies(c)' /\ ~Changing(c)' /\ call'[c].pc # "purge"
    BY <1>2 DEF Relies, Changing, Idle
  <1>5. Kept(n)'
    BY <1>1 DEF Kept, Mounted, Saved
  <1>6. Attended(n)'
    BY <1>0 DEF Attended
  <1>. QED  BY <1>1, <1>3, <1>4, <1>5, <1>6, OthersAreKept

LEMMA CreateFailsSerial ==
  ASSUME SerialInv, NEW c \in Client, CreateFails(c)
  PROVE  SerialInv'
  <1>1. TypedInv' /\ c \in Actor /\ Changing(c)
    BY CreateFailsTyped DEF SerialInv, CreateFails, Changing, Actor
  <1>. QED  BY <1>1, FailsSerial DEF CreateFails, disk, memory, booting

LEMMA DropFailsSerial ==
  ASSUME SerialInv, NEW c \in Client, DropFails(c)
  PROVE  SerialInv'
  <1>1. TypedInv' /\ c \in Actor /\ Changing(c)
    BY DropFailsTyped DEF SerialInv, DropFails, Changing, Actor
  <1>. QED  BY <1>1, FailsSerial DEF DropFails, disk, memory, booting

LEMMA DropUnmountSerial ==
  ASSUME SerialInv, NEW c \in Client, NEW n \in Name, NEW purge \in BOOLEAN,
         DropUnmount(c, n, purge), \A d \in Client : Changing(d) => call[d].name # n
  PROVE  SerialInv'
  <1>1. TypedInv'
    BY DropUnmountTyped DEF SerialInv
  <1>2. HasToItself(c, n) /\ c \in Actor /\ phase # "down"
    BY BeginsAlone DEF DropUnmount
  <1>3. call'[c].pc = "move" /\ call'[c].name = n
        /\ \A d \in Actor : d # c => call'[d] = call[d]
    BY <1>2, GoesMoves DEF SerialInv, DropUnmount, Idle
  <1>4. UNCHANGED <<place, dirs, made, failed, served, scan, astray>>
    BY DEF DropUnmount, disk, booting, history
  <1>5. inner'[n] = NoHive /\ \A m \in Name : m # n => inner'[m] = inner[m]
    BY DEF DropUnmount, Mount, SerialInv, TypedInv, TypeOK
  <1>6. SparesOthers(c, n)
    BY <1>3, <1>4, <1>5 DEF SparesOthers
  <1>7. Relies(c)'
    BY <1>3, <1>5 DEF Relies, Mounted
  <1>8. Kept(n)'
    BY <1>4, <1>5 DEF SerialInv, Kept, Mounted
  <1>9. Attended(n)'
    BY <1>2, <1>3 DEF Attended, Changing, Actor
  <1>. QED  BY <1>1, <1>2, <1>3, <1>6, <1>7, <1>8, <1>9, OthersAreKept

LEMMA DropMoveSerial ==
  ASSUME SerialInv, NEW c \in Client, DropMove(c)
  PROVE  SerialInv'
  <1>1. TypedInv' /\ c \in Actor /\ Changing(c)
    BY DropMoveTyped DEF SerialInv, DropMove, Changing, Actor
  <1>2. PICK n \in Name : n = call[c].name
    BY <1>1, AtWorkOnAName DEF SerialInv, DropMove
  <1>3. call[c] \in Calls /\ HasToItself(c, n) /\ phase # "down" /\ ~Mounted(n)
    BY <1>1, <1>2, AtWork
  <1>4. UNCHANGED <<dirs, made, inner, failed, scan, astray>> /\ place'[n] = None
        /\ served'[n] = {}
        /\ \A m \in Name : m # n => place'[m] = place[m] /\ served'[m] = served[m]
    BY <1>2 DEF DropMove, memory, booting, SerialInv, TypedInv, TypeOK
  <1>5. /\ \A d \in Actor : d # c => call'[d] = call[d]
        /\ \/ call'[c] = Idle
           \/ /\ call'[c].pc = "purge" /\ call'[c].name = n
              /\ call'[c].dir = place[n] /\ place[n] # None
    <2>1. CASE call[c].purge /\ place[n] # None
      <3>. DEFINE next == [call[c] EXCEPT !.pc = "purge", !.dir = place[n]]
      <3>1. next.pc = "purge" /\ next.name = n /\ next.dir = place[n]
        BY <1>2, <1>3 DEF Calls
      <3>. HIDE DEF next
      <3>2. Goes(c, next)
        BY <1>2, <2>1 DEF DropMove, next
      <3>. QED  BY <1>1, <2>1, <3>1, <3>2, GoesMoves DEF SerialInv
    <2>2. CASE ~(call[c].purge /\ place[n] # None)
      <3>1. Goes(c, Idle)
        BY <1>2, <2>2 DEF DropMove, Ends
      <3>. QED  BY <1>1, <3>1, GoesMoves DEF SerialInv
    <2>. QED  BY <2>1, <2>2
  <1>6. SparesOthers(c, n)
    BY <1>4, <1>5 DEF SparesOthers
  <1>7. Relies(c)' /\ (Changing(c)' => call'[c].name = n)
    BY <1>3, <1>4, <1>5 DEF Relies, Changing, Mounted, Idle
  <1>8. Kept(n)'
    BY <1>3, <1>4 DEF Kept, Mounted
  <1>9. Attended(n)'
    BY <1>4 DEF Attended
  <1>10. call'[c].pc = "purge" =>
            place[n] # None /\ call'[c].dir = place[n] /\ place'[n] = None
    BY <1>4, <1>5 DEF Idle
  <1>. QED  BY <1>1, <1>3, <1>6, <1>7, <1>8, <1>9, <1>10, OthersAreKept

(* The purged directory is at no name.                                     *)
LEMMA DropPurgeSerial ==
  ASSUME SerialInv, NEW c \in Client, DropPurge(c)
  PROVE  SerialInv'
  <1>1. TypedInv' /\ c \in Actor /\ Changing(c)
    BY DropPurgeTyped DEF SerialInv, DropPurge, Changing, Actor
  <1>2. PICK n \in Name : n = call[c].name
    BY <1>1, AtWorkOnAName DEF SerialInv, DropPurge
  <1>3. HasToItself(c, n) /\ phase # "down" /\ ~Mounted(n) /\ place[n] = None
        /\ Kept(n)
    BY <1>1, <1>2, AtWork DEF Relies, DropPurge
  <1>4. UNCHANGED <<place, made, inner, failed, served, scan, astray>>
    BY DEF DropPurge, memory, booting, history
  <1>5. call'[c] = Idle /\ \A d \in Actor : d # c => call'[d] = call[d]
    BY <1>1, GoesMoves DEF SerialInv, DropPurge, Ends
  <1>6. \A m \in Name : place[m] # call[c].dir
    BY <1>1 DEF SerialInv, DirsAreApart, DropPurge
  <1>7. \A m \in Name : place[m] # None => dirs'[place[m]] = dirs[place[m]]
    <2>1. dirs' = dirs \/ dirs' = [dirs EXCEPT ![call[c].dir] = Empty]
      BY DEF DropPurge
    <2>. QED  BY <2>1, <1>6, PlacesAreDirs DEF SerialInv, TypedInv, TypeOK
  <1>8. SparesOthers(c, n)
    <2>1. \A e \in Dir : dirs'[e] = dirs[e] \/ dirs'[e].toml = None
      BY DEF DropPurge, SerialInv, TypedInv, TypeOK, Empty
    <2>. QED  BY <1>4, <1>5, <1>7, <2>1 DEF SparesOthers
  <1>9. Relies(c)' /\ ~Changing(c)' /\ call'[c].pc # "purge"
    BY <1>5 DEF Relies, Changing, Idle
  <1>10. Kept(n)'
    BY <1>3, <1>4 DEF Kept, Mounted
  <1>11. Attended(n)'
    BY <1>3, <1>4 DEF Attended
  <1>. QED  BY <1>1, <1>3, <1>8, <1>9, <1>10, <1>11, OthersAreKept

(* A request that uses a database disturbs nobody at work on one.          *)
LEMMA UseIsQuiet ==
  ASSUME SerialInv, TypedInv', NEW c \in Client,
         ~Changing(c), ~Changing(c)',
         \A d \in Actor : d # c => call'[d] = call[d],
         UNCHANGED <<place, made, inner, failed, scan, phase, astray>>,
         \A e \in Dir : /\ dirs'[e].toml = dirs[e].toml /\ dirs'[e].name = dirs[e].name
                         /\ dirs'[e].format = dirs[e].format,
         \A n \in Name \ astray : served'[n] # {} => /\ place[n] # None
                                            /\ served'[n] \subseteq dirs'[place[n]].content
  PROVE  SerialInv'
  <1>1. \A d \in Actor : /\ Changing(d)' <=> Changing(d)
                         /\ Changing(d) => call'[d] = call[d]
    BY DEF Changing
  <1>2. OneAtATime'
    BY <1>1 DEF SerialInv, OneAtATime, Actor
  <1>3. DirsAreApart'
    <2>1. \A d \in Actor : call'[d].pc = "purge" => Changing(d)'
      BY DEF Changing
    <2>2. \A d \in Actor : call'[d].pc = "purge" => call'[d] = call[d]
      BY <1>1, <2>1
    <2>. QED  BY <2>2 DEF SerialInv, DirsAreApart, Actor
  <1>4. \A n \in Name : place[n] # None =>
            /\ dirs'[place[n]].toml = dirs[place[n]].toml
            /\ dirs'[place[n]].name = dirs[place[n]].name
            /\ dirs'[place[n]].format = dirs[place[n]].format
    BY PlacesAreDirs DEF SerialInv
  <1>4a. FreshAreBlank'
    BY DEF SerialInv, FreshAreBlank
  <1>5. InProgress'
    <2>. SUFFICES ASSUME NEW d \in Actor PROVE Relies(d)'
      BY DEF InProgress, Actor
    <2>1. CASE Changing(d)
      <3>1. call'[d] = call[d] /\ Relies(d) /\ call[d].name \in Name
        BY <1>1, <2>1, AtWork DEF SerialInv
      <3>. QED  BY <3>1, <1>4 DEF Relies, Changing, Mounted, Saved
    <2>2. CASE ~Changing(d)
      BY <1>1, <2>2 DEF Relies, Changing
    <2>. QED  BY <2>1, <2>2
  <1>6. \A n \in Name : Kept(n)'
    <2>. SUFFICES ASSUME NEW n \in Name PROVE Kept(n)'
      OBVIOUS
    <2>1. Kept(n)
      BY DEF SerialInv
    <2>2. n \notin astray /\ Mounted(n) => place[n] # None
      <3>1. inner[n] # NoHive => inner[n].dir # None
        BY DEF SerialInv, TypedInv, TypeOK, Hives, Dir, None
      <3>. QED  BY <3>1, <2>1 DEF Kept, Mounted
    <2>. QED  BY <2>1, <2>2, <1>4 DEF Kept, Mounted, Saved
  <1>7. Visited'
    <2>. SUFFICES ASSUME phase # "down", NEW n \in Name PROVE Attended(n)'
      BY DEF Visited
    <2>1. Attended(n)
      BY DEF SerialInv, Visited
    <2>2. CASE \E d \in Actor : Changing(d) /\ call[d].name = n
      BY <2>2, <1>1 DEF Attended, Actor
    <2>3. CASE ~(\E d \in Actor : Changing(d) /\ call[d].name = n)
      BY <2>1, <2>3, <1>4 DEF Attended, Mounted, readable
    <2>. QED  BY <2>2, <2>3
  <1>. QED  BY <1>2, <1>3, <1>4a, <1>5, <1>6, <1>7 DEF SerialInv

LEMMA ResolveSerial ==
  ASSUME SerialInv, NEW c \in Client, NEW n \in Name, Resolve(c, n)
  PROVE  SerialInv'
  <1>1. TypedInv' /\ c \in Actor /\ ~Changing(c)
    BY ResolveTyped DEF SerialInv, Resolve, Changing, Actor
  <1>2. \E next : next.pc = "using" /\ Goes(c, next)
    <2>. DEFINE next == [Idle EXCEPT !.pc = "using", !.name = n, !.dir = inner[n].dir]
    <2>1. next.pc = "using"
      BY DEF Idle
    <2>2. Goes(c, next)
      BY DEF Resolve
    <2>. HIDE DEF next
    <2>. QED  BY <2>1, <2>2
  <1>3. call'[c].pc = "using" /\ \A d \in Actor : d # c => call'[d] = call[d]
    BY <1>1, <1>2, GoesMoves DEF SerialInv
  <1>4. UNCHANGED <<place, dirs, made, inner, failed, scan, phase, served, astray>>
    BY DEF Resolve, disk, memory, booting, history
  <1>5. ~Changing(c)'
    BY <1>3 DEF Changing
  <1>6. \A m \in Name \ astray : served'[m] # {} => /\ place[m] # None
                                           /\ served'[m] \subseteq dirs'[place[m]].content
    BY <1>4 DEF SerialInv, Kept
  <1>. QED  BY <1>1, <1>3, <1>4, <1>5, <1>6, UseIsQuiet

(* A request's Hive is either the mounted one, whose directory is in       *)
(* place, or the write is not served under the name.                       *)
LEMMA WriteSerial ==
  ASSUME SerialInv, NEW c \in Client, Write(c)
  PROVE  SerialInv'
  <1>1. TypedInv' /\ c \in Actor /\ ~Changing(c)
    BY WriteTyped DEF SerialInv, Write, Changing, Actor
  <1>2. PICK n \in Name : n = call[c].name
    BY WriteEffect DEF SerialInv
  <1>3. call'[c] = Idle /\ \A d \in Actor : d # c => call'[d] = call[d]
    BY <1>1, GoesMoves DEF SerialInv, Write, Ends
  <1>4. ~Changing(c)'
    BY <1>3 DEF Changing, Idle
  <1>5. UNCHANGED <<place, made, inner, failed, scan, phase, astray>>
    BY DEF Write, memory, booting
  <1>6. /\ \A e \in Dir : /\ dirs'[e].toml = dirs[e].toml
                          /\ dirs'[e].name = dirs[e].name
                          /\ dirs'[e].format = dirs[e].format
                          /\ dirs[e].content \subseteq dirs'[e].content
        /\ written + 1 \in dirs'[call[c].dir].content /\ call[c].dir \in Dir
    BY WriteEffect DEF SerialInv
  <1>7. \A m \in Name \ astray : served'[m] # {} => /\ place[m] # None
                                           /\ served'[m] \subseteq dirs'[place[m]].content
    <2>. SUFFICES ASSUME NEW m \in Name \ astray, served'[m] # {}
                  PROVE  /\ place[m] # None
                         /\ served'[m] \subseteq dirs'[place[m]].content
      OBVIOUS
    <2>1. Kept(m)
      BY DEF SerialInv
    <2>2. CASE m = n /\ inner[n].dir = call[c].dir
      <3>1. Mounted(n)
        BY <2>2, <1>6 DEF Mounted, NoHive, Dir, None
      <3>2. place[n] = call[c].dir /\ place[n] # None
        BY <2>1, <2>2, <3>1, <1>6 DEF Kept, Dir, None
      <3>3. served'[n] = served[n] \cup {written + 1}
        BY <2>2, <1>2 DEF Write, SerialInv, TypedInv, TypeOK
      <3>. QED  BY <2>1, <2>2, <3>2, <3>3, <1>6 DEF Kept
    <2>3. CASE ~(m = n /\ inner[n].dir = call[c].dir)
      <3>1. served'[m] = served[m]
        BY <2>3, <1>2 DEF Write, SerialInv, TypedInv, TypeOK
      <3>2. place[m] # None /\ place[m] \in Dir
        BY <2>1, <3>1, PlacesAreDirs DEF Kept, SerialInv
      <3>. QED  BY <2>1, <3>1, <3>2, <1>6 DEF Kept
    <2>. QED  BY <2>2, <2>3
  <1>. QED  BY <1>1, <1>3, <1>4, <1>5, <1>6, <1>7, UseIsQuiet

-----------------------------------------------------------------------------
LEMMA SerialNextKeeps == SerialInv /\ [SerialNext]_vars => SerialInv'
  <1>. SUFFICES ASSUME SerialInv, [SerialNext]_vars PROVE SerialInv'
    OBVIOUS
  <1>1. CASE Continue
    <2>1. CASE Start \/ BootDefault \/ BootReady \/ Stop
      BY <2>1, StartSerial, BootDefaultSerial, BootReadySerial, StopSerial
    <2>2. CASE \E n \in Name : BootEntry(n)
      BY <2>2, BootEntrySerial
    <2>3. CASE \E c \in Actor : Create(c)
      BY <2>3, CreateDirSerial, CreateSaveSerial, CreateOpenSerial, CreateInsertSerial
         DEF Create
    <2>4. CASE \E c \in Client : CreateFails(c) \/ Drop(c) \/ Use(c)
      BY <2>4, CreateFailsSerial, DropMoveSerial, DropFailsSerial, DropPurgeSerial,
         ResolveSerial, WriteSerial DEF Drop, Use
    <2>. QED  BY <1>1, <2>1, <2>2, <2>3, <2>4 DEF Continue
  <1>2. CASE \E c \in Client, n \in Name : BeginAlone(c, n)
    BY <1>2, CreateBeginSerial, DropUnmountSerial DEF BeginAlone, Begin
  <1>3. CASE UNCHANGED vars
    <2>1. TypedInv'
      BY <1>3, TypedNext DEF SerialInv
    <2>2. OneAtATime' /\ DirsAreApart' /\ FreshAreBlank' /\ InProgress'
        /\ \A n \in Name : Kept(n)'
      BY <1>3 DEF vars, SerialInv, OneAtATime, Changing, DirsAreApart, FreshAreBlank, InProgress,
                  Relies, Mounted, Saved, Kept
    <2>3. Visited'
      BY <1>3 DEF vars, SerialInv, Visited, Attended, Changing, Mounted, readable
    <2>. QED  BY <2>1, <2>2, <2>3 DEF SerialInv
  <1>. QED  BY <1>1, <1>2, <1>3 DEF SerialNext

(* What is mounted is what the next start would mount, if creations and    *)
(* drops of one name take turns and its db.toml was not brought from       *)
(* another database: no other call, crash or failure, and no database      *)
(* astray, comes between a mounted database and its directory and db.toml. *)
THEOREM MountedCorrect == SerialSpec => []MountedAsSaved
  <1>1. SerialInv => MountedAsSaved
    BY DEF SerialInv, Kept, Saved, MountedAsSaved, AsSaved
  <1>. QED  BY <1>1, SerialInit, SerialNextKeeps, PTL DEF SerialSpec

(* What was acknowledged under a name stays in the directory of that name  *)
(* until a drop moves it: neither a restart, nor a creation, nor a failed  *)
(* drop, nor a purge of another directory, nor a database astray that has  *)
(* the directory open too takes it away.                                   *)
THEOREM ServedCorrect == SerialSpec => []ServedIsInPlace
  <1>1. SerialInv => ServedIsInPlace
    BY DEF SerialInv, Kept, ServedIsInPlace
  <1>. QED  BY <1>1, SerialInit, SerialNextKeeps, PTL DEF SerialSpec

(* Booting visits every database on disk, and no creation or drop that     *)
(* succeeds leaves one behind that this build can read and does not serve. *)
THEOREM ReadableCorrect == SerialSpec => []ReadableIsMounted
  <1>1. SerialInv => ReadableIsMounted
    <2>. SUFFICES ASSUME SerialInv, phase = "up", NEW n \in Name
                  PROVE  \/ Mounted(n)
                         \/ place[n] = None \/ ~readable(place[n])
                         \/ n \in failed
                         \/ \E c \in Client : Changing(c) /\ call[c].name = n
      BY DEF ReadableIsMounted
    <2>1. Attended(n) /\ scan = {} /\ ~Changing(Boot)
      BY DEF SerialInv, Visited, TypedInv, BootIsAlone, Changing
    <2>. QED  BY <2>1 DEF Attended, Actor
  <1>. QED  BY <1>1, SerialInit, SerialNextKeeps, PTL DEF SerialSpec

=============================================================================
