-------------------------------- MODULE Backup --------------------------------
(***************************************************************************)
(* The commands that copy a data directory (heather_server/src/backup.rs)  *)
(* beside an engine that may be started, stopped and used: a backup packs  *)
(* files into an archive and a restore unpacks them, both while no engine  *)
(* runs; a snapshot copies one live database into a directory, which a     *)
(* restore copies back.  Any command may fail or be killed between two     *)
(* files, and one runs at a time.                                          *)
(*                                                                         *)
(* A file is known by the number of the change that wrote it.  A database  *)
(* is its db.toml and its LMDB file, in two halves that a commit writes    *)
(* and a copy reads one after the other; server.toml and the users' and    *)
(* tokens' database are the file "system".                                 *)
(***************************************************************************)
EXTENDS Integers, FiniteSets

CONSTANTS
    Name,       \* databases
    All,        \* in the place of a name: no --db
    MaxClock,   \* bound on changes made by engines
    MaxCommand  \* bound on commands begun

ASSUME BackupAssumption ==
    /\ All \notin Name
    /\ MaxClock \in Nat \ {0} /\ MaxCommand \in Nat

VARIABLES
    engine,     \* an engine holds engine.lock
    clock,      \* changes made so far
    dirs,       \* the databases whose directory exists
    disk,       \* the files of the data directory
    archive,    \* the output of backup create; "of": the disk as it began;
                \* "ends": it has an end; "said": the backup said it succeeded
    snapshot,   \* the output directory of snapshot create; "of": the database
                \* as the copy of its LMDB file began; "dropped": since then
    cmd,        \* the running command, or what it came to
    begun       \* how many commands were begun

vars == <<engine, clock, dirs, disk, archive, snapshot, cmd, begun>>

Absent == 0
Part == {"db.toml", "first", "second"}
Of(n) == {n} \X Part
File == {<<All, "system">>} \cup Name \X Part

\* What --db leaves of an archive.
Scope(only) == IF only = All THEN File ELSE Of(only)

Nothing == [f \in File |-> Absent]
NoDirectory == [made |-> FALSE, part |-> [p \in Part |-> Absent],
                of |-> [p \in Part |-> Absent], dropped |-> FALSE]
Idle == [op |-> "none"]

Ready ==
    /\ cmd.op \in {"none", "reported"}
    /\ begun < MaxCommand
    /\ begun' = begun + 1

Init ==
    /\ engine = FALSE
    /\ clock = 1
    /\ dirs = Name
    /\ disk = [f \in File |-> 1]
    /\ archive = [ends |-> FALSE, said |-> FALSE, only |-> All,
                  file |-> Nothing, of |-> Nothing]
    /\ snapshot = NoDirectory
    /\ cmd = Idle
    /\ begun = 0

-----------------------------------------------------------------------------
(* The engine.                                                             *)

mounted(n) == \A p \in Part : disk[<<n, p>>] # Absent

empty(n) == disk[<<n, "first">>] = Absent /\ disk[<<n, "second">>] = Absent

Changed(files) ==
    /\ engine /\ clock < MaxClock
    /\ clock' = clock + 1
    /\ disk' = [f \in File |-> IF f \in files THEN clock' ELSE disk[f]]

\* Holds the lock from here on.  A database that has a db.toml and no LMDB file
\* is opened as an empty one; of one whose file is torn nothing is said.
EngineStart ==
    LET fresh == {n \in Name : disk[<<n, "db.toml">>] # Absent /\ empty(n)}
    IN /\ ~engine
       /\ fresh # {} => clock < MaxClock
       /\ engine' = TRUE
       /\ clock' = IF fresh = {} THEN clock ELSE clock + 1
       /\ disk' = [f \in File |->
                     IF f[1] \in fresh /\ f[2] # "db.toml" THEN clock' ELSE disk[f]]
       /\ UNCHANGED <<dirs, archive, snapshot, cmd, begun>>

EngineStop ==
    /\ engine
    /\ engine' = FALSE
    /\ UNCHANGED <<clock, dirs, disk, archive, snapshot, cmd, begun>>

Commit(n) ==
    /\ mounted(n)
    /\ Changed({<<n, "first">>, <<n, "second">>})
    /\ UNCHANGED <<engine, dirs, archive, snapshot, cmd, begun>>

CommitUsers ==
    /\ Changed({<<All, "system">>})
    /\ UNCHANGED <<engine, dirs, archive, snapshot, cmd, begun>>

\* Over a directory that is there and not mounted, and the LMDB file in it.
CreateDatabase(n) ==
    /\ ~mounted(n)
    /\ Changed({<<n, "db.toml">>} \cup IF empty(n) THEN Of(n) ELSE {})
    /\ dirs' = dirs \cup {n}
    /\ UNCHANGED <<engine, archive, snapshot, cmd, begun>>

Copying(n) == cmd.op = "copying" /\ cmd.only = n

DropDatabase(n) ==
    /\ engine /\ mounted(n)
    /\ dirs' = dirs \ {n}
    /\ disk' = [f \in File |-> IF f \in Of(n) THEN Absent ELSE disk[f]]
    /\ snapshot' = [snapshot EXCEPT !.dropped = @ \/ Copying(n)]
    /\ UNCHANGED <<engine, clock, archive, cmd, begun>>

-----------------------------------------------------------------------------
(* The commands.                                                           *)

\* Takes engine.lock and lets go of it at once.
refuse_if_engine_running == ~engine

Begin(op, only, todo) ==
    cmd' = [op |-> op, only |-> only, todo |-> todo, before |-> disk]

Report == cmd' = [op |-> "reported"]

\* An error, or a signal: what was done stays.  An error between two files of
\* a backup still ends the archive, as the writers are dropped.
Abort ==
    /\ cmd.op \notin {"none", "reported"}
    /\ cmd' = Idle
    /\ \/ UNCHANGED archive
       \/ cmd.op = "backup" /\ archive' = [archive EXCEPT !.ends = TRUE]
    /\ UNCHANGED <<engine, clock, dirs, disk, snapshot, begun>>

\* The output is created, and what it held is gone, before the database is
\* looked for.
do_backup(only) ==
    /\ Ready /\ refuse_if_engine_running
    /\ LET found == only = All \/ only \in dirs
       IN /\ archive' = [ends |-> ~found, said |-> FALSE, only |-> only,
                         file |-> Nothing, of |-> disk]
          /\ IF found
             THEN Begin("backup", only, {f \in Scope(only) : disk[f] # Absent})
             ELSE cmd' = Idle
    /\ UNCHANGED <<engine, clock, dirs, disk, snapshot>>

append(f) ==
    /\ cmd.op = "backup" /\ f \in cmd.todo
    /\ archive' = [archive EXCEPT !.file[f] = disk[f]]
    /\ cmd' = [cmd EXCEPT !.todo = @ \ {f}]
    /\ UNCHANGED <<engine, clock, dirs, disk, snapshot, begun>>

finish ==
    /\ cmd.op = "backup" /\ cmd.todo = {}
    /\ archive' = [archive EXCEPT !.ends = TRUE, !.said = TRUE]
    /\ Report
    /\ UNCHANGED <<engine, clock, dirs, disk, snapshot, begun>>

wanted_everything(only) == {f \in File : archive.file[f] # Absent}

wanted(only) == {f \in Scope(only) : archive.file[f] # Absent}

do_restore_archive(only) ==
    /\ Ready /\ refuse_if_engine_running
    /\ Begin("restore_archive", only, wanted(only))
    /\ UNCHANGED <<engine, clock, dirs, disk, archive, snapshot>>

\* Over whatever file is there.
unpack(f) ==
    /\ cmd.op = "restore_archive" /\ f \in cmd.todo
    /\ disk' = [disk EXCEPT ![f] = archive.file[f]]
    /\ dirs' = dirs \cup ({f[1]} \cap Name)
    /\ cmd' = [cmd EXCEPT !.todo = @ \ {f}]
    /\ UNCHANGED <<engine, clock, archive, snapshot, begun>>

\* An archive that stops before its end is an error.
unpacked ==
    /\ cmd.op = "restore_archive" /\ cmd.todo = {}
    /\ IF archive.ends THEN Report ELSE cmd' = Idle
    /\ UNCHANGED <<engine, clock, dirs, disk, archive, snapshot, begun>>

\* A directory with a db.toml and a data/ is taken for a snapshot.
accepted == snapshot.made /\ snapshot.part["db.toml"] # Absent

do_restore_snapshot(n) ==
    /\ Ready /\ refuse_if_engine_running
    /\ accepted
    /\ n \notin dirs
    /\ dirs' = dirs \cup {n}
    /\ Begin("restore_snapshot", n, Of(n))
    /\ UNCHANGED <<engine, clock, disk, archive, snapshot>>

copy(f) ==
    /\ cmd.op = "restore_snapshot" /\ f \in cmd.todo
    /\ f[2] # "db.toml" => <<f[1], "db.toml">> \notin cmd.todo
    /\ disk' = [disk EXCEPT ![f] = snapshot.part[f[2]]]
    /\ cmd' = [cmd EXCEPT !.todo = @ \ {f}]
    /\ UNCHANGED <<engine, clock, dirs, archive, snapshot, begun>>

copied ==
    /\ cmd.op = "restore_snapshot" /\ cmd.todo = {}
    /\ Report
    /\ UNCHANGED <<engine, clock, dirs, disk, archive, snapshot, begun>>

\* The directory is there, with an empty data/, from the start.
do_snapshot(n) ==
    /\ Ready
    /\ n \in dirs /\ disk[<<n, "db.toml">>] # Absent
    /\ ~snapshot.made
    /\ snapshot' = [NoDirectory EXCEPT !.made = TRUE]
    /\ Begin("snapshot", n, {})
    /\ UNCHANGED <<engine, clock, dirs, disk, archive>>

\* The LMDB file as of the transaction that copies it.
page(n, p) == cmd.before[<<n, p>>]

snapshot_parts_db_toml_first == <<"db.toml", "first", "second">>

snapshot_parts == <<"first", "second", "db.toml">>

\* Opens whatever LMDB file the directory has, whether or not an engine serves
\* it, and makes an empty one where there is none; of a torn one nothing is said.
copy_to_file ==
    LET n == cmd.only
    IN /\ cmd.op = "snapshot" /\ n \in dirs
       /\ \/ /\ disk[<<n, "first">>] # Absent /\ disk[<<n, "second">>] # Absent
             /\ UNCHANGED <<clock, disk>>
          \/ /\ empty(n) /\ clock < MaxClock
             /\ clock' = clock + 1
             /\ disk' = [disk EXCEPT ![<<n, "first">>] = clock', ![<<n, "second">>] = clock']
       /\ cmd' = [op |-> "copying", only |-> n, todo |-> 1, before |-> disk']
       /\ snapshot' = [snapshot EXCEPT !.of = [p \in Part |-> disk'[<<n, p>>]]]
       /\ UNCHANGED <<engine, dirs, archive, begun>>

copy_part ==
    LET n == cmd.only
        p == snapshot_parts[cmd.todo]
    IN /\ cmd.op = "copying"
       /\ p = "db.toml" => disk[<<n, p>>] # Absent
       /\ snapshot' = [snapshot EXCEPT
              !.part[p] = IF p = "db.toml" THEN disk[<<n, p>>] ELSE page(n, p)]
       /\ IF cmd.todo = 3 THEN Report ELSE cmd' = [cmd EXCEPT !.todo = @ + 1]
       /\ UNCHANGED <<engine, clock, dirs, disk, archive, begun>>

delete_snapshot ==
    /\ Ready /\ snapshot.made
    /\ snapshot' = NoDirectory
    /\ UNCHANGED <<engine, clock, dirs, disk, archive, cmd>>

-----------------------------------------------------------------------------

Engine ==
    \/ EngineStart \/ EngineStop \/ CommitUsers
    \/ \E n \in Name : Commit(n) \/ CreateDatabase(n) \/ DropDatabase(n)

Command ==
    \/ Abort \/ finish \/ unpacked \/ copied
    \/ copy_to_file \/ copy_part \/ delete_snapshot
    \/ \E n \in Name \cup {All} : do_backup(n) \/ do_restore_archive(n)
    \/ \E n \in Name : do_restore_snapshot(n) \/ do_snapshot(n)
    \/ \E f \in File : append(f) \/ unpack(f) \/ copy(f)

Next == Engine \/ Command

Spec == Init /\ [][Next]_vars

\* The lock is only probed: that no engine starts while files are copied is
\* left to the operator (docs/how-to/backup-and-restore.md stops the service).
Cold == {"backup", "restore_archive", "restore_snapshot"}
KeptCold == cmd.op \in Cold => ~engine'

ColdNext == Next /\ KeptCold
ColdSpec == Init /\ [][ColdNext]_vars

-----------------------------------------------------------------------------
(* Properties.                                                             *)

Disks == [File -> 0 .. MaxClock]

\* What a command knows, by what it is: a cold one the files left to copy, a
\* snapshot the part it copies next, each the disk as it was when it began.
FileCommands ==
    [op : Cold, only : Name \cup {All}, todo : SUBSET File, before : Disks]

PartCommands ==
    [op : Cold, only : Name, todo : SUBSET (Name \X Part), before : Disks]

Copyings == [op : {"copying"}, only : Name, todo : 1 .. 3, before : Disks]

CommandOK ==
    \/ cmd.op \in {"none", "reported"}
    \/ /\ cmd.op \in {"backup", "restore_archive"}
       /\ cmd \in FileCommands
    \/ /\ cmd.op = "restore_snapshot"
       /\ cmd \in PartCommands
    \/ cmd.op = "snapshot" /\ cmd \in [op : {"snapshot"}, only : Name,
                                       todo : {{}}, before : Disks]
    \/ cmd.op = "copying" /\ cmd \in Copyings

Copies == [made : BOOLEAN, part : [Part -> 0 .. MaxClock],
           of : [Part -> 0 .. MaxClock], dropped : BOOLEAN]

TypeOK ==
    /\ engine \in BOOLEAN /\ clock \in 1 .. MaxClock
    /\ dirs \subseteq Name
    /\ disk \in Disks
    /\ archive \in [ends : BOOLEAN, said : BOOLEAN, only : Name \cup {All},
                    file : Disks, of : Disks]
    /\ snapshot \in Copies
    /\ CommandOK /\ begun \in 0 .. MaxCommand

\* backup.rs:6: a restore that says it succeeded has put back every file in
\* its scope that the archive's backup found, as it was when that began, or the
\* whole snapshot, and has changed nothing else, whatever failed before it.
\* From the archive of a backup that failed it may have put back fewer files.
RestoresWhatWasSaved ==
    [][cmd.op \in {"restore_archive", "restore_snapshot"} /\ cmd'.op = "reported" =>
         \A f \in File :
             LET saved == f \in Scope(archive.only) /\ archive.of[f] # Absent
             IN CASE f \notin Scope(cmd.only) -> disk'[f] = cmd.before[f]
                  [] f \in Scope(cmd.only) /\ cmd.op = "restore_snapshot" ->
                         disk'[f] = snapshot.part[f[2]]
                  [] OTHER ->
                         \/ saved /\ disk'[f] = archive.of[f]
                         \/ ~(saved /\ archive.said) /\ disk'[f] = cmd.before[f]]_vars

\* backup.rs:14: a snapshot that a restore would accept holds the whole LMDB
\* file of one transaction, though an engine commits, drops and creates while the
\* parts are copied, and however the command that made it ended; and unless the
\* database was dropped meanwhile, db.toml too is the one of that moment.
SnapshotIsWhole ==
    accepted => \A p \in Part :
                    /\ snapshot.part[p] # Absent
                    /\ p # "db.toml" \/ ~snapshot.dropped =>
                           snapshot.part[p] = snapshot.of[p]

\* What backup.rs:14 says, "consistent copy of one database": it holds the
\* database as it was when its LMDB file was copied.
SnapshotIsOneState == accepted => snapshot.part = snapshot.of
===============================================================================
