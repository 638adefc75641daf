------------------------------- MODULE Migrations ------------------------------
(***************************************************************************)
(* crates/core-domain/src/sqlite/{mod,migrations,backup}.rs: whoever opens *)
(* the local database brings its schema up to date, one transaction per    *)
(* migration, after a backup.  Several programs may do so at once, with    *)
(* different embedded migrations, and each may end at any point.           *)
(***************************************************************************)
EXTENDS Integers, Sequences, SequencesExt, FiniteSets

CONSTANTS
  Openers,     \* the programs that open the database
  Builds,      \* the embedded migrations, by name, of the builds there are
  LastSecond,  \* bound: the backups are made in the seconds 0 .. LastSecond
  MaxBackups   \* bound: the backups there is room for

MigrationNames == UNION {Range(b) : b \in Builds}

(* A build embeds its migrations in the order of their versions.           *)
ASSUME BuildAssumption == \A b \in Builds : b \in Seq(MigrationNames) /\ Len(b) > 0
ASSUME ClockAssumption == LastSecond \in Nat

VARIABLES
  file,     \* the database: the migrations its schema has been through, and
            \* the rows of schema_migrations
  opener,   \* opener[p]: how far the initialize_database of p has come
  backups,  \* the files of the backup directory
  second    \* the clock

migrationVars == <<file, opener, backups, second>>

(* A row names a migration of a build, and has its version.                *)
AppliedMigration ==
  UNION {{[version |-> v, name |-> b[v]] : v \in DOMAIN b} : b \in Builds}
EmptyFile == [schema |-> <<>>, rows |-> {}]
Closed    == [step |-> "closed", build |-> <<>>, applied |-> {}, done |-> 0]

(* MAX(version): the last of the rows ordered by version.                  *)
CurrentVersion(rows) ==
  IF rows = {} THEN 0
  ELSE CHOOSE v \in {m.version : m \in rows} : \A m \in rows : m.version <= v

(* validate_applied_migrations: no gap, no unknown version, no other name. *)
ValidApplied(rows, build) ==
  /\ {m.version : m \in rows} = 1 .. CurrentVersion(rows)
  /\ \A m \in rows : m.version <= Len(build) /\ build[m.version] = m.name

(* create_backup is called for pending migrations of a used database.      *)
NeedsBackup(o) == o.applied # {} /\ CurrentVersion(o.applied) < Len(o.build)

BackupName(o) ==
  [from |-> CurrentVersion(o.applied), to |-> Len(o.build), at |-> second]

MigrationsInit ==
  /\ file = EmptyFile
  /\ opener = [p \in Openers |-> Closed]
  /\ backups = {}
  /\ second = 0

(* ensure_migration_table, load_applied_migrations and the validation.     *)
LoadApplied(p, build) ==
  /\ opener[p].step = "closed"
  /\ ValidApplied(file.rows, build)
  /\ opener' = [opener EXCEPT ![p] =
       [step |-> "loaded", build |-> build, applied |-> file.rows, done |-> 0]]
  /\ UNCHANGED <<file, backups, second>>

(* VACUUM INTO copies what is committed now, and fails on a file that      *)
(* exists: two backups of the same versions in the same second.            *)
BackUp(p) ==
  /\ opener[p].step = "loaded"
  /\ LET o == opener[p]
         taken == \E b \in backups : b.name = BackupName(o)
     IN  IF NeedsBackup(o)
           THEN /\ ~taken /\ Cardinality(backups) < MaxBackups
                /\ backups' = backups \cup {[name |-> BackupName(o), content |-> file]}
           ELSE UNCHANGED backups
  /\ opener' = [opener EXCEPT ![p].step = "migrating"]
  /\ UNCHANGED <<file, second>>

(* Slip: a version that is recorded already is replaced.                   *)
ReplaceMigration(rows, m) == {{o \in rows : o.version # m.version} \cup {m}}

(* record_migration: the version is the primary key.  The values are those *)
(* the rows may have afterwards: none when the insert fails.               *)
RecordMigration(rows, m) ==
  IF \E o \in rows : o.version = m.version THEN {} ELSE {rows \cup {m}}

(* Slip: the pending migrations are looked up again after the backup.      *)
NextPendingNow(o, rows) == CurrentVersion(rows) + 1

(* The pending migrations were chosen from the rows loaded at first.       *)
NextPending(o, rows) == CurrentVersion(o.applied) + o.done + 1

(* One migration in a transaction of its own: its SQL and its row, or      *)
(* nothing.                                                                *)
ApplyMigration(p) ==
  LET o == opener[p]
      v == NextPending(o, file.rows)
      m == [version |-> v, name |-> o.build[v]]
  IN  /\ o.step = "migrating"
      /\ v <= Len(o.build)
      /\ \E rows \in RecordMigration(file.rows, m) :
           file' = [file EXCEPT !.schema = Append(@, m.name), !.rows = rows]
      /\ opener' = [opener EXCEPT ![p].done = @ + 1]
      /\ UNCHANGED <<backups, second>>

(* The report is returned and the application starts.                      *)
Report(p) ==
  /\ opener[p].step = "migrating"
  /\ NextPending(opener[p], file.rows) > Len(opener[p].build)
  /\ opener' = [opener EXCEPT ![p].step = "open"]
  /\ UNCHANGED <<file, backups, second>>

(* The program ends, wherever it is: also because a statement failed, for  *)
(* the version is recorded, the backup exists, the database is locked.     *)
Close(p) ==
  /\ opener[p].step # "closed"
  /\ opener' = [opener EXCEPT ![p] = Closed]
  /\ UNCHANGED <<file, backups, second>>

(* restore_database_from_backup, while nobody has the database open: the   *)
(* file is removed first, so a crash may leave none.                       *)
RemoveForRestore ==
  /\ \A p \in Openers : opener[p].step = "closed"
  /\ backups # {}
  /\ file' = EmptyFile
  /\ UNCHANGED <<opener, backups, second>>

CopyBackup(b) ==
  /\ \A p \in Openers : opener[p].step = "closed"
  /\ file = EmptyFile
  /\ file' = b.content
  /\ UNCHANGED <<opener, backups, second>>

Tick ==
  /\ second < LastSecond
  /\ second' = second + 1
  /\ UNCHANGED <<file, opener, backups>>

MigrationsNext ==
  \/ \E p \in Openers :
       \/ \E build \in Builds : LoadApplied(p, build)
       \/ BackUp(p) \/ ApplyMigration(p) \/ Report(p)
       \/ Close(p)
  \/ RemoveForRestore \/ \E b \in backups : CopyBackup(b)
  \/ Tick

MigrationsSpec == MigrationsInit /\ [][MigrationsNext]_migrationVars

File == [schema : Seq(MigrationNames), rows : SUBSET AppliedMigration]

MigrationsTypeOK ==
  /\ file \in File
  /\ opener \in [Openers -> [step : {"closed", "loaded", "migrating", "open"},
                             build : Builds \cup {<<>>}, applied : SUBSET AppliedMigration,
                             done : Nat]]
  /\ second \in 0 .. LastSecond
  /\ \A b \in backups : b.content \in File

-------------------------------------------------------------------------------
(* Whatever programs open the database at once, fail or end half-way, its  *)
(* schema went through the migrations that schema_migrations lists, once   *)
(* each, in order, all of them of one build; and a program that has opened *)
(* it finds there the schema its own build knows.                          *)
SchemaIsHistory ==
  /\ file.rows = {[version |-> v, name |-> file.schema[v]] : v \in DOMAIN file.schema}
  /\ Cardinality(file.rows) = Len(file.schema)
  /\ file.schema = <<>> \/ \E b \in Builds : IsPrefix(file.schema, b)
  /\ \A p \in Openers : opener[p].step = "open" => IsPrefix(opener[p].build, file.schema)

(* A program that has migrated a database that was in use made a backup    *)
(* before, and a backup of that name has exactly the schema the program    *)
(* found, though it was read before the backup was made and another program*)
(* may have changed it between the two.                                    *)
UpgradesAreBackedUp ==
  \A p \in Openers :
    opener[p].done > 0 /\ opener[p].applied # {} =>
      \E b \in backups : /\ b.name.from = CurrentVersion(opener[p].applied)
                         /\ b.name.to = Len(opener[p].build)
                         /\ b.content.rows = opener[p].applied

(* Upgrades neither mix histories nor go without a backup.                 *)
UpgradesAreSafe == SchemaIsHistory /\ UpgradesAreBackedUp
===============================================================================
