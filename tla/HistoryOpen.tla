----------------------------- MODULE HistoryOpen -----------------------------
(***************************************************************************)
(* How a process comes to hold the message history: the two file locks of  *)
(* app/persistent_session, the probe copy on which                         *)
(* adapters/storage/sqlite_history_store judges a database before it       *)
(* touches it, the schema migrations, the seeding of the seen-message      *)
(* ledger, and the ways it ends.  Several processes start, fail and are    *)
(* killed between any two steps.                                           *)
(*                                                                         *)
(* The history is three leaves, as SQLite keeps it: the main file, a WAL   *)
(* that is newer than it, and a rollback journal that is older.  The       *)
(* configuration directories may differ while the data directory is one.   *)
(***************************************************************************)
EXTENDS Integers, FiniteSets

CONSTANTS
  Processes,
  Configs,        \* configuration directories; each holds its own install id
  Posts,
  None,           \* no leaf, no holder, no owner, no transaction
  Empty,          \* a leaf of size zero
  Torn,           \* a leaf whose pages are half written
  InitialConfigs, \* the directories the processes may be started with
  InitialSettings,\* what the configuration directories may hold at first
  InitialFiles    \* what may lie in the data directory at first

VARIABLES
  config,         \* the configuration directory each process is started with
  config_lock, data_lock,   \* holders of settings.lock and history.lock
  settings,       \* of each configuration directory
  files,          \* the leaves of the history
  probe,          \* leaf names in the probe directory, or None
  copy,           \* the leaves copied into it
  pc, after,      \* where a process is, and where it goes after a discard
  tx,             \* the working copy of a transaction, or None
  faulted         \* an operation failed since the process started

locks == <<config_lock, data_lock>>
probes == <<probe, copy>>
vars == <<config, config_lock, data_lock, settings, files, probe, copy,
          pc, after, tx, faulted>>

-----------------------------------------------------------------------------
Tables == {"meta", "posts", "mentions", "seen_messages", "posts_v1", "meta_v2"}
Db == [app : {"ours", "foreign"}, version : Nat, owner : Configs \cup {None},
       posts : SUBSET Posts, seen : SUBSET Posts, seeded : BOOLEAN,
       sound : BOOLEAN, mode : {"delete", "wal"},
       tables : SUBSET Tables, aside : SUBSET (Posts \cup Configs)]

\* kHistorySchemaVersion and the versions that are migrated to it.
Supported == 1 .. 3

Special == {Empty, Torn}
Leaf == Db \cup Special \cup {None}

ASSUME HistoryAssumption ==
  /\ InitialConfigs \subseteq [Processes -> Configs]
  /\ InitialFiles \subseteq [main : Leaf, wal : Leaf, journal : Leaf]
  /\ None \notin Processes \cup Configs

\* What a leaf holds instead of a database is not a database.
ASSUME LeafAssumption ==
  /\ None \notin Special /\ Torn # Empty
  /\ \A leaf \in Special \cup {None} : leaf \notin Db

NoFiles == [main |-> None, wal |-> None, journal |-> None]

\* What a connection reads: a hot journal is rolled back, a WAL is applied;
\* either is nothing without its database.
Contents(leaves) ==
  IF leaves.main = None THEN None
  ELSE IF leaves.journal # None THEN leaves.journal
  ELSE IF leaves.wal # None THEN leaves.wal ELSE leaves.main

IsDb(contents) == contents \notin Special \cup {None}

LeafNames == {"database", "-wal", "-shm", "-journal"}
Mutant_allowed_names == LeafNames \ {"-shm"}
allowed_names == LeafNames

\* inspect_history_artifacts, has_history_artifact
Artifacts(leaves) == leaves # NoFiles

\* verify_exact_schema: these tables and nothing else.
Schema(version) ==
  {"meta", "posts"} \cup (IF version >= 2 THEN {"mentions"} ELSE {})
                   \cup (IF version = 3 THEN {"seen_messages"} ELSE {})
Exact(db) == db.tables = Schema(db.version)

\* What this program left behind has a schema of its own, and a main file
\* beside its WAL or journal.  A later release may have left a later schema.
ASSUME LeftoverAssumption ==
  \A leaves \in InitialFiles :
    LET found == Contents(leaves)
    IN IsDb(found) => /\ leaves.main # Empty
                      /\ (/\ found.app = "ours" /\ found.sound
                          /\ found.version \in Supported) => Exact(found)

\* validate_existing_database; `sound` is run_integrity_checks.
Valid(contents) ==
  /\ IsDb(contents)
  /\ contents.app = "ours" /\ contents.version \in Supported
  /\ contents.sound /\ Exact(contents)

\* load_metadata and identity_matches.
Mutant_Bound(contents, install) == contents.owner # None
Bound(contents, install) == contents.owner = install

Acceptable(contents, install) ==
  Valid(contents) /\ Bound(contents, install)

NewSchema ==
  [app |-> "ours", version |-> 3, owner |-> None, posts |-> {}, seen |-> {},
   seeded |-> FALSE, sound |-> TRUE, mode |-> "delete",
   tables |-> Schema(3), aside |-> {}]

Init ==
  /\ config \in InitialConfigs
  /\ config_lock = [c \in Configs |-> None] /\ data_lock = None
  /\ settings \in InitialSettings
  /\ files \in InitialFiles
  /\ probe = None /\ copy = NoFiles
  /\ pc = [p \in Processes |-> "off"]
  /\ after = [p \in Processes |-> "off"]
  /\ tx = [p \in Processes |-> None]
  /\ faulted = [p \in Processes |-> FALSE]

\* A process that is gone leaves no memory.
Forget(p) ==
  /\ after' = [after EXCEPT ![p] = "off"]
  /\ faulted' = [faulted EXCEPT ![p] = FALSE]

Goto(p, label) == pc' = [pc EXCEPT ![p] = label]
At(p, label) == pc[p] = label

-----------------------------------------------------------------------------
(* Locks. *)

AcquireConfig(p) ==
  /\ At(p, "off")
  /\ IF config_lock[config[p]] = None
     THEN /\ config_lock' = [config_lock EXCEPT ![config[p]] = p]
          /\ Goto(p, "config_locked")
     ELSE Goto(p, "busy") /\ UNCHANGED config_lock
  /\ UNCHANGED <<config, data_lock, settings, files, probes, after, tx, faulted>>

\* A lock that is held answers Busy at once; the first lock is given back.
DataLockTaken(p) ==
  IF data_lock = None THEN data_lock' = p /\ UNCHANGED config_lock
  ELSE /\ config_lock' = [config_lock EXCEPT ![config[p]] = None]
       /\ UNCHANGED data_lock

Mutant_AcquireData(p) ==
  /\ At(p, "config_locked")
  /\ DataLockTaken(p)
  /\ Goto(p, "discarding")
  /\ after' = [after EXCEPT ![p] = "settings"]
  /\ UNCHANGED <<config, settings, files, probes, tx, faulted>>
AcquireData(p) ==
  /\ At(p, "config_locked")
  /\ DataLockTaken(p)
  /\ Goto(p, IF data_lock' = p THEN "discarding" ELSE "busy")
  /\ after' = [after EXCEPT ![p] = "settings"]
  /\ UNCHANGED <<config, settings, files, probes, tx, faulted>>

-----------------------------------------------------------------------------
(* The probe directory. *)

\* discard_probe_directory_impl: leaf by leaf, then the directory.
UnlinkProbeLeaf(p) ==
  /\ At(p, "discarding") /\ probe \notin {None, {}}
  /\ IF probe \subseteq allowed_names
     THEN (\E name \in probe : probe' = probe \ {name}) /\ UNCHANGED pc
     ELSE Goto(p, "refused") /\ UNCHANGED probe
  /\ UNCHANGED <<config, locks, settings, files, copy, after, tx, faulted>>

RemoveProbeDirectory(p) ==
  /\ At(p, "discarding") /\ probe \in {None, {}}
  /\ probe' = None /\ copy' = NoFiles
  /\ Goto(p, after[p])
  /\ UNCHANGED <<config, locks, settings, files, after, tx, faulted>>

DiscardThen(p, label) ==
  Goto(p, "discarding") /\ after' = [after EXCEPT ![p] = label]

\* make_history_probe_copy: the directory must not exist.
MakeProbeDirectory(p) ==
  /\ At(p, "probing")
  /\ IF probe = None THEN probe' = {} /\ Goto(p, "copying_database")
     ELSE UNCHANGED probe /\ Goto(p, "refused")
  /\ UNCHANGED <<config, locks, settings, files, copy, after, tx, faulted>>

CopyLeaf(p, from, name, leaf, to) ==
  /\ At(p, from)
  /\ copy' = [copy EXCEPT ![leaf] = files[leaf]]
  /\ probe' = IF files[leaf] = None THEN probe ELSE probe \cup {name}
  /\ Goto(p, to)
  /\ UNCHANGED <<config, locks, settings, files, after, tx, faulted>>

CopyDatabase(p) ==
  CopyLeaf(p, "copying_database", "database", "main", "copying_wal")
CopyWal(p) == CopyLeaf(p, "copying_wal", "-wal", "wal", "copying_journal")
CopyJournal(p) ==
  CopyLeaf(p, "copying_journal", "-journal", "journal", "validating")

\* validate_bound_database_read_only: the copy is opened, migrated and read;
\* SQLite makes its own leaves beside it.
Validate(p) ==
  /\ At(p, "validating")
  /\ probe' = LeafNames
  /\ DiscardThen(p, IF Acceptable(Contents(copy), config[p])
                    THEN "opening" ELSE "refused")
  /\ UNCHANGED <<config, locks, settings, files, copy, tx, faulted>>

-----------------------------------------------------------------------------
(* bootstrap: which case it is. *)

LoadSettings(p) ==
  /\ At(p, "settings")
  /\ LET kind == settings[config[p]]
         found == Artifacts(files)
     IN CASE kind = "none" ->
               Goto(p, IF found THEN "refused" ELSE "first_launch")
          [] kind # "none" /\ files.main = None ->
               Goto(p, IF kind = "unmarked" /\ ~found THEN "creating"
                       ELSE "refused")
          [] OTHER ->
               Goto(p, IF files.main = Empty THEN "refused"
                       ELSE "probing")
  /\ UNCHANGED <<config, locks, settings, files, probes, after, tx, faulted>>

SaveFirstSettings(p) ==
  /\ At(p, "first_launch")
  /\ settings' = [settings EXCEPT ![config[p]] = "unmarked"]
  /\ Goto(p, "creating")
  /\ UNCHANGED <<config, locks, files, probes, after, tx, faulted>>

\* sqlite3_open_v2 with SQLITE_OPEN_CREATE.
CreateFile(p) ==
  /\ At(p, "creating")
  /\ files' = [files EXCEPT !.main = Empty]
  /\ Goto(p, "schema")
  /\ UNCHANGED <<config, locks, settings, probes, after, tx, faulted>>

-----------------------------------------------------------------------------
(* Transactions. *)

\* A statement inside a transaction changes only what its connection sees.
Mutant_Exec(p, db) ==
  tx' = [tx EXCEPT ![p] = db] /\ files' = [files EXCEPT !.main = db, !.wal = None]
Exec(p, db) == tx' = [tx EXCEPT ![p] = db] /\ UNCHANGED files

Statement(p, from, db, to) ==
  /\ At(p, from) /\ Exec(p, db) /\ Goto(p, to)
  /\ UNCHANGED <<config, locks, settings, probes, after, faulted>>

Writing == {"schema_made", "copied", "seen_made", "bound", "seeded", "posted"}
Written == [schema_made |-> "configured", copied |-> "version_2",
            seen_made |-> "configured", bound |-> "marking",
            seeded |-> "marking", posted |-> "ready"]

\* COMMIT in WAL mode appends; otherwise the old pages go to the journal, the
\* new ones to the main file, and the journal is removed.
Commit(p) ==
  /\ pc[p] \in Writing
  /\ IF tx[p].mode = "delete" /\ files.journal = None
     THEN /\ files' = [files EXCEPT !.main = Torn, !.journal = Contents(files)]
          /\ UNCHANGED <<pc, tx>>
     ELSE /\ files' = IF tx[p].mode = "wal" THEN [files EXCEPT !.wal = tx[p]]
                      ELSE [NoFiles EXCEPT !.main = tx[p]]
          /\ tx' = [tx EXCEPT ![p] = None]
          /\ Goto(p, Written[pc[p]])
  /\ UNCHANGED <<config, locks, settings, probes, after, faulted>>

-----------------------------------------------------------------------------
(* configure_database on the history itself. *)

Current == Contents(files)

OpenHistory(p) ==
  /\ At(p, "opening")
  /\ files' = IF files.journal = None THEN files
              ELSE [NoFiles EXCEPT !.main = files.journal]
  /\ Goto(p, IF ~Valid(Current) THEN "refused"
             ELSE CASE Current.version = 1 -> "version_1"
                    [] Current.version = 2 -> "version_2"
                    [] Current.version = 3 -> "configured")
  /\ UNCHANGED <<config, locks, settings, probes, after, tx, faulted>>

CreateSchema(p) == Statement(p, "schema", NewSchema, "schema_made")

\* migrate_v1_to_v2
RenamePosts(p) ==
  /\ At(p, "version_1")
  /\ Statement(p, "version_1",
               [Current EXCEPT !.aside = Current.posts, !.posts = {},
                                !.tables = {"meta", "posts_v1"}], "renamed")
CopyPosts(p) ==
  /\ At(p, "renamed")
  /\ Statement(p, "renamed",
               [tx[p] EXCEPT !.posts = tx[p].aside, !.aside = {}, !.version = 2,
                              !.tables = {"meta", "posts", "mentions"}],
               "copied")

\* migrate_v2_to_v3; the ledger is empty and marked so.
RenameMeta(p) ==
  /\ At(p, "version_2")
  /\ Statement(p, "version_2",
               [Current EXCEPT !.aside = {Current.owner}, !.owner = None,
                                !.tables = (@ \ {"meta"}) \cup {"meta_v2"}],
               "meta_renamed")
CreateSeen(p) ==
  /\ At(p, "meta_renamed")
  /\ Statement(p, "meta_renamed",
               [tx[p] EXCEPT !.owner = CHOOSE c \in tx[p].aside : TRUE,
                             !.tables = (@ \ {"meta_v2"})
                                          \cup {"meta", "seen_messages"},
                             !.aside = {}, !.version = 3], "seen_made")

\* The last checks, journal_mode = WAL, permissions.
EnableWal(p) ==
  /\ At(p, "configured")
  /\ files' = IF Current.mode = "wal" THEN files
              ELSE [NoFiles EXCEPT !.main = [Current EXCEPT !.mode = "wal"]]
  /\ Goto(p, IF ~(Valid(Current) /\ Current.version = 3) THEN "refused"
             ELSE IF Current.owner = None THEN "binding" ELSE "loading")
  /\ UNCHANGED <<config, locks, settings, probes, after, tx, faulted>>

\* open_empty_history saves an empty snapshot.
BindIdentity(p) ==
  /\ At(p, "binding")
  /\ Statement(p, "binding",
               [Current EXCEPT !.owner = config[p], !.seeded = TRUE], "bound")

\* load_snapshot; a ledger that a migration made is filled from the posts.
LoadSnapshot(p) ==
  /\ At(p, "loading")
  /\ Goto(p, IF ~Acceptable(Current, config[p]) THEN "refused"
             ELSE IF Current.seeded THEN "marking" ELSE "seeding")
  /\ UNCHANGED <<config, locks, settings, files, probes, after, tx, faulted>>

SeedLedger(p) ==
  /\ At(p, "seeding")
  /\ Statement(p, "seeding",
               [Current EXCEPT !.seen = @ \cup Current.posts, !.seeded = TRUE],
               "seeded")

\* finalize_history_initialization
MarkInitialized(p) ==
  /\ At(p, "marking")
  /\ settings' = [settings EXCEPT ![config[p]] = "marked"]
  /\ Goto(p, "ready")
  /\ UNCHANGED <<config, locks, files, probes, after, tx, faulted>>

-----------------------------------------------------------------------------
(* Use, failure and end. *)

SavePost(p, post) ==
  /\ At(p, "ready") /\ post \notin Current.posts
  /\ Statement(p, "ready",
               [Current EXCEPT !.posts = @ \cup {post}, !.seen = @ \cup {post}],
               "posted")

Probing == {"probing", "copying_database", "copying_wal", "copying_journal",
            "validating"}
Working == {"config_locked", "settings", "first_launch", "creating", "schema",
            "opening", "version_1", "renamed", "version_2", "meta_renamed",
            "configured", "binding", "loading", "seeding", "marking"} \cup Writing
           \cup Probing \cup {"discarding"}

\* A system call or a statement fails.  A copy is removed; a transaction is
\* rolled back, unless that fails too and the journal stays.
Fault(p) ==
  /\ pc[p] \in Working \ {"config_locked"}
  /\ faulted' = [faulted EXCEPT ![p] = TRUE]
  /\ IF pc[p] \in Probing \ {"probing"} THEN DiscardThen(p, "refused")
     ELSE Goto(p, "refused") /\ UNCHANGED after
  /\ tx' = [tx EXCEPT ![p] = None]
  /\ \/ UNCHANGED files
     \/ /\ pc[p] \in Writing /\ files.journal # None
        /\ files' = [NoFiles EXCEPT !.main = files.journal]
  /\ UNCHANGED <<config, locks, settings, probes>>

\* shutdown: the last connection moves the WAL into the main file; then the
\* locks go, the data lock first.
CloseHistory(p) ==
  /\ pc[p] \in {"ready", "refused", "busy"}
  /\ files' = IF At(p, "ready") THEN [NoFiles EXCEPT !.main = Current] ELSE files
  /\ Goto(p, IF At(p, "busy") THEN "off" ELSE "closed")
  /\ UNCHANGED <<config, locks, settings, probes, after, tx, faulted>>

ReleaseData(p) ==
  /\ At(p, "closed") /\ data_lock = p
  /\ data_lock' = None
  /\ UNCHANGED <<config, config_lock, settings, files, probes, pc, after, tx,
                 faulted>>

ReleaseConfig(p) ==
  /\ At(p, "closed") /\ data_lock # p
  /\ config_lock' = [config_lock EXCEPT ![config[p]] = None]
  /\ Goto(p, "off") /\ Forget(p)
  /\ UNCHANGED <<config, data_lock, settings, files, probe, copy, tx>>

\* The kernel releases the locks of a process that dies.
Kill(p) ==
  /\ ~At(p, "off")
  /\ config_lock' =
       [c \in Configs |-> IF config_lock[c] = p THEN None ELSE config_lock[c]]
  /\ data_lock' = IF data_lock = p THEN None ELSE data_lock
  /\ tx' = [tx EXCEPT ![p] = None]
  /\ Goto(p, "off") /\ Forget(p)
  /\ UNCHANGED <<config, settings, files, probe, copy>>

\* What a process does on its way once it has been started.
Step(p) ==
  \/ AcquireData(p)
  \/ UnlinkProbeLeaf(p) \/ RemoveProbeDirectory(p) \/ MakeProbeDirectory(p)
  \/ CopyDatabase(p) \/ CopyWal(p) \/ CopyJournal(p) \/ Validate(p)
  \/ LoadSettings(p) \/ SaveFirstSettings(p) \/ CreateFile(p)
  \/ CreateSchema(p) \/ Commit(p) \/ OpenHistory(p)
  \/ RenamePosts(p) \/ CopyPosts(p) \/ RenameMeta(p) \/ CreateSeen(p)
  \/ EnableWal(p) \/ BindIdentity(p) \/ LoadSnapshot(p) \/ SeedLedger(p)
  \/ MarkInitialized(p)

Next ==
  \E p \in Processes :
    \/ AcquireConfig(p) \/ Step(p)
    \/ \E post \in Posts : SavePost(p, post)
    \/ Fault(p) \/ CloseHistory(p) \/ ReleaseData(p) \/ ReleaseConfig(p)
    \/ Kill(p)

Spec == Init /\ [][Next]_vars

-----------------------------------------------------------------------------

Inside == (Working \ {"config_locked"}) \cup {"ready"}

\* No two processes are at the data directory, and none writes the settings
\* of a configuration directory another one uses, even though the two locks
\* are taken one after the other and both are dropped when the second is
\* taken (acquire_lock 505-517, shutdown 419-427).
OneWriter ==
  \A p, q \in Processes :
    p # q /\ pc[p] \in Inside =>
      /\ pc[q] \notin Inside
      /\ pc[q] \in {"config_locked", "refused", "closed"} => config[q] # config[p]

\* What the history holds is never lost: not by a migration that is killed
\* between two statements, not by a rollback, a seeding or a close
\* (Transaction 238-269, migrations 775-855).
Kept(old, new) ==
  IsDb(old) => /\ IsDb(new)
               /\ old.posts \subseteq new.posts /\ old.seen \subseteq new.seen
               /\ new.owner = old.owner \/ old.owner = None
               /\ new.version >= old.version
HistoryKept == [][Kept(Contents(files), Contents(files'))]_vars

\* A whole history of this program, in a version it knows, and of this
\* installation.
Own(contents, install) ==
  /\ IsDb(contents) /\ contents.app = "ours" /\ contents.sound
  /\ contents.version \in Supported /\ contents.owner = install

\* A database of another program, of a later version of this one, of another
\* installation, or a damaged one is never written, not even by a migration
\* (2146-2182 before 2325-2336).
ForeignUntouched ==
  [][IsDb(Contents(files)) /\ Contents(files).owner # None
     /\ (\A p \in Processes : data_lock = p =>
           ~Own(Contents(files), config[p]))
       => files' = files]_vars

\* A history that is whole and one's own is refused only when an operation
\* failed: leftovers of a killed process, a WAL, a hot journal or an old
\* schema are no reason (446-450, 1123-1244, 1286-1348).
WholeHistoryOpens ==
  \A p \in Processes :
    pc[p] = "refused" /\ ~faulted[p] =>
      \/ settings[config[p]] = "none"
      \/ ~Own(Contents(files), config[p])

=============================================================================
