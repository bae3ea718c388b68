-------------------------- MODULE HistoryOpenProofs --------------------------
(***************************************************************************)
(* For every number of processes, configuration directories and posts, and *)
(* whatever lies in the data directory at first: one process writes at a   *)
(* time, what the history holds is kept, a foreign history is not touched, *)
(* and a whole one of one's own is not refused.                            *)
(***************************************************************************)
EXTENDS HistoryOpen, TLAPS

\* Where a process holds both locks.
Holding == Inside \cup {"refused"}

Labels == Holding \cup {"off", "busy", "config_locked", "closed"}

TypeOK ==
  /\ config \in [Processes -> Configs]
  /\ config_lock \in [Configs -> Processes \cup {None}]
  /\ data_lock \in Processes \cup {None}
  /\ files \in [main : Leaf, wal : Leaf, journal : Leaf]
  /\ copy \in [main : Leaf, wal : Leaf, journal : Leaf]
  /\ probe \in {None} \cup SUBSET LeafNames
  /\ pc \in [Processes -> Labels]
  /\ tx \in [Processes -> Db \cup {None}]
  /\ DOMAIN after = Processes /\ DOMAIN faulted = Processes

\* Which locks a process holds follows from where it is.
LocksHeld(p) ==
  /\ pc[p] \in Holding => data_lock = p
  /\ pc[p] \in Holding \cup {"config_locked", "closed"} =>
       config_lock[config[p]] = p
  /\ data_lock = p => pc[p] \in Holding \cup {"closed"}

\* Why a history may be refused.
Refusable(p) ==
  faulted[p] \/ settings[config[p]] = "none" \/ ~Own(Current, config[p])

\* A whole history this process may change, its journal rolled back.
Usable(p) ==
  /\ files.journal = None /\ Valid(Current)
  /\ Current.owner \in {None, config[p]}

\* The history and the probe directory, before the history is opened.
Finding(p) ==
  /\ pc[p] = "refused" => Refusable(p)
  /\ pc[p] = "discarding" =>
       /\ after[p] \in {"settings", "opening", "refused"}
       /\ after[p] = "opening" => Acceptable(Current, config[p])
       /\ after[p] = "refused" => Refusable(p)
  /\ pc[p] \in {"settings", "probing"} => probe = None
  /\ pc[p] \in Probing \ {"probing"} => probe \in SUBSET LeafNames
  /\ pc[p] \in {"copying_wal", "copying_journal", "validating"} =>
       copy.main = files.main
  /\ pc[p] \in {"copying_journal", "validating"} => copy.wal = files.wal
  /\ pc[p] = "validating" => copy.journal = files.journal
  /\ pc[p] \in {"first_launch", "creating"} => files = NoFiles
  /\ pc[p] = "opening" => Acceptable(Current, config[p])

\* The history, outside a transaction.
Opened(p) ==
  /\ pc[p] = "schema" => files = [NoFiles EXCEPT !.main = Empty]
  /\ pc[p] \in {"version_1", "version_2", "renamed", "meta_renamed", "loading",
               "seeding", "marking", "ready"} =>
       Usable(p) /\ Current.owner = config[p]
  /\ pc[p] \in {"version_1", "renamed"} => Current.version = 1
  /\ pc[p] \in {"version_2", "meta_renamed"} => Current.version = 2
  /\ pc[p] \in {"configured", "binding", "loading", "seeding", "marking",
               "ready"} =>
       Usable(p) /\ Current.version = 3
  /\ pc[p] = "binding" => Current.owner = None

\* A transaction, before its last statement.
Begun(p) ==
  /\ pc[p] = "renamed" =>
       /\ tx[p] \in Db
       /\ tx[p] = [Current EXCEPT !.aside = Current.posts, !.posts = {},
                                  !.tables = {"meta", "posts_v1"}]
  /\ pc[p] = "meta_renamed" =>
       /\ tx[p] \in Db
       /\ tx[p] = [Current EXCEPT !.aside = {Current.owner}, !.owner = None,
                                  !.tables = (@ \ {"meta"}) \cup {"meta_v2"}]

\* A transaction that may be committed.
Complete(p) ==
  pc[p] \in Writing =>
    /\ tx[p] \in Db /\ Valid(tx[p]) /\ Kept(Current, tx[p])
    /\ tx[p].mode = "wal" => files.journal = None /\ IsDb(Current)
    /\ IF IsDb(Current)
       THEN Valid(Current) /\ Current.owner \in {None, config[p]}
       ELSE Current = Empty
    /\ tx[p].owner = IF pc[p] = "schema_made" THEN None ELSE config[p]
    /\ tx[p].version = IF pc[p] = "copied" THEN 2 ELSE 3

\* A database that is sound, ours and of a version we know has its schema.
SchemaKept ==
  IsDb(Current) => /\ files.main # Empty
                   /\ (/\ Current.app = "ours" /\ Current.sound
                       /\ Current.version \in Supported) => Exact(Current)

Phase(p) == Finding(p) /\ Opened(p) /\ Begun(p) /\ Complete(p)

IInv ==
  /\ TypeOK
  /\ SchemaKept
  /\ \A p \in Processes : LocksHeld(p) /\ Phase(p)

-----------------------------------------------------------------------------
(* Leaves and databases. *)

\* A main file alone is what a connection reads.
LEMMA LoneContents ==
  ASSUME NEW leaf
  PROVE  LET lone == [NoFiles EXCEPT !.main = leaf]
         IN  /\ lone = [main |-> leaf, wal |-> None, journal |-> None]
             /\ Contents(lone) = leaf
BY DEF NoFiles, Contents

LEMMA DbIsDb ==
  /\ \A leaf \in Db : IsDb(leaf)
  /\ \A leaf \in Leaf : IsDb(leaf) => leaf \in Db
BY LeafAssumption DEF IsDb, Leaf

LEMMA NewSchemaGood ==
  /\ NewSchema \in Db /\ Valid(NewSchema)
  /\ NewSchema.owner = None /\ NewSchema.version = 3
  /\ NewSchema.mode = "delete"
<1>1. NewSchema \in Db
  BY DEF NewSchema, Db, Schema, Tables
<1>2. IsDb(NewSchema)
  BY <1>1, DbIsDb
<1> QED
  BY <1>1, <1>2 DEF NewSchema, Valid, Exact, Supported

\* The two statements of migrate_v1_to_v2.
LEMMA MigrateOne ==
  ASSUME NEW d \in Db, Valid(d), d.version = 1
  PROVE  LET e == [d EXCEPT !.aside = d.posts, !.posts = {},
                            !.tables = {"meta", "posts_v1"}]
             f == [e EXCEPT !.posts = e.aside, !.aside = {}, !.version = 2,
                            !.tables = {"meta", "posts", "mentions"}]
         IN  /\ e \in Db /\ f \in Db /\ Valid(f) /\ Kept(d, f)
             /\ f.owner = d.owner /\ f.version = 2 /\ f.mode = d.mode
<1> DEFINE e == [d EXCEPT !.aside = d.posts, !.posts = {},
                          !.tables = {"meta", "posts_v1"}]
           f == [e EXCEPT !.posts = e.aside, !.aside = {}, !.version = 2,
                          !.tables = {"meta", "posts", "mentions"}]
<1>1. e \in Db
  BY DEF Db, Tables
<1>2. f \in Db
  <2>1. e.aside \in SUBSET Posts
    BY DEF Db
  <2>2. {"meta", "posts", "mentions"} \in SUBSET Tables /\ 2 \in Nat
    BY DEF Tables
  <2> HIDE DEF e
  <2> QED BY <1>1, <2>1, <2>2 DEF Db
<1>3. /\ f.owner = d.owner /\ f.version = 2 /\ f.mode = d.mode
      /\ f.posts = d.posts /\ f.seen = d.seen /\ f.app = d.app
      /\ f.sound = d.sound /\ f.tables = {"meta", "posts", "mentions"}
  BY DEF Db
<1>4. IsDb(f)
  BY <1>2, DbIsDb
<1>5. Valid(f)
  BY <1>3, <1>4 DEF Valid, Exact, Schema, Supported
<1>6. Kept(d, f)
  BY <1>3, <1>4 DEF Kept
<1> QED
  BY <1>1, <1>2, <1>3, <1>5, <1>6

\* The two statements of migrate_v2_to_v3.
LEMMA MigrateTwo ==
  ASSUME NEW d \in Db, Valid(d), d.version = 2, d.owner \in Configs
  PROVE  LET e == [d EXCEPT !.aside = {d.owner}, !.owner = None,
                            !.tables = (@ \ {"meta"}) \cup {"meta_v2"}]
         IN  /\ e \in Db /\ e.aside = {d.owner}
             /\ e.tables = {"posts", "mentions", "meta_v2"}
             /\ e.mode = d.mode /\ e.posts = d.posts /\ e.seen = d.seen
             /\ e.app = d.app /\ e.sound = d.sound
<1>1. d.tables = {"meta", "posts", "mentions"}
  BY DEF Valid, Exact, Schema
<1> QED
  BY <1>1 DEF Db, Tables

LEMMA MigrateThree ==
  ASSUME NEW d \in Db, Valid(d), d.version = 2, NEW f \in Db,
         f.owner = d.owner, f.version = 3, f.posts = d.posts, f.seen = d.seen,
         f.app = d.app, f.sound = d.sound,
         f.tables = {"meta", "posts", "mentions", "seen_messages"}
  PROVE  Valid(f) /\ Kept(d, f)
<1>1. IsDb(f)
  BY DbIsDb
<1>2. Valid(f)
  BY <1>1 DEF Valid, Exact, Schema, Supported
<1>3. Kept(d, f)
  BY <1>1 DEF Kept
<1> QED
  BY <1>2, <1>3

\* The statements that bind, seed and add a post, and the change of mode.
LEMMA SmallChange ==
  ASSUME NEW d \in Db, Valid(d), NEW e \in Db,
         e.app = d.app, e.version = d.version, e.sound = d.sound,
         e.tables = d.tables, d.posts \subseteq e.posts,
         d.seen \subseteq e.seen, e.owner = d.owner \/ d.owner = None
  PROVE  Valid(e) /\ Kept(d, e)
<1>1. IsDb(e)
  BY DbIsDb
<1>2. e.version >= d.version
  BY DEF Db
<1> QED
  BY <1>1, <1>2 DEF Valid, Exact, Kept

-----------------------------------------------------------------------------
(* Locks. *)

\* What a process does while it holds both locks.
HolderStep(p) ==
  \/ UnlinkProbeLeaf(p) \/ RemoveProbeDirectory(p) \/ MakeProbeDirectory(p)
  \/ CopyDatabase(p) \/ CopyWal(p) \/ CopyJournal(p) \/ Validate(p)
  \/ LoadSettings(p) \/ SaveFirstSettings(p) \/ CreateFile(p)
  \/ CreateSchema(p) \/ Commit(p) \/ OpenHistory(p)
  \/ RenamePosts(p) \/ CopyPosts(p) \/ RenameMeta(p) \/ CreateSeen(p)
  \/ EnableWal(p) \/ BindIdentity(p) \/ LoadSnapshot(p) \/ SeedLedger(p)
  \/ MarkInitialized(p) \/ (\E post \in Posts : SavePost(p, post)) \/ Fault(p)

\* Process p moves, and no other one.
Moved(p) ==
  /\ pc' \in [Processes -> Labels]
  /\ \A q \in Processes \ {p} : pc'[q] = pc[q]

LEMMA GotoMoves ==
  ASSUME TypeOK, NEW p \in Processes, NEW label \in Labels, Goto(p, label)
  PROVE  Moved(p) /\ pc'[p] = label
BY DEF TypeOK, Goto, Moved

LEMMA LabelsGood ==
  /\ Inside \subseteq Holding /\ Holding \subseteq Labels
  /\ Working \ {"config_locked"} \subseteq Inside
  /\ Writing \subseteq Inside
  /\ Probing \subseteq Inside
  /\ {Written[w] : w \in Writing} \subseteq Inside
BY DEF Inside, Holding, Labels, Working, Writing, Probing, Written

LEMMA HolderStays ==
  ASSUME IInv, NEW p \in Processes, HolderStep(p)
  PROVE  /\ pc[p] \in Inside /\ pc'[p] \in Holding /\ Moved(p)
         /\ UNCHANGED <<config, config_lock, data_lock>>
<1> USE DEF At
<1>1. CASE UnlinkProbeLeaf(p)
  BY <1>1, GotoMoves, LabelsGood
     DEF UnlinkProbeLeaf, locks, IInv, TypeOK, Moved, Inside, Working, Holding,
         Labels
<1>2. CASE RemoveProbeDirectory(p)
  <2>1. after[p] \in {"settings", "opening", "refused"}
    BY <1>2 DEF RemoveProbeDirectory, IInv, Phase, Finding
  <2>2. after[p] \in Holding
    BY <2>1 DEF Inside, Working, Holding
  <2> QED
    BY <1>2, <2>2, GotoMoves, LabelsGood
       DEF RemoveProbeDirectory, locks, IInv, Inside, Working
<1>3. CASE MakeProbeDirectory(p)
  BY <1>3, GotoMoves, LabelsGood
     DEF MakeProbeDirectory, locks, IInv, Inside, Working, Probing, Holding
<1>4. CASE CopyDatabase(p) \/ CopyWal(p) \/ CopyJournal(p)
  BY <1>4, GotoMoves, LabelsGood
     DEF CopyDatabase, CopyWal, CopyJournal, CopyLeaf, locks, IInv, Inside,
         Working, Probing
<1>5. CASE Validate(p)
  BY <1>5, GotoMoves, LabelsGood
     DEF Validate, DiscardThen, locks, IInv, Inside, Working, Probing
<1>6. CASE LoadSettings(p)
  <2>1. \E label \in {"refused", "first_launch", "creating", "probing"} :
          Goto(p, label)
    BY <1>6 DEF LoadSettings, Goto
  <2>2. {"refused", "first_launch", "creating", "probing"} \subseteq Holding
    BY DEF Inside, Working, Holding, Probing
  <2> QED
    BY <1>6, <2>1, <2>2, GotoMoves, LabelsGood
       DEF LoadSettings, locks, IInv, Inside, Working
<1>7. CASE SaveFirstSettings(p) \/ CreateFile(p) \/ MarkInitialized(p)
  BY <1>7, GotoMoves, LabelsGood
     DEF SaveFirstSettings, CreateFile, MarkInitialized, locks, IInv, Inside,
         Working
<1>8. CASE Commit(p)
  <2>1. pc[p] \in Writing /\ UNCHANGED <<config, config_lock, data_lock>>
    BY <1>8 DEF Commit, locks
  <2>2. CASE UNCHANGED pc
    BY <2>1, <2>2, LabelsGood DEF Moved, IInv, TypeOK
  <2>3. CASE Goto(p, Written[pc[p]])
    BY <2>1, <2>3, GotoMoves, LabelsGood DEF IInv
  <2> QED
    BY <1>8, <2>2, <2>3 DEF Commit
<1>9. CASE OpenHistory(p)
  <2>1. \E label \in {"refused", "version_1", "version_2", "configured"} :
          Goto(p, label)
    <3>1. Acceptable(Current, config[p])
      BY <1>9 DEF OpenHistory, IInv, Phase, Finding
    <3>2. Current \in Leaf
      BY DEF Current, Contents, IInv, TypeOK, Leaf
    <3>3. Current.version \in 1 .. 3
      BY <3>1 DEF Acceptable, Valid, Supported
    <3> QED
      BY <1>9, <3>3 DEF OpenHistory
  <2>2. {"refused", "version_1", "version_2", "configured"} \subseteq Holding
    BY DEF Inside, Working, Holding
  <2> QED
    BY <1>9, <2>1, <2>2, GotoMoves, LabelsGood
       DEF OpenHistory, locks, IInv, Inside, Working
<1>10. CASE \/ CreateSchema(p) \/ RenamePosts(p) \/ CopyPosts(p)
            \/ RenameMeta(p) \/ CreateSeen(p) \/ BindIdentity(p)
            \/ SeedLedger(p) \/ (\E post \in Posts : SavePost(p, post))
  <2>1. /\ pc[p] \in {"schema", "version_1", "renamed", "version_2",
                     "meta_renamed", "binding", "seeding", "ready"}
        /\ \E to \in Writing \cup {"renamed", "meta_renamed"} : Goto(p, to)
        /\ UNCHANGED <<config, config_lock, data_lock>>
    <3> USE DEF Statement, locks, Writing
    <3>1. CASE CreateSchema(p)
      BY <3>1 DEF CreateSchema
    <3>2. CASE RenamePosts(p)
      BY <3>2 DEF RenamePosts
    <3>3. CASE CopyPosts(p)
      BY <3>3 DEF CopyPosts
    <3>4. CASE RenameMeta(p)
      BY <3>4 DEF RenameMeta
    <3>5. CASE CreateSeen(p)
      BY <3>5 DEF CreateSeen
    <3>6. CASE BindIdentity(p)
      BY <3>6 DEF BindIdentity
    <3>7. CASE SeedLedger(p)
      BY <3>7 DEF SeedLedger
    <3>8. ASSUME NEW post \in Posts, SavePost(p, post)
          PROVE  /\ pc[p] = "ready" /\ Goto(p, "posted")
                 /\ UNCHANGED <<config, config_lock, data_lock>>
      BY <3>8 DEF SavePost
    <3> QED
      BY <1>10, <3>1, <3>2, <3>3, <3>4, <3>5, <3>6, <3>7, <3>8
  <2>2. Writing \cup {"renamed", "meta_renamed"} \subseteq Holding
    BY DEF Inside, Working, Writing, Holding
  <2>3. pc[p] \in Inside
    BY <2>1 DEF Inside, Working
  <2> QED
    BY <2>1, <2>2, <2>3, GotoMoves, LabelsGood DEF IInv
<1>11. CASE EnableWal(p) \/ LoadSnapshot(p)
  <2>1. \E label \in {"refused", "binding", "loading", "marking", "seeding"} :
          Goto(p, label)
    BY <1>11 DEF EnableWal, LoadSnapshot
  <2>2. {"refused", "binding", "loading", "marking", "seeding"} \subseteq Holding
    BY DEF Inside, Working, Holding
  <2> QED
    BY <1>11, <2>1, <2>2, GotoMoves, LabelsGood
       DEF EnableWal, LoadSnapshot, locks, IInv, Inside, Working
<1>12. CASE Fault(p)
  <2>1. {"discarding", "refused"} \subseteq Holding
    BY DEF Inside, Working, Holding
  <2> QED
    BY <1>12, <2>1, GotoMoves, LabelsGood DEF Fault, DiscardThen, locks, IInv
<1> QED
  BY <1>1, <1>2, <1>3, <1>4, <1>5, <1>6, <1>7, <1>8, <1>9, <1>10, <1>11, <1>12
     DEF HolderStep

\* A process outside the locks has nothing to say about the history.
LEMMA VacuousPhase ==
  ASSUME NEW q, pc[q] \notin Holding
  PROVE  Phase(q)
BY DEF Phase, Finding, Opened, Begun, Complete, Holding, Inside, Working,
       Probing, Writing

LEMMA OneHolder ==
  ASSUME IInv, NEW p \in Processes, NEW q \in Processes, p # q,
         pc[p] \in Holding
  PROVE  pc[q] \notin Holding
BY DEF IInv, LocksHeld

\* A step inside the locks does not concern the other processes.
LEMMA HolderAlone ==
  ASSUME IInv, NEW p \in Processes, HolderStep(p)
  PROVE  /\ \A q \in Processes : LocksHeld(q)'
         /\ \A q \in Processes \ {p} : Phase(q)'
<1>1. /\ pc[p] \in Inside /\ pc'[p] \in Holding /\ Moved(p)
      /\ UNCHANGED <<config, config_lock, data_lock>>
  BY HolderStays
<1>2. ASSUME NEW q \in Processes \ {p}
      PROVE  Phase(q)'
  <2>1. pc[q] \notin Holding
    BY <1>1, OneHolder, LabelsGood
  <2>2. (pc[q] \notin Holding)'
    BY <1>1, <2>1 DEF Moved, Holding, Inside, Working, Writing, Probing
  <2>3. (pc[q] \notin Holding)' => Phase(q)'
    BY VacuousPhase, PTL
  <2> QED
    BY <2>2, <2>3
<1>3. ASSUME NEW q \in Processes
      PROVE  LocksHeld(q)'
  <2>1. LocksHeld(q)
    BY DEF IInv
  <2>2. pc'[q] = pc[q] \/ (q = p /\ pc[q] \in Holding /\ pc'[q] \in Holding)
    BY <1>1, LabelsGood DEF Moved
  <2> QED
    BY <1>1, <2>1, <2>2
       DEF LocksHeld, Holding, Inside, Working, Writing, Probing
<1> QED
  BY <1>2, <1>3

\* A step that leaves the history alone.
LEMMA SameContents ==
  ASSUME UNCHANGED files
  PROVE  Current' = Current /\ (SchemaKept => SchemaKept')
BY DEF Current, Contents, SchemaKept, IsDb, Special, Exact, Schema

-----------------------------------------------------------------------------
(* Steps that leave the history alone. *)

\* What the process that moves has to keep.
Preserved(p) == TypeOK /\ SchemaKept /\ Phase(p)

LEMMA UnlinkPreserves ==
  ASSUME IInv, NEW p \in Processes, UnlinkProbeLeaf(p)
  PROVE  Preserved(p)'
<1>1. probe \subseteq allowed_names
  BY DEF UnlinkProbeLeaf, IInv, TypeOK, allowed_names
<1>2. /\ UNCHANGED <<config, config_lock, data_lock, settings, files, copy,
                     after, tx, faulted, pc>>
      /\ probe' \in SUBSET LeafNames /\ pc[p] = "discarding"
  BY <1>1 DEF UnlinkProbeLeaf, IInv, TypeOK, allowed_names, locks, At
<1>3. Current' = Current /\ SchemaKept'
  BY <1>2, SameContents DEF IInv
<1>4. TypeOK'
  BY <1>2 DEF IInv, TypeOK
<1>5. Finding(p)'
  <2>1. Finding(p)
    BY DEF IInv, Phase
  <2> QED
    BY <1>2, <1>3, <2>1 DEF Finding, Refusable, Probing
<1> QED
  BY <1>2, <1>3, <1>4, <1>5
     DEF Preserved, Phase, Opened, Begun, Complete, Writing

\* The part of TypeOK a step inside the locks may disturb.
LEMMA HolderType ==
  ASSUME IInv, NEW p \in Processes, HolderStep(p),
         files' \in [main : Leaf, wal : Leaf, journal : Leaf],
         copy' \in [main : Leaf, wal : Leaf, journal : Leaf],
         probe' \in {None} \cup SUBSET LeafNames,
         tx' \in [Processes -> Db \cup {None}],
         DOMAIN after' = Processes, DOMAIN faulted' = Processes
  PROVE  TypeOK'
<1>1. Moved(p) /\ UNCHANGED <<config, config_lock, data_lock>>
  BY HolderStays
<1> QED
  BY <1>1 DEF Moved, IInv, TypeOK

LEMMA RemoveProbePreserves ==
  ASSUME IInv, NEW p \in Processes, RemoveProbeDirectory(p)
  PROVE  Preserved(p)'
<1>1. /\ UNCHANGED <<config, settings, files, after, tx, faulted>>
      /\ probe' = None /\ copy' = NoFiles /\ pc'[p] = after[p]
      /\ pc[p] = "discarding"
  BY DEF RemoveProbeDirectory, locks, At, Goto, IInv, TypeOK
<1>2. Current' = Current /\ SchemaKept'
  BY <1>1, SameContents DEF IInv
<1>3. TypeOK'
  <2>1. NoFiles \in [main : Leaf, wal : Leaf, journal : Leaf]
    BY DEF NoFiles, Leaf
  <2>2. HolderStep(p)
    BY DEF HolderStep
  <2> QED
    BY <1>1, <2>1, <2>2, HolderType DEF IInv, TypeOK
<1>4. /\ after[p] \in {"settings", "opening", "refused"}
      /\ after[p] = "opening" => Acceptable(Current, config[p])
      /\ after[p] = "refused" => Refusable(p)
  BY <1>1 DEF IInv, Phase, Finding
<1>5. Finding(p)'
  BY <1>1, <1>2, <1>4 DEF Finding, Refusable, Probing
<1> QED
  BY <1>1, <1>2, <1>3, <1>4, <1>5
     DEF Preserved, Phase, Opened, Begun, Complete, Writing

LEMMA MakeProbePreserves ==
  ASSUME IInv, NEW p \in Processes, MakeProbeDirectory(p)
  PROVE  Preserved(p)'
<1>1. pc[p] = "probing" /\ probe = None
  BY DEF MakeProbeDirectory, At, IInv, Phase, Finding
<1>2. /\ UNCHANGED <<config, settings, files, copy, after, tx, faulted>>
      /\ probe' = {} /\ pc'[p] = "copying_database"
  BY <1>1 DEF MakeProbeDirectory, locks, Goto, IInv, TypeOK
<1>3. Current' = Current /\ SchemaKept'
  BY <1>2, SameContents DEF IInv
<1>4. TypeOK'
  <2>1. HolderStep(p)
    BY DEF HolderStep
  <2> QED
    BY <1>2, <2>1, HolderType DEF IInv, TypeOK
<1> QED
  BY <1>2, <1>3, <1>4
     DEF Preserved, Phase, Finding, Opened, Begun, Complete, Writing, Probing

LEMMA CopyPreserves ==
  ASSUME IInv, NEW p \in Processes,
         CopyDatabase(p) \/ CopyWal(p) \/ CopyJournal(p)
  PROVE  Preserved(p)'
<1> USE DEF CopyDatabase, CopyWal, CopyJournal, CopyLeaf, At, Goto
<1>1. UNCHANGED <<config, settings, files, after, tx, faulted>>
  OBVIOUS
<1>2. pc[p] \in {"copying_database", "copying_wal", "copying_journal"}
  OBVIOUS
<1>3. probe \in SUBSET LeafNames
  BY <1>2 DEF IInv, TypeOK, Phase, Finding, Probing
<1>4. probe' \in SUBSET LeafNames
  BY <1>3 DEF LeafNames
<1>5. copy' \in [main : Leaf, wal : Leaf, journal : Leaf]
  BY DEF IInv, TypeOK
<1>6. Current' = Current /\ SchemaKept'
  BY <1>1, SameContents DEF IInv
<1>7. TypeOK'
  <2>1. HolderStep(p)
    BY DEF HolderStep
  <2> HIDE DEF CopyDatabase, CopyWal, CopyJournal, CopyLeaf, At, Goto
  <2> QED
    BY <1>1, <1>4, <1>5, <2>1, HolderType DEF IInv, TypeOK
<1>8. Finding(p)'
  <2> USE DEF Finding, Probing
  <2>1. Finding(p)
    BY DEF IInv, Phase
  <2>2. pc \in [Processes -> Labels] /\ copy \in [main : Leaf, wal : Leaf, journal : Leaf]
    BY DEF IInv, TypeOK
  <2>3. CASE CopyDatabase(p)
    <3>1. pc'[p] = "copying_wal" /\ copy'.main = files'.main
      BY <1>1, <2>2, <2>3
    <3> QED
      BY <1>4, <3>1
  <2>4. CASE CopyWal(p)
    <3>1. /\ pc'[p] = "copying_journal"
          /\ copy'.main = files'.main /\ copy'.wal = files'.wal
      BY <1>1, <2>1, <2>2, <2>4
    <3> QED
      BY <1>4, <3>1
  <2>5. CASE CopyJournal(p)
    <3>1. /\ pc'[p] = "validating"
          /\ copy'.main = files'.main /\ copy'.wal = files'.wal
          /\ copy'.journal = files'.journal
      BY <1>1, <2>1, <2>2, <2>5
    <3> QED
      BY <1>4, <3>1
  <2> QED
    BY <2>3, <2>4, <2>5
<1>9. pc'[p] \in {"copying_wal", "copying_journal", "validating"}
  BY DEF IInv, TypeOK
<1> QED
  BY <1>6, <1>7, <1>8, <1>9 DEF Preserved, Phase, Opened, Begun, Complete, Writing

LEMMA ValidatePreserves ==
  ASSUME IInv, NEW p \in Processes, Validate(p)
  PROVE  Preserved(p)'
<1>1. /\ UNCHANGED <<config, settings, files, copy, tx, faulted>>
      /\ probe' = LeafNames
      /\ pc[p] = "validating" /\ pc'[p] = "discarding"
      /\ DOMAIN after' = Processes
      /\ after'[p] = IF Acceptable(Contents(copy), config[p])
                     THEN "opening" ELSE "refused"
  BY DEF Validate, DiscardThen, locks, At, Goto, IInv, TypeOK
<1>2. Current' = Current /\ SchemaKept'
  BY <1>1, SameContents DEF IInv
<1>3. TypeOK'
  <2>1. HolderStep(p)
    BY DEF HolderStep
  <2> QED
    BY <1>1, <2>1, HolderType DEF IInv, TypeOK
<1>4. Contents(copy) = Current
  BY <1>1 DEF IInv, Phase, Finding, Contents, Current
<1>5. Acceptable(Current, config[p]) \/ ~Own(Current, config[p])
  BY DEF IInv, SchemaKept, Own, Acceptable, Valid, Bound
<1>6. Finding(p)'
  BY <1>1, <1>2, <1>4, <1>5 DEF Finding, Probing, Refusable
<1> QED
  BY <1>1, <1>2, <1>3, <1>6 DEF Preserved, Phase, Opened, Begun, Complete, Writing

LEMMA LoadSettingsPreserves ==
  ASSUME IInv, NEW p \in Processes, LoadSettings(p)
  PROVE  Preserved(p)'
<1>1. /\ UNCHANGED <<config, settings, files, probe, copy, after, tx, faulted>>
      /\ pc[p] = "settings"
  BY DEF LoadSettings, locks, probes, At
<1>2. Current' = Current /\ SchemaKept'
  BY <1>1, SameContents DEF IInv
<1>3. TypeOK'
  <2>1. HolderStep(p)
    BY DEF HolderStep
  <2> QED
    BY <1>1, <2>1, HolderType DEF IInv, TypeOK
<1>4. probe = None
  BY <1>1 DEF IInv, Phase, Finding
<1>5. files.main \in {None, Empty} => ~Own(Current, config[p])
  BY DEF IInv, SchemaKept, Own, Current, Contents, IsDb
<1>6. \/ pc'[p] = "refused" /\ Refusable(p)
      \/ pc'[p] \in {"first_launch", "creating"} /\ files = NoFiles
      \/ pc'[p] = "probing"
  BY <1>5 DEF LoadSettings, Goto, Artifacts, Refusable, IInv, TypeOK
<1>7. Finding(p)'
  BY <1>1, <1>2, <1>4, <1>6 DEF Finding, Probing, Refusable
<1> QED
  BY <1>1, <1>2, <1>3, <1>6, <1>7
     DEF Preserved, Phase, Opened, Begun, Complete, Writing

LEMMA SaveFirstSettingsPreserves ==
  ASSUME IInv, NEW p \in Processes, SaveFirstSettings(p)
  PROVE  Preserved(p)'
<1>1. /\ UNCHANGED <<config, files, probe, copy, after, tx, faulted>>
      /\ pc[p] = "first_launch" /\ pc'[p] = "creating"
  BY DEF SaveFirstSettings, locks, probes, At, Goto, IInv, TypeOK
<1>2. Current' = Current /\ SchemaKept'
  BY <1>1, SameContents DEF IInv
<1>3. TypeOK'
  <2>1. HolderStep(p)
    BY DEF HolderStep
  <2> QED
    BY <1>1, <2>1, HolderType DEF IInv, TypeOK
<1>4. files' = NoFiles
  BY <1>1 DEF IInv, Phase, Finding
<1> QED
  BY <1>1, <1>2, <1>3, <1>4
     DEF Preserved, Phase, Finding, Opened, Begun, Complete, Writing, Probing

LEMMA LoadSnapshotPreserves ==
  ASSUME IInv, NEW p \in Processes, LoadSnapshot(p)
  PROVE  Preserved(p)'
<1>1. /\ UNCHANGED <<config, settings, files, probe, copy, after, tx, faulted>>
      /\ pc[p] = "loading"
  BY DEF LoadSnapshot, locks, probes, At
<1>2. Current' = Current /\ SchemaKept'
  BY <1>1, SameContents DEF IInv
<1>3. TypeOK'
  <2>1. HolderStep(p)
    BY DEF HolderStep
  <2> QED
    BY <1>1, <2>1, HolderType DEF IInv, TypeOK
<1>4. Usable(p) /\ Current.owner = config[p] /\ Current.version = 3
  BY <1>1 DEF IInv, Phase, Opened
<1>5. pc'[p] \in {"marking", "seeding"}
  BY <1>4 DEF LoadSnapshot, Goto, Acceptable, Bound, Usable, IInv, TypeOK
<1>6. Opened(p)'
  BY <1>1, <1>2, <1>4, <1>5 DEF Opened, Usable
<1> QED
  BY <1>1, <1>2, <1>3, <1>5, <1>6
     DEF Preserved, Phase, Finding, Begun, Complete, Writing, Probing

LEMMA MarkInitializedPreserves ==
  ASSUME IInv, NEW p \in Processes, MarkInitialized(p)
  PROVE  Preserved(p)'
<1>1. /\ UNCHANGED <<config, files, probe, copy, after, tx, faulted>>
      /\ pc[p] = "marking" /\ pc'[p] = "ready"
  BY DEF MarkInitialized, locks, probes, At, Goto, IInv, TypeOK
<1>2. Current' = Current /\ SchemaKept'
  BY <1>1, SameContents DEF IInv
<1>3. TypeOK'
  <2>1. HolderStep(p)
    BY DEF HolderStep
  <2> QED
    BY <1>1, <2>1, HolderType DEF IInv, TypeOK
<1>4. Usable(p) /\ Current.owner = config[p] /\ Current.version = 3
  BY <1>1 DEF IInv, Phase, Opened
<1>5. Opened(p)'
  BY <1>1, <1>2, <1>4 DEF Opened, Usable
<1> QED
  BY <1>1, <1>2, <1>3, <1>5
     DEF Preserved, Phase, Finding, Begun, Complete, Writing, Probing

-----------------------------------------------------------------------------
(* Statements. *)

LEMMA StatementKeeps ==
  ASSUME IInv, NEW p \in Processes, HolderStep(p), NEW from, NEW to \in Labels,
         NEW db \in Db, Statement(p, from, db, to)
  PROVE  /\ TypeOK' /\ SchemaKept' /\ Current' = Current
         /\ tx'[p] = db /\ pc[p] = from /\ pc'[p] = to
         /\ UNCHANGED <<config, files>>
<1>1. /\ UNCHANGED <<config, settings, files, probe, copy, after, faulted>>
      /\ tx' = [tx EXCEPT ![p] = db] /\ pc' = [pc EXCEPT ![p] = to]
      /\ pc[p] = from
  BY DEF Statement, Exec, Goto, At, locks, probes
<1>2. TypeOK'
  BY <1>1, HolderType DEF IInv, TypeOK
<1>3. SchemaKept' /\ Current' = Current
  BY <1>1, SameContents DEF IInv
<1> QED
  BY <1>1, <1>2, <1>3 DEF IInv, TypeOK

LEMMA CurrentIsLeaf ==
  ASSUME IInv
  PROVE  Current \in Leaf /\ (IsDb(Current) => Current \in Db)
<1>1. Current \in Leaf
  BY DEF Current, Contents, IInv, TypeOK, Leaf
<1> QED
  BY <1>1, DbIsDb

LEMMA CreateSchemaPreserves ==
  ASSUME IInv, NEW p \in Processes, CreateSchema(p)
  PROVE  Preserved(p)'
<1>1. HolderStep(p) /\ "schema_made" \in Labels
  BY DEF HolderStep, Labels, Holding, Inside, Working, Writing
<1>2. /\ TypeOK' /\ SchemaKept' /\ Current' = Current
      /\ tx'[p] = NewSchema /\ pc[p] = "schema" /\ pc'[p] = "schema_made"
      /\ UNCHANGED <<config, files>>
  BY <1>1, StatementKeeps, NewSchemaGood DEF CreateSchema
<1>3. Current = Empty /\ ~IsDb(Current)
  <2>1. files = [NoFiles EXCEPT !.main = Empty]
    BY <1>2 DEF IInv, Phase, Opened
  <2> QED
    BY <2>1, LoneContents DEF Current, IsDb, Special
<1>4. Complete(p)'
  BY <1>2, <1>3, NewSchemaGood DEF Complete, Kept
<1> QED
  BY <1>2, <1>4 DEF Preserved, Phase, Finding, Opened, Begun, Probing

LEMMA RenamePostsPreserves ==
  ASSUME IInv, NEW p \in Processes, RenamePosts(p)
  PROVE  Preserved(p)'
<1> DEFINE db == [Current EXCEPT !.aside = Current.posts, !.posts = {},
                                 !.tables = {"meta", "posts_v1"}]
<1>1. HolderStep(p) /\ "renamed" \in Labels
  BY DEF HolderStep, Labels, Holding, Inside, Working
<1>2. pc[p] = "version_1" /\ Statement(p, "version_1", db, "renamed")
  BY DEF RenamePosts, At
<1>3. Usable(p) /\ Current.owner = config[p] /\ Current.version = 1
  BY <1>2 DEF IInv, Phase, Opened
<1>4. Current \in Db
  BY <1>3, CurrentIsLeaf DEF Usable, Valid
<1>5. db \in Db
  BY <1>3, <1>4, MigrateOne DEF Usable
<1> HIDE DEF db
<1>6. /\ TypeOK' /\ SchemaKept' /\ Current' = Current
      /\ tx'[p] = db /\ pc'[p] = "renamed" /\ UNCHANGED <<config, files>>
  BY <1>1, <1>2, <1>5, StatementKeeps
<1>7. Opened(p)'
  BY <1>3, <1>6 DEF Opened, Usable
<1>8. Begun(p)'
  BY <1>5, <1>6 DEF Begun, db
<1> QED
  BY <1>6, <1>7, <1>8 DEF Preserved, Phase, Finding, Complete, Probing, Writing

LEMMA CopyPostsPreserves ==
  ASSUME IInv, NEW p \in Processes, CopyPosts(p)
  PROVE  Preserved(p)'
<1> DEFINE e == tx[p]
           db == [e EXCEPT !.posts = e.aside, !.aside = {}, !.version = 2,
                           !.tables = {"meta", "posts", "mentions"}]
<1>1. HolderStep(p) /\ "copied" \in Labels
  BY DEF HolderStep, Labels, Holding, Inside, Working, Writing
<1>2. pc[p] = "renamed" /\ Statement(p, "renamed", db, "copied")
  BY DEF CopyPosts, At
<1>3. Usable(p) /\ Current.owner = config[p] /\ Current.version = 1
  BY <1>2 DEF IInv, Phase, Opened
<1>4. Current \in Db /\ Valid(Current) /\ IsDb(Current)
  BY <1>3, CurrentIsLeaf DEF Usable, Valid
<1>5. e = [Current EXCEPT !.aside = Current.posts, !.posts = {},
                          !.tables = {"meta", "posts_v1"}]
  BY <1>2 DEF IInv, Phase, Begun
<1>6. /\ db \in Db /\ Valid(db) /\ Kept(Current, db)
      /\ db.owner = Current.owner /\ db.version = 2
  BY <1>3, <1>4, <1>5, MigrateOne
<1> HIDE DEF db
<1>7. /\ TypeOK' /\ SchemaKept' /\ Current' = Current
      /\ tx'[p] = db /\ pc'[p] = "copied" /\ UNCHANGED <<config, files>>
  BY <1>1, <1>2, <1>6, StatementKeeps
<1>8. Complete(p)'
  BY <1>3, <1>4, <1>6, <1>7 DEF Complete, Usable
<1> QED
  BY <1>7, <1>8 DEF Preserved, Phase, Finding, Opened, Begun, Probing

LEMMA RenameMetaPreserves ==
  ASSUME IInv, NEW p \in Processes, RenameMeta(p)
  PROVE  Preserved(p)'
<1> DEFINE db == [Current EXCEPT !.aside = {Current.owner}, !.owner = None,
                                 !.tables = (@ \ {"meta"}) \cup {"meta_v2"}]
<1>1. HolderStep(p) /\ "meta_renamed" \in Labels
  BY DEF HolderStep, Labels, Holding, Inside, Working
<1>2. pc[p] = "version_2" /\ Statement(p, "version_2", db, "meta_renamed")
  BY DEF RenameMeta, At
<1>3. /\ Usable(p) /\ Current.owner = config[p] /\ Current.version = 2
      /\ config[p] \in Configs
  BY <1>2 DEF IInv, Phase, Opened, TypeOK
<1>4. Current \in Db
  BY <1>3, CurrentIsLeaf DEF Usable, Valid
<1>5. db \in Db
  BY <1>3, <1>4, MigrateTwo DEF Usable
<1> HIDE DEF db
<1>6. /\ TypeOK' /\ SchemaKept' /\ Current' = Current
      /\ tx'[p] = db /\ pc'[p] = "meta_renamed" /\ UNCHANGED <<config, files>>
  BY <1>1, <1>2, <1>5, StatementKeeps
<1>7. Opened(p)'
  BY <1>3, <1>6 DEF Opened, Usable
<1>8. Begun(p)'
  BY <1>5, <1>6 DEF Begun, db
<1> QED
  BY <1>6, <1>7, <1>8 DEF Preserved, Phase, Finding, Complete, Probing, Writing

LEMMA CreateSeenPreserves ==
  ASSUME IInv, NEW p \in Processes, CreateSeen(p)
  PROVE  Preserved(p)'
<1> DEFINE e == tx[p]
           db == [e EXCEPT !.owner = CHOOSE c \in e.aside : TRUE,
                           !.tables = (@ \ {"meta_v2"})
                                        \cup {"meta", "seen_messages"},
                           !.aside = {}, !.version = 3]
<1>1. HolderStep(p) /\ "seen_made" \in Labels
  BY DEF HolderStep, Labels, Holding, Inside, Working, Writing
<1>2. pc[p] = "meta_renamed" /\ Statement(p, "meta_renamed", db, "seen_made")
  BY DEF CreateSeen, At
<1>3. /\ Usable(p) /\ Current.owner = config[p] /\ Current.version = 2
      /\ config[p] \in Configs
  BY <1>2 DEF IInv, Phase, Opened, TypeOK
<1>4. Current \in Db /\ Valid(Current) /\ IsDb(Current)
  BY <1>3, CurrentIsLeaf DEF Usable, Valid
<1>5. e = [Current EXCEPT !.aside = {Current.owner}, !.owner = None,
                          !.tables = (@ \ {"meta"}) \cup {"meta_v2"}]
  BY <1>2 DEF IInv, Phase, Begun
<1>6. /\ db \in Db /\ Valid(db) /\ Kept(Current, db)
      /\ db.owner = Current.owner /\ db.version = 3
  <2> DEFINE owner == CHOOSE c \in e.aside : TRUE
             t == (e.tables \ {"meta_v2"}) \cup {"meta", "seen_messages"}
  <2>1. /\ e \in Db /\ e.aside = {Current.owner}
        /\ e.tables = {"posts", "mentions", "meta_v2"}
        /\ e.mode = Current.mode /\ e.posts = Current.posts
        /\ e.seen = Current.seen /\ e.app = Current.app
        /\ e.sound = Current.sound
    <3> DEFINE g == [Current EXCEPT !.aside = {Current.owner}, !.owner = None,
                            !.tables = (@ \ {"meta"}) \cup {"meta_v2"}]
    <3>1. /\ g \in Db /\ g.aside = {Current.owner}
          /\ g.tables = {"posts", "mentions", "meta_v2"}
          /\ g.mode = Current.mode /\ g.posts = Current.posts
          /\ g.seen = Current.seen /\ g.app = Current.app
          /\ g.sound = Current.sound
      BY <1>3, <1>4, MigrateTwo
    <3>2. e = g
      BY <1>5
    <3> HIDE DEF e, g
    <3> QED
      BY <3>1, <3>2
  <2>2. owner = Current.owner /\ owner \in Configs
    BY <1>3, <2>1
  <2>3. t = {"meta", "posts", "mentions", "seen_messages"}
    BY <2>1
  <2>4. db = [e EXCEPT !.owner = owner, !.tables = t, !.aside = {}, !.version = 3]
    OBVIOUS
  <2>5. /\ t \in SUBSET Tables /\ 3 \in Nat
        /\ owner \in Configs \cup {None}
    BY <2>2, <2>3 DEF Tables
  <2> HIDE DEF db, e, owner, t
  <2>6. e \in Db
    BY <2>1
  <2>7. db \in Db
    BY <2>4, <2>5, <2>6 DEF Db
  <2>8. db.owner = owner /\ db.version = 3 /\ db.tables = t
    BY <2>4, <2>6 DEF Db
  <2>9. /\ db.posts = e.posts /\ db.seen = e.seen /\ db.app = e.app
        /\ db.sound = e.sound
    BY <2>4, <2>6 DEF Db
  <2> QED
    BY <1>3, <1>4, <2>1, <2>2, <2>3, <2>7, <2>8, <2>9, MigrateThree
<1> HIDE DEF db
<1>7. /\ TypeOK' /\ SchemaKept' /\ Current' = Current
      /\ tx'[p] = db /\ pc'[p] = "seen_made" /\ UNCHANGED <<config, files>>
  BY <1>1, <1>2, <1>6, StatementKeeps
<1>8. Complete(p)'
  BY <1>3, <1>4, <1>6, <1>7 DEF Complete, Usable
<1> QED
  BY <1>7, <1>8 DEF Preserved, Phase, Finding, Opened, Begun, Probing

LEMMA BindIdentityPreserves ==
  ASSUME IInv, NEW p \in Processes, BindIdentity(p)
  PROVE  Preserved(p)'
<1> DEFINE db == [Current EXCEPT !.owner = config[p], !.seeded = TRUE]
<1>1. HolderStep(p) /\ "bound" \in Labels
  BY DEF HolderStep, Labels, Holding, Inside, Working, Writing
<1>2. pc[p] = "binding" /\ Statement(p, "binding", db, "bound")
  BY DEF BindIdentity, At
<1>3. /\ Usable(p) /\ Current.owner = None /\ Current.version = 3
      /\ config[p] \in Configs
  BY <1>2 DEF IInv, Phase, Opened, TypeOK
<1>4. Current \in Db /\ Valid(Current) /\ IsDb(Current)
  BY <1>3, CurrentIsLeaf DEF Usable, Valid
<1>5. db \in Db /\ db.owner = config[p] /\ db.version = 3
  BY <1>3, <1>4 DEF Db
<1>6. Valid(db) /\ Kept(Current, db)
  <2>1. /\ db.app = Current.app /\ db.version = Current.version
        /\ db.sound = Current.sound /\ db.tables = Current.tables
        /\ db.posts = Current.posts /\ db.seen = Current.seen
    BY <1>4 DEF Db
  <2> HIDE DEF db
  <2> QED
    BY <1>3, <1>4, <1>5, <2>1, SmallChange
<1> HIDE DEF db
<1>7. /\ TypeOK' /\ SchemaKept' /\ Current' = Current
      /\ tx'[p] = db /\ pc'[p] = "bound" /\ UNCHANGED <<config, files>>
  BY <1>1, <1>2, <1>5, StatementKeeps
<1>8. Complete(p)'
  BY <1>3, <1>4, <1>5, <1>6, <1>7 DEF Complete, Usable
<1> QED
  BY <1>7, <1>8 DEF Preserved, Phase, Finding, Opened, Begun, Probing

LEMMA SeedLedgerPreserves ==
  ASSUME IInv, NEW p \in Processes, SeedLedger(p)
  PROVE  Preserved(p)'
<1> DEFINE db == [Current EXCEPT !.seen = @ \cup Current.posts, !.seeded = TRUE]
<1>1. HolderStep(p) /\ "seeded" \in Labels
  BY DEF HolderStep, Labels, Holding, Inside, Working, Writing
<1>2. pc[p] = "seeding" /\ Statement(p, "seeding", db, "seeded")
  BY DEF SeedLedger, At
<1>3. Usable(p) /\ Current.owner = config[p] /\ Current.version = 3
  BY <1>2 DEF IInv, Phase, Opened
<1>4. Current \in Db /\ Valid(Current) /\ IsDb(Current)
  BY <1>3, CurrentIsLeaf DEF Usable, Valid
<1>5. db \in Db /\ db.owner = config[p] /\ db.version = 3
  BY <1>3, <1>4 DEF Db
<1>6. Valid(db) /\ Kept(Current, db)
  <2>1. /\ db.app = Current.app /\ db.version = Current.version
        /\ db.sound = Current.sound /\ db.tables = Current.tables
        /\ db.posts = Current.posts /\ Current.seen \subseteq db.seen
    BY <1>4 DEF Db
  <2> HIDE DEF db
  <2> QED
    BY <1>3, <1>4, <1>5, <2>1, SmallChange
<1> HIDE DEF db
<1>7. /\ TypeOK' /\ SchemaKept' /\ Current' = Current
      /\ tx'[p] = db /\ pc'[p] = "seeded" /\ UNCHANGED <<config, files>>
  BY <1>1, <1>2, <1>5, StatementKeeps
<1>8. Complete(p)'
  BY <1>3, <1>4, <1>5, <1>6, <1>7 DEF Complete, Usable
<1> QED
  BY <1>7, <1>8 DEF Preserved, Phase, Finding, Opened, Begun, Probing

LEMMA SavePostPreserves ==
  ASSUME IInv, NEW p \in Processes, NEW post \in Posts, SavePost(p, post)
  PROVE  Preserved(p)'
<1> DEFINE db == [Current EXCEPT !.posts = @ \cup {post},
                                 !.seen = @ \cup {post}]
<1>1. HolderStep(p) /\ "posted" \in Labels
  BY DEF HolderStep, Labels, Holding, Inside, Working, Writing
<1>2. pc[p] = "ready" /\ Statement(p, "ready", db, "posted")
  BY DEF SavePost, At
<1>3. Usable(p) /\ Current.owner = config[p] /\ Current.version = 3
  BY <1>2 DEF IInv, Phase, Opened
<1>4. Current \in Db /\ Valid(Current) /\ IsDb(Current)
  BY <1>3, CurrentIsLeaf DEF Usable, Valid
<1>5. db \in Db /\ db.owner = config[p] /\ db.version = 3
  BY <1>3, <1>4 DEF Db
<1>6. Valid(db) /\ Kept(Current, db)
  <2>1. /\ db.app = Current.app /\ db.version = Current.version
        /\ db.sound = Current.sound /\ db.tables = Current.tables
        /\ Current.posts \subseteq db.posts /\ Current.seen \subseteq db.seen
    BY <1>4 DEF Db
  <2> HIDE DEF db
  <2> QED
    BY <1>3, <1>4, <1>5, <2>1, SmallChange
<1> HIDE DEF db
<1>7. /\ TypeOK' /\ SchemaKept' /\ Current' = Current
      /\ tx'[p] = db /\ pc'[p] = "posted" /\ UNCHANGED <<config, files>>
  BY <1>1, <1>2, <1>5, StatementKeeps
<1>8. Complete(p)'
  BY <1>3, <1>4, <1>5, <1>6, <1>7 DEF Complete, Usable
<1> QED
  BY <1>7, <1>8 DEF Preserved, Phase, Finding, Opened, Begun, Probing

-----------------------------------------------------------------------------
(* Steps that write the history. *)

\* A step of p writes only what p may write.
Allowed(p) ==
  \/ files' = files
  \/ ~IsDb(Current) \/ Current.owner = None
  \/ Own(Current, config[p])

LEMMA KeptSelf ==
  ASSUME IInv
  PROVE  Kept(Current, Current)
BY CurrentIsLeaf DEF Kept, Db

LEMMA LeafMember ==
  /\ {None, Empty, Torn} \subseteq Leaf /\ Db \subseteq Leaf
  /\ None \notin Db /\ Empty \notin Db /\ None # Empty /\ None # Torn
  /\ Torn # Empty
BY LeafAssumption DEF Leaf, Special

LEMMA LoneType ==
  ASSUME NEW leaf \in Leaf
  PROVE  [NoFiles EXCEPT !.main = leaf]
           \in [main : Leaf, wal : Leaf, journal : Leaf]
BY LoneContents, LeafMember

LEMMA CreateFilePreserves ==
  ASSUME IInv, NEW p \in Processes, CreateFile(p)
  PROVE  Preserved(p)' /\ Kept(Current, Current') /\ Allowed(p)
<1>1. /\ UNCHANGED <<config, settings, probe, copy, after, tx, faulted>>
      /\ files' = [files EXCEPT !.main = Empty]
      /\ pc[p] = "creating" /\ pc'[p] = "schema"
  BY DEF CreateFile, locks, probes, At, Goto, IInv, TypeOK
<1>2. files = NoFiles
  BY <1>1 DEF IInv, Phase, Finding
<1>3. files' = [NoFiles EXCEPT !.main = Empty]
  BY <1>1, <1>2
<1>4. Current' = Empty /\ Current = None
  BY <1>2, <1>3, LoneContents DEF Current, Contents, NoFiles
<1>5. TypeOK'
  <2>1. HolderStep(p)
    BY DEF HolderStep
  <2> QED
    BY <1>1, <1>3, <2>1, HolderType, LoneType, LeafMember DEF IInv, TypeOK
<1>6. SchemaKept'
  BY <1>4 DEF SchemaKept, IsDb, Special
<1>7. Phase(p)'
  BY <1>1, <1>3
     DEF Phase, Finding, Opened, Begun, Complete, Writing, Probing
<1> QED
  BY <1>4, <1>5, <1>6, <1>7 DEF Preserved, Kept, Allowed, IsDb

LEMMA CommitPreserves ==
  ASSUME IInv, NEW p \in Processes, Commit(p)
  PROVE  Preserved(p)' /\ Kept(Current, Current') /\ Allowed(p)
<1> DEFINE db == tx[p]
<1>1. /\ UNCHANGED <<config, settings, probe, copy, after, faulted>>
      /\ pc[p] \in Writing
  BY DEF Commit, locks, probes
<1>2. HolderStep(p)
  BY DEF HolderStep
<1>3. /\ db \in Db /\ Valid(db) /\ Kept(Current, db)
      /\ db.mode = "wal" => files.journal = None /\ IsDb(Current)
      /\ IF IsDb(Current)
         THEN Valid(Current) /\ Current.owner \in {None, config[p]}
         ELSE Current = Empty
      /\ db.owner = IF pc[p] = "schema_made" THEN None ELSE config[p]
      /\ db.version = IF pc[p] = "copied" THEN 2 ELSE 3
  BY <1>1 DEF IInv, Phase, Complete
<1>4. Allowed(p)
  BY <1>3 DEF Allowed, Own, Valid
<1>5. files \in [main : Leaf, wal : Leaf, journal : Leaf]
  BY DEF IInv, TypeOK
<1>6. Current \in Leaf /\ Current # None /\ files.main # None
  BY <1>3, CurrentIsLeaf, LeafMember DEF Current, Contents, IsDb
<1>7. CASE db.mode = "delete" /\ files.journal = None
  <2>1. /\ files' = [files EXCEPT !.main = Torn, !.journal = Contents(files)]
        /\ UNCHANGED <<pc, tx>>
    BY <1>7 DEF Commit
  <2>2. /\ files' \in [main : Leaf, wal : Leaf, journal : Leaf]
        /\ files'.main = Torn /\ files'.journal = Current
    BY <1>5, <1>6, <2>1, LeafMember DEF Current
  <2>3. Current' = Current
    BY <1>6, <2>2, LeafMember DEF Current, Contents
  <2>4. TypeOK'
    BY <1>1, <1>2, <2>1, <2>2, HolderType DEF IInv, TypeOK
  <2>5. SchemaKept'
    BY <2>2, <2>3, LeafMember DEF IInv, SchemaKept
  <2>6. Complete(p)'
    BY <1>1, <1>3, <1>7, <2>1, <2>3 DEF Complete
  <2> QED
    BY <1>1, <1>4, <2>1, <2>3, <2>4, <2>5, <2>6, KeptSelf
       DEF Preserved, Phase, Finding, Opened, Begun, Probing, Writing
<1>8. CASE ~(db.mode = "delete" /\ files.journal = None)
  <2>1. /\ files' = IF db.mode = "wal" THEN [files EXCEPT !.wal = db]
                    ELSE [NoFiles EXCEPT !.main = db]
        /\ tx' = [tx EXCEPT ![p] = None]
        /\ pc' = [pc EXCEPT ![p] = Written[pc[p]]]
    BY <1>8 DEF Commit, Goto
  <2>2. /\ files' \in [main : Leaf, wal : Leaf, journal : Leaf]
        /\ Current' = db /\ files'.journal = None /\ files'.main # Empty
    <3>1. CASE db.mode = "wal"
      <4>1. /\ files' = [files EXCEPT !.wal = db]
            /\ files.journal = None /\ files.main # Empty /\ db # None
        BY <1>3, <2>1, <3>1, LeafMember DEF IInv, SchemaKept
      <4> QED
        BY <1>3, <1>5, <1>6, <4>1, LeafMember DEF Current, Contents
    <3>2. CASE db.mode # "wal"
      <4>1. files' = [main |-> db, wal |-> None, journal |-> None]
        BY <2>1, <3>2, LoneContents
      <4> QED
        BY <1>3, <4>1, LeafMember DEF Current, Contents
    <3> QED
      BY <3>1, <3>2
  <2>3. TypeOK'
    BY <1>1, <1>2, <2>1, <2>2, HolderType DEF IInv, TypeOK
  <2>4. SchemaKept'
    BY <1>3, <2>2 DEF SchemaKept, Valid
  <2>5. pc'[p] = Written[pc[p]]
    BY <2>1 DEF IInv, TypeOK
  <2>6. Opened(p)'
    BY <1>1, <1>3, <2>2, <2>5 DEF Opened, Usable, Written, Writing
  <2>7. Phase(p)'
    BY <1>1, <2>5, <2>6
       DEF Phase, Finding, Begun, Complete, Probing, Written, Writing
  <2> QED
    BY <1>3, <1>4, <2>2, <2>3, <2>4, <2>7 DEF Preserved
<1> QED
  BY <1>7, <1>8

LEMMA OpenHistoryPreserves ==
  ASSUME IInv, NEW p \in Processes, OpenHistory(p)
  PROVE  Preserved(p)' /\ Kept(Current, Current') /\ Allowed(p)
<1>1. /\ UNCHANGED <<config, settings, probe, copy, after, tx, faulted>>
      /\ files' = IF files.journal = None THEN files
                  ELSE [NoFiles EXCEPT !.main = files.journal]
      /\ pc[p] = "opening"
  BY DEF OpenHistory, locks, probes, At
<1>2. Acceptable(Current, config[p])
  BY <1>1 DEF IInv, Phase, Finding
<1>3. /\ Current \in Db /\ Valid(Current) /\ Current.owner = config[p]
      /\ files \in [main : Leaf, wal : Leaf, journal : Leaf]
  BY <1>2, CurrentIsLeaf DEF Acceptable, Valid, Bound, IInv, TypeOK
<1>4. /\ files' \in [main : Leaf, wal : Leaf, journal : Leaf]
      /\ Current' = Current /\ files'.journal = None /\ files'.main # Empty
  <2>1. CASE files.journal = None
    BY <1>1, <1>3, <2>1, DbIsDb DEF Current, IInv, SchemaKept
  <2>2. CASE files.journal # None
    <3>1. Current = files.journal
      BY <1>3, <2>2, LeafMember DEF Current, Contents
    <3>2. files' = [main |-> files.journal, wal |-> None, journal |-> None]
      BY <1>1, <2>2, LoneContents
    <3> QED
      BY <1>3, <3>1, <3>2, LeafMember DEF Current, Contents
  <2> QED
    BY <2>1, <2>2
<1>5. TypeOK'
  <2>1. HolderStep(p)
    BY DEF HolderStep
  <2> QED
    BY <1>1, <1>4, <2>1, HolderType DEF IInv, TypeOK
<1>6. SchemaKept'
  BY <1>3, <1>4 DEF SchemaKept, Valid
<1>7. \/ pc'[p] = "version_1" /\ Current.version = 1
      \/ pc'[p] = "version_2" /\ Current.version = 2
      \/ pc'[p] = "configured" /\ Current.version = 3
  <2>1. Current.version \in 1 .. 3
    BY <1>3 DEF Valid, Supported
  <2> QED
    BY <1>3, <2>1 DEF OpenHistory, Goto, IInv, TypeOK
<1>8. Opened(p)'
  BY <1>1, <1>3, <1>4, <1>7 DEF Opened, Usable
<1>9. Phase(p)'
  BY <1>7, <1>8 DEF Phase, Finding, Begun, Complete, Probing, Writing
<1>10. Allowed(p)
  BY <1>3 DEF Allowed, Own, Valid
<1> QED
  BY <1>4, <1>5, <1>6, <1>9, <1>10, KeptSelf DEF Preserved

LEMMA EnableWalPreserves ==
  ASSUME IInv, NEW p \in Processes, EnableWal(p)
  PROVE  Preserved(p)' /\ Kept(Current, Current') /\ Allowed(p)
<1> DEFINE db == [Current EXCEPT !.mode = "wal"]
<1>1. /\ UNCHANGED <<config, settings, probe, copy, after, tx, faulted>>
      /\ files' = IF Current.mode = "wal" THEN files
                  ELSE [NoFiles EXCEPT !.main = db]
      /\ pc[p] = "configured"
  BY DEF EnableWal, locks, probes, At
<1>2. Usable(p) /\ Current.version = 3
  BY <1>1 DEF IInv, Phase, Opened
<1>3. /\ Current \in Db /\ Valid(Current) /\ files.journal = None
      /\ Current.owner \in {None, config[p]}
      /\ files \in [main : Leaf, wal : Leaf, journal : Leaf]
  BY <1>2, CurrentIsLeaf DEF Usable, Valid, IInv, TypeOK
<1>4. /\ db \in Db /\ Valid(db) /\ Kept(Current, db)
      /\ db.owner = Current.owner /\ db.version = 3
  <2>1. db \in Db
    BY <1>3 DEF Db
  <2>2. /\ db.app = Current.app /\ db.version = Current.version
        /\ db.sound = Current.sound /\ db.tables = Current.tables
        /\ db.posts = Current.posts /\ db.seen = Current.seen
        /\ db.owner = Current.owner
    BY <1>3 DEF Db
  <2> HIDE DEF db
  <2> QED
    BY <1>2, <1>3, <2>1, <2>2, SmallChange
<1> HIDE DEF db
<1>5. /\ files' \in [main : Leaf, wal : Leaf, journal : Leaf]
      /\ Current' \in {Current, db}
      /\ files'.journal = None /\ files'.main # Empty
  <2>1. CASE Current.mode = "wal"
    BY <1>1, <1>3, <2>1, DbIsDb DEF Current, IInv, SchemaKept
  <2>2. CASE Current.mode # "wal"
    <3>1. files' = [main |-> db, wal |-> None, journal |-> None]
      BY <1>1, <2>2, LoneContents
    <3> QED
      BY <1>4, <3>1, LeafMember DEF Current, Contents
  <2> QED
    BY <2>1, <2>2
<1>6. TypeOK'
  <2>1. HolderStep(p)
    BY DEF HolderStep
  <2> QED
    BY <1>1, <1>5, <2>1, HolderType DEF IInv, TypeOK
<1>7. /\ Valid(Current') /\ Kept(Current, Current') /\ Current'.version = 3
      /\ Current'.owner = Current.owner
  BY <1>2, <1>3, <1>4, <1>5, KeptSelf
<1>8. SchemaKept'
  BY <1>5, <1>7 DEF SchemaKept, Valid
<1>9. pc'[p] = IF Current.owner = None THEN "binding" ELSE "loading"
  BY <1>2, <1>3 DEF EnableWal, Goto, IInv, TypeOK
<1>10. Opened(p)'
  BY <1>1, <1>3, <1>5, <1>7, <1>9 DEF Opened, Usable
<1>11. Phase(p)'
  BY <1>9, <1>10 DEF Phase, Finding, Begun, Complete, Probing, Writing
<1>12. Allowed(p)
  BY <1>3 DEF Allowed, Own, Valid
<1> QED
  BY <1>6, <1>7, <1>8, <1>11, <1>12 DEF Preserved

LEMMA FaultPreserves ==
  ASSUME IInv, NEW p \in Processes, Fault(p)
  PROVE  Preserved(p)' /\ Kept(Current, Current') /\ Allowed(p)
<1>1. /\ UNCHANGED <<config, settings, probe, copy>>
      /\ faulted' = [faulted EXCEPT ![p] = TRUE]
      /\ tx' = [tx EXCEPT ![p] = None]
      /\ \/ files' = files
         \/ /\ pc[p] \in Writing /\ files.journal # None
            /\ files' = [NoFiles EXCEPT !.main = files.journal]
  BY DEF Fault, locks, probes
<1>2. /\ DOMAIN after' = Processes /\ faulted'[p] = TRUE
      /\ DOMAIN faulted' = Processes
      /\ \/ pc'[p] = "refused"
         \/ pc'[p] = "discarding" /\ after'[p] = "refused"
  BY <1>1 DEF Fault, DiscardThen, Goto, IInv, TypeOK
<1>3. files \in [main : Leaf, wal : Leaf, journal : Leaf]
  BY DEF IInv, TypeOK
<1>4. /\ files' \in [main : Leaf, wal : Leaf, journal : Leaf]
      /\ Current' = Current /\ Allowed(p) /\ SchemaKept'
  <2>1. CASE files' = files
    BY <1>3, <2>1, SameContents DEF Allowed, IInv
  <2>2. CASE files' # files
    <3>1. /\ pc[p] \in Writing /\ files.journal # None
          /\ files' = [main |-> files.journal, wal |-> None, journal |-> None]
      BY <1>1, <2>2, LoneContents
    <3>2. IF IsDb(Current)
          THEN Valid(Current) /\ Current.owner \in {None, config[p]}
          ELSE Current = Empty
      BY <3>1 DEF IInv, Phase, Complete
    <3>3. files.main # None
      BY <3>2, LeafMember DEF Current, Contents, IsDb
    <3>4. Current = files.journal
      BY <3>1, <3>3 DEF Current, Contents
    <3>5. /\ files' \in [main : Leaf, wal : Leaf, journal : Leaf]
          /\ Current' = Current
      BY <1>3, <3>1, <3>4, LeafMember DEF Current, Contents
    <3>6. Allowed(p)
      BY <3>2 DEF Allowed, Own, Valid
    <3>7. SchemaKept'
      BY <3>1, <3>4, <3>5 DEF SchemaKept, IInv, IsDb, Special
    <3> QED
      BY <3>5, <3>6, <3>7
  <2> QED
    BY <2>1, <2>2
<1>5. TypeOK'
  <2>1. HolderStep(p)
    BY DEF HolderStep
  <2> QED
    BY <1>1, <1>2, <1>4, <2>1, HolderType DEF IInv, TypeOK
<1>6. Phase(p)'
  BY <1>2
     DEF Phase, Finding, Refusable, Opened, Begun, Complete, Probing, Writing
<1> QED
  BY <1>4, <1>5, <1>6, KeptSelf DEF Preserved

\* Every step inside the locks, with the two facts about the history.
LEMMA HolderPreserves ==
  ASSUME IInv, NEW p \in Processes, HolderStep(p)
  PROVE  Preserved(p)' /\ Kept(Current, Current') /\ Allowed(p)
<1>1. CASE CreateFile(p) \/ Commit(p) \/ OpenHistory(p) \/ EnableWal(p) \/ Fault(p)
  BY <1>1, CreateFilePreserves, CommitPreserves, OpenHistoryPreserves,
     EnableWalPreserves, FaultPreserves
<1>2. CASE UNCHANGED files /\ Preserved(p)'
  <2>1. Current' = Current
    BY <1>2, SameContents
  <2> QED
    BY <1>2, <2>1, KeptSelf DEF Allowed
<1>3. CASE \/ UnlinkProbeLeaf(p) \/ RemoveProbeDirectory(p)
           \/ MakeProbeDirectory(p) \/ Validate(p)
  BY <1>2, <1>3, UnlinkPreserves, RemoveProbePreserves, MakeProbePreserves,
     ValidatePreserves
     DEF UnlinkProbeLeaf, RemoveProbeDirectory, MakeProbeDirectory, Validate
<1>4. CASE CopyDatabase(p) \/ CopyWal(p) \/ CopyJournal(p)
  <2>1. UNCHANGED files
    BY <1>4 DEF CopyDatabase, CopyWal, CopyJournal, CopyLeaf
  <2> QED
    BY <1>2, <1>4, <2>1, CopyPreserves
<1>5. CASE \/ LoadSettings(p) \/ SaveFirstSettings(p) \/ LoadSnapshot(p)
           \/ MarkInitialized(p)
  <2>1. UNCHANGED files
    BY <1>5 DEF LoadSettings, SaveFirstSettings, LoadSnapshot, MarkInitialized
  <2> QED
    BY <1>2, <1>5, <2>1, LoadSettingsPreserves, SaveFirstSettingsPreserves,
       LoadSnapshotPreserves, MarkInitializedPreserves
<1>6. CASE CreateSchema(p)
  BY <1>2, <1>6, CreateSchemaPreserves DEF CreateSchema, Statement, Exec
<1>7. CASE RenamePosts(p)
  BY <1>2, <1>7, RenamePostsPreserves DEF RenamePosts, Statement, Exec
<1>8. CASE CopyPosts(p)
  BY <1>2, <1>8, CopyPostsPreserves DEF CopyPosts, Statement, Exec
<1>9. CASE RenameMeta(p)
  BY <1>2, <1>9, RenameMetaPreserves DEF RenameMeta, Statement, Exec
<1>10. CASE CreateSeen(p)
  BY <1>2, <1>10, CreateSeenPreserves DEF CreateSeen, Statement, Exec
<1>11. CASE BindIdentity(p)
  BY <1>2, <1>11, BindIdentityPreserves DEF BindIdentity, Statement, Exec
<1>12. CASE SeedLedger(p)
  BY <1>2, <1>12, SeedLedgerPreserves DEF SeedLedger, Statement, Exec
<1>13. ASSUME NEW post \in Posts, SavePost(p, post)
       PROVE  Preserved(p)' /\ Kept(Current, Current') /\ Allowed(p)
  BY <1>2, <1>13, SavePostPreserves DEF SavePost, Statement, Exec
<1> QED
  BY <1>1, <1>3, <1>4, <1>5, <1>6, <1>7, <1>8, <1>9, <1>10, <1>11, <1>12, <1>13
     DEF HolderStep

-----------------------------------------------------------------------------
(* Steps that take or give back a lock, and the end of a process. *)

LEMMA SamePhase ==
  ASSUME NEW q, Phase(q), UNCHANGED <<config, settings, files, probe, copy>>,
         pc'[q] = pc[q], after'[q] = after[q], tx'[q] = tx[q],
         faulted'[q] = faulted[q]
  PROVE  Phase(q)'
<1>1. Current' = Current
  BY SameContents
<1>2. Finding(q)'
  BY <1>1 DEF Phase, Finding, Refusable, Probing
<1>3. Opened(q)'
  BY <1>1 DEF Phase, Opened, Usable
<1>4. Begun(q)'
  BY <1>1 DEF Phase, Begun
<1>5. Complete(q)'
  BY <1>1 DEF Phase, Complete, Writing
<1> QED
  BY <1>2, <1>3, <1>4, <1>5 DEF Phase

\* What these steps do besides: nothing to the history or the other processes.
LEMMA OuterFrame ==
  ASSUME IInv, NEW p \in Processes,
         \/ AcquireConfig(p) \/ AcquireData(p) \/ ReleaseData(p)
         \/ ReleaseConfig(p) \/ Kill(p)
         \/ CloseHistory(p) /\ pc[p] # "ready"
  PROVE  /\ UNCHANGED <<config, settings, files, probe, copy>>
         /\ tx' \in [Processes -> Db \cup {None}]
         /\ DOMAIN after' = Processes /\ DOMAIN faulted' = Processes
         /\ \A q \in Processes \ {p} :
              /\ pc'[q] = pc[q] /\ after'[q] = after[q] /\ tx'[q] = tx[q]
              /\ faulted'[q] = faulted[q]
<1> USE DEF IInv, TypeOK, At, Goto, Forget, locks, probes
<1>1. CASE AcquireConfig(p)
  BY <1>1 DEF AcquireConfig
<1>2. CASE AcquireData(p)
  BY <1>2 DEF AcquireData
<1>3. CASE ReleaseData(p)
  BY <1>3 DEF ReleaseData
<1>4. CASE ReleaseConfig(p)
  BY <1>4 DEF ReleaseConfig
<1>5. CASE Kill(p)
  BY <1>5 DEF Kill
<1>6. CASE CloseHistory(p) /\ pc[p] # "ready"
  BY <1>6 DEF CloseHistory
<1> QED
  BY <1>1, <1>2, <1>3, <1>4, <1>5, <1>6

\* The locks, the places and the phase of p after such a step.
LEMMA OuterLocks ==
  ASSUME IInv, NEW p \in Processes,
         \/ AcquireConfig(p) \/ AcquireData(p) \/ CloseHistory(p)
         \/ ReleaseData(p) \/ ReleaseConfig(p) \/ Kill(p)
  PROVE  /\ config_lock' \in [Configs -> Processes \cup {None}]
         /\ data_lock' \in Processes \cup {None}
         /\ pc' \in [Processes -> Labels]
         /\ \A q \in Processes : LocksHeld(q)'
         /\ \/ pc'[p] \notin Holding
            \/ pc'[p] = "discarding" /\ after'[p] = "settings"
<1>a. /\ config \in [Processes -> Configs]
      /\ config_lock \in [Configs -> Processes \cup {None}]
      /\ data_lock \in Processes \cup {None}
      /\ pc \in [Processes -> Labels] /\ DOMAIN after = Processes
      /\ \A q \in Processes : LocksHeld(q)
      /\ None \notin Processes
  BY HistoryAssumption DEF IInv, TypeOK
<1>b. /\ "discarding" \in Holding /\ "refused" \in Holding /\ "ready" \in Holding
      /\ \A x \in {"off", "busy", "config_locked", "closed"} :
           x \notin Holding /\ x \in Labels
      /\ "discarding" \in Labels
  BY DEF Holding, Inside, Working, Writing, Probing, Labels
<1> DEFINE H == Holding
<1>c. \A q \in Processes :
        LocksHeld(q)' <=>
          /\ pc'[q] \in H => data_lock' = q
          /\ pc'[q] \in H \cup {"config_locked", "closed"} =>
               config_lock'[config'[q]] = q
          /\ data_lock' = q => pc'[q] \in H \cup {"closed"}
  BY DEF LocksHeld, Holding, Inside, Working, Writing, Probing
<1>d. \A q \in Processes :
          /\ pc[q] \in H => data_lock = q
          /\ pc[q] \in H \cup {"config_locked", "closed"} =>
               config_lock[config[q]] = q
          /\ data_lock = q => pc[q] \in H \cup {"closed"}
  BY <1>a DEF LocksHeld
<1>e. /\ "discarding" \in H /\ "refused" \in H /\ "ready" \in H
      /\ \A x \in {"off", "busy", "config_locked", "closed"} : x \notin H
  BY <1>b
<1> HIDE DEF H
<1> USE DEF At, Goto
<1>1. CASE AcquireConfig(p)
  BY <1>a, <1>b, <1>c, <1>d, <1>e, <1>1 DEF AcquireConfig
<1>2. CASE AcquireData(p)
  BY <1>a, <1>b, <1>c, <1>d, <1>e, <1>2 DEF AcquireData, DataLockTaken
<1>3. CASE CloseHistory(p)
  BY <1>a, <1>b, <1>c, <1>d, <1>e, <1>3 DEF CloseHistory, locks
<1>4. CASE ReleaseData(p)
  BY <1>a, <1>b, <1>c, <1>d, <1>e, <1>4 DEF ReleaseData
<1>5. CASE ReleaseConfig(p)
  BY <1>a, <1>b, <1>c, <1>d, <1>e, <1>5 DEF ReleaseConfig, Forget
<1>6. CASE Kill(p)
  BY <1>a, <1>b, <1>c, <1>d, <1>e, <1>6 DEF Kill, Forget
<1> QED
  BY <1>1, <1>2, <1>3, <1>4, <1>5, <1>6

LEMMA OuterPreserves ==
  ASSUME IInv, NEW p \in Processes,
         \/ AcquireConfig(p) \/ AcquireData(p) \/ CloseHistory(p)
         \/ ReleaseData(p) \/ ReleaseConfig(p) \/ Kill(p)
  PROVE  IInv' /\ Kept(Current, Current') /\ Allowed(p)
<1>1. /\ config_lock' \in [Configs -> Processes \cup {None}]
      /\ data_lock' \in Processes \cup {None}
      /\ pc' \in [Processes -> Labels]
      /\ \A q \in Processes : LocksHeld(q)'
      /\ \/ pc'[p] \notin Holding
         \/ pc'[p] = "discarding" /\ after'[p] = "settings"
  BY OuterLocks
<1>2. ASSUME NEW q \in Processes, pc'[q] \notin Holding
      PROVE  Phase(q)'
  <2>1. (pc[q] \notin Holding)'
    BY <1>2 DEF Holding, Inside, Working, Writing, Probing
  <2>2. (pc[q] \notin Holding)' => Phase(q)'
    BY VacuousPhase, PTL
  <2> QED
    BY <2>1, <2>2
<1>3. Phase(p)'
  <2>1. CASE pc'[p] = "discarding" /\ after'[p] = "settings"
    BY <2>1
       DEF Phase, Finding, Opened, Begun, Complete, Probing, Writing
  <2> QED
    BY <1>1, <1>2, <2>1
<1>4. CASE ~(CloseHistory(p) /\ pc[p] = "ready")
  <2>1. /\ UNCHANGED <<config, settings, files, probe, copy>>
        /\ tx' \in [Processes -> Db \cup {None}]
        /\ DOMAIN after' = Processes /\ DOMAIN faulted' = Processes
        /\ \A q \in Processes \ {p} :
             /\ pc'[q] = pc[q] /\ after'[q] = after[q] /\ tx'[q] = tx[q]
             /\ faulted'[q] = faulted[q]
    BY <1>4, OuterFrame
  <2>2. Current' = Current /\ SchemaKept'
    BY <2>1, SameContents DEF IInv
  <2>3. TypeOK'
    BY <1>1, <2>1 DEF IInv, TypeOK
  <2>4. \A q \in Processes \ {p} : Phase(q)'
    BY <2>1, SamePhase DEF IInv
  <2> QED
    BY <1>1, <1>3, <2>1, <2>2, <2>3, <2>4, KeptSelf DEF IInv, Allowed
<1>5. CASE CloseHistory(p) /\ pc[p] = "ready"
  <2>1. /\ UNCHANGED <<config, settings, probe, copy, after, tx, faulted>>
        /\ files' = [NoFiles EXCEPT !.main = Current]
        /\ \A q \in Processes \ {p} : pc'[q] = pc[q]
    BY <1>5 DEF CloseHistory, At, Goto, locks, probes, IInv, TypeOK
  <2>2. /\ Current \in Db /\ Valid(Current) /\ Current.owner = config[p]
        /\ pc[p] \in Holding
    BY <1>5, CurrentIsLeaf
       DEF IInv, Phase, Opened, Usable, Valid, Holding, Inside
  <2>3. files' = [main |-> Current, wal |-> None, journal |-> None]
    BY <2>1, LoneContents
  <2>4. Current' = Current
    BY <2>2, <2>3, LeafMember DEF Current, Contents
  <2>5. SchemaKept'
    BY <2>2, <2>3, <2>4, LeafMember DEF SchemaKept, Valid
  <2>6. TypeOK'
    BY <1>1, <2>1, <2>2, LoneType, LeafMember DEF IInv, TypeOK
  <2>7. \A q \in Processes \ {p} : Phase(q)'
    BY <1>2, <2>1, <2>2, OneHolder
  <2>8. Allowed(p)
    BY <2>2 DEF Allowed, Own, Valid
  <2> QED
    BY <1>1, <1>3, <2>4, <2>5, <2>6, <2>7, <2>8, KeptSelf DEF IInv
<1> QED
  BY <1>4, <1>5

-----------------------------------------------------------------------------
(* The invariant and the properties. *)

LEMMA InitIInv == Init => IInv
<1> SUFFICES ASSUME Init PROVE IInv
  OBVIOUS
<1>1. TypeOK
  <2>1. NoFiles \in [main : Leaf, wal : Leaf, journal : Leaf]
    BY DEF NoFiles, Leaf
  <2> QED
    BY <2>1, HistoryAssumption DEF Init, TypeOK, Labels
<1>2. SchemaKept
  BY LeftoverAssumption DEF Init, SchemaKept, Current
<1>3. \A p \in Processes : pc[p] = "off" /\ data_lock = None
  BY DEF Init
<1>4. "off" \notin Holding \cup {"config_locked", "closed"}
  BY DEF Holding, Inside, Working, Writing, Probing
<1>5. \A p \in Processes : LocksHeld(p)
  BY <1>3, <1>4, HistoryAssumption DEF LocksHeld
<1>6. \A p \in Processes : Phase(p)
  BY <1>3, <1>4, VacuousPhase
<1> QED
  BY <1>1, <1>2, <1>5, <1>6 DEF IInv

\* A step of a process: the invariant, and what it does to the history.
LEMMA StepIInv ==
  ASSUME IInv, Next
  PROVE  /\ IInv' /\ Kept(Current, Current')
         /\ \E p \in Processes : Allowed(p) /\ (files' # files => data_lock = p)
<1>1. PICK p \in Processes :
        \/ HolderStep(p)
        \/ AcquireConfig(p) \/ AcquireData(p) \/ CloseHistory(p)
        \/ ReleaseData(p) \/ ReleaseConfig(p) \/ Kill(p)
  BY DEF Next, Step, HolderStep
<1>2. CASE HolderStep(p)
  <2>1. /\ pc[p] \in Holding
        /\ \A q \in Processes : LocksHeld(q)'
        /\ \A q \in Processes \ {p} : Phase(q)'
        /\ Preserved(p)' /\ Kept(Current, Current') /\ Allowed(p)
    BY <1>2, HolderStays, HolderAlone, HolderPreserves, LabelsGood
  <2>2. data_lock = p
    BY <2>1 DEF IInv, LocksHeld
  <2> QED
    BY <2>1, <2>2 DEF IInv, Preserved
<1>3. CASE \/ AcquireConfig(p) \/ AcquireData(p) \/ CloseHistory(p)
           \/ ReleaseData(p) \/ ReleaseConfig(p) \/ Kill(p)
  <2>1. IInv' /\ Kept(Current, Current') /\ Allowed(p)
    BY <1>3, OuterPreserves
  <2>2. files' # files => CloseHistory(p) /\ pc[p] = "ready"
    BY <1>3, OuterFrame
  <2>3. pc[p] = "ready" => data_lock = p
    BY DEF IInv, LocksHeld, Holding, Inside
  <2> QED
    BY <2>1, <2>2, <2>3
<1> QED
  BY <1>1, <1>2, <1>3

LEMMA StutterIInv == IInv /\ UNCHANGED vars => IInv'
<1> SUFFICES ASSUME IInv, UNCHANGED vars PROVE IInv'
  OBVIOUS
<1>1. TypeOK'
  BY DEF IInv, TypeOK, vars
<1>2. SchemaKept'
  BY SameContents DEF IInv, vars
<1>3. ASSUME NEW p \in Processes PROVE LocksHeld(p)' /\ Phase(p)'
  <2>1. LocksHeld(p)'
    BY DEF IInv, LocksHeld, vars, Holding, Inside, Working, Writing, Probing
  <2>2. Phase(p)'
    BY SamePhase DEF IInv, vars
  <2> QED
    BY <2>1, <2>2
<1> QED
  BY <1>1, <1>2, <1>3 DEF IInv

\* Where every process is, which locks it holds, and what the history and a
\* transaction contain there (acquire_locks to shutdown).
THEOREM HistoryInvariant == Spec => []IInv
<1>1. IInv /\ [Next]_vars => IInv'
  BY StepIInv, StutterIInv
<1> QED
  BY <1>1, InitIInv, PTL DEF Spec

\* For every number of processes and directories: the two locks, taken one
\* after the other and dropped on Busy, keep every process alone at the data
\* directory and at its configuration (acquire_lock 505-517, shutdown 419-427).
THEOREM HistoryOneWriter == Spec => []OneWriter
<1>1. IInv => OneWriter
  <2> SUFFICES ASSUME IInv, NEW p \in Processes, NEW q \in Processes, p # q,
                      pc[p] \in Inside
               PROVE  /\ pc[q] \notin Inside
                      /\ pc[q] \in {"config_locked", "refused", "closed"} =>
                           config[q] # config[p]
    BY DEF OneWriter
  <2>1. pc[p] \in Holding /\ pc[q] \notin Holding
    BY OneHolder, LabelsGood
  <2>2. config_lock[config[p]] = p
    BY <2>1 DEF IInv, LocksHeld
  <2>3. pc[q] \in {"config_locked", "closed"} => config_lock[config[q]] = q
    BY DEF IInv, LocksHeld
  <2> QED
    BY <2>1, <2>2, <2>3, LabelsGood DEF Holding
<1> QED
  BY <1>1, HistoryInvariant, PTL

\* Whatever the history holds at first, no step of any process loses a post,
\* a seen message or the owner, or goes back to an older schema: not a commit
\* of a migration, a rollback, a change of journal mode or a close
\* (Transaction 238-269, migrations 775-855).
THEOREM HistoryIsKept == Spec => HistoryKept
<1>1. IInv /\ [Next]_vars => [Kept(Contents(files), Contents(files'))]_vars
  BY StepIInv DEF Current
<1> QED
  BY <1>1, HistoryInvariant, PTL DEF Spec, HistoryKept

\* For every content of the data directory: a history that is foreign,
\* damaged or of another installation is not written by any process
\* (2146-2182 before 2325-2336).
THEOREM ForeignHistoryUntouched == Spec => ForeignUntouched
<1> DEFINE Foreign ==
      IsDb(Contents(files)) /\ Contents(files).owner # None
      /\ (\A p \in Processes : data_lock = p =>
            ~Own(Contents(files), config[p]))
        => files' = files
<1>1. IInv /\ [Next]_vars => [Foreign]_vars
  BY StepIInv DEF Current, Allowed
<1> QED
  BY <1>1, HistoryInvariant, PTL DEF Spec, ForeignUntouched

\* For every content of the data and probe directories and every death in
\* between: a whole history of one's own is not refused unless an operation
\* failed (446-450, 1123-1244, 1286-1348).
THEOREM OwnHistoryOpens == Spec => []WholeHistoryOpens
<1>1. IInv => WholeHistoryOpens
  BY DEF IInv, Phase, Finding, Refusable, WholeHistoryOpens, Current
<1> QED
  BY <1>1, HistoryInvariant, PTL
=============================================================================
