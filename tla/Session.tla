------------------------------- MODULE Session -------------------------------
(***************************************************************************)
(* app/persistent_session with the state it keeps: application/messenger_  *)
(* state, model/timeline, model/identity, protocol/dedupe_window, and the  *)
(* two files under it, the settings file of AtomicSettingsStore and the    *)
(* database of SqliteHistoryStore.  RadioRuntime appears as far as it uses *)
(* the session: it hands every Queued post to the scheduler, marks it when *)
(* the scheduler reports its end, and offers received posts.               *)
(*                                                                         *)
(* The program is single-threaded, but it may die between any two writes;  *)
(* `step' says where a call that writes twice has got to, so Crash is      *)
(* enabled between the two.  A write that reports failure may still have   *)
(* reached the disk: the settings file after rename (final_replaced), the  *)
(* database after COMMIT.                                                  *)
(*                                                                         *)
(* The vectors of the program are sorted by their order number; they are   *)
(* sets of records here.  A message id stands for its content: a post with *)
(* a known id and other content (Conflict) is refused without a state      *)
(* change.  Identifiers are 128 random bits and are taken to be fresh.     *)
(***************************************************************************)
EXTENDS Integers, FiniteSets

CONSTANTS
  LocalIds,          \* message ids this device may generate
  RemoteIds,         \* message ids of posts it may receive
  Installs,          \* install ids it may generate
  NoInstall,
  NoId,
  Users,             \* user names
  Prefs,             \* locale and skip_title
  TimelineCapacity,  \* kMaxTimelineEntries
  MaxQueued,         \* kMaxQueuedLocalPosts
  OutboundCapacity,  \* kMaximumOutboundMessages of the scheduler
  LedgerCapacity,    \* kDefaultSeenMessageCapacity
  MaxSequence,       \* largest sender sequence
  MaxOrder           \* largest order number

Ids == LocalIds \cup RemoteIds

ASSUME SessionAssumption ==
  /\ LocalIds \cap RemoteIds = {}
  /\ NoId \notin Ids
  /\ NoInstall \notin Installs
  /\ Users # {} /\ Prefs # {}
  /\ TimelineCapacity \in Nat \ {0}
  /\ MaxQueued \in Nat
  /\ OutboundCapacity \in Nat
  /\ LedgerCapacity \in Nat /\ LedgerCapacity >= TimelineCapacity
  /\ MaxSequence \in Nat
  /\ MaxOrder \in Nat

VARIABLES
  settings_file, \* durable settings, NoSettings when the file is missing
  database,      \* durable history and its kind
  status,        \* Down, Booting, or startup_status
  step,          \* the next write of the call in progress
  settings,      \* the session's copy of the settings
  identity,      \* the messenger's identity
  timeline,      \* the messenger's timeline
  ledger,        \* the session's MessageDedupeWindow
  draft,         \* the post of the compose in progress and its reply parent
  outbox,        \* posts the scheduler holds, their event still to come
  repeats,       \* posts the scheduler holds for their repeat pass
  closed,        \* the transport closed itself for good
  io,            \* whether a file operation of the last step failed
  \* History read by the properties only:
  issued,        \* local posts that reached the database
  handed         \* posts ever handed to the scheduler

vars == <<settings_file, database, status, step, settings, identity, timeline,
          ledger, draft, outbox, repeats, closed, io, issued, handed>>
disk == <<settings_file, database>>
memory == <<settings, identity, timeline, ledger, draft>>
radio == <<outbox, repeats, closed>>
history == <<issued, handed>>

SequenceNumbers == 0 .. MaxSequence
OrderNumbers == 0 .. MaxOrder
LocalStates == {"Queued", "Broadcast", "Failed", "Unknown"}

Settings ==
  [install : Installs \cup {NoInstall}, user : Users, watermark : SequenceNumbers,
   initialized : BOOLEAN, prefs : Prefs]
Entries ==
  [id : Ids, order : OrderNumbers, origin : LocalStates \cup {"Received"},
   sender : Installs \cup {NoInstall}, seq : SequenceNumbers]
Timelines == [entries : SUBSET Entries, last_order : OrderNumbers]
Ledgers == [seen : SUBSET [id : Ids, order : OrderNumbers], last_seen : OrderNumbers]
Issues == [id : LocalIds, sender : Installs, seq : SequenceNumbers]

EmptyTimeline == [entries |-> {}, last_order |-> 0]
EmptyLedger == [seen |-> {}, last_seen |-> 0]
DefaultUser == CHOOSE u \in Users : TRUE
DefaultPrefs == CHOOSE p \in Prefs : TRUE

\* What bootstrap_missing_settings writes for a new install id.
FirstSettings(install) ==
  [install |-> install, user |-> DefaultUser, watermark |-> 0,
   initialized |-> FALSE, prefs |-> DefaultPrefs]
NoSettings == FirstSettings(NoInstall)
NoDraft == [id |-> NoId, reply |-> NoId]

\* The database file: absent; a file without metadata (created and not yet
\* bound, or partly deleted); or bound to an install id.
Database(kind, install, tl, l) ==
  [kind |-> kind, install |-> install, timeline |-> tl, ledger |-> l]
NoDatabase == Database("absent", NoInstall, EmptyTimeline, EmptyLedger)
Artifact == Database("artifact", NoInstall, EmptyTimeline, EmptyLedger)
Databases ==
  [kind : {"absent", "artifact", "bound"}, install : Installs \cup {NoInstall},
   timeline : Timelines, ledger : Ledgers]

TypeOK ==
  /\ settings_file \in Settings /\ settings \in Settings
  /\ database \in Databases
  /\ status \in {"Down", "Booting", "Ready", "RecoveryRequired", "Unavailable"}
  /\ step \in {"idle", "create", "open", "seed", "finalize", "restore",
               "commit", "erase"}
  /\ identity \in [install : Installs \cup {NoInstall}, user : Users,
                   last_issued : SequenceNumbers]
  /\ timeline \in Timelines
  /\ ledger \in Ledgers
  /\ draft \in [id : LocalIds \cup {NoId}, reply : Ids \cup {NoId}]
  /\ outbox \subseteq LocalIds /\ repeats \subseteq LocalIds
  /\ closed \in BOOLEAN
  /\ io \in {"ok", "fault"}
  /\ issued \subseteq Issues
  /\ handed \subseteq LocalIds

-----------------------------------------------------------------------------
(* model/timeline *)

IdsOf(records) == {r.id : r \in records}
Local(entries) == {e \in entries : e.origin # "Received"}
Queued(entries) == {e \in entries : e.origin = "Queued"}

QueuedCapacity ==
  IF MaxQueued < TimelineCapacity - 1 THEN MaxQueued ELSE TimelineCapacity - 1

Mutant_Evictable(entries, protected) == {e \in entries : e.id # protected}
Evictable(entries, protected) ==
  {e \in entries : e.origin # "Queued" /\ e.id # protected}

Oldest(records) == CHOOSE r \in records : \A s \in records : r.order <= s.order

InsertionAvailable(tl, protected) ==
  /\ tl.last_order < MaxOrder
  /\ \/ Cardinality(tl.entries) < TimelineCapacity
     \/ Evictable(tl.entries, protected) # {}

\* insert: evict when full, append with the next order number.
Insert(tl, id, origin, sender, seq, protected) ==
  LET kept == IF Cardinality(tl.entries) < TimelineCapacity THEN tl.entries
              ELSE tl.entries \ {Oldest(Evictable(tl.entries, protected))}
      entry == [id |-> id, order |-> tl.last_order + 1, origin |-> origin,
                sender |-> sender, seq |-> seq]
  IN [entries |-> kept \cup {entry}, last_order |-> tl.last_order + 1]

\* transition of a Queued entry.
Marked(tl, id, target) ==
  [tl EXCEPT !.entries =
     {IF e.id = id /\ e.origin = "Queued" THEN [e EXCEPT !.origin = target]
      ELSE e : e \in tl.entries}]

-----------------------------------------------------------------------------
(* protocol/dedupe_window *)

Mutant_Unprotected(l, entries) == l.seen
Unprotected(l, entries) == {r \in l.seen : r.id \notin IdsOf(entries)}

\* remember, with every id of the timeline protected.
Remember(l, id, entries) ==
  LET kept == IF Cardinality(l.seen) < LedgerCapacity THEN l.seen
              ELSE l.seen \ {Oldest(Unprotected(l, entries))}
  IN [seen |-> kept \cup {[id |-> id, order |-> l.last_seen + 1]},
      last_seen |-> l.last_seen + 1]

CanRemember(l, entries) ==
  /\ l.last_seen < MaxOrder
  /\ \/ Cardinality(l.seen) < LedgerCapacity
     \/ Unprotected(l, entries) # {}

-----------------------------------------------------------------------------
(* adapters/storage *)

\* Order numbers and message ids are unique, and within the high-water mark.
Numbered(records, last) ==
  /\ \A r \in records : r.order \in 1 .. last
  /\ \A r, s \in records : (r.id = s.id \/ r.order = s.order) => r = s

\* validate_snapshot, against the identity of the settings.
ValidSnapshot(tl, l, s) ==
  /\ Cardinality(tl.entries) <= TimelineCapacity
  /\ Cardinality(l.seen) <= LedgerCapacity
  /\ Numbered(tl.entries, tl.last_order)
  /\ Numbered(l.seen, l.last_seen)
  /\ l.last_seen > 0 => \E r \in l.seen : r.order = l.last_seen
  /\ \A e \in Local(tl.entries) :
       e.sender = s.install /\ e.seq \in 1 .. s.watermark
  /\ \A e, f \in Local(tl.entries) : e.order < f.order => e.seq < f.seq
  /\ Cardinality(Queued(tl.entries)) <= MaxQueued
  /\ IdsOf(tl.entries) \subseteq IdsOf(l.seen)

\* save_snapshot refuses anything else: write_snapshot compares it with what
\* is stored.
Writable(tl, l) ==
  /\ ValidSnapshot(tl, l, settings)
  /\ database.install = settings.install
  /\ tl.last_order >= database.timeline.last_order
  /\ l.last_seen >= database.ledger.last_seen
  /\ l.last_seen = database.ledger.last_seen => l.seen = database.ledger.seen

Bound(tl, l) == Database("bound", settings.install, tl, l)

\* What bootstrap needs to start from the files.
Loadable(db, s) ==
  /\ db.kind = "bound"
  /\ db.install = s.install
  /\ ValidSnapshot(db.timeline, db.ledger, s)

\* save of AtomicSettingsStore, by what it leaves on disk.
SettingsSaved(s) == settings_file' = s /\ io' = "ok"
SettingsNotReplaced == settings_file' = settings_file /\ io' = "fault"
SettingsReplaced(s) == settings_file' \in {settings_file, s} /\ io' = "fault"

-----------------------------------------------------------------------------
(* Bootstrap *)

Init ==
  /\ settings_file = NoSettings /\ database = NoDatabase
  /\ status = "Down" /\ step = "idle"
  /\ settings = NoSettings
  /\ identity = [install |-> NoInstall, user |-> DefaultUser, last_issued |-> 0]
  /\ timeline = EmptyTimeline /\ ledger = EmptyLedger /\ draft = NoDraft
  /\ outbox = {} /\ repeats = {} /\ closed = FALSE /\ io = "ok"
  /\ issued = {} /\ handed = {}

\* Without settings, only an empty data directory starts a first launch;
\* without a database, only settings that never finished one resume it.
FirstStep ==
  CASE settings_file.install = NoInstall /\ database.kind = "absent" -> "create"
    [] settings_file.install # NoInstall /\ database.kind = "absent"
         /\ ~settings_file.initialized /\ settings_file.watermark = 0 -> "open"
    [] settings_file.install # NoInstall /\ Loadable(database, settings_file) ->
         "finalize"
    [] OTHER -> "idle"

\* Directories, locks and probe are in order and the settings are read.
Launch ==
  /\ status = "Down"
  /\ settings' = settings_file
  /\ step' = FirstStep
  /\ status' = IF FirstStep = "idle" THEN "RecoveryRequired" ELSE "Booting"
  /\ io' = "ok"
  /\ UNCHANGED <<disk, identity, timeline, ledger, draft, radio, history>>

\* A directory, lock or random source is not available, or a file cannot be
\* read.
LaunchFails ==
  /\ status = "Down"
  /\ status' \in {"Unavailable", "RecoveryRequired"}
  /\ io' = "fault"
  /\ UNCHANGED <<disk, memory, step, radio, history>>

CreateSettings(install) ==
  /\ step = "create" /\ install \notin {i.sender : i \in issued}
  /\ SettingsSaved(FirstSettings(install))
  /\ settings' = FirstSettings(install)
  /\ step' = "open"
  /\ UNCHANGED <<database, status, identity, timeline, ledger, draft, radio,
                 history>>

CreateSettingsFails(install) ==
  /\ step = "create" /\ install \notin {i.sender : i \in issued}
  /\ \/ SettingsNotReplaced /\ status' = "Unavailable"
     \/ SettingsReplaced(FirstSettings(install)) /\ status' = "RecoveryRequired"
  /\ step' = "idle"
  /\ UNCHANGED <<database, memory, radio, history>>

\* open: the file exists before anything binds it to the install id.
OpenEmptyHistory ==
  /\ step = "open"
  /\ database' = Artifact
  /\ step' = "seed"
  /\ io' = "ok"
  /\ UNCHANGED <<settings_file, status, memory, radio, history>>

SeedHistory ==
  /\ step = "seed"
  /\ database' = Bound(EmptyTimeline, EmptyLedger)
  /\ step' = "finalize"
  /\ io' = "ok"
  /\ UNCHANGED <<settings_file, status, memory, radio, history>>

OpenHistoryFails ==
  /\ \/ step = "open" /\ database' \in {database, Artifact}
     \/ step = "seed" /\ database' \in {database, Bound(EmptyTimeline, EmptyLedger)}
     \/ step = "finalize" /\ UNCHANGED database   \* load_snapshot
  /\ status' = "RecoveryRequired"
  /\ step' = "idle"
  /\ io' = "fault"
  /\ UNCHANGED <<settings_file, memory, radio, history>>

Finalized == [settings EXCEPT !.initialized = TRUE]

\* load_snapshot, then the marker unless it is already set.
FinalizeHistoryInitialization ==
  /\ step = "finalize"
  /\ SettingsSaved(Finalized)
  /\ settings' = Finalized
  /\ step' = "restore"
  /\ UNCHANGED <<database, status, identity, timeline, ledger, draft, radio,
                 history>>

FinalizeFails ==
  /\ step = "finalize" /\ ~settings.initialized
  /\ \/ SettingsNotReplaced /\ status' = "Unavailable"
     \/ SettingsReplaced(Finalized) /\ status' = "RecoveryRequired"
  /\ step' = "idle"
  /\ UNCHANGED <<database, memory, radio, history>>

\* Queued posts of the previous process become Unknown.
Mutant_AllUnknown(tl) == tl
AllUnknown(tl) ==
  [tl EXCEPT !.entries =
     {IF e.origin = "Queued" THEN [e EXCEPT !.origin = "Unknown"] ELSE e
        : e \in tl.entries}]

Mutant_RestoredIdentity(s) ==
  LET seqs == {e.seq : e \in Local(database.timeline.entries)} \cup {0} IN
  [install |-> s.install, user |-> s.user,
   last_issued |-> CHOOSE m \in seqs : \A n \in seqs : n <= m]
\* identity_from: the sequence continues after the stored high-water mark, not
\* after the newest post that is still in the timeline.
RestoredIdentity(s) ==
  [install |-> s.install, user |-> s.user, last_issued |-> s.watermark]

\* The Unknown states are stored before anyone sees the timeline.
RestoreState ==
  /\ step = "restore"
  /\ LET restored == AllUnknown(database.timeline) IN
       /\ database' = Bound(restored, database.ledger)
       /\ timeline' = restored
  /\ ledger' = database.ledger
  /\ identity' = RestoredIdentity(settings)
  /\ status' = "Ready" /\ step' = "idle" /\ io' = "ok"
  /\ UNCHANGED <<settings_file, settings, draft, radio, history>>

RestoreStateFails ==
  /\ step = "restore" /\ Queued(database.timeline.entries) # {}
  /\ database' \in {database, Bound(AllUnknown(database.timeline), database.ledger)}
  /\ ledger' = database.ledger
  /\ status' = "RecoveryRequired" /\ step' = "idle" /\ io' = "fault"
  /\ UNCHANGED <<settings_file, settings, identity, timeline, draft, radio,
                 history>>

-----------------------------------------------------------------------------
(* Commands *)

Idle == status = "Ready" /\ step = "idle"

\* persist_timeline, given the id that the candidate adds, if any: every other
\* entry is in the ledger already.
LedgerWith(tl, id) == IF id = NoId THEN ledger ELSE Remember(ledger, id, tl.entries)

Acceptable(tl, id) ==
  /\ id # NoId => CanRemember(ledger, tl.entries)
  /\ Writable(tl, LedgerWith(tl, id))

PersistTimeline(tl, id) ==
  /\ io' = "ok"
  /\ status' = IF Acceptable(tl, id) THEN status ELSE "RecoveryRequired"
  /\ database' = IF Acceptable(tl, id) THEN Bound(tl, LedgerWith(tl, id))
                 ELSE database
  /\ timeline' = IF Acceptable(tl, id) THEN tl ELSE timeline
  /\ ledger' = IF Acceptable(tl, id) THEN LedgerWith(tl, id) ELSE ledger

Mutant_AfterFailure == "Ready"
AfterFailure == "RecoveryRequired"

PersistTimelineFails(tl, id) ==
  /\ Acceptable(tl, id)
  /\ io' = "fault"
  /\ database' \in {database, Bound(tl, LedgerWith(tl, id))}
  /\ status' = AfterFailure
  /\ UNCHANGED <<timeline, ledger>>

\* compose, up to persist_identity: the sender sequence is made durable before
\* the post that carries it.
Reserved == [settings EXCEPT !.watermark = identity.last_issued + 1]

\* next_sender_sequence has a value.
Mutant_NextSequenceExists == TRUE
NextSequenceExists == identity.last_issued < MaxSequence

CanCompose(id, reply) ==
  /\ Idle
  /\ id \notin {i.id : i \in issued}
  /\ reply # NoId => reply \in IdsOf(timeline.entries)
  /\ Cardinality(Queued(timeline.entries)) < QueuedCapacity
  /\ NextSequenceExists
  /\ InsertionAvailable(timeline, reply)

ComposeReserve(id, reply) ==
  /\ CanCompose(id, reply)
  /\ SettingsSaved(Reserved)
  /\ settings' = Reserved
  /\ identity' = [identity EXCEPT !.last_issued = @ + 1]
  /\ draft' = [id |-> id, reply |-> reply]
  /\ step' = "commit"
  /\ UNCHANGED <<database, status, timeline, ledger, radio, history>>

ComposeReserveFails(id, reply) ==
  /\ CanCompose(id, reply)
  /\ \/ SettingsNotReplaced /\ UNCHANGED status
     \/ SettingsReplaced(Reserved) /\ status' = "RecoveryRequired"
  /\ UNCHANGED <<database, memory, step, radio, history>>

\* compose, from persist_timeline on.
Composed ==
  Insert(timeline, draft.id, "Queued", identity.install, identity.last_issued,
         draft.reply)
Issue == [id |-> draft.id, sender |-> identity.install,
          seq |-> identity.last_issued]

ComposeCommit ==
  /\ step = "commit"
  /\ \/ PersistTimeline(Composed, draft.id)
     \/ PersistTimelineFails(Composed, draft.id)
  /\ issued' = IF database' # database THEN issued \cup {Issue} ELSE issued
  /\ step' = "idle"
  /\ draft' = NoDraft
  /\ UNCHANGED <<settings_file, settings, identity, radio, handed>>

\* accept_received_post: the ledger has not seen the id.  A post of this device
\* may come back after both the timeline and the ledger have evicted it.
AcceptReceivedPost(id) ==
  /\ Idle
  /\ id \in LocalIds => id \in {i.id : i \in issued}
  /\ id \notin IdsOf(ledger.seen)
  /\ id \notin IdsOf(timeline.entries)
  /\ InsertionAvailable(timeline, NoId)
  /\ LET received == Insert(timeline, id, "Received", NoInstall, 0, NoId) IN
       \/ PersistTimeline(received, id)
       \/ PersistTimelineFails(received, id)
  /\ UNCHANGED <<settings_file, settings, identity, draft, step, radio, history>>

Renamed(user) ==
  [settings EXCEPT !.user = user, !.watermark = identity.last_issued]

RenameUser(user) ==
  /\ Idle
  /\ SettingsSaved(Renamed(user))
  /\ settings' = Renamed(user)
  /\ identity' = [identity EXCEPT !.user = user]
  /\ UNCHANGED <<database, status, step, timeline, ledger, draft, radio, history>>

\* set_locale and set_skip_title.
SetPrefs(prefs) ==
  /\ Idle /\ prefs # settings.prefs
  /\ SettingsSaved([settings EXCEPT !.prefs = prefs])
  /\ settings' = [settings EXCEPT !.prefs = prefs]
  /\ UNCHANGED <<database, status, step, identity, timeline, ledger, draft,
                 radio, history>>

SettingsCommandFails ==
  /\ Idle
  /\ \/ SettingsNotReplaced /\ UNCHANGED status
     \/ /\ \/ \E user \in Users : SettingsReplaced(Renamed(user))
           \/ \E prefs \in Prefs :
                SettingsReplaced([settings EXCEPT !.prefs = prefs])
        /\ status' = "RecoveryRequired"
  /\ UNCHANGED <<database, memory, step, radio, history>>

-----------------------------------------------------------------------------
(* app/radio_runtime, outbound *)

QueuedIds == IdsOf(Queued(timeline.entries))

\* Queued posts that enqueue accepts or refuses for good: an id that the
\* scheduler holds is a DuplicateMessage and a full scheduler says QueueFull,
\* but a closed transport (MTU 0) makes any id an InvalidMtu first.
Enqueueable ==
  {id \in QueuedIds \ (outbox \cup repeats) :
     Cardinality(outbox \cup repeats) < OutboundCapacity}

EnqueueQueuedPost(id) ==
  /\ Idle /\ ~closed
  /\ id \in Enqueueable
  /\ outbox' = outbox \cup {id}
  /\ handed' = handed \cup {id}
  /\ io' = "ok"
  /\ UNCHANGED <<disk, memory, status, step, repeats, closed, issued>>

\* InvalidMtu; or InvalidPost or RandomUnavailable of an open transport.
EnqueueRefused(id) ==
  /\ Idle
  /\ id \in IF closed THEN QueuedIds ELSE Enqueueable
  /\ \/ PersistTimeline(Marked(timeline, id, "Failed"), NoId)
     \/ PersistTimelineFails(Marked(timeline, id, "Failed"), NoId)
  /\ UNCHANGED <<settings_file, settings, identity, draft, step, radio, history>>

\* pump_outbound: the scheduler returns the event once, before the session
\* stores it.  A failed post is dropped, a broadcast one is kept to be
\* repeated.
OutboundEvent(id, state) ==
  /\ Idle
  /\ id \in outbox
  /\ state = "Broadcast" => ~closed
  /\ outbox' = outbox \ {id}
  /\ repeats' = IF state = "Broadcast" THEN repeats \cup {id} ELSE repeats
  /\ \/ PersistTimeline(Marked(timeline, id, state), NoId)
     \/ PersistTimelineFails(Marked(timeline, id, state), NoId)
  /\ UNCHANGED <<settings_file, settings, identity, draft, step, closed, history>>

\* The repeat pass ends without an event.
RepeatEnds(id) ==
  /\ Idle
  /\ id \in repeats
  /\ repeats' = repeats \ {id}
  /\ io' = "ok"
  /\ UNCHANGED <<disk, memory, status, step, outbox, closed, history>>

CloseTransport ==
  /\ Idle /\ ~closed
  /\ closed' = TRUE
  /\ io' = "ok"
  /\ UNCHANGED <<disk, memory, status, step, outbox, repeats, history>>

-----------------------------------------------------------------------------
(* Deletion and the end of the process *)

\* delete_all, first half: the settings go first, durably.
Mutant_DeleteSettings ==
  /\ status \in {"Ready", "RecoveryRequired"} /\ step = "idle"
  /\ database' = NoDatabase
  /\ step' = "erase"
  /\ io' = "ok"
  /\ UNCHANGED <<settings_file, status, memory, radio, history>>
DeleteSettings ==
  /\ status \in {"Ready", "RecoveryRequired"} /\ step = "idle"
  /\ settings_file' = NoSettings
  /\ settings' = NoSettings
  /\ step' = "erase"
  /\ io' = "ok"
  /\ UNCHANGED <<database, status, identity, timeline, ledger, draft, radio,
                 history>>

\* Second half: the database and its companions.
DeleteHistory ==
  /\ step = "erase"
  /\ database' = NoDatabase
  /\ status' = "RecoveryRequired" /\ step' = "idle" /\ io' = "ok"
  /\ UNCHANGED <<settings_file, memory, radio, history>>

DeleteFails ==
  /\ \/ /\ status \in {"Ready", "RecoveryRequired"} /\ step = "idle"
        /\ settings_file' \in {settings_file, NoSettings}
        /\ UNCHANGED database
     \/ /\ step = "erase"
        /\ database' \in {database, NoDatabase}
                          \cup {d \in {Artifact} : database.kind # "absent"}
        /\ UNCHANGED settings_file
  /\ status' = "RecoveryRequired" /\ step' = "idle" /\ io' = "fault"
  /\ UNCHANGED <<memory, radio, history>>

\* Everything in memory is gone.
Gone ==
  /\ status' = "Down" /\ step' = "idle"
  /\ settings' = NoSettings
  /\ identity' = [install |-> NoInstall, user |-> DefaultUser, last_issued |-> 0]
  /\ timeline' = EmptyTimeline /\ ledger' = EmptyLedger /\ draft' = NoDraft
  /\ outbox' = {} /\ repeats' = {} /\ closed' = FALSE
  /\ UNCHANGED history

\* RadioRuntime::stop and shutdown, or the end of the process between calls.
Shutdown ==
  /\ status # "Down" /\ step = "idle"
  /\ io' = "ok"
  /\ Gone
  /\ UNCHANGED disk

\* Power loss or kill inside a call that writes twice.  A write that is cut
\* short has either not happened or happened: dying before it or after it.
\* Between the unlinks of a deletion the database may be left without its
\* companions.
Crash ==
  /\ status # "Down" /\ step # "idle"
  /\ io' = "fault"
  /\ database' \in {database} \cup
       {d \in {Artifact} : step = "erase" /\ database.kind # "absent"}
  /\ UNCHANGED settings_file
  /\ Gone

Next ==
  \/ Launch \/ LaunchFails
  \/ \E i \in Installs : CreateSettings(i) \/ CreateSettingsFails(i)
  \/ OpenEmptyHistory \/ SeedHistory \/ OpenHistoryFails
  \/ FinalizeHistoryInitialization \/ FinalizeFails
  \/ RestoreState \/ RestoreStateFails
  \/ \E id \in LocalIds, reply \in Ids \cup {NoId} :
       ComposeReserve(id, reply) \/ ComposeReserveFails(id, reply)
  \/ ComposeCommit
  \/ \E id \in Ids : AcceptReceivedPost(id)
  \/ \E user \in Users : RenameUser(user)
  \/ \E prefs \in Prefs : SetPrefs(prefs)
  \/ SettingsCommandFails
  \/ \E id \in LocalIds : EnqueueQueuedPost(id) \/ EnqueueRefused(id)
  \/ \E id \in LocalIds, state \in {"Broadcast", "Failed"} :
       OutboundEvent(id, state)
  \/ \E id \in LocalIds : RepeatEnds(id)
  \/ CloseTransport
  \/ DeleteSettings \/ DeleteHistory \/ DeleteFails
  \/ Shutdown \/ Crash

Spec == Init /\ [][Next]_vars

-----------------------------------------------------------------------------
\* A device whose first launch finished can always start again: its settings
\* never exist without a history that they vouch for, whatever write failed
\* and wherever the process died.
DurableStateLoads ==
  settings_file.initialized => Loadable(database, settings_file)

\* The sender sequence of a post that reached the disk is never given to
\* another post of the same install id, across failures and restarts.
SequenceNeverReused ==
  \A i, j \in issued : i.sender = j.sender /\ i.seq = j.seq => i.id = j.id

\* A session that still accepts commands shows what is stored: no failure
\* leaves memory ahead of the disk or behind it.
MemoryIsDurable ==
  Idle => /\ settings = settings_file
          /\ identity = [install |-> settings.install, user |-> settings.user,
                         last_issued |-> settings.watermark]
          /\ database = Bound(timeline, ledger)

\* No silent retransmission: the scheduler is handed a post once, whatever
\* happened to the event that ended it and however often the program restarts.
HandedOnce == [][\A id \in outbox' \ outbox : id \notin handed]_vars

\* A Queued post stays in the timeline, and so does the parent of the reply
\* being composed.
QueuedKept ==
  [][status' # "Down" =>
       /\ QueuedIds \subseteq IdsOf(timeline'.entries)
       /\ step = "commit" /\ draft.reply # NoId =>
            draft.reply \in IdsOf(timeline'.entries)]_vars

\* Only a failed file operation makes a Ready session, or the launch of a
\* device whose settings are initialized, require recovery: the session never
\* refuses what it stored itself.
OnlyFaultsRequireRecovery ==
  [][status # "RecoveryRequired" /\ status' = "RecoveryRequired"
       /\ settings_file.initialized => io' = "fault"]_vars
=============================================================================
