---------------------------- MODULE SessionProofs ----------------------------
(***************************************************************************)
(* For every number of posts, install ids and capacities: what is stored   *)
(* can be loaded, sequence numbers are not reused, a Ready session shows   *)
(* what is stored, the scheduler is handed a post at most once, Queued     *)
(* posts are not evicted, and the session never refuses its own writes.    *)
(***************************************************************************)
EXTENDS Session, FiniteSetTheorems, WellFoundedInduction, TLAPS

\* A session that runs commands, or has reserved the sequence of a post.
Live == Idle \/ step = "commit"

\* Memory and disk of a live session.
Agreement ==
  Live => /\ settings = settings_file
          /\ identity = RestoredIdentity(settings)
          /\ database = Bound(timeline, ledger)
          /\ settings.initialized
          /\ settings.install \in Installs

\* What each step of bootstrap and of delete_all has established.
StepsInOrder ==
  /\ step \in {"open", "seed", "finalize", "restore"} =>
       settings = settings_file /\ settings.install \in Installs
  /\ step \in {"open", "seed"} => ~settings.initialized
  /\ step \in {"finalize", "restore"} => Loadable(database, settings_file)
  /\ step = "restore" => settings.initialized
  /\ step = "erase" => settings_file = NoSettings

\* The stored high-water mark covers every sequence ever issued, strictly
\* while the next one is reserved for a post that is not stored yet.
WatermarkCovers ==
  /\ \A i \in issued :
       i.sender = settings_file.install => i.seq <= settings_file.watermark
  /\ step = "commit" =>
       /\ status = "Ready"
       /\ draft.id \in LocalIds
       /\ timeline.last_order < MaxOrder
       /\ \A i \in issued :
            /\ i.id # draft.id
            /\ i.sender = identity.install => i.seq < identity.last_issued

\* A Queued post of a live session that was handed over is still held.
HandedHeld ==
  /\ \A id \in handed : \E i \in issued : i.id = id
  /\ Live => \A e \in timeline.entries : e.origin = "Queued" =>
       /\ \E i \in issued : i.id = e.id
       /\ e.id \in handed => e.id \in outbox

FiniteTimelines ==
  IsFiniteSet(timeline.entries) /\ IsFiniteSet(database.timeline.entries)

IInv ==
  /\ TypeOK
  /\ Agreement
  /\ StepsInOrder
  /\ DurableStateLoads
  /\ WatermarkCovers
  /\ SequenceNeverReused
  /\ HandedHeld
  /\ FiniteTimelines

-----------------------------------------------------------------------------
(* The operators on timelines, ledgers and databases *)

LEMMA DefaultsTyped ==
  /\ EmptyTimeline \in Timelines /\ EmptyLedger \in Ledgers
  /\ NoDatabase \in Databases /\ Artifact \in Databases
BY SessionAssumption DEF EmptyTimeline, EmptyLedger, NoDatabase, Artifact,
                         Database, Databases, Timelines, Ledgers, OrderNumbers

LEMMA SettingsTyped ==
  ASSUME NEW install \in Installs \cup {NoInstall}
  PROVE  /\ FirstSettings(install) \in Settings
         /\ FirstSettings(install).install = install
         /\ FirstSettings(install).watermark = 0
         /\ FirstSettings(install).initialized = FALSE
         /\ DefaultUser \in Users
<1>1. DefaultUser \in Users /\ DefaultPrefs \in Prefs
  BY SessionAssumption DEF DefaultUser, DefaultPrefs
<1>2. 0 \in SequenceNumbers
  BY SessionAssumption DEF SequenceNumbers
<1> QED BY <1>1, <1>2 DEF FirstSettings, Settings

LEMMA NoSettingsFacts ==
  /\ NoSettings \in Settings /\ NoSettings.install = NoInstall
  /\ ~NoSettings.initialized
  /\ \A i \in Issues : i.sender # NoSettings.install
<1>1. NoSettings = FirstSettings(NoInstall)
  BY DEF NoSettings
<1>2. NoSettings \in Settings /\ NoSettings.install = NoInstall
      /\ NoSettings.initialized = FALSE
  BY <1>1, SettingsTyped
<1>3. \A i \in Issues : i.sender \in Installs
  BY DEF Issues
<1> QED BY <1>2, <1>3, SessionAssumption

\* The settings that finalization, a new name and new preferences write.
LEMMA WrittenSettings ==
  ASSUME settings \in Settings
  PROVE  /\ Finalized \in Settings
         /\ Finalized.install = settings.install
         /\ Finalized.watermark = settings.watermark
         /\ \A user \in Users : identity.last_issued = settings.watermark =>
              /\ Renamed(user) \in Settings
              /\ Renamed(user).install = settings.install
              /\ Renamed(user).watermark = settings.watermark
         /\ \A prefs \in Prefs :
              LET t == [settings EXCEPT !.prefs = prefs] IN
              /\ t \in Settings
              /\ t.install = settings.install
              /\ t.watermark = settings.watermark
         /\ settings.watermark \in Int
<1>1. settings.watermark \in SequenceNumbers
  BY DEF Settings
<1>2. settings.watermark \in Int
  BY <1>1 DEF SequenceNumbers
<1>3. /\ Finalized \in Settings
      /\ Finalized.install = settings.install
      /\ Finalized.watermark = settings.watermark
  BY DEF Settings, Finalized
<1>4. ASSUME NEW user \in Users, identity.last_issued = settings.watermark
      PROVE  /\ Renamed(user) \in Settings
             /\ Renamed(user).install = settings.install
             /\ Renamed(user).watermark = settings.watermark
  <2>1. Renamed(user) = [settings EXCEPT !.user = user]
    BY <1>4 DEF Renamed, Settings
  <2> QED BY <2>1 DEF Settings
<1>5. ASSUME NEW prefs \in Prefs
      PROVE  LET t == [settings EXCEPT !.prefs = prefs] IN
             /\ t \in Settings
             /\ t.install = settings.install
             /\ t.watermark = settings.watermark
  BY DEF Settings
<1> QED BY <1>2, <1>3, <1>4, <1>5

LEMMA InsertTyped ==
  ASSUME NEW tl \in Timelines, tl.last_order < MaxOrder, NEW id \in Ids,
         NEW origin \in LocalStates \cup {"Received"},
         NEW sender \in Installs \cup {NoInstall},
         NEW seq \in SequenceNumbers, NEW protected
  PROVE  Insert(tl, id, origin, sender, seq, protected) \in Timelines
<1> DEFINE kept == IF Cardinality(tl.entries) < TimelineCapacity THEN tl.entries
                   ELSE tl.entries \ {Oldest(Evictable(tl.entries, protected))}
           entry == [id |-> id, order |-> tl.last_order + 1, origin |-> origin,
                     sender |-> sender, seq |-> seq]
<1>1. tl.entries \subseteq Entries /\ tl.last_order \in 0 .. MaxOrder
  BY DEF Timelines, OrderNumbers
<1>2. tl.last_order + 1 \in OrderNumbers
  BY <1>1, SessionAssumption DEF OrderNumbers
<1>3. entry \in Entries
  BY <1>2 DEF Entries
<1>4. kept \subseteq Entries
  BY <1>1
<1>5. Insert(tl, id, origin, sender, seq, protected)
        = [entries |-> kept \cup {entry}, last_order |-> tl.last_order + 1]
  BY DEF Insert
<1> HIDE DEF kept, entry
<1> QED BY <1>2, <1>3, <1>4, <1>5 DEF Timelines

LEMMA InsertFacts ==
  ASSUME NEW tl \in Timelines, NEW id, NEW origin, NEW sender, NEW seq,
         NEW protected
  PROVE  LET new == Insert(tl, id, origin, sender, seq, protected) IN
         /\ new.last_order = tl.last_order + 1
         /\ \A e \in new.entries :
              e \in tl.entries \/ (e.id = id /\ e.origin = origin)
         /\ IsFiniteSet(tl.entries) => IsFiniteSet(new.entries)
<1> DEFINE kept == IF Cardinality(tl.entries) < TimelineCapacity THEN tl.entries
                   ELSE tl.entries \ {Oldest(Evictable(tl.entries, protected))}
           entry == [id |-> id, order |-> tl.last_order + 1, origin |-> origin,
                     sender |-> sender, seq |-> seq]
<1>1. Insert(tl, id, origin, sender, seq, protected)
        = [entries |-> kept \cup {entry}, last_order |-> tl.last_order + 1]
  BY DEF Insert
<1>2. kept \subseteq tl.entries
  OBVIOUS
<1>3. entry.id = id /\ entry.origin = origin
  OBVIOUS
<1> HIDE DEF kept, entry
<1>4. ASSUME IsFiniteSet(tl.entries) PROVE IsFiniteSet(kept \cup {entry})
  <2>1. IsFiniteSet(kept)
    BY <1>2, <1>4, FS_Subset
  <2> QED BY <2>1, FS_AddElement
<1> QED BY <1>1, <1>2, <1>3, <1>4

LEMMA MarkedFacts ==
  ASSUME NEW tl \in Timelines, NEW id, NEW target \in LocalStates,
         target # "Queued"
  PROVE  LET new == Marked(tl, id, target) IN
         /\ new \in Timelines
         /\ \A e \in new.entries : e.origin = "Queued" =>
              e \in tl.entries /\ e.id # id
         /\ IsFiniteSet(tl.entries) => IsFiniteSet(new.entries)
<1> DEFINE f == [e \in tl.entries |->
                   IF e.id = id /\ e.origin = "Queued"
                   THEN [e EXCEPT !.origin = target] ELSE e]
           image == {f[e] : e \in tl.entries}
<1>1. tl.entries \subseteq Entries /\ tl.last_order \in OrderNumbers
  BY DEF Timelines
<1>2. \A e \in tl.entries : f[e] \in Entries /\ (f[e].origin = "Queued" =>
                              f[e] = e /\ e.id # id)
  <2> TAKE e \in tl.entries
  <2>1. e \in Entries
    BY <1>1
  <2>2. CASE e.id = id /\ e.origin = "Queued"
    <3>1. f[e] = [e EXCEPT !.origin = target]
      BY <2>2
    <3>2. f[e] \in Entries /\ f[e].origin = target
      BY <3>1, <2>1 DEF Entries
    <3> QED BY <3>2
  <2>3. CASE ~(e.id = id /\ e.origin = "Queued")
    <3>1. f[e] = e
      BY <2>3
    <3> QED BY <3>1, <2>1, <2>3
  <2> QED BY <2>2, <2>3
<1>3. Marked(tl, id, target) = [tl EXCEPT !.entries = image]
  BY DEF Marked
<1>4. IsFiniteSet(tl.entries) => IsFiniteSet(image)
  <2>1. f \in Surjection(tl.entries, image)
    BY DEF Surjection
  <2> QED BY <2>1, FS_Surjection
<1>5. Marked(tl, id, target).entries = image
      /\ Marked(tl, id, target).last_order = tl.last_order
      /\ Marked(tl, id, target)
           = [entries |-> image, last_order |-> tl.last_order]
  BY <1>3 DEF Timelines
<1>6. image \subseteq Entries
  BY <1>2
<1>7. \A e \in image : e.origin = "Queued" => e \in tl.entries /\ e.id # id
  BY <1>2
<1> HIDE DEF image
<1> QED BY <1>1, <1>4, <1>5, <1>6, <1>7 DEF Timelines

LEMMA RememberTyped ==
  ASSUME NEW l \in Ledgers, l.last_seen < MaxOrder, NEW id \in Ids, NEW entries
  PROVE  Remember(l, id, entries) \in Ledgers
<1> DEFINE kept == IF Cardinality(l.seen) < LedgerCapacity THEN l.seen
                   ELSE l.seen \ {Oldest(Unprotected(l, entries))}
           record == [id |-> id, order |-> l.last_seen + 1]
<1>1. l.seen \subseteq [id : Ids, order : OrderNumbers]
      /\ l.last_seen \in 0 .. MaxOrder
  BY DEF Ledgers, OrderNumbers
<1>2. l.last_seen + 1 \in OrderNumbers
  BY <1>1, SessionAssumption DEF OrderNumbers
<1>3. record \in [id : Ids, order : OrderNumbers]
  BY <1>2
<1>4. kept \subseteq [id : Ids, order : OrderNumbers]
  BY <1>1
<1>5. Remember(l, id, entries)
        = [seen |-> kept \cup {record}, last_seen |-> l.last_seen + 1]
  BY DEF Remember
<1> HIDE DEF kept, record
<1> QED BY <1>2, <1>3, <1>4, <1>5 DEF Ledgers

\* The timeline that bootstrap restores has no Queued entry, and is as valid as
\* the stored one.
LEMMA UnknownFacts ==
  ASSUME NEW tl \in Timelines, IsFiniteSet(tl.entries)
  PROVE  LET new == AllUnknown(tl) IN
         /\ new \in Timelines
         /\ \A e \in new.entries : e.origin # "Queued"
         /\ IsFiniteSet(new.entries)
         /\ \A l, s : ValidSnapshot(tl, l, s) => ValidSnapshot(new, l, s)
<1> DEFINE f == [e \in tl.entries |->
                   IF e.origin = "Queued" THEN [e EXCEPT !.origin = "Unknown"]
                   ELSE e]
           image == {f[e] : e \in tl.entries}
<1>1. tl.entries \subseteq Entries /\ tl.last_order \in OrderNumbers
  BY DEF Timelines
<1>2. \A e \in tl.entries :
        /\ f[e] \in Entries
        /\ f[e].origin # "Queued"
        /\ f[e].id = e.id /\ f[e].order = e.order
        /\ f[e].sender = e.sender /\ f[e].seq = e.seq
        /\ f[e].origin = "Received" <=> e.origin = "Received"
  <2> TAKE e \in tl.entries
  <2>1. e \in Entries
    BY <1>1
  <2>2. CASE e.origin = "Queued"
    <3>1. f[e] = [e EXCEPT !.origin = "Unknown"]
      BY <2>2
    <3> QED BY <3>1, <2>1, <2>2 DEF Entries, LocalStates
  <2>3. CASE e.origin # "Queued"
    <3>1. f[e] = e
      BY <2>3
    <3> QED BY <3>1, <2>1, <2>3
  <2> QED BY <2>2, <2>3
<1>3. AllUnknown(tl) = [tl EXCEPT !.entries = image]
  BY DEF AllUnknown
<1>4. IsFiniteSet(image) /\ Cardinality(image) <= Cardinality(tl.entries)
  <2>1. f \in Surjection(tl.entries, image)
    BY DEF Surjection
  <2> QED BY <2>1, FS_Surjection
<1>5. AllUnknown(tl) = [entries |-> image, last_order |-> tl.last_order]
  BY <1>3 DEF Timelines
<1>6. image \subseteq Entries /\ \A e \in image : e.origin # "Queued"
  BY <1>2
<1>7. ASSUME NEW l, NEW s, ValidSnapshot(tl, l, s)
      PROVE  ValidSnapshot(AllUnknown(tl), l, s)
  <2>0. \A g \in image : \E e \in tl.entries : g = f[e]
    OBVIOUS
  <2> HIDE DEF f, image
  <2>1. \A g \in image : \E e \in tl.entries :
          /\ g = f[e] /\ g.id = e.id /\ g.order = e.order
          /\ g.sender = e.sender /\ g.seq = e.seq
          /\ g.origin = "Received" <=> e.origin = "Received"
    BY <1>2, <2>0
  <2>2. Numbered(tl.entries, tl.last_order)
    BY <1>7 DEF ValidSnapshot
  <2>3. Numbered(image, tl.last_order)
    <3>1. \A g \in image : g.order \in 1 .. tl.last_order
      BY <2>1, <2>2 DEF Numbered
    <3>2. ASSUME NEW g \in image, NEW h \in image,
                 g.id = h.id \/ g.order = h.order
          PROVE  g = h
      <4>1. PICK e \in tl.entries : g = f[e] /\ g.id = e.id /\ g.order = e.order
        BY <2>1
      <4>2. PICK d \in tl.entries : h = f[d] /\ h.id = d.id /\ h.order = d.order
        BY <2>1
      <4>3. e = d
        BY <4>1, <4>2, <3>2, <2>2 DEF Numbered
      <4> QED BY <4>1, <4>2, <4>3
    <3> QED BY <3>1, <3>2 DEF Numbered
  <2>4. \A g \in Local(image) : g.sender = s.install /\ g.seq \in 1 .. s.watermark
    <3>1. \A e \in Local(tl.entries) :
            e.sender = s.install /\ e.seq \in 1 .. s.watermark
      BY <1>7 DEF ValidSnapshot
    <3> QED BY <3>1, <2>1 DEF Local
  <2>5. \A g, h \in Local(image) : g.order < h.order => g.seq < h.seq
    <3>1. \A e, d \in Local(tl.entries) : e.order < d.order => e.seq < d.seq
      BY <1>7 DEF ValidSnapshot
    <3> QED BY <3>1, <2>1 DEF Local
  <2>6. Cardinality(Queued(image)) <= MaxQueued
    <3>1. Queued(image) = {}
      BY <1>6 DEF Queued
    <3> QED BY <3>1, FS_EmptySet, SessionAssumption
  <2>7. IdsOf(image) \subseteq IdsOf(l.seen)
    <3>1. IdsOf(tl.entries) \subseteq IdsOf(l.seen)
      BY <1>7 DEF ValidSnapshot
    <3>2. IdsOf(image) \subseteq IdsOf(tl.entries)
      BY <2>1 DEF IdsOf
    <3> QED BY <3>1, <3>2
  <2>8. Cardinality(image) <= TimelineCapacity
    <3>1. Cardinality(tl.entries) <= TimelineCapacity
      BY <1>7 DEF ValidSnapshot
    <3>2. Cardinality(tl.entries) \in Nat /\ Cardinality(image) \in Nat
      BY <1>4, FS_CardinalityType
    <3> QED BY <3>1, <3>2, <1>4, SessionAssumption
  <2>9. AllUnknown(tl).entries = image /\ AllUnknown(tl).last_order = tl.last_order
    BY <1>5
  <2>10. /\ Cardinality(l.seen) <= LedgerCapacity
         /\ Numbered(l.seen, l.last_seen)
         /\ l.last_seen > 0 => \E r \in l.seen : r.order = l.last_seen
    BY <1>7 DEF ValidSnapshot
  <2> QED BY <2>3, <2>4, <2>5, <2>6, <2>7, <2>8, <2>9, <2>10 DEF ValidSnapshot
<1> HIDE DEF image
<1>8. AllUnknown(tl) \in Timelines
  BY <1>1, <1>5, <1>6 DEF Timelines
<1> QED BY <1>4, <1>5, <1>6, <1>7, <1>8

LEMMA WatermarkMayGrow ==
  ASSUME NEW tl, NEW l, NEW s \in Settings, NEW t \in Settings,
         ValidSnapshot(tl, l, s), t.install = s.install,
         t.watermark >= s.watermark
  PROVE  ValidSnapshot(tl, l, t)
<1>1. s.watermark \in Nat /\ t.watermark \in Nat
  BY SessionAssumption DEF Settings, SequenceNumbers
<1>2. \A e \in Local(tl.entries) :
        e.sender = t.install /\ e.seq \in 1 .. t.watermark
  BY <1>1 DEF ValidSnapshot
<1> QED BY <1>2 DEF ValidSnapshot

\* New settings for the same install id, with a watermark that is not lower,
\* keep a loadable database loadable, whether or not they reach the disk.
LEMMA SettingsMayGrow ==
  ASSUME TypeOK, Loadable(database, settings_file), NEW t \in Settings,
         t.install = settings_file.install,
         t.watermark >= settings_file.watermark,
         database' = database, settings_file' \in {settings_file, t}
  PROVE  Loadable(database', settings_file')
<1>1. settings_file \in Settings
  BY DEF TypeOK
<1>2. Loadable(database, t)
  BY <1>1, WatermarkMayGrow DEF Loadable
<1> QED BY <1>2

LEMMA EmptyValid ==
  ASSUME NEW s
  PROVE  ValidSnapshot(EmptyTimeline, EmptyLedger, s)
<1>1. EmptyTimeline.entries = {} /\ EmptyLedger.seen = {}
      /\ EmptyTimeline.last_order = 0 /\ EmptyLedger.last_seen = 0
  BY DEF EmptyTimeline, EmptyLedger
<1>2. Local({}) = {} /\ Queued({}) = {} /\ IdsOf({}) = {}
  BY DEF Local, Queued, IdsOf
<1>3. Numbered({}, 0)
  BY DEF Numbered
<1> QED BY <1>1, <1>2, <1>3, FS_EmptySet, SessionAssumption DEF ValidSnapshot

LEMMA BoundFacts ==
  ASSUME NEW tl, NEW l
  PROVE  /\ Bound(tl, l).kind = "bound" /\ Bound(tl, l).install = settings.install
         /\ Bound(tl, l).timeline = tl /\ Bound(tl, l).ledger = l
         /\ (tl \in Timelines /\ l \in Ledgers /\ settings \in Settings)
              => Bound(tl, l) \in Databases
BY DEF Bound, Database, Databases, Settings

-----------------------------------------------------------------------------
(* Writing the history *)

LEMMA PersistFacts ==
  ASSUME TypeOK, Live, Agreement, DurableStateLoads, FiniteTimelines,
         NEW tl \in Timelines, IsFiniteSet(tl.entries),
         NEW id \in Ids \cup {NoId},
         status = "Ready",
         PersistTimeline(tl, id) \/ PersistTimelineFails(tl, id)
  PROVE  /\ database' \in Databases /\ timeline' \in Timelines
         /\ ledger' \in Ledgers
         /\ status' \in {"Ready", "RecoveryRequired"} /\ io' \in {"ok", "fault"}
         /\ Loadable(database', settings_file)
         /\ IsFiniteSet(timeline'.entries)
         /\ IsFiniteSet(database'.timeline.entries)
         /\ status' = "Ready" => /\ timeline' = tl
                                 /\ database' = Bound(tl, ledger')
         /\ database' = database \/ database'.timeline = tl
<1> DEFINE l == LedgerWith(tl, id)
<1>1. settings = settings_file /\ database = Bound(timeline, ledger)
      /\ settings.initialized /\ Loadable(database, settings_file)
  BY DEF Agreement, DurableStateLoads
<1>2. settings \in Settings /\ database \in Databases /\ timeline \in Timelines
      /\ ledger \in Ledgers
  BY DEF TypeOK
<1>3. Acceptable(tl, id) => l \in Ledgers
  <2>1. CASE id = NoId
    BY <2>1, <1>2 DEF LedgerWith
  <2>2. CASE id # NoId
    <3>1. Acceptable(tl, id) => ledger.last_seen < MaxOrder
      BY <2>2 DEF Acceptable, CanRemember
    <3> QED BY <2>2, <3>1, <1>2, RememberTyped DEF LedgerWith
  <2> QED BY <2>1, <2>2
<1>4. Acceptable(tl, id) =>
        /\ Bound(tl, l) \in Databases
        /\ Loadable(Bound(tl, l), settings_file)
        /\ Bound(tl, l).timeline = tl
  <2> HIDE DEF l
  <2>1. Acceptable(tl, id) => ValidSnapshot(tl, l, settings)
    BY DEF Acceptable, Writable, l
  <2> QED BY <2>1, <1>1, <1>2, <1>3, BoundFacts DEF Loadable
<1> HIDE DEF l
<1>5. CASE PersistTimeline(tl, id)
  <2>1. CASE Acceptable(tl, id)
    <3>1. status' = status /\ database' = Bound(tl, l) /\ timeline' = tl
          /\ ledger' = l /\ io' = "ok"
      BY <1>5, <2>1 DEF PersistTimeline, l
    <3> QED BY <3>1, <2>1, <1>3, <1>4
  <2>2. CASE ~Acceptable(tl, id)
    <3>1. status' = "RecoveryRequired" /\ database' = database
          /\ timeline' = timeline /\ ledger' = ledger /\ io' = "ok"
      BY <1>5, <2>2 DEF PersistTimeline
    <3> QED BY <3>1, <1>1, <1>2 DEF FiniteTimelines
  <2> QED BY <2>1, <2>2
<1>6. CASE PersistTimelineFails(tl, id)
  <2>1. Acceptable(tl, id) /\ status' = "RecoveryRequired" /\ io' = "fault"
        /\ database' \in {database, Bound(tl, l)}
        /\ timeline' = timeline /\ ledger' = ledger
    BY <1>6 DEF PersistTimelineFails, AfterFailure, l
  <2> QED BY <2>1, <1>1, <1>2, <1>4 DEF FiniteTimelines
<1> QED BY <1>5, <1>6

-----------------------------------------------------------------------------
(* Every action preserves the invariant *)

LEMMA LaunchStep ==
  ASSUME IInv, Launch
  PROVE  IInv'
<1>1. TypeOK'
  BY DEF IInv, TypeOK, Launch, disk, radio, history, FirstStep
<1>2. Agreement'
  BY DEF IInv, Agreement, Live, Idle, TypeOK, Launch, FirstStep
<1>3. StepsInOrder'
  BY DEF IInv, StepsInOrder, Agreement, TypeOK, Settings, Launch, disk,
         FirstStep
<1>4. DurableStateLoads'
  BY DEF IInv, DurableStateLoads, StepsInOrder, Agreement, TypeOK, Launch, disk
<1>5. WatermarkCovers'
  BY DEF IInv, WatermarkCovers, StepsInOrder, Agreement, TypeOK, Launch, disk,
         history, FirstStep
<1>6. SequenceNeverReused'
  BY DEF IInv, SequenceNeverReused, Launch, history
<1>7. HandedHeld'
  BY DEF IInv, HandedHeld, Live, Idle, Launch, history, FirstStep
<1>8. FiniteTimelines'
  BY DEF IInv, FiniteTimelines, Launch, disk
<1> QED BY <1>1, <1>2, <1>3, <1>4, <1>5, <1>6, <1>7, <1>8 DEF IInv

LEMMA LaunchFailsStep ==
  ASSUME IInv, LaunchFails
  PROVE  IInv'
<1>1. TypeOK'
  BY DEF IInv, TypeOK, LaunchFails, disk, memory, radio, history
<1>2. Agreement'
  BY DEF IInv, Agreement, Live, Idle, Bound, TypeOK, LaunchFails, disk, memory
<1>3. StepsInOrder'
  BY DEF IInv, StepsInOrder, Agreement, TypeOK, LaunchFails, disk, memory
<1>4. DurableStateLoads'
  BY DEF IInv, DurableStateLoads, StepsInOrder, Agreement, TypeOK,
         LaunchFails, disk
<1>5. WatermarkCovers'
  BY DEF IInv, WatermarkCovers, StepsInOrder, Agreement, TypeOK, LaunchFails,
         disk, history
<1>6. SequenceNeverReused'
  BY DEF IInv, SequenceNeverReused, LaunchFails, history
<1>7. HandedHeld'
  BY DEF IInv, HandedHeld, Live, Idle, LaunchFails, memory, radio, history
<1>8. FiniteTimelines'
  BY DEF IInv, FiniteTimelines, LaunchFails, disk, memory
<1> QED BY <1>1, <1>2, <1>3, <1>4, <1>5, <1>6, <1>7, <1>8 DEF IInv

LEMMA CreateSettingsStep ==
  ASSUME IInv, NEW i \in Installs, CreateSettings(i)
  PROVE  IInv'
<1>1. TypeOK'
  BY SettingsTyped DEF IInv, TypeOK, CreateSettings, SettingsSaved, radio,
                       history
<1>2. Agreement'
  BY DEF IInv, Agreement, Live, Idle, TypeOK, CreateSettings
<1>3. StepsInOrder'
  BY SettingsTyped, SessionAssumption DEF IInv, StepsInOrder, Agreement,
                                          NoSettings, TypeOK, CreateSettings,
                                          SettingsSaved
<1>4. DurableStateLoads'
  BY SettingsTyped DEF IInv, DurableStateLoads, StepsInOrder, Agreement,
                       TypeOK, CreateSettings, SettingsSaved
<1>5. WatermarkCovers'
  BY SettingsTyped DEF IInv, WatermarkCovers, StepsInOrder, Agreement, TypeOK,
                       CreateSettings, SettingsSaved, history
<1>6. SequenceNeverReused'
  BY DEF IInv, SequenceNeverReused, CreateSettings, history
<1>7. HandedHeld'
  BY DEF IInv, HandedHeld, Live, Idle, CreateSettings, history
<1>8. FiniteTimelines'
  BY DEF IInv, FiniteTimelines, CreateSettings
<1> QED BY <1>1, <1>2, <1>3, <1>4, <1>5, <1>6, <1>7, <1>8 DEF IInv

LEMMA CreateSettingsFailsStep ==
  ASSUME IInv, NEW i \in Installs, CreateSettingsFails(i)
  PROVE  IInv'
<1>1. TypeOK'
  <2>1. settings_file \in Settings /\ FirstSettings(i) \in Settings
    BY SettingsTyped DEF IInv, TypeOK
  <2>2. settings_file' \in Settings
    BY <2>1 DEF CreateSettingsFails, SettingsNotReplaced, SettingsReplaced
  <2>3. io' = "fault" /\ status' \in {"Unavailable", "RecoveryRequired"}
        /\ step' = "idle"
    BY DEF CreateSettingsFails, SettingsNotReplaced, SettingsReplaced
  <2> QED BY <2>2, <2>3
          DEF IInv, TypeOK, CreateSettingsFails, memory, radio, history
<1>2. Agreement'
  BY DEF IInv, Agreement, Live, Idle, TypeOK, CreateSettingsFails
<1>3. StepsInOrder'
  BY DEF IInv, StepsInOrder, Agreement, TypeOK, CreateSettingsFails
<1>4. DurableStateLoads'
  BY SettingsTyped DEF IInv, DurableStateLoads, StepsInOrder, Agreement,
                       TypeOK, CreateSettingsFails, SettingsNotReplaced,
                       SettingsReplaced
<1>5. WatermarkCovers'
  <2>1. \A j \in issued : j.sender # i
    BY DEF CreateSettingsFails
  <2>2. settings_file' \in {settings_file, FirstSettings(i)} /\ issued' = issued
        /\ step' = "idle"
    BY DEF CreateSettingsFails, SettingsNotReplaced, SettingsReplaced, history
  <2>3. FirstSettings(i).install = i
    BY SettingsTyped
  <2> QED BY <2>1, <2>2, <2>3 DEF IInv, WatermarkCovers
<1>6. SequenceNeverReused'
  BY DEF IInv, SequenceNeverReused, CreateSettingsFails, history
<1>7. HandedHeld'
  BY DEF IInv, HandedHeld, Live, Idle, CreateSettingsFails, history
<1>8. FiniteTimelines'
  BY DEF IInv, FiniteTimelines, CreateSettingsFails, memory
<1> QED BY <1>1, <1>2, <1>3, <1>4, <1>5, <1>6, <1>7, <1>8 DEF IInv

LEMMA OpenEmptyHistoryStep ==
  ASSUME IInv, OpenEmptyHistory
  PROVE  IInv'
<1>1. TypeOK'
  BY DefaultsTyped DEF IInv, TypeOK, OpenEmptyHistory, memory, radio, history
<1>2. Agreement'
  BY DEF IInv, Agreement, Live, Idle, TypeOK, OpenEmptyHistory
<1>3. StepsInOrder'
  BY DEF IInv, StepsInOrder, Agreement, TypeOK, OpenEmptyHistory, memory
<1>4. DurableStateLoads'
  BY DEF IInv, DurableStateLoads, StepsInOrder, Agreement, TypeOK,
         OpenEmptyHistory
<1>5. WatermarkCovers'
  BY DEF IInv, WatermarkCovers, StepsInOrder, Agreement, TypeOK,
         OpenEmptyHistory, history
<1>6. SequenceNeverReused'
  BY DEF IInv, SequenceNeverReused, OpenEmptyHistory, history
<1>7. HandedHeld'
  BY DEF IInv, HandedHeld, Live, Idle, OpenEmptyHistory, history
<1>8. FiniteTimelines'
  BY FS_EmptySet DEF IInv, FiniteTimelines, EmptyTimeline, Artifact, Database,
                     OpenEmptyHistory, memory
<1> QED BY <1>1, <1>2, <1>3, <1>4, <1>5, <1>6, <1>7, <1>8 DEF IInv

LEMMA SeedHistoryStep ==
  ASSUME IInv, SeedHistory
  PROVE  IInv'
<1>1. TypeOK'
  BY DefaultsTyped, BoundFacts DEF IInv, TypeOK, SeedHistory, memory, radio,
                                   history
<1>2. Agreement'
  BY DEF IInv, Agreement, Live, Idle, TypeOK, SeedHistory
<1>3. StepsInOrder'
  <2>1. settings = settings_file /\ settings.install \in Installs
        /\ ~settings.initialized
    BY DEF IInv, StepsInOrder, SeedHistory
  <2>2. Loadable(Bound(EmptyTimeline, EmptyLedger), settings_file)
    BY <2>1, BoundFacts, EmptyValid DEF Loadable
  <2> QED BY <2>1, <2>2 DEF StepsInOrder, SeedHistory, memory
<1>4. DurableStateLoads'
  BY DEF IInv, DurableStateLoads, StepsInOrder, Agreement, TypeOK, SeedHistory
<1>5. WatermarkCovers'
  BY DEF IInv, WatermarkCovers, StepsInOrder, Agreement, TypeOK, SeedHistory,
         history
<1>6. SequenceNeverReused'
  BY DEF IInv, SequenceNeverReused, SeedHistory, history
<1>7. HandedHeld'
  BY DEF IInv, HandedHeld, Live, Idle, SeedHistory, history
<1>8. FiniteTimelines'
  <2>1. database'.timeline = EmptyTimeline
    BY BoundFacts DEF SeedHistory
  <2>2. IsFiniteSet(EmptyTimeline.entries)
    BY FS_EmptySet DEF EmptyTimeline
  <2> QED BY <2>1, <2>2 DEF IInv, FiniteTimelines, SeedHistory, memory
<1> QED BY <1>1, <1>2, <1>3, <1>4, <1>5, <1>6, <1>7, <1>8 DEF IInv

LEMMA OpenHistoryFailsStep ==
  ASSUME IInv, OpenHistoryFails
  PROVE  IInv'
<1>1. TypeOK'
  BY DefaultsTyped, BoundFacts DEF IInv, TypeOK, OpenHistoryFails, memory,
                                   radio, history
<1>2. Agreement'
  BY DEF IInv, Agreement, Live, Idle, TypeOK, OpenHistoryFails
<1>3. StepsInOrder'
  BY DEF IInv, StepsInOrder, Agreement, TypeOK, OpenHistoryFails
<1>4. DurableStateLoads'
  BY DEF IInv, DurableStateLoads, StepsInOrder, Agreement, TypeOK,
         OpenHistoryFails
<1>5. WatermarkCovers'
  BY DEF IInv, WatermarkCovers, StepsInOrder, Agreement, TypeOK,
         OpenHistoryFails, history
<1>6. SequenceNeverReused'
  BY DEF IInv, SequenceNeverReused, OpenHistoryFails, history
<1>7. HandedHeld'
  BY DEF IInv, HandedHeld, Live, Idle, OpenHistoryFails, history
<1>8. FiniteTimelines'
  <2>1. Artifact.timeline.entries = {}
        /\ Bound(EmptyTimeline, EmptyLedger).timeline.entries = {}
    BY BoundFacts DEF Artifact, Database, EmptyTimeline
  <2>2. database' \in {database, Artifact, Bound(EmptyTimeline, EmptyLedger)}
        /\ timeline' = timeline
    BY DEF OpenHistoryFails, memory
  <2> QED BY <2>1, <2>2, FS_EmptySet DEF IInv, FiniteTimelines
<1> QED BY <1>1, <1>2, <1>3, <1>4, <1>5, <1>6, <1>7, <1>8 DEF IInv

LEMMA FinalizeHistoryInitializationStep ==
  ASSUME IInv, FinalizeHistoryInitialization
  PROVE  IInv'
<1>1. TypeOK'
  BY DEF IInv, TypeOK, Settings, FinalizeHistoryInitialization, Finalized,
         SettingsSaved, radio, history
<1>2. Agreement'
  BY DEF IInv, Agreement, Live, Idle, TypeOK, FinalizeHistoryInitialization
<1>3. StepsInOrder'
  <2>1. Loadable(database, settings_file) /\ settings = settings_file
        /\ settings \in Settings /\ settings.install \in Installs
    BY DEF IInv, TypeOK, StepsInOrder, FinalizeHistoryInitialization
  <2>2. Finalized \in Settings /\ Finalized.install = settings_file.install
        /\ Finalized.watermark = settings_file.watermark /\ Finalized.initialized
    BY <2>1 DEF Settings, Finalized
  <2>3. settings_file' = Finalized /\ settings' = Finalized /\ step' = "restore"
        /\ database' = database
    BY DEF FinalizeHistoryInitialization, SettingsSaved
  <2>4. settings_file.watermark \in Int
    BY <2>1 DEF Settings, SequenceNumbers
  <2>5. Loadable(database', settings_file')
    BY <2>1, <2>2, <2>3, <2>4, SettingsMayGrow DEF IInv
  <2> QED BY <2>1, <2>2, <2>3, <2>5 DEF StepsInOrder
<1>4. DurableStateLoads'
  <2>1. Loadable(database, settings_file) /\ settings = settings_file
        /\ TypeOK /\ settings \in Settings
    BY DEF IInv, StepsInOrder, TypeOK, FinalizeHistoryInitialization
  <2>2. database' = database /\ settings_file' \in {settings_file, Finalized}
    BY DEF FinalizeHistoryInitialization, SettingsSaved
  <2>3. Finalized \in Settings /\ Finalized.install = settings_file.install
        /\ Finalized.watermark >= settings_file.watermark
    BY <2>1, WrittenSettings
  <2> QED BY <2>1, <2>2, <2>3, SettingsMayGrow DEF DurableStateLoads
<1>5. WatermarkCovers'
  BY DEF IInv, WatermarkCovers, StepsInOrder, Agreement, TypeOK,
         FinalizeHistoryInitialization, Finalized, SettingsSaved, history
<1>6. SequenceNeverReused'
  BY DEF IInv, SequenceNeverReused, FinalizeHistoryInitialization, history
<1>7. HandedHeld'
  BY DEF IInv, HandedHeld, Live, Idle, FinalizeHistoryInitialization, history
<1>8. FiniteTimelines'
  BY DEF IInv, FiniteTimelines, FinalizeHistoryInitialization
<1> QED BY <1>1, <1>2, <1>3, <1>4, <1>5, <1>6, <1>7, <1>8 DEF IInv

LEMMA FinalizeFailsStep ==
  ASSUME IInv, FinalizeFails
  PROVE  IInv'
<1>1. TypeOK'
  <2>1. settings \in Settings /\ settings_file \in Settings /\ Finalized \in Settings
    BY DEF IInv, TypeOK, Settings, Finalized
  <2>2. settings_file' \in Settings
    BY <2>1 DEF FinalizeFails, SettingsNotReplaced, SettingsReplaced
  <2>3. io' = "fault" /\ status' \in {"Unavailable", "RecoveryRequired"}
        /\ step' = "idle"
    BY DEF FinalizeFails, SettingsNotReplaced, SettingsReplaced
  <2> QED BY <2>2, <2>3 DEF IInv, TypeOK, FinalizeFails, memory, radio, history
<1>2. Agreement'
  BY DEF IInv, Agreement, Live, Idle, TypeOK, FinalizeFails
<1>3. StepsInOrder'
  BY DEF IInv, StepsInOrder, Agreement, TypeOK, FinalizeFails
<1>4. DurableStateLoads'
  <2>1. Loadable(database, settings_file) /\ settings = settings_file
        /\ TypeOK /\ settings \in Settings
    BY DEF IInv, StepsInOrder, TypeOK, FinalizeFails
  <2>2. database' = database /\ settings_file' \in {settings_file, Finalized}
    BY DEF FinalizeFails, SettingsNotReplaced, SettingsReplaced
  <2>3. Finalized \in Settings /\ Finalized.install = settings_file.install
        /\ Finalized.watermark >= settings_file.watermark
    BY <2>1, WrittenSettings
  <2> QED BY <2>1, <2>2, <2>3, SettingsMayGrow DEF DurableStateLoads
<1>5. WatermarkCovers'
  BY DEF IInv, WatermarkCovers, StepsInOrder, Agreement, TypeOK, Settings,
         FinalizeFails, Finalized, SettingsNotReplaced, SettingsReplaced,
         history
<1>6. SequenceNeverReused'
  BY DEF IInv, SequenceNeverReused, FinalizeFails, history
<1>7. HandedHeld'
  BY DEF IInv, HandedHeld, Live, Idle, FinalizeFails, history
<1>8. FiniteTimelines'
  BY DEF IInv, FiniteTimelines, FinalizeFails, memory
<1> QED BY <1>1, <1>2, <1>3, <1>4, <1>5, <1>6, <1>7, <1>8 DEF IInv

LEMMA RestoreStateStep ==
  ASSUME IInv, RestoreState
  PROVE  IInv'
<1>1. TypeOK'
  <2> DEFINE restored == AllUnknown(database.timeline)
  <2>1. /\ database \in Databases /\ settings \in Settings
        /\ IsFiniteSet(database.timeline.entries)
    BY DEF IInv, TypeOK, FiniteTimelines
  <2>2. database.timeline \in Timelines /\ database.ledger \in Ledgers
    BY <2>1 DEF Databases
  <2>3. restored \in Timelines /\ IsFiniteSet(restored.entries)
    BY <2>1, <2>2, UnknownFacts
  <2>4. Bound(restored, database.ledger) \in Databases
        /\ Bound(restored, database.ledger).timeline = restored
    BY <2>1, <2>2, <2>3, BoundFacts
  <2> HIDE DEF restored
  <2>5. database' = Bound(restored, database.ledger) /\ timeline' = restored
        /\ ledger' = database.ledger
    BY DEF RestoreState, restored
  <2>6. identity' \in [install : Installs \cup {NoInstall}, user : Users,
                       last_issued : SequenceNumbers]
    BY <2>1 DEF RestoreState, RestoredIdentity, Settings
  <2> QED BY <2>2, <2>3, <2>4, <2>5, <2>6
          DEF IInv, TypeOK, RestoreState, radio, history
<1>2. Agreement'
  <2>1. settings = settings_file /\ settings.install \in Installs
        /\ settings.initialized
    BY DEF IInv, StepsInOrder, RestoreState
  <2>2. settings' = settings /\ settings_file' = settings_file
        /\ identity' = RestoredIdentity(settings)
        /\ database' = Bound(timeline', ledger')
    BY DEF RestoreState
  <2>3. (database = Bound(timeline, ledger))'
    BY <2>2 DEF Bound
  <2>4. (identity = RestoredIdentity(settings))'
    BY <2>2 DEF RestoredIdentity
  <2> QED BY <2>1, <2>2, <2>3, <2>4 DEF Agreement
<1>3. StepsInOrder'
  BY DEF IInv, StepsInOrder, Agreement, TypeOK, RestoreState
<1>4. DurableStateLoads'
  <2> DEFINE restored == AllUnknown(database.timeline)
  <2>1. /\ database \in Databases /\ settings \in Settings
        /\ IsFiniteSet(database.timeline.entries)
    BY DEF IInv, TypeOK, FiniteTimelines
  <2>2. database.timeline \in Timelines /\ database.ledger \in Ledgers
    BY <2>1 DEF Databases
  <2>3. restored \in Timelines /\ IsFiniteSet(restored.entries)
    BY <2>1, <2>2, UnknownFacts
  <2>4. Bound(restored, database.ledger) \in Databases
        /\ Bound(restored, database.ledger).timeline = restored
    BY <2>1, <2>2, <2>3, BoundFacts
  <2> HIDE DEF restored
  <2>5. settings = settings_file /\ Loadable(database, settings_file)
    BY DEF IInv, StepsInOrder, RestoreState
  <2>6. ValidSnapshot(restored, database.ledger, settings_file)
    BY <2>1, <2>2, <2>5, UnknownFacts DEF Loadable, restored
  <2>7. Loadable(Bound(restored, database.ledger), settings_file)
    BY <2>5, <2>6, BoundFacts DEF Loadable
  <2>8. database' \in {database, Bound(restored, database.ledger)}
        /\ settings_file' = settings_file
    BY DEF RestoreState, restored
  <2> QED BY <2>5, <2>7, <2>8 DEF DurableStateLoads
<1>5. WatermarkCovers'
  BY DEF IInv, WatermarkCovers, StepsInOrder, Agreement, TypeOK, RestoreState,
         history
<1>6. SequenceNeverReused'
  BY DEF IInv, SequenceNeverReused, RestoreState, history
<1>7. HandedHeld'
  <2>1. /\ database \in Databases /\ IsFiniteSet(database.timeline.entries)
    BY DEF IInv, TypeOK, FiniteTimelines
  <2>2. database.timeline \in Timelines
    BY <2>1 DEF Databases
  <2>3. \A e \in timeline'.entries : e.origin # "Queued"
    BY <2>1, <2>2, UnknownFacts DEF RestoreState
  <2> QED BY <2>3 DEF IInv, HandedHeld, RestoreState, history
<1>8. FiniteTimelines'
  <2> DEFINE restored == AllUnknown(database.timeline)
  <2>1. /\ database \in Databases /\ settings \in Settings
        /\ IsFiniteSet(database.timeline.entries)
    BY DEF IInv, TypeOK, FiniteTimelines
  <2>2. database.timeline \in Timelines /\ database.ledger \in Ledgers
    BY <2>1 DEF Databases
  <2>3. restored \in Timelines /\ IsFiniteSet(restored.entries)
    BY <2>1, <2>2, UnknownFacts
  <2>4. Bound(restored, database.ledger) \in Databases
        /\ Bound(restored, database.ledger).timeline = restored
    BY <2>1, <2>2, <2>3, BoundFacts
  <2> HIDE DEF restored
  <2>5. database' = Bound(restored, database.ledger) /\ timeline' = restored
    BY DEF RestoreState, restored
  <2> QED BY <2>3, <2>4, <2>5 DEF FiniteTimelines
<1> QED BY <1>1, <1>2, <1>3, <1>4, <1>5, <1>6, <1>7, <1>8 DEF IInv

LEMMA RestoreStateFailsStep ==
  ASSUME IInv, RestoreStateFails
  PROVE  IInv'
<1>1. TypeOK'
  <2> DEFINE restored == AllUnknown(database.timeline)
  <2>1. /\ database \in Databases /\ settings \in Settings
        /\ IsFiniteSet(database.timeline.entries)
    BY DEF IInv, TypeOK, FiniteTimelines
  <2>2. database.timeline \in Timelines /\ database.ledger \in Ledgers
    BY <2>1 DEF Databases
  <2>3. restored \in Timelines /\ IsFiniteSet(restored.entries)
    BY <2>1, <2>2, UnknownFacts
  <2>4. Bound(restored, database.ledger) \in Databases
        /\ Bound(restored, database.ledger).timeline = restored
    BY <2>1, <2>2, <2>3, BoundFacts
  <2> HIDE DEF restored
  <2>5. database' \in {database, Bound(restored, database.ledger)}
        /\ ledger' = database.ledger
    BY DEF RestoreStateFails, restored
  <2>6. database' \in Databases
    BY <2>1, <2>4, <2>5
  <2> QED BY <2>2, <2>5, <2>6 DEF IInv, TypeOK, RestoreStateFails, radio, history
<1>2. Agreement'
  BY DEF IInv, Agreement, Live, Idle, TypeOK, RestoreStateFails
<1>3. StepsInOrder'
  BY DEF IInv, StepsInOrder, Agreement, TypeOK, RestoreStateFails
<1>4. DurableStateLoads'
  <2> DEFINE restored == AllUnknown(database.timeline)
  <2>1. /\ database \in Databases /\ settings \in Settings
        /\ IsFiniteSet(database.timeline.entries)
    BY DEF IInv, TypeOK, FiniteTimelines
  <2>2. database.timeline \in Timelines /\ database.ledger \in Ledgers
    BY <2>1 DEF Databases
  <2>3. restored \in Timelines /\ IsFiniteSet(restored.entries)
    BY <2>1, <2>2, UnknownFacts
  <2>4. Bound(restored, database.ledger) \in Databases
        /\ Bound(restored, database.ledger).timeline = restored
    BY <2>1, <2>2, <2>3, BoundFacts
  <2> HIDE DEF restored
  <2>5. settings = settings_file /\ Loadable(database, settings_file)
    BY DEF IInv, StepsInOrder, RestoreStateFails
  <2>6. ValidSnapshot(restored, database.ledger, settings_file)
    BY <2>1, <2>2, <2>5, UnknownFacts DEF Loadable, restored
  <2>7. Loadable(Bound(restored, database.ledger), settings_file)
    BY <2>5, <2>6, BoundFacts DEF Loadable
  <2>8. database' \in {database, Bound(restored, database.ledger)}
        /\ settings_file' = settings_file
    BY DEF RestoreStateFails, restored
  <2> QED BY <2>5, <2>7, <2>8 DEF DurableStateLoads
<1>5. WatermarkCovers'
  BY DEF IInv, WatermarkCovers, StepsInOrder, Agreement, TypeOK,
         RestoreStateFails, history
<1>6. SequenceNeverReused'
  BY DEF IInv, SequenceNeverReused, RestoreStateFails, history
<1>7. HandedHeld'
  BY DEF IInv, HandedHeld, Live, Idle, RestoreStateFails, history
<1>8. FiniteTimelines'
  <2> DEFINE restored == AllUnknown(database.timeline)
  <2>1. /\ database \in Databases /\ settings \in Settings
        /\ IsFiniteSet(database.timeline.entries)
    BY DEF IInv, TypeOK, FiniteTimelines
  <2>2. database.timeline \in Timelines /\ database.ledger \in Ledgers
    BY <2>1 DEF Databases
  <2>3. restored \in Timelines /\ IsFiniteSet(restored.entries)
    BY <2>1, <2>2, UnknownFacts
  <2>4. Bound(restored, database.ledger) \in Databases
        /\ Bound(restored, database.ledger).timeline = restored
    BY <2>1, <2>2, <2>3, BoundFacts
  <2> HIDE DEF restored
  <2>5. database' \in {database, Bound(restored, database.ledger)}
        /\ timeline' = timeline
    BY DEF RestoreStateFails, restored
  <2> QED BY <2>1, <2>3, <2>4, <2>5 DEF IInv, FiniteTimelines
<1> QED BY <1>1, <1>2, <1>3, <1>4, <1>5, <1>6, <1>7, <1>8 DEF IInv

LEMMA ComposeReserveStep ==
  ASSUME IInv, NEW id \in LocalIds, NEW reply \in Ids \cup {NoId}, ComposeReserve(id, reply)
  PROVE  IInv'
<1>1. TypeOK'
  BY SessionAssumption DEF IInv, TypeOK, SequenceNumbers, Settings,
                           ComposeReserve, CanCompose, Reserved,
                           NextSequenceExists, SettingsSaved, radio, history
<1>2. Agreement'
  BY DEF IInv, Agreement, Live, RestoredIdentity, Bound, TypeOK,
         ComposeReserve, CanCompose, Reserved, SettingsSaved
<1>3. StepsInOrder'
  BY DEF IInv, StepsInOrder, Agreement, TypeOK, ComposeReserve
<1>4. DurableStateLoads'
  <2>1. Loadable(database, settings_file) /\ settings_file \in Settings
    BY DEF IInv, DurableStateLoads, Agreement, Live, TypeOK, ComposeReserve,
           CanCompose
  <2>2. Reserved \in Settings
        /\ Reserved.install = settings_file.install
        /\ Reserved.watermark >= settings_file.watermark
    BY SessionAssumption DEF IInv, TypeOK, Agreement, Live, RestoredIdentity,
                             Settings, SequenceNumbers, Reserved,
                             ComposeReserve, CanCompose, NextSequenceExists
  <2>3. database' = database /\ settings_file' \in {settings_file, Reserved}
    BY DEF ComposeReserve, SettingsSaved
  <2>4. TypeOK
    BY DEF IInv
  <2> QED BY <2>1, <2>2, <2>3, <2>4, SettingsMayGrow DEF DurableStateLoads
<1>5. WatermarkCovers'
  BY DEF IInv, WatermarkCovers, StepsInOrder, Agreement, Live, Idle,
         RestoredIdentity, TypeOK, Issues, SequenceNumbers, ComposeReserve,
         CanCompose, Reserved, InsertionAvailable, SettingsSaved, history
<1>6. SequenceNeverReused'
  BY DEF IInv, SequenceNeverReused, ComposeReserve, history
<1>7. HandedHeld'
  BY DEF IInv, HandedHeld, Live, ComposeReserve, CanCompose, radio, history
<1>8. FiniteTimelines'
  BY DEF IInv, FiniteTimelines, ComposeReserve
<1> QED BY <1>1, <1>2, <1>3, <1>4, <1>5, <1>6, <1>7, <1>8 DEF IInv

LEMMA ComposeReserveFailsStep ==
  ASSUME IInv, NEW id \in LocalIds, NEW reply \in Ids \cup {NoId}, ComposeReserveFails(id, reply)
  PROVE  IInv'
<1>1. TypeOK'
  BY SessionAssumption DEF IInv, TypeOK, SequenceNumbers, Settings,
                           ComposeReserveFails, CanCompose, Reserved,
                           NextSequenceExists, SettingsNotReplaced,
                           SettingsReplaced, memory, radio, history
<1>2. Agreement'
  BY DEF IInv, Agreement, Live, Idle, Bound, TypeOK, ComposeReserveFails,
         CanCompose, SettingsNotReplaced, memory
<1>3. StepsInOrder'
  BY DEF IInv, StepsInOrder, Agreement, Idle, TypeOK, ComposeReserveFails,
         CanCompose
<1>4. DurableStateLoads'
  <2>1. Loadable(database, settings_file) /\ settings_file \in Settings
    BY DEF IInv, DurableStateLoads, Agreement, Live, TypeOK,
           ComposeReserveFails, CanCompose
  <2>2. Reserved \in Settings
        /\ Reserved.install = settings_file.install
        /\ Reserved.watermark >= settings_file.watermark
    BY SessionAssumption DEF IInv, TypeOK, Agreement, Live, RestoredIdentity,
                             Settings, SequenceNumbers, Reserved,
                             ComposeReserveFails, CanCompose,
                             NextSequenceExists
  <2>3. database' = database /\ settings_file' \in {settings_file, Reserved}
    BY DEF ComposeReserveFails, SettingsNotReplaced, SettingsReplaced
  <2>4. TypeOK
    BY DEF IInv
  <2> QED BY <2>1, <2>2, <2>3, <2>4, SettingsMayGrow DEF DurableStateLoads
<1>5. WatermarkCovers'
  BY DEF IInv, WatermarkCovers, StepsInOrder, Agreement, Live, Idle,
         RestoredIdentity, TypeOK, Settings, Issues, SequenceNumbers,
         ComposeReserveFails, CanCompose, Reserved, SettingsNotReplaced,
         SettingsReplaced, history
<1>6. SequenceNeverReused'
  BY DEF IInv, SequenceNeverReused, ComposeReserveFails, history
<1>7. HandedHeld'
  BY DEF IInv, HandedHeld, Live, ComposeReserveFails, CanCompose, memory,
         radio, history
<1>8. FiniteTimelines'
  BY DEF IInv, FiniteTimelines, ComposeReserveFails, memory
<1> QED BY <1>1, <1>2, <1>3, <1>4, <1>5, <1>6, <1>7, <1>8 DEF IInv

LEMMA RenameUserStep ==
  ASSUME IInv, NEW user \in Users, RenameUser(user)
  PROVE  IInv'
<1>1. TypeOK'
  BY DEF IInv, TypeOK, Settings, RenameUser, Renamed, SettingsSaved, radio,
         history
<1>2. Agreement'
  BY DEF IInv, Agreement, Live, RestoredIdentity, Bound, TypeOK, RenameUser,
         Renamed, SettingsSaved
<1>3. StepsInOrder'
  BY DEF IInv, StepsInOrder, Agreement, Idle, TypeOK, RenameUser
<1>4. DurableStateLoads'
  <2>1. Loadable(database, settings_file) /\ settings = settings_file
        /\ TypeOK /\ settings \in Settings
        /\ identity.last_issued = settings.watermark
    BY DEF IInv, DurableStateLoads, Agreement, Live, RestoredIdentity, TypeOK,
           RenameUser
  <2>2. database' = database /\ settings_file' \in {settings_file, Renamed(user)}
    BY DEF RenameUser, SettingsSaved
  <2>3. Renamed(user) \in Settings
        /\ Renamed(user).install = settings_file.install
        /\ Renamed(user).watermark >= settings_file.watermark
    BY <2>1, WrittenSettings
  <2> QED BY <2>1, <2>2, <2>3, SettingsMayGrow DEF DurableStateLoads
<1>5. WatermarkCovers'
  BY DEF IInv, WatermarkCovers, StepsInOrder, Agreement, Live,
         RestoredIdentity, TypeOK, RenameUser, Renamed, SettingsSaved, history
<1>6. SequenceNeverReused'
  BY DEF IInv, SequenceNeverReused, RenameUser, history
<1>7. HandedHeld'
  BY DEF IInv, HandedHeld, Live, RenameUser, radio, history
<1>8. FiniteTimelines'
  BY DEF IInv, FiniteTimelines, RenameUser
<1> QED BY <1>1, <1>2, <1>3, <1>4, <1>5, <1>6, <1>7, <1>8 DEF IInv

LEMMA SetPrefsStep ==
  ASSUME IInv, NEW prefs \in Prefs, SetPrefs(prefs)
  PROVE  IInv'
<1>1. TypeOK'
  BY DEF IInv, TypeOK, Settings, SetPrefs, SettingsSaved, radio, history
<1>2. Agreement'
  BY DEF IInv, Agreement, Live, RestoredIdentity, Bound, TypeOK, SetPrefs,
         SettingsSaved
<1>3. StepsInOrder'
  BY DEF IInv, StepsInOrder, Agreement, Idle, TypeOK, SetPrefs
<1>4. DurableStateLoads'
  <2> DEFINE t == [settings EXCEPT !.prefs = prefs]
  <2>1. Loadable(database, settings_file) /\ settings_file \in Settings
    BY DEF IInv, DurableStateLoads, Agreement, Live, TypeOK, SetPrefs
  <2>2. t \in Settings
        /\ t.install = settings_file.install
        /\ t.watermark >= settings_file.watermark
    BY DEF IInv, TypeOK, Agreement, Live, Settings, SequenceNumbers, SetPrefs
  <2>3. database' = database /\ settings_file' \in {settings_file, t}
    BY DEF SetPrefs, SettingsSaved
  <2>4. TypeOK
    BY DEF IInv
  <2> QED BY <2>1, <2>2, <2>3, <2>4, SettingsMayGrow DEF DurableStateLoads
<1>5. WatermarkCovers'
  BY DEF IInv, WatermarkCovers, StepsInOrder, Agreement, Live, TypeOK,
         SetPrefs, SettingsSaved, history
<1>6. SequenceNeverReused'
  BY DEF IInv, SequenceNeverReused, SetPrefs, history
<1>7. HandedHeld'
  BY DEF IInv, HandedHeld, Live, SetPrefs, radio, history
<1>8. FiniteTimelines'
  BY DEF IInv, FiniteTimelines, SetPrefs
<1> QED BY <1>1, <1>2, <1>3, <1>4, <1>5, <1>6, <1>7, <1>8 DEF IInv

\* Whatever a failing settings command left on disk keeps the install id and
\* the high-water mark.
LEMMA SettingsCommandWrites ==
  ASSUME IInv, SettingsCommandFails
  PROVE  \E t \in Settings : /\ settings_file' \in {settings_file, t}
                              /\ t.install = settings_file.install
                              /\ t.watermark = settings_file.watermark
<1>1. settings = settings_file /\ settings \in Settings
      /\ identity.last_issued = settings.watermark
  BY DEF IInv, Agreement, Live, RestoredIdentity, TypeOK, SettingsCommandFails
<1>2. CASE settings_file' = settings_file
  BY <1>1, <1>2
<1>3. CASE \E user \in Users : settings_file' \in {settings_file, Renamed(user)}
  <2>1. PICK user \in Users : settings_file' \in {settings_file, Renamed(user)}
    BY <1>3
  <2> QED BY <1>1, <2>1, WrittenSettings
<1>4. CASE \E prefs \in Prefs :
             settings_file' \in {settings_file, [settings EXCEPT !.prefs = prefs]}
  <2>1. PICK prefs \in Prefs :
          settings_file' \in {settings_file, [settings EXCEPT !.prefs = prefs]}
    BY <1>4
  <2> DEFINE t == [settings EXCEPT !.prefs = prefs]
  <2>2. /\ t \in Settings
        /\ t.install = settings.install /\ t.watermark = settings.watermark
    BY <1>1 DEF Settings
  <2>3. settings_file' \in {settings_file, t}
    BY <2>1
  <2> HIDE DEF t
  <2> QED BY <1>1, <2>2, <2>3
<1> QED BY <1>2, <1>3, <1>4
        DEF SettingsCommandFails, SettingsNotReplaced, SettingsReplaced

LEMMA SettingsCommandFailsStep ==
  ASSUME IInv, SettingsCommandFails
  PROVE  IInv'
<1>1. TypeOK'
  <2>1. PICK t \in Settings : /\ settings_file' \in {settings_file, t}
                              /\ t.install = settings_file.install
                              /\ t.watermark = settings_file.watermark
    BY SettingsCommandWrites
  <2>2. settings_file' \in Settings
    BY <2>1 DEF IInv, TypeOK
  <2>3. io' \in {"ok", "fault"} /\ status' \in {status, "RecoveryRequired"}
        /\ UNCHANGED <<database, memory, step, radio, history>>
    BY DEF SettingsCommandFails, SettingsNotReplaced, SettingsReplaced
  <2> QED BY <2>2, <2>3 DEF IInv, TypeOK, memory, radio, history
<1>2. Agreement'
  BY DEF IInv, Agreement, Live, Idle, Bound, TypeOK, SettingsCommandFails,
         SettingsNotReplaced, memory
<1>3. StepsInOrder'
  BY DEF IInv, StepsInOrder, Agreement, Idle, TypeOK, SettingsCommandFails
<1>4. DurableStateLoads'
  <2>1. PICK t \in Settings : /\ settings_file' \in {settings_file, t}
                              /\ t.install = settings_file.install
                              /\ t.watermark = settings_file.watermark
    BY SettingsCommandWrites
  <2>2. TypeOK /\ Loadable(database, settings_file) /\ settings_file \in Settings
    BY DEF IInv, TypeOK, DurableStateLoads, Agreement, Live,
           SettingsCommandFails
  <2>3. settings_file.watermark \in Int
    BY <2>2, SessionAssumption DEF Settings, SequenceNumbers
  <2>4. database' = database
    BY DEF SettingsCommandFails
  <2> QED BY <2>1, <2>2, <2>3, <2>4, SettingsMayGrow DEF DurableStateLoads
<1>5. WatermarkCovers'
  <2>1. PICK t \in Settings : /\ settings_file' \in {settings_file, t}
                              /\ t.install = settings_file.install
                              /\ t.watermark = settings_file.watermark
    BY SettingsCommandWrites
  <2>2. step' = "idle" /\ issued' = issued
    BY DEF SettingsCommandFails, Idle, history
  <2> QED BY <2>1, <2>2 DEF IInv, WatermarkCovers
<1>6. SequenceNeverReused'
  BY DEF IInv, SequenceNeverReused, SettingsCommandFails, history
<1>7. HandedHeld'
  BY DEF IInv, HandedHeld, Live, SettingsCommandFails, memory, radio, history
<1>8. FiniteTimelines'
  BY DEF IInv, FiniteTimelines, SettingsCommandFails, memory
<1> QED BY <1>1, <1>2, <1>3, <1>4, <1>5, <1>6, <1>7, <1>8 DEF IInv

LEMMA EnqueueQueuedPostStep ==
  ASSUME IInv, NEW id \in LocalIds, EnqueueQueuedPost(id)
  PROVE  IInv'
<1>1. TypeOK'
  BY DEF IInv, TypeOK, EnqueueQueuedPost, disk, memory
<1>2. Agreement'
  BY DEF IInv, Agreement, Live, Bound, TypeOK, EnqueueQueuedPost, disk, memory
<1>3. StepsInOrder'
  BY DEF IInv, StepsInOrder, Agreement, TypeOK, EnqueueQueuedPost, disk, memory
<1>4. DurableStateLoads'
  BY DEF IInv, DurableStateLoads, StepsInOrder, Agreement, TypeOK,
         EnqueueQueuedPost, disk
<1>5. WatermarkCovers'
  BY DEF IInv, WatermarkCovers, StepsInOrder, Agreement, TypeOK,
         EnqueueQueuedPost, disk, memory
<1>6. SequenceNeverReused'
  BY DEF IInv, SequenceNeverReused, EnqueueQueuedPost
<1>7. HandedHeld'
  BY DEF IInv, HandedHeld, Live, EnqueueQueuedPost, Enqueueable, QueuedIds,
         IdsOf, Queued, memory
<1>8. FiniteTimelines'
  BY DEF IInv, FiniteTimelines, EnqueueQueuedPost, disk, memory
<1> QED BY <1>1, <1>2, <1>3, <1>4, <1>5, <1>6, <1>7, <1>8 DEF IInv

LEMMA RepeatEndsStep ==
  ASSUME IInv, NEW id \in LocalIds, RepeatEnds(id)
  PROVE  IInv'
<1>1. TypeOK'
  BY DEF IInv, TypeOK, RepeatEnds, disk, memory, history
<1>2. Agreement'
  BY DEF IInv, Agreement, Live, Bound, TypeOK, RepeatEnds, disk, memory
<1>3. StepsInOrder'
  BY DEF IInv, StepsInOrder, Agreement, TypeOK, RepeatEnds, disk, memory
<1>4. DurableStateLoads'
  BY DEF IInv, DurableStateLoads, StepsInOrder, Agreement, TypeOK, RepeatEnds,
         disk
<1>5. WatermarkCovers'
  BY DEF IInv, WatermarkCovers, StepsInOrder, Agreement, TypeOK, RepeatEnds,
         disk, memory, history
<1>6. SequenceNeverReused'
  BY DEF IInv, SequenceNeverReused, RepeatEnds, history
<1>7. HandedHeld'
  BY DEF IInv, HandedHeld, Live, RepeatEnds, memory, history
<1>8. FiniteTimelines'
  BY DEF IInv, FiniteTimelines, RepeatEnds, disk, memory
<1> QED BY <1>1, <1>2, <1>3, <1>4, <1>5, <1>6, <1>7, <1>8 DEF IInv

LEMMA CloseTransportStep ==
  ASSUME IInv, CloseTransport
  PROVE  IInv'
<1>1. TypeOK'
  BY DEF IInv, TypeOK, CloseTransport, disk, memory, history
<1>2. Agreement'
  BY DEF IInv, Agreement, Live, Bound, TypeOK, CloseTransport, disk, memory
<1>3. StepsInOrder'
  BY DEF IInv, StepsInOrder, Agreement, TypeOK, CloseTransport, disk, memory
<1>4. DurableStateLoads'
  BY DEF IInv, DurableStateLoads, StepsInOrder, Agreement, TypeOK,
         CloseTransport, disk
<1>5. WatermarkCovers'
  BY DEF IInv, WatermarkCovers, StepsInOrder, Agreement, TypeOK,
         CloseTransport, disk, memory, history
<1>6. SequenceNeverReused'
  BY DEF IInv, SequenceNeverReused, CloseTransport, history
<1>7. HandedHeld'
  BY DEF IInv, HandedHeld, Live, CloseTransport, memory, history
<1>8. FiniteTimelines'
  BY DEF IInv, FiniteTimelines, CloseTransport, disk, memory
<1> QED BY <1>1, <1>2, <1>3, <1>4, <1>5, <1>6, <1>7, <1>8 DEF IInv

LEMMA DeleteSettingsStep ==
  ASSUME IInv, DeleteSettings
  PROVE  IInv'
<1>1. TypeOK'
  BY SettingsTyped DEF IInv, TypeOK, NoSettings, DeleteSettings, radio, history
<1>2. Agreement'
  BY DEF IInv, Agreement, Live, Idle, TypeOK, DeleteSettings
<1>3. StepsInOrder'
  BY DEF IInv, StepsInOrder, Agreement, TypeOK, DeleteSettings
<1>4. DurableStateLoads'
  BY SettingsTyped DEF IInv, DurableStateLoads, StepsInOrder, Agreement,
                       NoSettings, TypeOK, DeleteSettings
<1>5. WatermarkCovers'
  <2>1. settings_file' = NoSettings /\ step' = "erase" /\ issued' = issued
        /\ issued \subseteq Issues
    BY DEF IInv, TypeOK, DeleteSettings, history
  <2> QED BY <2>1, NoSettingsFacts DEF WatermarkCovers
<1>6. SequenceNeverReused'
  BY DEF IInv, SequenceNeverReused, DeleteSettings, history
<1>7. HandedHeld'
  BY DEF IInv, HandedHeld, Live, Idle, DeleteSettings, history
<1>8. FiniteTimelines'
  BY DEF IInv, FiniteTimelines, DeleteSettings
<1> QED BY <1>1, <1>2, <1>3, <1>4, <1>5, <1>6, <1>7, <1>8 DEF IInv

LEMMA DeleteHistoryStep ==
  ASSUME IInv, DeleteHistory
  PROVE  IInv'
<1>1. TypeOK'
  BY DefaultsTyped DEF IInv, TypeOK, DeleteHistory, memory, radio, history
<1>2. Agreement'
  BY DEF IInv, Agreement, Live, Idle, TypeOK, DeleteHistory
<1>3. StepsInOrder'
  BY DEF IInv, StepsInOrder, Agreement, TypeOK, DeleteHistory
<1>4. DurableStateLoads'
  <2>1. settings_file' = NoSettings
    BY DEF IInv, StepsInOrder, DeleteHistory
  <2> QED BY <2>1, NoSettingsFacts DEF DurableStateLoads
<1>5. WatermarkCovers'
  BY DEF IInv, WatermarkCovers, StepsInOrder, Agreement, TypeOK,
         DeleteHistory, history
<1>6. SequenceNeverReused'
  BY DEF IInv, SequenceNeverReused, DeleteHistory, history
<1>7. HandedHeld'
  BY DEF IInv, HandedHeld, Live, Idle, DeleteHistory, history
<1>8. FiniteTimelines'
  BY FS_EmptySet DEF IInv, FiniteTimelines, EmptyTimeline, NoDatabase,
                     Database, DeleteHistory, memory
<1> QED BY <1>1, <1>2, <1>3, <1>4, <1>5, <1>6, <1>7, <1>8 DEF IInv

LEMMA DeleteFailsStep ==
  ASSUME IInv, DeleteFails
  PROVE  IInv'
<1>1. TypeOK'
  <2>1. \/ database' = database /\ settings_file' \in {settings_file, NoSettings}
        \/ settings_file' = settings_file /\ settings_file = NoSettings
           /\ database' \in {database, NoDatabase, Artifact}
    BY DEF IInv, StepsInOrder, DeleteFails
  <2>2. settings_file' \in Settings /\ database' \in Databases
    BY <2>1, NoSettingsFacts, DefaultsTyped DEF IInv, TypeOK
  <2>3. io' = "fault" /\ status' = "RecoveryRequired" /\ step' = "idle"
        /\ UNCHANGED <<memory, radio, history>>
    BY DEF DeleteFails
  <2> QED BY <2>2, <2>3 DEF IInv, TypeOK, memory, radio, history
<1>2. Agreement'
  BY DEF IInv, Agreement, Live, Idle, TypeOK, DeleteFails
<1>3. StepsInOrder'
  BY DEF IInv, StepsInOrder, Agreement, TypeOK, DeleteFails
<1>4. DurableStateLoads'
  <2>1. \/ database' = database /\ settings_file' \in {settings_file, NoSettings}
        \/ settings_file' = settings_file /\ settings_file = NoSettings
           /\ database' \in {database, NoDatabase, Artifact}
    BY DEF IInv, StepsInOrder, DeleteFails
  <2> QED BY <2>1, NoSettingsFacts DEF IInv, DurableStateLoads
<1>5. WatermarkCovers'
  <2>1. \/ database' = database /\ settings_file' \in {settings_file, NoSettings}
        \/ settings_file' = settings_file /\ settings_file = NoSettings
           /\ database' \in {database, NoDatabase, Artifact}
    BY DEF IInv, StepsInOrder, DeleteFails
  <2>2. step' = "idle" /\ issued' = issued /\ issued \subseteq Issues
    BY DEF IInv, TypeOK, DeleteFails, history
  <2> QED BY <2>1, <2>2, NoSettingsFacts DEF IInv, WatermarkCovers
<1>6. SequenceNeverReused'
  BY DEF IInv, SequenceNeverReused, DeleteFails, history
<1>7. HandedHeld'
  BY DEF IInv, HandedHeld, Live, Idle, DeleteFails, history
<1>8. FiniteTimelines'
  BY FS_EmptySet DEF IInv, FiniteTimelines, EmptyTimeline, NoDatabase,
                     Artifact, Database, DeleteFails, memory
<1> QED BY <1>1, <1>2, <1>3, <1>4, <1>5, <1>6, <1>7, <1>8 DEF IInv

LEMMA ShutdownStep ==
  ASSUME IInv, Shutdown
  PROVE  IInv'
<1>1. TypeOK'
  BY SettingsTyped, DefaultsTyped DEF IInv, TypeOK, NoSettings, NoDraft,
                                      Settings, Shutdown, Gone, disk, history
<1>2. Agreement'
  BY DEF IInv, Agreement, Live, Idle, TypeOK, Shutdown, Gone
<1>3. StepsInOrder'
  BY DEF IInv, StepsInOrder, Agreement, TypeOK, Shutdown, Gone
<1>4. DurableStateLoads'
  BY DEF IInv, DurableStateLoads, StepsInOrder, Agreement, TypeOK, Shutdown,
         disk
<1>5. WatermarkCovers'
  BY DEF IInv, WatermarkCovers, StepsInOrder, Agreement, TypeOK, Shutdown,
         Gone, disk, history
<1>6. SequenceNeverReused'
  BY DEF IInv, SequenceNeverReused, Shutdown, Gone, history
<1>7. HandedHeld'
  BY DEF IInv, HandedHeld, Live, Idle, Shutdown, Gone, history
<1>8. FiniteTimelines'
  BY FS_EmptySet DEF IInv, FiniteTimelines, EmptyTimeline, Shutdown, Gone, disk
<1> QED BY <1>1, <1>2, <1>3, <1>4, <1>5, <1>6, <1>7, <1>8 DEF IInv

LEMMA CrashStep ==
  ASSUME IInv, Crash
  PROVE  IInv'
<1>1. TypeOK'
  <2>1. settings_file' = settings_file
        /\ (database' = database
             \/ (database' = Artifact /\ settings_file = NoSettings))
    <3>1. step = "erase" => settings_file = NoSettings
      BY DEF IInv, StepsInOrder
    <3>2. database' = database \/ (database' = Artifact /\ step = "erase")
      BY DEF Crash
    <3>3. settings_file' = settings_file
      BY DEF Crash
    <3> QED BY <3>1, <3>2, <3>3
  <2>2. settings_file' \in Settings /\ database' \in Databases
    BY <2>1, DefaultsTyped DEF IInv, TypeOK
  <2>3. settings' \in Settings
        /\ identity' \in [install : Installs \cup {NoInstall}, user : Users,
                          last_issued : SequenceNumbers]
    <3>1. settings' = NoSettings
          /\ identity' = [install |-> NoInstall, user |-> DefaultUser, last_issued |-> 0]
      BY DEF Crash, Gone
    <3>2. DefaultUser \in Users /\ 0 \in SequenceNumbers
      BY SessionAssumption DEF SequenceNumbers, DefaultUser
    <3> QED BY <3>1, <3>2, NoSettingsFacts
  <2>4. draft' \in [id : LocalIds \cup {NoId}, reply : Ids \cup {NoId}]
        /\ timeline' \in Timelines /\ ledger' \in Ledgers
    BY DefaultsTyped DEF Crash, Gone, NoDraft
  <2>5. io' = "fault" /\ status' = "Down" /\ step' = "idle" /\ closed' = FALSE
        /\ outbox' = {} /\ repeats' = {} /\ issued' = issued /\ handed' = handed
    BY DEF Crash, Gone, history
  <2> QED BY <2>2, <2>3, <2>4, <2>5 DEF IInv, TypeOK
<1>2. Agreement'
  BY DEF IInv, Agreement, Live, Idle, TypeOK, Crash, Gone
<1>3. StepsInOrder'
  BY DEF IInv, StepsInOrder, Agreement, TypeOK, Crash, Gone
<1>4. DurableStateLoads'
  <2>1. settings_file' = settings_file
        /\ (database' = database
             \/ (database' = Artifact /\ settings_file = NoSettings))
    <3>1. step = "erase" => settings_file = NoSettings
      BY DEF IInv, StepsInOrder
    <3>2. database' = database \/ (database' = Artifact /\ step = "erase")
      BY DEF Crash
    <3>3. settings_file' = settings_file
      BY DEF Crash
    <3> QED BY <3>1, <3>2, <3>3
  <2> QED BY <2>1, NoSettingsFacts DEF IInv, DurableStateLoads
<1>5. WatermarkCovers'
  BY DEF IInv, WatermarkCovers, StepsInOrder, Agreement, TypeOK, Crash, Gone,
         history
<1>6. SequenceNeverReused'
  BY DEF IInv, SequenceNeverReused, Crash, Gone, history
<1>7. HandedHeld'
  BY DEF IInv, HandedHeld, Live, Idle, Crash, Gone, history
<1>8. FiniteTimelines'
  <2>1. settings_file' = settings_file
        /\ (database' = database
             \/ (database' = Artifact /\ settings_file = NoSettings))
    <3>1. step = "erase" => settings_file = NoSettings
      BY DEF IInv, StepsInOrder
    <3>2. database' = database \/ (database' = Artifact /\ step = "erase")
      BY DEF Crash
    <3>3. settings_file' = settings_file
      BY DEF Crash
    <3> QED BY <3>1, <3>2, <3>3
  <2>2. timeline' = EmptyTimeline
    BY DEF Crash, Gone
  <2>3. IsFiniteSet(EmptyTimeline.entries) /\ IsFiniteSet(Artifact.timeline.entries)
    BY FS_EmptySet DEF EmptyTimeline, Artifact, Database
  <2> QED BY <2>1, <2>2, <2>3 DEF IInv, FiniteTimelines
<1> QED BY <1>1, <1>2, <1>3, <1>4, <1>5, <1>6, <1>7, <1>8 DEF IInv

\* What the writes of the history have in common: settings, identity and
\* repeats are typed and the queue of events does not grow.
LEMMA HistoryStep ==
  ASSUME IInv, NEW tl \in Timelines, IsFiniteSet(tl.entries),
         NEW id \in Ids \cup {NoId}, Live, status = "Ready",
         PersistTimeline(tl, id) \/ PersistTimelineFails(tl, id),
         step' = "idle", UNCHANGED <<settings_file, settings, identity, closed>>,
         draft' \in [id : LocalIds \cup {NoId}, reply : Ids \cup {NoId}],
         outbox' \subseteq LocalIds, repeats' \subseteq LocalIds,
         issued' \subseteq Issues, handed' = handed
  PROVE  /\ TypeOK' /\ Agreement' /\ StepsInOrder' /\ DurableStateLoads'
         /\ FiniteTimelines'
         /\ (status' = "Ready" => timeline' = tl)
         /\ (database' = database \/ database'.timeline = tl)
<1>1. TypeOK /\ Agreement /\ DurableStateLoads /\ FiniteTimelines
  BY DEF IInv
<1>2. /\ database' \in Databases /\ timeline' \in Timelines
      /\ ledger' \in Ledgers
      /\ status' \in {"Ready", "RecoveryRequired"} /\ io' \in {"ok", "fault"}
      /\ Loadable(database', settings_file)
      /\ IsFiniteSet(timeline'.entries)
      /\ IsFiniteSet(database'.timeline.entries)
      /\ (status' = "Ready" => /\ timeline' = tl
                               /\ database' = Bound(tl, ledger'))
      /\ (database' = database \/ database'.timeline = tl)
  BY <1>1, PersistFacts
<1>3. TypeOK'
  BY <1>1, <1>2 DEF TypeOK
<1>4. Agreement'
  <2>1. SUFFICES ASSUME Live'
                 PROVE  Agreement'
    BY DEF Agreement
  <2>2. status' = "Ready"
    BY <2>1 DEF Live, Idle
  <2>3. database' = Bound(timeline, ledger)'
    BY <2>2, <1>2 DEF Bound
  <2> QED BY <2>3, <1>1 DEF Agreement, RestoredIdentity
<1>5. StepsInOrder'
  BY DEF StepsInOrder
<1>6. DurableStateLoads'
  BY <1>2 DEF DurableStateLoads, Loadable
<1>7. FiniteTimelines'
  BY <1>2 DEF FiniteTimelines
<1> QED BY <1>2, <1>3, <1>4, <1>5, <1>6, <1>7

LEMMA ComposeCommitStep ==
  ASSUME IInv, ComposeCommit
  PROVE  IInv'
<1>1. TypeOK /\ Live /\ step = "commit" /\ status = "Ready"
      /\ draft.id \in LocalIds /\ timeline.last_order < MaxOrder
      /\ IsFiniteSet(timeline.entries)
  BY DEF IInv, ComposeCommit, Live, WatermarkCovers, FiniteTimelines
<1>2. timeline \in Timelines
      /\ identity.install \in Installs \cup {NoInstall}
      /\ identity.last_issued \in SequenceNumbers
  BY <1>1 DEF TypeOK
<1>3. Composed \in Timelines
  BY <1>1, <1>2, InsertTyped DEF Composed, Ids, LocalStates
<1>4. /\ Composed.last_order = timeline.last_order + 1
      /\ \A e \in Composed.entries :
           e \in timeline.entries \/ (e.id = draft.id /\ e.origin = "Queued")
      /\ IsFiniteSet(Composed.entries)
  BY <1>1, <1>2, InsertFacts DEF Composed
<1>5. identity = RestoredIdentity(settings) /\ settings = settings_file
      /\ settings.install \in Installs /\ database = Bound(timeline, ledger)
  BY <1>1 DEF IInv, Agreement
<1>6. Issue \in Issues /\ Issue.id = draft.id
      /\ Issue.sender = settings_file.install
      /\ Issue.sender = identity.install /\ Issue.seq = identity.last_issued
      /\ Issue.seq = settings_file.watermark
  BY <1>1, <1>2, <1>5 DEF Issue, Issues, RestoredIdentity
<1>7. issued' \subseteq issued \cup {Issue} /\ issued \subseteq issued'
      /\ (database' # database => Issue \in issued')
      /\ issued \subseteq Issues
  BY <1>1 DEF ComposeCommit, TypeOK
<1>8. PersistTimeline(Composed, draft.id) \/ PersistTimelineFails(Composed, draft.id)
  BY DEF ComposeCommit
<1>9. step' = "idle" /\ draft' = NoDraft /\ handed' = handed
      /\ UNCHANGED <<settings_file, settings, identity, closed, outbox, repeats>>
  BY DEF ComposeCommit, radio
<1>10. /\ TypeOK' /\ Agreement' /\ StepsInOrder' /\ DurableStateLoads'
       /\ FiniteTimelines'
       /\ (status' = "Ready" => timeline' = Composed)
       /\ (database' = database \/ database'.timeline = Composed)
  <2>1. draft' \in [id : LocalIds \cup {NoId}, reply : Ids \cup {NoId}]
    BY <1>9 DEF NoDraft
  <2>2. outbox' \subseteq LocalIds /\ repeats' \subseteq LocalIds
    BY <1>1, <1>9 DEF TypeOK
  <2>3. draft.id \in Ids \cup {NoId}
    BY <1>1 DEF Ids
  <2>4. issued' \subseteq Issues
    BY <1>6, <1>7
  <2> HIDE DEF Composed, Issue
  <2> QED BY <2>1, <2>2, <2>3, <2>4, <1>1, <1>3, <1>4, <1>8, <1>9, HistoryStep
<1>11. WatermarkCovers'
  <2>1. \A i \in issued :
          i.sender = settings_file.install => i.seq <= settings_file.watermark
    BY DEF IInv, WatermarkCovers
  <2>2. settings_file.watermark \in Int
    BY <1>1 DEF TypeOK, Settings, SequenceNumbers
  <2>3. \A i \in issued' :
          i.sender = settings_file.install => i.seq <= settings_file.watermark
    <3> TAKE i \in issued'
    <3>1. CASE i \in issued
      BY <3>1, <2>1
    <3>2. CASE i = Issue
      BY <3>2, <2>2, <1>6
    <3> QED BY <3>1, <3>2, <1>7
  <2> QED BY <2>3, <1>9 DEF WatermarkCovers
<1>12. SequenceNeverReused'
  <2>1. \A i \in issued :
          i.sender = identity.install => i.seq < identity.last_issued
    BY <1>1 DEF IInv, WatermarkCovers
  <2>2. identity.last_issued \in Int
    BY <1>2 DEF SequenceNumbers
  <2>3. \A i \in issued : ~(i.sender = Issue.sender /\ i.seq = Issue.seq)
    BY <2>1, <2>2, <1>6
  <2> QED BY <2>3, <1>7 DEF IInv, SequenceNeverReused
<1>13. HandedHeld'
  <2>1. \A id \in handed : \E i \in issued : i.id = id
    BY DEF IInv, HandedHeld
  <2>2. draft.id \notin handed
    BY <2>1, <1>1 DEF IInv, WatermarkCovers
  <2>3. \A e \in timeline.entries : e.origin = "Queued" =>
          /\ \E i \in issued : i.id = e.id
          /\ e.id \in handed => e.id \in outbox
    BY <1>1 DEF IInv, HandedHeld
  <2>4. status' = "Ready" => Issue \in issued'
    <3>1. SUFFICES ASSUME status' = "Ready"
                   PROVE  database' # database
      BY <1>7
    <3>2. database'.timeline = Composed
      BY <3>1, <1>10, <1>9, BoundFacts DEF Agreement, Live, Idle, Bound, Database
    <3>3. database.timeline = timeline
      BY <1>5, BoundFacts
    <3>4. timeline.last_order \in Int
      BY <1>2 DEF Timelines, OrderNumbers
    <3> QED BY <3>2, <3>3, <3>4, <1>4
  <2>5. SUFFICES ASSUME status' = "Ready", NEW e \in timeline'.entries,
                        e.origin = "Queued"
                 PROVE  /\ \E i \in issued' : i.id = e.id
                        /\ e.id \in handed => e.id \in outbox
    BY <2>1, <1>7, <1>9 DEF HandedHeld, Live, Idle
  <2>6. timeline' = Composed
    BY <2>5, <1>10
  <2>7. CASE e \in timeline.entries
    BY <2>7, <2>3, <2>5, <1>7
  <2>8. CASE e.id = draft.id
    BY <2>8, <2>2, <2>4, <2>5, <1>6
  <2> QED BY <2>5, <2>6, <2>7, <2>8, <1>4
<1> QED BY <1>10, <1>11, <1>12, <1>13 DEF IInv

\* A write of the history that queues nothing new.
LEMMA NothingQueuedStep ==
  ASSUME IInv, Idle, NEW tl \in Timelines, IsFiniteSet(tl.entries),
         NEW id \in Ids \cup {NoId},
         PersistTimeline(tl, id) \/ PersistTimelineFails(tl, id),
         UNCHANGED <<settings_file, settings, identity, draft, step, closed,
                     issued, handed>>,
         outbox' \subseteq LocalIds, repeats' \subseteq LocalIds,
         \A e \in tl.entries : e.origin = "Queued" =>
           e \in timeline.entries /\ (e.id \in outbox => e.id \in outbox')
  PROVE  IInv'
<1>1. TypeOK /\ Live /\ status = "Ready" /\ step' = "idle" /\ step = "idle"
  BY DEF IInv, Idle, Live
<1>2. /\ TypeOK' /\ Agreement' /\ StepsInOrder' /\ DurableStateLoads'
      /\ FiniteTimelines'
      /\ (status' = "Ready" => timeline' = tl)
  <2>1. draft' \in [id : LocalIds \cup {NoId}, reply : Ids \cup {NoId}]
        /\ issued' \subseteq Issues
    BY <1>1 DEF TypeOK
  <2> QED BY <2>1, <1>1, HistoryStep
<1>3. WatermarkCovers' /\ SequenceNeverReused'
  BY <1>1 DEF IInv, WatermarkCovers, SequenceNeverReused
<1>4. HandedHeld'
  <2>1. \A e \in timeline.entries : e.origin = "Queued" =>
          /\ \E i \in issued : i.id = e.id
          /\ e.id \in handed => e.id \in outbox
    BY <1>1 DEF IInv, HandedHeld
  <2>2. Live' => timeline' = tl
    BY <1>1, <1>2 DEF Live, Idle
  <2>3. \A e \in tl.entries : e.origin = "Queued" =>
          /\ \E i \in issued : i.id = e.id
          /\ e.id \in handed => e.id \in outbox'
    BY <2>1
  <2> QED BY <2>2, <2>3 DEF IInv, HandedHeld
<1> QED BY <1>2, <1>3, <1>4 DEF IInv

LEMMA AcceptReceivedPostStep ==
  ASSUME IInv, NEW id \in Ids, AcceptReceivedPost(id)
  PROVE  IInv'
<1> DEFINE received == Insert(timeline, id, "Received", NoInstall, 0, NoId)
<1>1. timeline \in Timelines /\ IsFiniteSet(timeline.entries) /\ Idle
      /\ outbox \subseteq LocalIds /\ repeats \subseteq LocalIds
      /\ timeline.last_order < MaxOrder
  BY DEF IInv, TypeOK, FiniteTimelines, AcceptReceivedPost, InsertionAvailable
<1>2. 0 \in SequenceNumbers /\ id \in Ids
  BY SessionAssumption DEF SequenceNumbers, Ids
<1>3. received \in Timelines
  BY <1>1, <1>2, InsertTyped
<1>4. /\ \A e \in received.entries :
           e \in timeline.entries \/ (e.id = id /\ e.origin = "Received")
      /\ IsFiniteSet(received.entries)
  BY <1>1, InsertFacts
<1>5. PersistTimeline(received, id) \/ PersistTimelineFails(received, id)
  BY DEF AcceptReceivedPost
<1>6. UNCHANGED <<settings_file, settings, identity, draft, step, closed, issued,
                  handed, outbox, repeats>>
  BY DEF AcceptReceivedPost, radio, history
<1> HIDE DEF received
<1>7. \A e \in received.entries : e.origin = "Queued" =>
        e \in timeline.entries /\ (e.id \in outbox => e.id \in outbox')
  BY <1>4, <1>6
<1> QED BY <1>1, <1>2, <1>3, <1>4, <1>5, <1>6, <1>7, NothingQueuedStep

LEMMA EnqueueRefusedStep ==
  ASSUME IInv, NEW id \in LocalIds, EnqueueRefused(id)
  PROVE  IInv'
<1> DEFINE failed == Marked(timeline, id, "Failed")
<1>1. timeline \in Timelines /\ IsFiniteSet(timeline.entries) /\ Idle
      /\ outbox \subseteq LocalIds /\ repeats \subseteq LocalIds
  BY DEF IInv, TypeOK, FiniteTimelines, EnqueueRefused
<1>2. /\ failed \in Timelines
      /\ \A e \in failed.entries : e.origin = "Queued" => e \in timeline.entries
      /\ IsFiniteSet(failed.entries)
  BY <1>1, MarkedFacts DEF LocalStates
<1>3. PersistTimeline(failed, NoId) \/ PersistTimelineFails(failed, NoId)
  BY DEF EnqueueRefused
<1>4. UNCHANGED <<settings_file, settings, identity, draft, step, closed, issued,
                  handed, outbox, repeats>>
  BY DEF EnqueueRefused, radio, history
<1> HIDE DEF failed
<1>5. \A e \in failed.entries : e.origin = "Queued" =>
        e \in timeline.entries /\ (e.id \in outbox => e.id \in outbox')
  BY <1>2, <1>4
<1> QED BY <1>1, <1>2, <1>3, <1>4, <1>5, NothingQueuedStep

\* The post whose event the scheduler returned is no longer Queued when the
\* event is stored; when it is not stored, the session is not live any more.
LEMMA OutboundEventStep ==
  ASSUME IInv, NEW id \in LocalIds, NEW state \in {"Broadcast", "Failed"},
         OutboundEvent(id, state)
  PROVE  IInv'
<1> DEFINE marked == Marked(timeline, id, state)
<1>1. timeline \in Timelines /\ IsFiniteSet(timeline.entries) /\ Idle
      /\ outbox \subseteq LocalIds /\ repeats \subseteq LocalIds
  BY DEF IInv, TypeOK, FiniteTimelines, OutboundEvent
<1>2. /\ marked \in Timelines
      /\ \A e \in marked.entries : e.origin = "Queued" =>
           e \in timeline.entries /\ e.id # id
      /\ IsFiniteSet(marked.entries)
  BY <1>1, MarkedFacts DEF LocalStates
<1>3. PersistTimeline(marked, NoId) \/ PersistTimelineFails(marked, NoId)
  BY DEF OutboundEvent
<1>4. UNCHANGED <<settings_file, settings, identity, draft, step, closed, issued,
                  handed>>
  BY DEF OutboundEvent, history
<1>5. outbox' = outbox \ {id} /\ repeats' \subseteq repeats \cup {id}
  BY DEF OutboundEvent
<1> HIDE DEF marked
<1>6. \A e \in marked.entries : e.origin = "Queued" =>
        e \in timeline.entries /\ (e.id \in outbox => e.id \in outbox')
  BY <1>2, <1>5
<1>7. outbox' \subseteq LocalIds /\ repeats' \subseteq LocalIds
  BY <1>1, <1>5
<1> QED BY <1>1, <1>2, <1>3, <1>4, <1>6, <1>7, NothingQueuedStep

-----------------------------------------------------------------------------
(* The theorems *)

LEMMA InitStep == Init => IInv
<1> SUFFICES ASSUME Init PROVE IInv
  OBVIOUS
<1>1. settings_file = NoSettings /\ settings = NoSettings /\ database = NoDatabase
      /\ status = "Down" /\ step = "idle" /\ timeline = EmptyTimeline
      /\ ledger = EmptyLedger /\ draft = NoDraft /\ issued = {} /\ handed = {}
      /\ outbox = {} /\ repeats = {} /\ closed = FALSE /\ io = "ok"
      /\ identity = [install |-> NoInstall, user |-> DefaultUser, last_issued |-> 0]
  BY DEF Init
<1>2. TypeOK
  <2>1. identity \in [install : Installs \cup {NoInstall}, user : Users,
                      last_issued : SequenceNumbers]
    BY <1>1, SessionAssumption DEF SequenceNumbers, DefaultUser
  <2>2. draft \in [id : LocalIds \cup {NoId}, reply : Ids \cup {NoId}]
    BY <1>1 DEF NoDraft
  <2> QED BY <1>1, <2>1, <2>2, NoSettingsFacts, DefaultsTyped DEF TypeOK
<1>3. Agreement /\ StepsInOrder /\ WatermarkCovers /\ SequenceNeverReused
  BY <1>1 DEF Agreement, Live, Idle, StepsInOrder, WatermarkCovers,
              SequenceNeverReused
<1>4. DurableStateLoads
  BY <1>1, NoSettingsFacts DEF DurableStateLoads
<1>5. HandedHeld
  BY <1>1 DEF HandedHeld, Live, Idle
<1>6. FiniteTimelines
  BY <1>1, FS_EmptySet DEF FiniteTimelines, EmptyTimeline, NoDatabase, Database
<1> QED BY <1>2, <1>3, <1>4, <1>5, <1>6 DEF IInv

LEMMA StutterStep == ASSUME IInv, UNCHANGED vars PROVE IInv'
<1>1. TypeOK' /\ Agreement' /\ StepsInOrder'
  BY DEF IInv, vars, TypeOK, Agreement, Live, Idle, Bound, StepsInOrder
<1>2. DurableStateLoads' /\ WatermarkCovers' /\ SequenceNeverReused'
  BY DEF IInv, vars, DurableStateLoads, WatermarkCovers, SequenceNeverReused
<1>3. HandedHeld' /\ FiniteTimelines'
  BY DEF IInv, vars, HandedHeld, Live, Idle, FiniteTimelines
<1> QED BY <1>1, <1>2, <1>3 DEF IInv

LEMMA NextStep == IInv /\ [Next]_vars => IInv'
<1> SUFFICES ASSUME IInv, [Next]_vars PROVE IInv'
  OBVIOUS
<1>1. CASE Launch \/ LaunchFails
  BY <1>1, LaunchStep, LaunchFailsStep
<1>2. CASE \E i \in Installs : CreateSettings(i) \/ CreateSettingsFails(i)
  BY <1>2, CreateSettingsStep, CreateSettingsFailsStep
<1>3. CASE OpenEmptyHistory \/ SeedHistory \/ OpenHistoryFails
  BY <1>3, OpenEmptyHistoryStep, SeedHistoryStep, OpenHistoryFailsStep
<1>4. CASE FinalizeHistoryInitialization \/ FinalizeFails
  BY <1>4, FinalizeHistoryInitializationStep, FinalizeFailsStep
<1>5. CASE RestoreState \/ RestoreStateFails
  BY <1>5, RestoreStateStep, RestoreStateFailsStep
<1>6. CASE \E id \in LocalIds, reply \in Ids \cup {NoId} :
             ComposeReserve(id, reply) \/ ComposeReserveFails(id, reply)
  BY <1>6, ComposeReserveStep, ComposeReserveFailsStep
<1>7. CASE ComposeCommit
  BY <1>7, ComposeCommitStep
<1>8. CASE \E id \in Ids : AcceptReceivedPost(id)
  BY <1>8, AcceptReceivedPostStep
<1>9. CASE \E user \in Users : RenameUser(user)
  BY <1>9, RenameUserStep
<1>10. CASE \E prefs \in Prefs : SetPrefs(prefs)
  BY <1>10, SetPrefsStep
<1>11. CASE SettingsCommandFails
  BY <1>11, SettingsCommandFailsStep
<1>12. CASE \E id \in LocalIds : EnqueueQueuedPost(id) \/ EnqueueRefused(id)
  BY <1>12, EnqueueQueuedPostStep, EnqueueRefusedStep
<1>13. CASE \E id \in LocalIds, state \in {"Broadcast", "Failed"} :
              OutboundEvent(id, state)
  BY <1>13, OutboundEventStep
<1>14. CASE (\E id \in LocalIds : RepeatEnds(id)) \/ CloseTransport
  BY <1>14, RepeatEndsStep, CloseTransportStep
<1>15. CASE DeleteSettings \/ DeleteHistory \/ DeleteFails
  BY <1>15, DeleteSettingsStep, DeleteHistoryStep, DeleteFailsStep
<1>16. CASE Shutdown \/ Crash
  BY <1>16, ShutdownStep, CrashStep
<1>17. CASE UNCHANGED vars
  BY <1>17, StutterStep
<1> QED BY <1>1, <1>2, <1>3, <1>4, <1>5, <1>6, <1>7, <1>8, <1>9, <1>10, <1>11,
           <1>12, <1>13, <1>14, <1>15, <1>16, <1>17 DEF Next

\* The inductive invariant holds in every reachable state of the session.
THEOREM Invariance == Spec => []IInv
<1>1. Init => IInv
  BY InitStep
<1>2. IInv /\ [Next]_vars => IInv'
  BY NextStep
<1> QED BY <1>1, <1>2, PTL DEF Spec

\* Every variable of the session keeps its type.
THEOREM TypeCorrect == Spec => []TypeOK
<1>1. IInv => TypeOK
  BY DEF IInv
<1> QED BY <1>1, Invariance, PTL

\* Settings whose first launch finished always have a history that bootstrap
\* accepts, wherever persist_identity, persist_timeline, delete_all or the
\* process was cut short.
THEOREM DurableState == Spec => []DurableStateLoads
<1>1. IInv => DurableStateLoads
  BY DEF IInv
<1> QED BY <1>1, Invariance, PTL

\* compose never gives two stored posts of one install id the same sender
\* sequence.
THEOREM SequencesUnique == Spec => []SequenceNeverReused
<1>1. IInv => SequenceNeverReused
  BY DEF IInv
<1> QED BY <1>1, Invariance, PTL

\* Between two commands a Ready session shows exactly what is stored.
THEOREM ReadyIsDurable == Spec => []MemoryIsDurable
<1>1. IInv => MemoryIsDurable
  BY DEF IInv, Agreement, Live, MemoryIsDurable, RestoredIdentity
<1> QED BY <1>1, Invariance, PTL

\* enqueue_queued_posts hands a post to the scheduler once, restarts included.
THEOREM NoRetransmission == Spec => HandedOnce
<1>1. IInv /\ [Next]_vars => [\A id \in outbox' \ outbox : id \notin handed]_vars
  <2> SUFFICES ASSUME IInv, Next, NEW id \in outbox', id \notin outbox
               PROVE  id \notin handed
    OBVIOUS
  <2>1. PICK p \in LocalIds : EnqueueQueuedPost(p)
    <3>1. \/ \E p \in LocalIds : EnqueueQueuedPost(p)
          \/ outbox' \subseteq outbox
      BY DEF Next, Launch, LaunchFails, CreateSettings, CreateSettingsFails,
             OpenEmptyHistory, SeedHistory, OpenHistoryFails,
             FinalizeHistoryInitialization, FinalizeFails, RestoreState,
             RestoreStateFails, ComposeReserve, ComposeReserveFails,
             ComposeCommit, AcceptReceivedPost, RenameUser, SetPrefs,
             SettingsCommandFails, EnqueueRefused, OutboundEvent, RepeatEnds,
             CloseTransport, DeleteSettings, DeleteHistory, DeleteFails,
             Shutdown, Crash, Gone, radio
    <3> QED BY <3>1
  <2>2. id = p /\ Idle /\ \E e \in timeline.entries : e.origin = "Queued" /\ e.id = p
    BY <2>1 DEF EnqueueQueuedPost, Enqueueable, QueuedIds, IdsOf, Queued
  <2> QED BY <2>2 DEF IInv, HandedHeld, Live
<1> QED BY <1>1, Invariance, PTL DEF Spec, HandedOnce

-----------------------------------------------------------------------------
(* What the tables evict, and that the session accepts what it computed *)

\* The oldest of some records is one of them.
LEMMA OldestChosen ==
  ASSUME NEW S, S # {}, \A r \in S : r.order \in Nat
  PROVE  Oldest(S) \in S
<1> DEFINE R == OpToRel(<, Nat)
           T == {r.order : r \in S}
<1>1. IsWellFoundedOn(R, Nat)
  BY NatLessThanWellFounded
<1>2. \A m, n \in Nat : m < n => <<m, n>> \in R
  BY DEF OpToRel
<1>3. T \subseteq Nat /\ T # {}
  OBVIOUS
<1>4. \A x \in T : \E r \in S : r.order = x
  OBVIOUS
<1>5. \A r \in S : r.order \in T
  OBVIOUS
<1> HIDE DEF R, T
<1>6. PICK x \in T : \A y \in T : ~(<<y, x>> \in R)
  BY <1>1, <1>3, WFMin
<1>7. PICK r \in S : r.order = x
  BY <1>4
<1>8. \A s \in S : r.order <= s.order
  <2> TAKE s \in S
  <2>1. s.order \in T /\ s.order \in Nat /\ x \in Nat
    BY <1>3, <1>5
  <2>2. ~(s.order < x)
    BY <2>1, <1>2, <1>6
  <2> QED BY <2>1, <2>2, <1>7
<1> QED BY <1>7, <1>8 DEF Oldest

\* Timeline::insert, when it may: what goes is neither Queued nor the
\* protected parent, and there is room for what comes.
LEMMA InsertKeeps ==
  ASSUME NEW tl \in Timelines, IsFiniteSet(tl.entries),
         Cardinality(tl.entries) <= TimelineCapacity,
         NEW id, NEW origin, NEW sender, NEW seq, NEW protected,
         InsertionAvailable(tl, protected)
  PROVE  \E kept \in SUBSET tl.entries :
           /\ Insert(tl, id, origin, sender, seq, protected)
                = [entries |-> kept \cup
                     {[id |-> id, order |-> tl.last_order + 1, origin |-> origin,
                       sender |-> sender, seq |-> seq]},
                   last_order |-> tl.last_order + 1]
           /\ \A e \in tl.entries :
                e.origin = "Queued" \/ e.id = protected => e \in kept
           /\ IsFiniteSet(kept) /\ Cardinality(kept) < TimelineCapacity
<1> DEFINE E == Evictable(tl.entries, protected)
           kept == IF Cardinality(tl.entries) < TimelineCapacity THEN tl.entries
                   ELSE tl.entries \ {Oldest(E)}
<1>1. tl.entries \subseteq Entries
  BY DEF Timelines
<1>2. \A e \in Entries : e.order \in Nat
  BY SessionAssumption DEF Entries, OrderNumbers
<1>3. Cardinality(tl.entries) \in Nat /\ TimelineCapacity \in Nat
  BY FS_CardinalityType, SessionAssumption
<1>4. kept \in SUBSET tl.entries
  OBVIOUS
<1>5. Insert(tl, id, origin, sender, seq, protected)
        = [entries |-> kept \cup
             {[id |-> id, order |-> tl.last_order + 1, origin |-> origin,
               sender |-> sender, seq |-> seq]},
           last_order |-> tl.last_order + 1]
  BY DEF Insert
<1>6. CASE Cardinality(tl.entries) < TimelineCapacity
  <2>1. kept = tl.entries
    BY <1>6
  <2> HIDE DEF kept
  <2> QED BY <2>1, <1>4, <1>5, <1>6
<1>7. CASE ~(Cardinality(tl.entries) < TimelineCapacity)
  <2>1. kept = tl.entries \ {Oldest(E)}
    BY <1>7
  <2>2. E # {} /\ E \subseteq tl.entries
    BY <1>7 DEF InsertionAvailable, Evictable
  <2>3. \A r \in E : r.order \in Nat
    BY <2>2, <1>1, <1>2
  <2> HIDE DEF kept, E
  <2>4. Oldest(E) \in E
    BY <2>2, <2>3, OldestChosen
  <2>5. \A e \in tl.entries : e.origin = "Queued" \/ e.id = protected => e \in kept
    BY <2>1, <2>4 DEF E, Evictable
  <2>6. IsFiniteSet(kept) /\ Cardinality(kept) = Cardinality(tl.entries) - 1
    BY <2>1, <2>2, <2>4, FS_RemoveElement
  <2>7. Cardinality(kept) < TimelineCapacity
    BY <2>6, <1>3
  <2> QED BY <2>5, <2>6, <2>7, <1>4, <1>5
<1> QED BY <1>6, <1>7

\* MessageDedupeWindow::remember, with every id of the timeline protected.  A
\* new id finds room: the ledger holds at least as many posts as the timeline.
LEMMA RememberKeeps ==
  ASSUME NEW l \in Ledgers, IsFiniteSet(l.seen), Numbered(l.seen, l.last_seen),
         Cardinality(l.seen) <= LedgerCapacity, l.last_seen < MaxOrder,
         NEW kept, IsFiniteSet(kept), Cardinality(kept) < TimelineCapacity,
         NEW entry, entry.id \notin IdsOf(l.seen)
  PROVE  /\ CanRemember(l, kept \cup {entry})
         /\ \E left \in SUBSET l.seen :
              /\ Remember(l, entry.id, kept \cup {entry})
                   = [seen |-> left \cup {[id |-> entry.id, order |-> l.last_seen + 1]},
                      last_seen |-> l.last_seen + 1]
              /\ \A r \in l.seen : r.id \in IdsOf(kept) => r \in left
              /\ IsFiniteSet(left) /\ Cardinality(left) < LedgerCapacity
<1> DEFINE all == kept \cup {entry}
           U == Unprotected(l, all)
           left == IF Cardinality(l.seen) < LedgerCapacity THEN l.seen
                   ELSE l.seen \ {Oldest(U)}
<1>1. /\ Cardinality(l.seen) \in Nat /\ Cardinality(kept) \in Nat
      /\ TimelineCapacity \in Nat /\ LedgerCapacity \in Nat
      /\ LedgerCapacity >= TimelineCapacity
  BY FS_CardinalityType, SessionAssumption
<1>2. left \in SUBSET l.seen
  OBVIOUS
<1>3. Remember(l, entry.id, all)
        = [seen |-> left \cup {[id |-> entry.id, order |-> l.last_seen + 1]},
           last_seen |-> l.last_seen + 1]
  BY DEF Remember
<1>4. CASE Cardinality(l.seen) < LedgerCapacity
  <2>1. left = l.seen /\ CanRemember(l, all)
    BY <1>4 DEF CanRemember
  <2> HIDE DEF left
  <2> QED BY <2>1, <1>2, <1>3, <1>4
<1>5. CASE ~(Cardinality(l.seen) < LedgerCapacity)
  <2>1. left = l.seen \ {Oldest(U)}
    BY <1>5
  <2>2. U # {}
    <3> SUFFICES ASSUME U = {} PROVE FALSE
      OBVIOUS
    <3>1. \A r \in l.seen : r.id # entry.id
      BY DEF IdsOf
    <3>2. \A r \in l.seen : \E e \in kept : e.id = r.id
      BY <3>1 DEF Unprotected, IdsOf
    <3> DEFINE g == [r \in l.seen |-> CHOOSE e \in kept : e.id = r.id]
    <3>3. \A r \in l.seen : g[r] \in kept /\ g[r].id = r.id
      BY <3>2
    <3>4. \A r, s \in l.seen : r.id = s.id => r = s
      BY DEF Numbered
    <3>5. g \in [l.seen -> kept]
      BY <3>3
    <3> HIDE DEF g
    <3>6. IsInjective(g)
      BY <3>3, <3>4, <3>5 DEF IsInjective
    <3>7. g \in Injection(l.seen, kept)
      BY <3>5, <3>6 DEF Injection
    <3>8. Cardinality(l.seen) <= Cardinality(kept)
      BY <3>7, FS_Injection
    <3> QED BY <3>8, <1>1, <1>5
  <2>3. U \subseteq l.seen /\ CanRemember(l, all)
    BY <2>2 DEF Unprotected, CanRemember
  <2>4. \A r \in U : r.order \in Nat
    BY <2>3, SessionAssumption DEF Ledgers, OrderNumbers
  <2>5. Oldest(U) \in U
    <3> HIDE DEF U
    <3> QED BY <2>2, <2>4, OldestChosen
  <2> HIDE DEF left
  <2>6. \A r \in l.seen : r.id \in IdsOf(kept) => r \in left
    BY <2>1, <2>5 DEF Unprotected, IdsOf
  <2> HIDE DEF U
  <2>7. IsFiniteSet(left) /\ Cardinality(left) = Cardinality(l.seen) - 1
    BY <2>1, <2>3, <2>5, FS_RemoveElement
  <2>8. Cardinality(left) < LedgerCapacity
    BY <2>7, <1>1
  <2> QED BY <2>3, <2>6, <2>7, <2>8, <1>2, <1>3
<1> QED BY <1>4, <1>5

\* Timeline::transition keeps every id, and a valid snapshot valid.
LEMMA MarkedKeeps ==
  ASSUME NEW tl \in Timelines, IsFiniteSet(tl.entries), NEW id,
         NEW target \in LocalStates, target # "Queued"
  PROVE  LET new == Marked(tl, id, target) IN
         /\ new.last_order = tl.last_order
         /\ IdsOf(new.entries) = IdsOf(tl.entries)
         /\ \A l, s : ValidSnapshot(tl, l, s) => ValidSnapshot(new, l, s)
<1> DEFINE f == [e \in tl.entries |->
                   IF e.id = id /\ e.origin = "Queued"
                   THEN [e EXCEPT !.origin = target] ELSE e]
           image == {f[e] : e \in tl.entries}
<1>1. tl.entries \subseteq Entries
  BY DEF Timelines
<1>2. \A e \in tl.entries :
        /\ f[e].origin = "Queued" => f[e] = e
        /\ f[e].id = e.id /\ f[e].order = e.order
        /\ f[e].sender = e.sender /\ f[e].seq = e.seq
        /\ f[e].origin = "Received" <=> e.origin = "Received"
  <2> TAKE e \in tl.entries
  <2>1. e \in Entries
    BY <1>1
  <2>2. CASE e.id = id /\ e.origin = "Queued"
    <3>1. f[e] = [e EXCEPT !.origin = target]
      BY <2>2
    <3>2. target # "Received"
      BY DEF LocalStates
    <3> QED BY <3>1, <3>2, <2>1, <2>2 DEF Entries
  <2>3. CASE ~(e.id = id /\ e.origin = "Queued")
    <3>1. f[e] = e
      BY <2>3
    <3> QED BY <3>1, <2>3
  <2> QED BY <2>2, <2>3
<1>3. Marked(tl, id, target).entries = image
      /\ Marked(tl, id, target).last_order = tl.last_order
  BY DEF Marked, Timelines
<1>4. IsFiniteSet(image) /\ Cardinality(image) <= Cardinality(tl.entries)
  <2>1. f \in Surjection(tl.entries, image)
    BY DEF Surjection
  <2> QED BY <2>1, FS_Surjection
<1>5. \A g \in image : \E e \in tl.entries : g = f[e]
  OBVIOUS
<1>6. \A e \in tl.entries : f[e] \in image
  OBVIOUS
<1> HIDE DEF f, image
<1>7. \A g \in image : \E e \in tl.entries :
        /\ g = f[e] /\ g.id = e.id /\ g.order = e.order
        /\ g.sender = e.sender /\ g.seq = e.seq
        /\ g.origin = "Received" <=> e.origin = "Received"
  BY <1>2, <1>5
<1>8. IdsOf(image) = IdsOf(tl.entries)
  BY <1>2, <1>6, <1>7 DEF IdsOf
<1>9. Queued(image) \subseteq Queued(tl.entries)
  BY <1>2, <1>5 DEF Queued
<1>10. ASSUME NEW l, NEW s, ValidSnapshot(tl, l, s)
       PROVE  ValidSnapshot(Marked(tl, id, target), l, s)
  <2>1. Numbered(tl.entries, tl.last_order)
    BY <1>10 DEF ValidSnapshot
  <2>2. Numbered(image, tl.last_order)
    <3>1. \A g \in image : g.order \in 1 .. tl.last_order
      BY <1>7, <2>1 DEF Numbered
    <3>2. ASSUME NEW g \in image, NEW h \in image,
                 g.id = h.id \/ g.order = h.order
          PROVE  g = h
      <4>1. PICK e \in tl.entries : g = f[e] /\ g.id = e.id /\ g.order = e.order
        BY <1>7
      <4>2. PICK d \in tl.entries : h = f[d] /\ h.id = d.id /\ h.order = d.order
        BY <1>7
      <4>3. e = d
        BY <4>1, <4>2, <3>2, <2>1 DEF Numbered
      <4> QED BY <4>1, <4>2, <4>3
    <3> QED BY <3>1, <3>2 DEF Numbered
  <2>3. \A g \in Local(image) : g.sender = s.install /\ g.seq \in 1 .. s.watermark
    <3>1. \A e \in Local(tl.entries) :
            e.sender = s.install /\ e.seq \in 1 .. s.watermark
      BY <1>10 DEF ValidSnapshot
    <3> QED BY <3>1, <1>7 DEF Local
  <2>4. \A g, h \in Local(image) : g.order < h.order => g.seq < h.seq
    <3>1. \A e, d \in Local(tl.entries) : e.order < d.order => e.seq < d.seq
      BY <1>10 DEF ValidSnapshot
    <3> QED BY <3>1, <1>7 DEF Local
  <2>5. Cardinality(Queued(image)) <= MaxQueued
    <3>1. Queued(tl.entries) \subseteq tl.entries
      BY DEF Queued
    <3>2. IsFiniteSet(Queued(tl.entries))
      BY <3>1, FS_Subset
    <3>3. IsFiniteSet(Queued(image))
          /\ Cardinality(Queued(image)) <= Cardinality(Queued(tl.entries))
      BY <3>2, <1>9, FS_Subset
    <3>4. Cardinality(Queued(tl.entries)) <= MaxQueued
      BY <1>10 DEF ValidSnapshot
    <3>5. Cardinality(Queued(tl.entries)) \in Nat /\ Cardinality(Queued(image)) \in Nat
      BY <3>2, <3>3, FS_CardinalityType
    <3> QED BY <3>3, <3>4, <3>5, SessionAssumption
  <2>6. Cardinality(image) <= TimelineCapacity
    <3>1. Cardinality(tl.entries) <= TimelineCapacity
      BY <1>10 DEF ValidSnapshot
    <3>2. Cardinality(tl.entries) \in Nat /\ Cardinality(image) \in Nat
      BY <1>4, FS_CardinalityType
    <3> QED BY <3>1, <3>2, <1>4, SessionAssumption
  <2>7. /\ Cardinality(l.seen) <= LedgerCapacity
        /\ Numbered(l.seen, l.last_seen)
        /\ l.last_seen > 0 => \E r \in l.seen : r.order = l.last_seen
        /\ IdsOf(image) \subseteq IdsOf(l.seen)
    BY <1>8, <1>10 DEF ValidSnapshot
  <2> QED BY <2>2, <2>3, <2>4, <2>5, <2>6, <2>7, <1>3 DEF ValidSnapshot
<1> QED BY <1>3, <1>8, <1>10

LEMMA OneMore ==
  ASSUME NEW S, NEW x, IsFiniteSet(S)
  PROVE  /\ IsFiniteSet(S \cup {x})
         /\ Cardinality(S \cup {x}) \in Nat /\ Cardinality(S) \in Nat
         /\ Cardinality(S \cup {x}) <= Cardinality(S) + 1
<1>1. IsFiniteSet(S \cup {x})
      /\ Cardinality(S \cup {x}) = IF x \in S THEN Cardinality(S)
                                    ELSE Cardinality(S) + 1
  BY FS_AddElement
<1>2. Cardinality(S) \in Nat
  BY FS_CardinalityType
<1>3. Cardinality(S \cup {x}) \in Nat
  BY <1>1, FS_CardinalityType
<1>4. Cardinality(S \cup {x}) <= Cardinality(S) + 1
  BY <1>1, <1>2
<1> QED BY <1>1, <1>2, <1>3, <1>4

\* A new post keeps a valid snapshot valid: one that is received, or one of
\* this device with the highest sequence and room among the Queued ones.
LEMMA InsertValid ==
  ASSUME NEW tl \in Timelines, NEW l \in Ledgers, NEW s \in Settings,
         IsFiniteSet(tl.entries), IsFiniteSet(l.seen), ValidSnapshot(tl, l, s),
         NEW entry, entry.order = tl.last_order + 1, entry.id \notin IdsOf(l.seen),
         \/ entry.origin = "Received"
         \/ /\ entry.sender = s.install /\ entry.seq \in 1 .. s.watermark
            /\ \A e \in Local(tl.entries) : e.seq < entry.seq
            /\ Cardinality(Queued(tl.entries)) < MaxQueued,
         NEW kept \in SUBSET tl.entries, Cardinality(kept) < TimelineCapacity,
         NEW left \in SUBSET l.seen, Cardinality(left) < LedgerCapacity,
         \A r \in l.seen : r.id \in IdsOf(kept) => r \in left,
         NEW tl2, tl2 = [entries |-> kept \cup {entry},
                         last_order |-> tl.last_order + 1],
         NEW l2, l2 = [seen |-> left \cup {[id |-> entry.id, order |-> l.last_seen + 1]},
                       last_seen |-> l.last_seen + 1]
  PROVE  ValidSnapshot(tl2, l2, s)
<1> DEFINE record == [id |-> entry.id, order |-> l.last_seen + 1]
<1>1. tl.last_order \in Nat /\ l.last_seen \in Nat
  BY SessionAssumption DEF Timelines, Ledgers, OrderNumbers
<1>2. tl2.entries = kept \cup {entry} /\ tl2.last_order = tl.last_order + 1
      /\ l2.seen = left \cup {record} /\ l2.last_seen = l.last_seen + 1
      /\ record.id = entry.id /\ record.order = l.last_seen + 1
  OBVIOUS
<1> HIDE DEF record
<1>3. Numbered(tl.entries, tl.last_order) /\ Numbered(l.seen, l.last_seen)
      /\ IdsOf(tl.entries) \subseteq IdsOf(l.seen)
  BY DEF ValidSnapshot
<1>4. IsFiniteSet(kept) /\ IsFiniteSet(left)
  BY FS_Subset
<1>5. Cardinality(tl2.entries) <= TimelineCapacity
  <2>1. /\ Cardinality(tl2.entries) \in Nat /\ Cardinality(kept) \in Nat
        /\ Cardinality(tl2.entries) <= Cardinality(kept) + 1
    BY <1>2, <1>4, OneMore
  <2> QED BY <2>1, SessionAssumption
<1>6. Cardinality(l2.seen) <= LedgerCapacity
  <2>1. /\ Cardinality(l2.seen) \in Nat /\ Cardinality(left) \in Nat
        /\ Cardinality(l2.seen) <= Cardinality(left) + 1
    BY <1>2, <1>4, OneMore
  <2> QED BY <2>1, SessionAssumption
<1>7. \A e \in kept : e.id # entry.id /\ e.order \in 1 .. tl.last_order
  BY <1>3 DEF Numbered, IdsOf
<1>8. \A r \in left : r.id # entry.id /\ r.order \in 1 .. l.last_seen
  BY <1>3 DEF Numbered, IdsOf
<1>9. Numbered(tl2.entries, tl2.last_order)
  <2>1. \A e \in tl2.entries : e.order \in 1 .. tl2.last_order
    BY <1>1, <1>2, <1>7
  <2>2. \A d, e \in kept : (d.id = e.id \/ d.order = e.order) => d = e
    BY <1>3 DEF Numbered
  <2>3. \A e \in kept : e.order # entry.order
    BY <1>1, <1>7
  <2> QED BY <2>1, <2>2, <2>3, <1>2, <1>7 DEF Numbered
<1>10. Numbered(l2.seen, l2.last_seen)
  <2>1. \A e \in l2.seen : e.order \in 1 .. l2.last_seen
    BY <1>1, <1>2, <1>8
  <2>2. \A d, e \in left : (d.id = e.id \/ d.order = e.order) => d = e
    BY <1>3 DEF Numbered
  <2>3. \A e \in left : e.order # record.order
    BY <1>1, <1>2, <1>8
  <2> QED BY <2>1, <2>2, <2>3, <1>2, <1>8 DEF Numbered
<1>11. \E r \in l2.seen : r.order = l2.last_seen
  BY <1>2
<1>12. \A e \in Local(tl2.entries) :
         /\ e \in Local(tl.entries) \/ (e = entry /\ entry.origin # "Received")
         /\ e.sender = s.install /\ e.seq \in 1 .. s.watermark
  <2>1. \A e \in Local(tl.entries) :
          e.sender = s.install /\ e.seq \in 1 .. s.watermark
    BY DEF ValidSnapshot
  <2> QED BY <2>1, <1>2 DEF Local
<1>13. \A e, f \in Local(tl2.entries) : e.order < f.order => e.seq < f.seq
  <2>1. \A e, f \in Local(tl.entries) : e.order < f.order => e.seq < f.seq
    BY DEF ValidSnapshot
  <2>2. \A e \in Local(tl.entries) : e.order \in 1 .. tl.last_order
    BY <1>3 DEF Local, Numbered
  <2>3. \A e \in Local(tl.entries) : ~(entry.order < e.order)
    BY <2>2, <1>1
  <2>4. ~(entry.order < entry.order)
    BY <1>1
  <2> QED BY <2>1, <2>3, <2>4, <1>12
<1>14. Cardinality(Queued(tl2.entries)) <= MaxQueued
  <2>1. Queued(tl.entries) \subseteq tl.entries
    BY DEF Queued
  <2>2. IsFiniteSet(Queued(tl.entries)) /\ Cardinality(Queued(tl.entries)) \in Nat
    BY <2>1, FS_Subset, FS_CardinalityType
  <2>3. CASE entry.origin = "Received"
    <3>1. Queued(tl2.entries) \subseteq Queued(tl.entries)
      BY <2>3, <1>2 DEF Queued
    <3>2. IsFiniteSet(Queued(tl2.entries))
          /\ Cardinality(Queued(tl2.entries)) <= Cardinality(Queued(tl.entries))
      BY <3>1, <2>2, FS_Subset
    <3>3. Cardinality(Queued(tl2.entries)) \in Nat
      BY <3>2, FS_CardinalityType
    <3>4. Cardinality(Queued(tl.entries)) <= MaxQueued
      BY DEF ValidSnapshot
    <3> QED BY <3>2, <3>3, <3>4, <2>2, SessionAssumption
  <2>4. CASE Cardinality(Queued(tl.entries)) < MaxQueued
    <3> DEFINE more == Queued(tl.entries) \cup {entry}
    <3>1. Queued(tl2.entries) \subseteq more
      BY <1>2 DEF Queued
    <3>2. IsFiniteSet(more) /\ Cardinality(more) <= Cardinality(Queued(tl.entries)) + 1
      BY <2>2, OneMore
    <3> HIDE DEF more
    <3>3. IsFiniteSet(Queued(tl2.entries))
          /\ Cardinality(Queued(tl2.entries)) <= Cardinality(more)
      BY <3>1, <3>2, FS_Subset
    <3>4. Cardinality(Queued(tl2.entries)) \in Nat /\ Cardinality(more) \in Nat
      BY <3>2, <3>3, FS_CardinalityType
    <3> QED BY <2>2, <2>4, <3>2, <3>3, <3>4, SessionAssumption
  <2> QED BY <2>3, <2>4
<1>15. IdsOf(tl2.entries) \subseteq IdsOf(l2.seen)
  <2>1. \A e \in kept : \E r \in left : r.id = e.id
    BY <1>3 DEF IdsOf
  <2> QED BY <2>1, <1>2 DEF IdsOf
<1> QED BY <1>5, <1>6, <1>9, <1>10, <1>11, <1>12, <1>13, <1>14, <1>15
        DEF ValidSnapshot

-----------------------------------------------------------------------------
(* The session's own writes are accepted *)

BootSteps == {"create", "open", "seed", "finalize", "restore"}

\* The timeline of a process that is not up yet is empty.
NothingShown == status = "Down" \/ step \in BootSteps => timeline = EmptyTimeline

OwnInstall == settings_file.initialized => settings_file.install \in Installs

\* Timeline and ledger are numbered alike, and the own posts among the seen
\* ones have been issued.
LedgerFollows ==
  /\ database.timeline.last_order = database.ledger.last_seen
  /\ IsFiniteSet(database.ledger.seen)
  /\ \A r \in database.ledger.seen :
       r.id \in LocalIds => \E i \in issued : i.id = r.id

\* What compose has tested before persist_identity still holds after it.
PlaceKept ==
  step = "commit" =>
    /\ InsertionAvailable(timeline, draft.reply)
    /\ draft.reply # NoId => draft.reply \in IdsOf(timeline.entries)
    /\ Cardinality(Queued(timeline.entries)) < QueuedCapacity
    /\ identity.last_issued >= 1
    /\ \A e \in Local(timeline.entries) : e.seq < identity.last_issued

Inward == NothingShown /\ OwnInstall /\ LedgerFollows /\ PlaceKept

\* What a live session knows of its timeline and ledger.
LEMMA LiveFacts ==
  ASSUME IInv, Inward, Live
  PROVE  /\ timeline \in Timelines /\ IsFiniteSet(timeline.entries)
         /\ ledger \in Ledgers /\ IsFiniteSet(ledger.seen)
         /\ settings \in Settings
         /\ ValidSnapshot(timeline, ledger, settings)
         /\ timeline.last_order = ledger.last_seen
         /\ timeline.last_order \in Nat
         /\ database.timeline = timeline /\ database.ledger = ledger
         /\ database.install = settings.install
         /\ settings = settings_file /\ settings.install \in Installs
<1>1. settings = settings_file /\ database = Bound(timeline, ledger)
      /\ settings.initialized /\ settings.install \in Installs
  BY DEF IInv, Agreement
<1>2. database.timeline = timeline /\ database.ledger = ledger
      /\ database.install = settings.install
  BY <1>1, BoundFacts
<1>3. ValidSnapshot(timeline, ledger, settings)
  BY <1>1, <1>2 DEF IInv, DurableStateLoads, Loadable
<1>4. timeline \in Timelines /\ ledger \in Ledgers /\ settings \in Settings
      /\ IsFiniteSet(timeline.entries)
  BY DEF IInv, TypeOK, FiniteTimelines
<1>5. timeline.last_order \in Nat
  BY <1>4, SessionAssumption DEF Timelines, OrderNumbers
<1>6. timeline.last_order = ledger.last_seen /\ IsFiniteSet(ledger.seen)
  BY <1>2 DEF Inward, LedgerFollows
<1> QED BY <1>1, <1>2, <1>3, <1>4, <1>5, <1>6

\* mark_broadcast, mark_failed: save_snapshot takes the marked timeline.
LEMMA MarkAcceptable ==
  ASSUME IInv, Inward, Live, NEW id, NEW target \in LocalStates, target # "Queued"
  PROVE  /\ Acceptable(Marked(timeline, id, target), NoId)
         /\ LedgerWith(Marked(timeline, id, target), NoId) = ledger
<1>1. PICK new : new = Marked(timeline, id, target)
  OBVIOUS
<1>2. ValidSnapshot(new, ledger, settings) /\ new.last_order = timeline.last_order
  BY <1>1, LiveFacts, MarkedKeeps
<1>3. LedgerWith(new, NoId) = ledger
  BY DEF LedgerWith
<1>4. ledger.last_seen \in Nat /\ timeline.last_order \in Nat
  BY LiveFacts
<1>5. Writable(new, ledger)
  BY <1>2, <1>4, LiveFacts DEF Writable
<1> QED BY <1>1, <1>3, <1>5 DEF Acceptable

\* compose and accept_received: save_snapshot takes the timeline with the new
\* post, and the ledger has room for it.
LEMMA InsertAcceptable ==
  ASSUME IInv, Inward, Live, NEW id \in Ids, NEW origin, NEW sender, NEW seq,
         NEW protected, InsertionAvailable(timeline, protected),
         id \notin IdsOf(ledger.seen),
         \/ origin = "Received"
         \/ /\ sender = settings.install /\ seq \in 1 .. settings.watermark
            /\ \A e \in Local(timeline.entries) : e.seq < seq
            /\ Cardinality(Queued(timeline.entries)) < MaxQueued,
         NEW new, new = Insert(timeline, id, origin, sender, seq, protected)
  PROVE  /\ Acceptable(new, id)
         /\ \A e \in timeline.entries :
              e.origin = "Queued" \/ e.id = protected => e \in new.entries
         /\ new.last_order = LedgerWith(new, id).last_seen
         /\ IsFiniteSet(LedgerWith(new, id).seen)
         /\ \A r \in LedgerWith(new, id).seen : r \in ledger.seen \/ r.id = id
<1> DEFINE entry == [id |-> id, order |-> timeline.last_order + 1,
                     origin |-> origin, sender |-> sender, seq |-> seq]
           l == Remember(ledger, id, new.entries)
<1>1. Cardinality(timeline.entries) <= TimelineCapacity
      /\ Cardinality(ledger.seen) <= LedgerCapacity
      /\ Numbered(ledger.seen, ledger.last_seen)
      /\ timeline.last_order < MaxOrder
  BY LiveFacts DEF ValidSnapshot, InsertionAvailable
<1>2. entry.id = id /\ entry.order = timeline.last_order + 1
      /\ entry.origin = origin /\ entry.sender = sender /\ entry.seq = seq
  OBVIOUS
<1>3. PICK kept \in SUBSET timeline.entries :
        /\ new = [entries |-> kept \cup {entry},
                  last_order |-> timeline.last_order + 1]
        /\ \A e \in timeline.entries :
             e.origin = "Queued" \/ e.id = protected => e \in kept
        /\ IsFiniteSet(kept) /\ Cardinality(kept) < TimelineCapacity
  BY <1>1, LiveFacts, InsertKeeps
<1> HIDE DEF entry
<1>4. new.entries = kept \cup {entry} /\ new.last_order = timeline.last_order + 1
  BY <1>3
<1>5. ledger.last_seen < MaxOrder /\ entry.id \notin IdsOf(ledger.seen)
  BY <1>1, <1>2, LiveFacts
<1>6. CanRemember(ledger, kept \cup {entry})
      /\ \E left \in SUBSET ledger.seen :
           /\ Remember(ledger, entry.id, kept \cup {entry})
                = [seen |-> left \cup
                     {[id |-> entry.id, order |-> ledger.last_seen + 1]},
                   last_seen |-> ledger.last_seen + 1]
           /\ \A r \in ledger.seen : r.id \in IdsOf(kept) => r \in left
           /\ IsFiniteSet(left) /\ Cardinality(left) < LedgerCapacity
  BY <1>1, <1>3, <1>5, LiveFacts, RememberKeeps
<1>7. PICK left \in SUBSET ledger.seen :
        /\ l = [seen |-> left \cup
                  {[id |-> entry.id, order |-> ledger.last_seen + 1]},
                last_seen |-> ledger.last_seen + 1]
        /\ \A r \in ledger.seen : r.id \in IdsOf(kept) => r \in left
        /\ IsFiniteSet(left) /\ Cardinality(left) < LedgerCapacity
  BY <1>2, <1>4, <1>6
<1>8. id # NoId /\ LedgerWith(new, id) = l
  BY SessionAssumption DEF LedgerWith
<1> HIDE DEF l
<1>9. l.last_seen = ledger.last_seen + 1
      /\ l.seen = left \cup {[id |-> entry.id, order |-> ledger.last_seen + 1]}
  BY <1>7
<1>10. ValidSnapshot(new, l, settings)
  BY <1>2, <1>3, <1>5, <1>7, LiveFacts, InsertValid
<1>11. Writable(new, l)
  <2>1. ledger.last_seen \in Nat /\ timeline.last_order \in Nat
    BY LiveFacts
  <2>2. new.last_order >= timeline.last_order /\ l.last_seen > ledger.last_seen
    BY <2>1, <1>4, <1>9
  <2>3. l.last_seen >= ledger.last_seen /\ l.last_seen # ledger.last_seen
    BY <2>1, <1>9
  <2> QED BY <2>2, <2>3, <1>10, LiveFacts DEF Writable
<1>12. Acceptable(new, id)
  BY <1>4, <1>6, <1>8, <1>11 DEF Acceptable
<1>13. new.last_order = l.last_seen
  BY <1>4, <1>9, LiveFacts
<1>14. IsFiniteSet(l.seen)
  BY <1>7, <1>9, FS_AddElement
<1>15. \A r \in l.seen : r \in ledger.seen \/ r.id = id
  BY <1>2, <1>7, <1>9
<1> QED BY <1>3, <1>4, <1>8, <1>12, <1>13, <1>14, <1>15

\* What a write of the history does: it fails only with storage, keeps every
\* Queued post and the reply's parent, and leaves timeline and ledger in step.
Written ==
  /\ status' = "RecoveryRequired" => io' = "fault"
  /\ QueuedIds \subseteq IdsOf(timeline'.entries)
  /\ step = "commit" /\ draft.reply # NoId =>
       draft.reply \in IdsOf(timeline'.entries)
  /\ LedgerFollows'
  /\ step' = "idle" /\ status' # "Down" /\ settings_file' = settings_file

LEMMA HistoryWrite ==
  ASSUME status = "Ready", NEW tl, NEW id, Acceptable(tl, id),
         PersistTimeline(tl, id) \/ PersistTimelineFails(tl, id)
  PROVE  /\ status' = "RecoveryRequired" => io' = "fault"
         /\ status' # "Down"
         /\ timeline' \in {timeline, tl}
         /\ \/ database' = database
            \/ database'.timeline = tl /\ database'.ledger = LedgerWith(tl, id)
<1>1. CASE PersistTimeline(tl, id)
  <2>1. status' = status /\ timeline' = tl /\ database' = Bound(tl, LedgerWith(tl, id))
    BY <1>1 DEF PersistTimeline
  <2> QED BY <2>1, BoundFacts
<1>2. CASE PersistTimelineFails(tl, id)
  <2>1. status' = "RecoveryRequired" /\ timeline' = timeline /\ io' = "fault"
        /\ database' \in {database, Bound(tl, LedgerWith(tl, id))}
    BY <1>2 DEF PersistTimelineFails, AfterFailure
  <2> QED BY <2>1, BoundFacts
<1> QED BY <1>1, <1>2

\* compose, from persist_timeline on.
LEMMA ComposeWrites ==
  ASSUME IInv, Inward, ComposeCommit
  PROVE  Written
<1>1. step = "commit" /\ Live /\ status = "Ready" /\ draft.id \in LocalIds
      /\ draft.id \in Ids
  BY DEF IInv, WatermarkCovers, ComposeCommit, Live, Ids
<1>2. identity.install = settings.install
      /\ identity.last_issued = settings.watermark
      /\ settings.watermark \in Nat /\ identity.last_issued >= 1
  <2>1. identity = RestoredIdentity(settings)
    BY <1>1 DEF IInv, Agreement
  <2>2. settings.watermark \in Nat
    BY SessionAssumption DEF IInv, TypeOK, Settings, SequenceNumbers
  <2> QED BY <2>1, <2>2, <1>1 DEF RestoredIdentity, Inward, PlaceKept
<1>3. \A i \in issued : i.id # draft.id
  BY <1>1 DEF IInv, WatermarkCovers
<1>4. draft.id \notin IdsOf(ledger.seen)
  BY <1>1, <1>3, LiveFacts DEF Inward, LedgerFollows, IdsOf
<1>5. Cardinality(Queued(timeline.entries)) < MaxQueued
  <2>1. Queued(timeline.entries) \subseteq timeline.entries
    BY DEF Queued
  <2>2. IsFiniteSet(Queued(timeline.entries))
    BY <2>1, <1>1, LiveFacts, FS_Subset
  <2>3. Cardinality(Queued(timeline.entries)) \in Nat
    BY <2>2, FS_CardinalityType
  <2>4. Cardinality(Queued(timeline.entries)) < QueuedCapacity
    BY <1>1 DEF Inward, PlaceKept
  <2> QED BY <2>3, <2>4, SessionAssumption DEF QueuedCapacity
<1>6. identity.last_issued \in 1 .. settings.watermark
  BY <1>2
<1>7. /\ InsertionAvailable(timeline, draft.reply)
      /\ \A e \in Local(timeline.entries) : e.seq < identity.last_issued
      /\ (draft.reply # NoId => draft.reply \in IdsOf(timeline.entries))
  BY <1>1 DEF Inward, PlaceKept
<1>8. PICK new : new = Composed
  OBVIOUS
<1>9. /\ Acceptable(new, draft.id)
      /\ \A e \in timeline.entries :
           e.origin = "Queued" \/ e.id = draft.reply => e \in new.entries
      /\ new.last_order = LedgerWith(new, draft.id).last_seen
      /\ IsFiniteSet(LedgerWith(new, draft.id).seen)
      /\ \A r \in LedgerWith(new, draft.id).seen :
           r \in ledger.seen \/ r.id = draft.id
  <2>1. new = Insert(timeline, draft.id, "Queued", identity.install,
                     identity.last_issued, draft.reply)
    BY <1>8 DEF Composed
  <2> QED BY <2>1, <1>1, <1>2, <1>4, <1>5, <1>6, <1>7, InsertAcceptable
<1>10. PersistTimeline(new, draft.id) \/ PersistTimelineFails(new, draft.id)
  BY <1>8 DEF ComposeCommit
<1>11. /\ status' = "RecoveryRequired" => io' = "fault"
       /\ status' # "Down"
       /\ timeline' \in {timeline, new}
       /\ \/ database' = database
          \/ /\ database'.timeline = new
             /\ database'.ledger = LedgerWith(new, draft.id)
  BY <1>1, <1>9, <1>10, HistoryWrite
<1>12. step' = "idle" /\ settings_file' = settings_file
       /\ (database' # database => issued' = issued \cup {Issue})
       /\ (database' = database => issued' = issued)
  BY DEF ComposeCommit
<1>13. Issue.id = draft.id
  BY DEF Issue
<1>14. QueuedIds \subseteq IdsOf(timeline'.entries)
  <2>1. \A e \in Queued(timeline.entries) : e \in timeline'.entries
    BY <1>9, <1>11 DEF Queued
  <2> QED BY <2>1 DEF QueuedIds, IdsOf
<1>15. draft.reply # NoId => draft.reply \in IdsOf(timeline'.entries)
  <2>1. \A e \in timeline.entries : e.id = draft.reply => e \in timeline'.entries
    BY <1>9, <1>11
  <2>2. SUFFICES ASSUME draft.reply # NoId
                 PROVE  draft.reply \in IdsOf(timeline'.entries)
    OBVIOUS
  <2>3. \E e \in timeline.entries : e.id = draft.reply
    BY <2>2, <1>7 DEF IdsOf
  <2>4. \E e \in timeline'.entries : e.id = draft.reply
    BY <2>1, <2>3
  <2> QED BY <2>4 DEF IdsOf
<1>16. LedgerFollows'
  <2>1. CASE database' = database
    <3>1. issued' = issued
      BY <2>1, <1>12
    <3> QED BY <3>1, <2>1 DEF Inward, LedgerFollows
  <2>2. CASE database' # database
    <3>1. database'.timeline = new /\ database'.ledger = LedgerWith(new, draft.id)
          /\ issued' = issued \cup {Issue}
      BY <2>2, <1>11, <1>12
    <3>2. \A r \in ledger.seen : r.id \in LocalIds => \E i \in issued : i.id = r.id
      BY <1>1, LiveFacts DEF Inward, LedgerFollows
    <3>3. \A r \in LedgerWith(new, draft.id).seen :
            r.id \in LocalIds => \E i \in issued \cup {Issue} : i.id = r.id
      BY <3>2, <1>9, <1>13
    <3> QED BY <3>1, <3>3, <1>9 DEF LedgerFollows
  <2> QED BY <2>1, <2>2
<1> QED BY <1>11, <1>12, <1>14, <1>15, <1>16 DEF Written

LEMMA AcceptWrites ==
  ASSUME IInv, Inward, NEW id \in Ids, AcceptReceivedPost(id)
  PROVE  Written
<1>1. Idle /\ step = "idle" /\ Live /\ status = "Ready"
      /\ id \notin IdsOf(ledger.seen) /\ InsertionAvailable(timeline, NoId)
      /\ (id \in LocalIds => \E i \in issued : i.id = id)
  BY DEF AcceptReceivedPost, Idle, Live
<1>2. PICK new : new = Insert(timeline, id, "Received", NoInstall, 0, NoId)
  OBVIOUS
<1>3. /\ Acceptable(new, id)
      /\ \A e \in timeline.entries :
           e.origin = "Queued" \/ e.id = NoId => e \in new.entries
      /\ new.last_order = LedgerWith(new, id).last_seen
      /\ IsFiniteSet(LedgerWith(new, id).seen)
      /\ \A r \in LedgerWith(new, id).seen : r \in ledger.seen \/ r.id = id
  BY <1>1, <1>2, InsertAcceptable
<1>4. PersistTimeline(new, id) \/ PersistTimelineFails(new, id)
  BY <1>2 DEF AcceptReceivedPost
<1>5. /\ status' = "RecoveryRequired" => io' = "fault"
      /\ status' # "Down"
      /\ timeline' \in {timeline, new}
      /\ \/ database' = database
         \/ database'.timeline = new /\ database'.ledger = LedgerWith(new, id)
  BY <1>1, <1>3, <1>4, HistoryWrite
<1>6. step' = step /\ settings_file' = settings_file /\ issued' = issued
  BY DEF AcceptReceivedPost, history
<1>7. QueuedIds \subseteq IdsOf(timeline'.entries)
  BY <1>3, <1>5 DEF QueuedIds, Queued, IdsOf
<1>8. LedgerFollows'
  <2>1. CASE database' = database
    BY <2>1, <1>6 DEF Inward, LedgerFollows
  <2>2. CASE database' # database
    <3>1. \A r \in ledger.seen : r.id \in LocalIds => \E i \in issued : i.id = r.id
      BY <1>1, LiveFacts DEF Inward, LedgerFollows
    <3> QED BY <3>1, <2>2, <1>1, <1>3, <1>5, <1>6 DEF LedgerFollows
  <2> QED BY <2>1, <2>2
<1> QED BY <1>1, <1>5, <1>6, <1>7, <1>8 DEF Written

\* mark_failed after a refusal, mark_broadcast and mark_failed after an event.
LEMMA MarkWrites ==
  ASSUME IInv, Inward, Idle, NEW id, NEW target \in LocalStates,
         target # "Queued",
         \/ PersistTimeline(Marked(timeline, id, target), NoId)
         \/ PersistTimelineFails(Marked(timeline, id, target), NoId),
         step' = step, settings_file' = settings_file, issued' = issued
  PROVE  Written
<1>1. step = "idle" /\ Live /\ status = "Ready"
  BY DEF Idle, Live
<1>2. PICK new : new = Marked(timeline, id, target)
  OBVIOUS
<1>3. Acceptable(new, NoId) /\ LedgerWith(new, NoId) = ledger
  BY <1>1, <1>2, MarkAcceptable
<1>4. new.last_order = timeline.last_order
      /\ IdsOf(new.entries) = IdsOf(timeline.entries)
  BY <1>1, <1>2, LiveFacts, MarkedKeeps
<1>5. /\ status' = "RecoveryRequired" => io' = "fault"
      /\ status' # "Down"
      /\ timeline' \in {timeline, new}
      /\ \/ database' = database
         \/ database'.timeline = new /\ database'.ledger = ledger
  BY <1>1, <1>2, <1>3, HistoryWrite
<1>6. QueuedIds \subseteq IdsOf(timeline'.entries)
  <2>1. QueuedIds \subseteq IdsOf(timeline.entries)
    BY DEF QueuedIds, Queued, IdsOf
  <2> QED BY <2>1, <1>4, <1>5
<1>7. LedgerFollows'
  <2>1. CASE database' = database
    BY <2>1 DEF Inward, LedgerFollows
  <2>2. CASE database' # database
    <3>1. database'.timeline.last_order = database.timeline.last_order
          /\ database'.ledger = database.ledger
      BY <2>2, <1>1, <1>4, <1>5, LiveFacts
    <3> QED BY <3>1 DEF Inward, LedgerFollows
  <2> QED BY <2>1, <2>2
<1> QED BY <1>1, <1>5, <1>6, <1>7 DEF Written

\* The actions that write the history of a Ready session.
HistoryCommand ==
  \/ ComposeCommit
  \/ \E id \in Ids : AcceptReceivedPost(id)
  \/ \E id \in LocalIds : EnqueueRefused(id)
  \/ \E id \in LocalIds, state \in {"Broadcast", "Failed"} :
       OutboundEvent(id, state)

LEMMA CommandWrites == ASSUME IInv, Inward, HistoryCommand PROVE Written
<1>1. CASE ComposeCommit
  BY <1>1, ComposeWrites
<1>2. CASE \E id \in Ids : AcceptReceivedPost(id)
  BY <1>2, AcceptWrites
<1>3. ASSUME NEW id \in LocalIds, EnqueueRefused(id) PROVE Written
  <2>1. Idle /\ step' = step /\ settings_file' = settings_file /\ issued' = issued
        /\ \/ PersistTimeline(Marked(timeline, id, "Failed"), NoId)
           \/ PersistTimelineFails(Marked(timeline, id, "Failed"), NoId)
    BY <1>3 DEF EnqueueRefused, history
  <2>2. "Failed" \in LocalStates /\ "Failed" # "Queued"
    BY DEF LocalStates
  <2> QED BY <2>1, <2>2, MarkWrites
<1>4. ASSUME NEW id \in LocalIds, NEW state \in {"Broadcast", "Failed"},
             OutboundEvent(id, state)
      PROVE  Written
  <2>1. Idle /\ step' = step /\ settings_file' = settings_file /\ issued' = issued
        /\ \/ PersistTimeline(Marked(timeline, id, state), NoId)
           \/ PersistTimelineFails(Marked(timeline, id, state), NoId)
    BY <1>4 DEF OutboundEvent, history
  <2>2. state \in LocalStates /\ state # "Queued"
    BY DEF LocalStates
  <2> QED BY <2>1, <2>2, MarkWrites
<1> QED BY <1>1, <1>2, <1>3, <1>4 DEF HistoryCommand

\* Every other step leaves the timeline alone, empties it with the process, or
\* fills an empty one.
LEMMA OtherSteps ==
  ASSUME IInv, Inward, Next, ~HistoryCommand
  PROVE  /\ \/ timeline' = timeline
            \/ status' = "Down" /\ timeline' = EmptyTimeline
            \/ RestoreState
         /\ issued' = issued
<1> USE DEF HistoryCommand
<1> QED
  BY DEF Next, Launch, LaunchFails, CreateSettings, CreateSettingsFails,
         OpenEmptyHistory, SeedHistory, OpenHistoryFails,
         FinalizeHistoryInitialization, FinalizeFails, RestoreState,
         RestoreStateFails, ComposeReserve, ComposeReserveFails, RenameUser,
         SetPrefs, SettingsCommandFails, EnqueueQueuedPost, RepeatEnds,
         CloseTransport, DeleteSettings, DeleteHistory, DeleteFails,
         Shutdown, Crash, Gone, memory, history

LEMMA NothingShownStep ==
  ASSUME IInv, Inward, Next, ~HistoryCommand
  PROVE  NothingShown'
<1>1. CASE RestoreState
  BY <1>1 DEF RestoreState, NothingShown, BootSteps
<1>2. CASE status' = "Down" /\ timeline' = EmptyTimeline
  BY <1>2 DEF NothingShown
<1>3. CASE timeline' = timeline
  <2>1. status' = "Down" \/ step' \in BootSteps =>
          \/ status = "Down" \/ step \in BootSteps
          \/ timeline' = EmptyTimeline
    BY DEF BootSteps, HistoryCommand, Next, Launch, LaunchFails, CreateSettings,
           CreateSettingsFails,
           OpenEmptyHistory, SeedHistory, OpenHistoryFails,
           FinalizeHistoryInitialization, FinalizeFails, RestoreState,
           RestoreStateFails, ComposeReserve, ComposeReserveFails, RenameUser,
           SetPrefs, SettingsCommandFails, EnqueueQueuedPost, RepeatEnds,
           CloseTransport, DeleteSettings, DeleteHistory, DeleteFails,
           Shutdown, Crash, Gone, Idle, CanCompose
  <2> QED BY <2>1, <1>3 DEF Inward, NothingShown
<1> QED BY <1>1, <1>2, <1>3, OtherSteps

\* Whatever replaces the settings file is of the session's own install id.
LEMMA OwnInstallStep ==
  ASSUME IInv, Inward, Next, ~HistoryCommand
  PROVE  OwnInstall'
<1>1. settings \in Settings
  BY DEF IInv, TypeOK
<1>2. Live => settings.install \in Installs /\ settings = settings_file
              /\ identity.last_issued = settings.watermark
  BY DEF IInv, Agreement, RestoredIdentity
<1>3. step = "finalize" => settings.install \in Installs
  BY DEF IInv, StepsInOrder
<1>4. \A i \in Installs : FirstSettings(i).initialized = FALSE
  BY SettingsTyped
<1>5. CASE \E i \in Installs : CreateSettings(i) \/ CreateSettingsFails(i)
  BY <1>4, <1>5 DEF CreateSettings, CreateSettingsFails, SettingsSaved,
                    SettingsNotReplaced, SettingsReplaced, Inward, OwnInstall
<1>6. CASE FinalizeHistoryInitialization \/ FinalizeFails
  BY <1>1, <1>3, <1>6, WrittenSettings
     DEF FinalizeHistoryInitialization, FinalizeFails, SettingsSaved,
         SettingsNotReplaced, SettingsReplaced, Inward, OwnInstall
<1>7. CASE \E id \in LocalIds, reply \in Ids \cup {NoId} :
             ComposeReserve(id, reply) \/ ComposeReserveFails(id, reply)
  <2>1. Live
    BY <1>7 DEF ComposeReserve, ComposeReserveFails, CanCompose, Live
  <2>2. Reserved.install = settings.install
    BY <1>1 DEF Reserved, Settings
  <2> QED BY <2>1, <2>2, <1>2, <1>7
          DEF ComposeReserve, ComposeReserveFails, SettingsSaved,
              SettingsNotReplaced, SettingsReplaced, Inward, OwnInstall
<1>8. CASE (\E user \in Users : RenameUser(user))
           \/ (\E prefs \in Prefs : SetPrefs(prefs)) \/ SettingsCommandFails
  <2>1. Live
    BY <1>8 DEF RenameUser, SetPrefs, SettingsCommandFails, Live
  <2>2. \A user \in Users : Renamed(user).install = settings.install
    BY <2>1, <1>1, <1>2, WrittenSettings
  <2>3. \A prefs \in Prefs : [settings EXCEPT !.prefs = prefs].install
                               = settings.install
    BY <1>1 DEF Settings
  <2>4. \/ settings_file' = settings_file
        \/ \E user \in Users : settings_file' = Renamed(user)
        \/ \E prefs \in Prefs : settings_file' = [settings EXCEPT !.prefs = prefs]
    BY <1>8 DEF RenameUser, SetPrefs, SettingsCommandFails, SettingsSaved,
                SettingsNotReplaced, SettingsReplaced
  <2> QED BY <2>1, <2>2, <2>3, <2>4, <1>2 DEF Inward, OwnInstall
<1>9. CASE DeleteSettings \/ DeleteFails
  BY <1>9, NoSettingsFacts DEF DeleteSettings, DeleteFails, Inward, OwnInstall
<1>10. CASE settings_file' = settings_file
  BY <1>10 DEF Inward, OwnInstall
<1> QED
  BY <1>5, <1>6, <1>7, <1>8, <1>9, <1>10
     DEF HistoryCommand, Next, Launch, LaunchFails, OpenEmptyHistory,
         SeedHistory, OpenHistoryFails, RestoreState, RestoreStateFails,
         EnqueueQueuedPost, RepeatEnds, CloseTransport, DeleteHistory,
         Shutdown, Crash, disk

LEMMA LedgerFollowsStep ==
  ASSUME IInv, Inward, Next, ~HistoryCommand
  PROVE  LedgerFollows'
<1>1. issued' = issued
  BY OtherSteps
<1>2. CASE database' = database
  BY <1>1, <1>2 DEF Inward, LedgerFollows
<1>3. CASE database'.timeline = EmptyTimeline /\ database'.ledger = EmptyLedger
  BY <1>3, FS_EmptySet DEF LedgerFollows, EmptyTimeline, EmptyLedger
<1>4. CASE database'.timeline = AllUnknown(database.timeline)
           /\ database'.ledger = database.ledger
  <2>1. AllUnknown(database.timeline).last_order = database.timeline.last_order
    BY DEF AllUnknown, IInv, TypeOK, Databases, Timelines
  <2> QED BY <2>1, <1>1, <1>4 DEF Inward, LedgerFollows
<1>5. Artifact.timeline = EmptyTimeline /\ Artifact.ledger = EmptyLedger
      /\ NoDatabase.timeline = EmptyTimeline /\ NoDatabase.ledger = EmptyLedger
  BY DEF Artifact, NoDatabase, Database
<1>6. CASE OpenEmptyHistory \/ SeedHistory \/ OpenHistoryFails
  BY <1>2, <1>3, <1>5, <1>6, BoundFacts
     DEF OpenEmptyHistory, SeedHistory, OpenHistoryFails
<1>7. CASE RestoreState \/ RestoreStateFails
  BY <1>2, <1>4, <1>7, BoundFacts DEF RestoreState, RestoreStateFails
<1>8. CASE DeleteHistory \/ DeleteFails \/ Crash
  BY <1>2, <1>3, <1>5, <1>8 DEF DeleteHistory, DeleteFails, Crash
<1> QED
  BY <1>2, <1>6, <1>7, <1>8
     DEF HistoryCommand, Next, Launch, LaunchFails, CreateSettings,
         CreateSettingsFails, FinalizeHistoryInitialization, FinalizeFails,
         ComposeReserve, ComposeReserveFails, RenameUser, SetPrefs,
         SettingsCommandFails, EnqueueQueuedPost, RepeatEnds, CloseTransport,
         DeleteSettings, Shutdown, disk

LEMMA PlaceKeptStep ==
  ASSUME IInv, Inward, Next, ~HistoryCommand
  PROVE  PlaceKept'
<1> SUFFICES ASSUME step' = "commit" PROVE PlaceKept'
  BY DEF PlaceKept
<1>1. step # "commit"
  BY DEF HistoryCommand, Next, Launch, FirstStep, LaunchFails, CreateSettings,
         CreateSettingsFails, OpenEmptyHistory, SeedHistory, OpenHistoryFails,
         FinalizeHistoryInitialization, FinalizeFails, RestoreState,
         RestoreStateFails, ComposeReserve, ComposeReserveFails, RenameUser,
         SetPrefs, SettingsCommandFails, EnqueueQueuedPost, RepeatEnds,
         CloseTransport, DeleteSettings, DeleteHistory, DeleteFails,
         Shutdown, Crash, Gone, Idle, CanCompose, IInv, WatermarkCovers
<1>2. PICK id \in LocalIds, reply \in Ids \cup {NoId} : ComposeReserve(id, reply)
  BY <1>1 DEF HistoryCommand, Next, Launch, FirstStep, LaunchFails,
         CreateSettings, CreateSettingsFails, OpenEmptyHistory, SeedHistory,
         OpenHistoryFails, FinalizeHistoryInitialization, FinalizeFails,
         RestoreState, RestoreStateFails, ComposeReserveFails, RenameUser,
         SetPrefs, SettingsCommandFails, EnqueueQueuedPost, RepeatEnds,
         CloseTransport, DeleteSettings, DeleteHistory, DeleteFails,
         Shutdown, Crash, Gone
<1>3. /\ Live /\ timeline' = timeline
      /\ draft' = [id |-> id, reply |-> reply]
      /\ identity' = [identity EXCEPT !.last_issued = @ + 1]
      /\ InsertionAvailable(timeline, reply)
      /\ Cardinality(Queued(timeline.entries)) < QueuedCapacity
      /\ reply # NoId => reply \in IdsOf(timeline.entries)
  BY <1>2 DEF ComposeReserve, CanCompose, Live
<1>4. identity.last_issued = settings.watermark /\ settings.watermark \in Nat
  BY <1>3, SessionAssumption DEF IInv, Agreement, RestoredIdentity, TypeOK,
                                 Settings, SequenceNumbers
<1>5. identity'.last_issued = settings.watermark + 1 /\ draft'.reply = reply
  BY <1>3, <1>4 DEF IInv, TypeOK
<1>6. \A e \in Local(timeline.entries) : e.seq \in 1 .. settings.watermark
  BY <1>3, LiveFacts DEF ValidSnapshot
<1>7. /\ identity'.last_issued >= 1
      /\ \A e \in Local(timeline.entries) : e.seq < identity'.last_issued
  BY <1>4, <1>5, <1>6
<1> QED BY <1>3, <1>5, <1>7 DEF PlaceKept, InsertionAvailable

LEMMA InwardStep == IInv /\ Inward /\ [Next]_vars => Inward'
<1> SUFFICES ASSUME IInv, Inward, [Next]_vars PROVE Inward'
  OBVIOUS
<1>1. CASE Next /\ ~HistoryCommand
  BY <1>1, NothingShownStep, OwnInstallStep, LedgerFollowsStep, PlaceKeptStep
     DEF Inward
<1>2. CASE HistoryCommand
  BY <1>2, CommandWrites DEF Written, Inward, NothingShown, OwnInstall, PlaceKept,
                             BootSteps
<1>3. CASE UNCHANGED vars
  BY <1>3 DEF vars, Inward, NothingShown, OwnInstall, LedgerFollows, PlaceKept,
              InsertionAvailable
<1> QED BY <1>1, <1>2, <1>3

LEMMA InwardInit == Init => Inward
<1> SUFFICES ASSUME Init PROVE Inward
  OBVIOUS
<1>1. timeline = EmptyTimeline /\ step = "idle" /\ settings_file = NoSettings
      /\ database = NoDatabase
  BY DEF Init
<1>2. LedgerFollows
  BY <1>1, FS_EmptySet DEF LedgerFollows, NoDatabase, Database, EmptyTimeline,
                           EmptyLedger
<1> QED BY <1>1, <1>2, NoSettingsFacts
        DEF Inward, NothingShown, OwnInstall, PlaceKept, BootSteps

\* The session's own writes are valid in every reachable state.
LEMMA InwardInvariance == Spec => []Inward
<1>1. Init => Inward
  BY InwardInit
<1>2. IInv /\ Inward /\ [Next]_vars => Inward'
  BY InwardStep
<1> QED BY <1>1, <1>2, Invariance, PTL DEF Spec

\* Timeline::insert evicts neither a Queued post nor the parent of the reply
\* that compose is about to add, and mark_broadcast and mark_failed keep every
\* post.
THEOREM QueuedStays == Spec => QueuedKept
<1> DEFINE Kept == status' # "Down" =>
             /\ QueuedIds \subseteq IdsOf(timeline'.entries)
             /\ step = "commit" /\ draft.reply # NoId =>
                  draft.reply \in IdsOf(timeline'.entries)
<1>1. IInv /\ Inward /\ [Next]_vars => [Kept]_vars
  <2> SUFFICES ASSUME IInv, Inward, Next PROVE Kept
    OBVIOUS
  <2>1. CASE HistoryCommand
    BY <2>1, CommandWrites DEF Written
  <2>2. CASE ~HistoryCommand
    <3>1. CASE timeline' = timeline
      BY <3>1 DEF Inward, PlaceKept, QueuedIds, Queued, IdsOf
    <3>2. CASE RestoreState
      <4>1. timeline.entries = {} /\ step # "commit"
        BY <3>2 DEF RestoreState, Inward, NothingShown, BootSteps, EmptyTimeline
      <4> QED BY <4>1 DEF QueuedIds, Queued, IdsOf
    <3>3. CASE status' = "Down"
      BY <3>3
    <3> QED BY <2>2, <3>1, <3>2, <3>3, OtherSteps
  <2> QED BY <2>1, <2>2
<1>2. [][Kept]_vars => QueuedKept
  BY DEF QueuedKept
<1> HIDE DEF Kept
<1> QED BY <1>1, <1>2, Invariance, InwardInvariance, PTL DEF Spec

\* A Ready session and the launch of an initialized device demand recovery only
\* after a file operation failed: save_snapshot and bootstrap never refuse what
\* the session computed or stored itself.
THEOREM RecoveryNeedsFault == Spec => OnlyFaultsRequireRecovery
<1> DEFINE Faulty == status # "RecoveryRequired" /\ status' = "RecoveryRequired"
                       /\ settings_file.initialized => io' = "fault"
<1>1. IInv /\ Inward /\ [Next]_vars => [Faulty]_vars
  <2> SUFFICES ASSUME IInv, Inward, Next, status # "RecoveryRequired",
                      status' = "RecoveryRequired", settings_file.initialized
               PROVE  io' = "fault"
    OBVIOUS
  <2>1. CASE HistoryCommand
    BY <2>1, CommandWrites DEF Written
  <2>2. CASE Launch
    <3>1. settings_file.install # NoInstall /\ Loadable(database, settings_file)
          /\ database.kind = "bound"
      BY SessionAssumption DEF IInv, DurableStateLoads, Inward, OwnInstall, Loadable
    <3>2. FirstStep = "finalize"
      BY <3>1 DEF FirstStep
    <3> QED BY <2>2, <3>2 DEF Launch
  <2>3. CASE DeleteHistory
    <3>1. settings_file = NoSettings
      BY <2>3 DEF DeleteHistory, IInv, StepsInOrder
    <3> QED BY <3>1, NoSettingsFacts
  <2> QED
    BY <2>1, <2>2, <2>3
       DEF HistoryCommand, Next, LaunchFails, CreateSettings, CreateSettingsFails,
           SettingsNotReplaced, SettingsReplaced, OpenEmptyHistory, SeedHistory,
           OpenHistoryFails, FinalizeHistoryInitialization, FinalizeFails,
           RestoreState, RestoreStateFails, ComposeReserve, ComposeReserveFails,
           RenameUser, SetPrefs, SettingsCommandFails, EnqueueQueuedPost,
           RepeatEnds, CloseTransport, DeleteSettings, DeleteFails, Shutdown,
           Crash, Gone
<1>2. [][Faulty]_vars => OnlyFaultsRequireRecovery
  BY DEF OnlyFaultsRequireRecovery
<1> HIDE DEF Faulty
<1> QED BY <1>1, <1>2, Invariance, InwardInvariance, PTL DEF Spec
=============================================================================
