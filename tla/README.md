# lora-messenger in TLA+

lora-messenger is a single-threaded, single-hop group messenger for a handheld
with a LoRa cap (or UDP broadcast on a LAN). This directory models what it keeps
on disk, what it puts on the air, what it accepts from the air, the radios it uses
for both, and the screens that drive it. TLC checks the models on small instances;
TLAPS proves every safety property the runs check for every value of the constants.

## The system

| Part | State | Operations | Talks to |
| --- | --- | --- | --- |
| `TransmissionScheduler` | FIFO of posts with fragments, offer counters, due and deadline ticks | `enqueue`, `pump`, `cancel_all` | radio policy, datagram transport; returns `OutboundEvent` |
| `Japan920RadioPolicy` | token bucket, refill tick, next allowed tick, valid flag | `evaluate_transmit`, `record_transmit` | called by the scheduler |
| `LanBroadcastPolicy` | the same for UDP | the same | called by the scheduler |
| `PersistentSession` | status, settings copy, ledger | `bootstrap`, `persist_identity`, `persist_timeline`, `accept_received_post`, `set_locale`, `set_skip_title`, `delete_all`, `shutdown` | owns both stores; is the commit port of `MessengerState` |
| `MessengerState`, `Identity`, `Timeline` | identity with the last sender sequence, bounded timeline | `compose`, `rename_user`, `accept_received`, `mark_broadcast`, `mark_failed` | commits through the session before it changes memory |
| `MessageDedupeWindow` | bounded ledger of seen posts | `classify`, `remember`, `restore` | stored in the same transaction as the timeline |
| `AtomicSettingsStore` | one file, replaced by rename | `load`, `save` | file system |
| `SqliteHistoryStore` | one database | `open`, `load_snapshot`, `save_snapshot`, deletion, migration | SQLite |
| `InboundFrameQueue`, `Reassembler` | queue, slots, quarantine, recent frames | `enqueue`, `process_next`, `mark_committed`, `stop` | fed and drained by the runtime |
| `RadioRuntime` | scheduler and inbound queue | `pump`, `stop` | called by the main loop every pass; joins all of the above |
| Cap LoRa-1262 and UDP transports | half-duplex radio, receive queue; socket and interface | `try_send`, `try_receive`, `close` | hardware, kernel |
| `MessengerViewModel`, `TextEditor` | routes, selection, editor, confirmations | key input, `refresh` | reads the session, issues commands |
| view, input, logger, i18n, assets, scripts, demo | | | outside the core |

The program has one thread, so the hard behaviour is not in threads. It is in

* **two files that are written one after the other**: a process may die between
  the settings (sequence high-water mark) and the history (the post), or between
  the two deletions, and a write that reports failure may be on disk all the same
  (rename done, directory sync failed; COMMIT ambiguous);
* **bounded tables that evict by different rules**: timeline (queued posts and
  the reply parent protected), ledger (timeline entries protected), recent frames
  (LRU), quarantine (FIFO), slots (none: refused when full);
* **time**: deadlines, retries, repeats and token refills that interleave with
  back-pressure, policy deferrals, link loss and saturating ticks;
* **an unreliable channel**: lost, repeated, corrupt and interleaved fragments;
* **an event that is returned once** and whose storing may fail;
* **hardware and kernel that move between two calls**: the chip hears and sends
  between two SPI transfers, the link goes between a check and its use, another
  process starts on the same data directory;
* **screens over data that changes**: cursors, selections and confirmations refer
  to posts that may be evicted before the next key.

What makes each part correct: a fragment is on the air at most twice and
"Broadcast" means that all of them were; the airtime stays within the budget; a
device that finished its first launch always starts again; a sender sequence is
never reused; a restart never sends a post again; a session that accepts commands
shows what is on disk; only whole posts are committed, and only frames of
committed posts are suppressed; what either end believes of a post fits what the
other has; one process writes a history and never a foreign one; the driver's idea
of the chip is the chip's state; a draft is lost only by choice.

## Modules

| Module | Models | Checked by | Proved in |
| --- | --- | --- | --- |
| `Scheduler` | `application/transmission_scheduler` | `MCScheduler` | `TwoNodesProofs` |
| `AirtimePolicy` | `adapters/radio/japan_920_radio_policy` with its caller | `MCAirtimePolicy` | `AirtimePolicyProofs` |
| `Session` | `app/persistent_session` with messenger state, timeline, ledger, both stores, and the outbound half of `app/radio_runtime` | `MCSession` | `SessionProofs` |
| `Ingress` | `protocol/reassembler` and the inbound half of `app/radio_runtime` | `MCIngress` | `IngressProofs` |
| `TwoNodes` | `Scheduler` at one end and `Ingress` at the other; implements `Delivery` | `MCTwoNodes` | `TwoNodesProofs` |
| `CapLora` | `adapters/radio`: the Cap LoRa-1262 transport and driver, over a model of the chip | `MCCapLora` | `CapLoraProofs` |
| `LanRuntime` | the main loop, `RadioRuntime::pump` and the UDP transport and socket | `MCLanRuntime` | `LanRuntimeProofs` |
| `SettingsStore` | `adapters/storage/atomic_settings_store`; implements `AtomicFile` | `MCSettingsStore` | `ViewModelProofs` |
| `HistoryOpen` | locks, probe, migration and seeding of `adapters/storage/sqlite_history_store` | `MCHistoryOpen` | `HistoryOpenProofs` |
| `ViewModel` | `viewmodel/messenger_view_model` and the key handler of `app/app.cpp` | `MCViewModel` | `ViewModelProofs` |

Definitions whose name starts with `Mutant_` are deliberate bugs: each property
is also checked against a model with one of them put in place of the definition
that follows it, and fails there.

### Scheduler

`pending` is the vector of the code; `now` is the tick `pump` is called with.
`pump` is one action per way out (`PumpExpired`, `PumpClosed`, `PumpSkip`,
`PumpDeferred`, `PumpRefused`, `PumpSendError`, `PumpBackpressure`,
`PumpAccepted`), with guards in the order of the code's tests. Policy and
transport answer arbitrarily; an answer of Disconnected or Closed may come from a
transport that has just closed for good, and is back-pressure all the same. `outcome`, `tries` and `accepted` record the event
returned, the offers and the acceptances for the current enqueue of a message.
`enqueue` draws all jitter bytes at once; each is read at most once, so the model
draws it when it is read and keeps the index.

### AirtimePolicy

`Evaluate` and `Record` are functions from policy to policy, as
`evaluate_transmit` and `record_transmit` are; the actions are the scheduler's use
of them, one datagram at a time. A datagram is its airtime in milliseconds.
`window` observes one interval, started at any moment, so that a statement about
it is a statement about every interval.

### Session

The durable state is `settings_file` and `database`; everything else is gone after
`Crash` or `Shutdown`. `step` names the write a call is about to make, so that a
call with two writes is two actions and `Crash` comes between. Each write has a
success action and a failing one; the failing one leaves either version on disk
where the code cannot tell (`final_replaced`, COMMIT) and then the session demands
recovery, as in the code. Sorted vectors are sets of records with order numbers.
`persist_timeline` receives, besides the timeline, the one id it adds.
`OutboundEvent` and `EnqueueQueuedPost` are `RadioRuntime`'s use of the session;
the scheduler is abstracted to the sets of posts it holds (`outbox` before the
event, `repeats` after Broadcast). `issued` and `handed` are history.

Abstracted: a message id stands for its content, so `Conflict` answers, which
change nothing, are left out; the settings' generation counter; timestamps; the
text of posts. Fresh identifiers are distinct from earlier ones.

### Ingress

A post is an opaque value with a fragment count and a key; a frame is a post and
an index. `process_next` is one action per status it returns; the completed post
is offered to the session within the same action, as `pump_inbound` does, and the
session's answer is free. Posts may share a key, since the tag is half of the
message id: bytes of two posts with one key and one geometry can then be put
together, and the model lets such a mixture decode or not. `Undecodable` posts are
whole and of one sender, but `decode_post` refuses them or their tag does not match. The clock may advance
between enqueueing and processing; `RadioRuntime` does both in one pump, so this
covers more than the program does. `barred` and the field `heard` are history.

### TwoNodes and Delivery

`TwoNodes` extends `Scheduler` and takes `Ingress` as `In`; `airborne` holds the
frames accepted in the current tick, each of which may be heard, missed or heard
twice. Either side may stop; the receiver starts again with what it stored. One
clock serves both: the two steady clocks run at one rate, and a constant time in
flight shifts the receiver's ticks alike. `Status` and `Reached` map it to
`Delivery`, where a post is stored only if it is Broadcast or Doubtful.

A post is Doubtful when the transport failed on the one fragment it had not accepted.
`try_start_transmit` answers `Failed` also when `SetTx` was written and only the wait
for BUSY after it failed (`linux_cap_lora_1262_radio.cpp:236-239`, `651-653`); the
transport then closes and answers `Disconnected` (`cap_lora_1262_radio.cpp:53-55`), which
is back-pressure to the scheduler, and the next pump fails the post because the transport
is closed. `TransmitFails` therefore puts the frame on the air or not, and `doubtful`
remembers it. Such a post is shown as Failed and may have been stored elsewhere. No
document of the repository says that Failed means "not received", so this is a limit of
what Failed can mean and not a finding; `KeepsPromise` says that it is the only one.

`heard` collects the fragments of a post the receiver has heard since it started and
since it last turned the post away, for want of a slot or because the session refused
it. `EitherPassCompletes` therefore holds with any number of slots, and the run has one.

### CapLora

A call of the transport is a series of SPI, GPIO and I2C transfers; each is a step
that may fail, and the chip (external, modelled from how the driver uses it) hears
and sends between two of them. `op` is the call in progress. `aired` and `owed` are
history: `owed` is every whole packet that ended while the driver listened, until it is
read. `poll` tests HeaderError and CrcError before RxDone (driver lines 693-698), so a
whole packet that shares the latch with an unserved error is dropped unread;
`ReceptionKept` states this exception (`SeenError`). The loss is one of a broadcast
without acknowledgement, which the repeat pass covers, and no document promises otherwise.
Register contents and opcodes are left out; their order is kept.

### LanRuntime

One pass of the main loop call by call: `connected()` with its 500 ms cache, the
early returns of `RadioRuntime::pump`, the scheduler reduced to posts of one frame,
filtered and truncated receives, `close`, and the status the screen shows. The LAN
policy is a source of deferrals. The link is lost, roams or becomes unreachable
between any two calls.

`NOTES.md:1121` and the comment at `app/radio_runtime.cpp:61` say that reversible link
loss keeps outbound work queued. That is true of the early return only: an interface
that has an address but no route passes the guard, and two offers that answer
Disconnected fail the post; a loss longer than 60 s fails a post the scheduler already
holds in the first pump after the link returns. So the model has `Failed` posts without
a closed transport, and `QueuedConcludes` says that a post is concluded, not that it is
sent.

### SettingsStore and AtomicFile

One action per system call of `save`. A file is its value and how much of it is
written and synced; `finals` are the files that a power loss may bring back before
the directory is synced. `AtomicFile` is what `Session` assumes: one whole value at
any time, and an answer that says whether it was replaced.

### HistoryOpen

Two processes go through the locks, the probe copy, integrity check, migration and
seeding statement by statement, and may fail or be killed at each. The data
directory holds main file, WAL and rollback journal in every initial combination
that the program or a foreign one leaves, a schema of a later version among them, which
is refused as a foreign one is.

### ViewModel

Handlers are functions from the record `vm` to `vm`; each runs between the two
`reconcile_model` calls the code makes. The screen opens on the timeline the session
restored (`Restorable`); a launch that demands recovery has none, and shows the settings
it loaded or the defaults. Posts arrive and are evicted between keys.
The draft is its length and cursor in scalars. Where the code tests one condition after
the other, so does the model (`IF`): a `CASE` has arms that exclude each other.

## Runs

| Run | Instance | Shows |
| --- | --- | --- |
| `scheduler` | posts of 2 and 1 fragments, room for 2, ticks 0..7, deadline 5 | `OffersAtMostTwice`, `JitterInBounds`, `BroadcastSound`, `RepeatAfterBroadcast`, `BroadcastNeverFails`; under fairness `EveryPostLeaves` |
| `airtime` | bucket and ticks scaled down, all clock jumps | `AirtimeBudget`, `OnlyRegressionDisables`, `AtMostTwoDeferrals` |
| `airtime_burst` | the same | **violated**: `BudgetPerPeriod`, see below |
| `session` | 2 own and 3 foreign posts, timeline and ledger of 3, 2 install ids, sequences to 2, order numbers to 5 | `DurableStateLoads`, `SequenceNeverReused`, `MemoryIsDurable`, `HandedOnce`, `QueuedKept`, `OnlyFaultsRequireRecovery` |
| `ingress` | twin posts under one key and a third one, one slot, timeout 2, ticks 0..3 | `FixedWindow`, `CommittedWhole`, `SuppressedIsStored`; under fairness `SlotsFreed` |
| `ingress_pairs` | two keys, each with a post of 2 and of 1 fragments, two slots | `SuppressedTakesNoSlot`, `QuarantineHolds` with two reassemblies and an overflowing quarantine |
| `two_nodes` | posts of 2 and 1 fragments, one slot, deadline and window 4, ticks 0..5, noise | `KeepsPromise` (implements `Delivery`), `EitherPassCompletes` |
| `cap_lora` | 2 datagrams out, one in, receptions of no and too many bytes, every transfer failing | `FlagsMatchChip`, `AcceptedIsAired`, `ReceptionKept`; under fairness `RadioRecovers` |
| `lan_runtime` | one post, 2 subnets, cache 2, deadline 3, 2 arrivals | `SentMatchesState`; under fairness `QueuedConcludes` |
| `history_open` | 2 processes, 1 or 2 configurations, 10 kinds of data directory | `OneWriter`, `WholeHistoryOpens`, `HistoryKept`, `ForeignUntouched` |
| `settings_store` | 2 records, 2 writes each | `ImplementsAtomicFile` |
| `view_model` | an own post and two of a peer with 1 and 0 lines to scroll, timeline of 2, storage that fails | `ShowsLivePosts`, `DraftGoesByChoice` |

`scheduler`, `airtime`, `session` and `ingress` also check their module's `TypeOK`, the
base of the proofs.

**Bounds.** Times keep their order relative to each other, and saturation at the
largest tick happens inside the explored range. Two fragments are enough for a
first, a last and a next one; one fragment is the case where first and last are
the same. Two posts are enough to have one wait behind another. In `session` three
foreign posts evict an own one from a full timeline, after which a restart and a
new own post follow: the shortest way to a reused sequence. In `ingress` every
table is at its limit after two or three frames. Counters that the code lets run
to 2^64 (`MaxSequence`, `MaxOrder`, `MaxTick`) are small, so that exhaustion is
explored as well. Ids are symmetric in `session`, where no liveness is checked.

In `two_nodes` deadline and window are equal as in the code, and the clock saturates
beyond them. Two processes in `history_open` and two sends in `cap_lora` are enough for
one to meet the other at every step. `view_model` has one language and one title
setting, so a change of either stores what was there before; that it may fail is
explored. `DetailLines`, `Settings`, `Pieces`, `MaxArrivals`, `MaxSends` name what is
bounded for TLC only.

**Deadlock** is checked for `airtime`, `session`, `two_nodes`, `lan_runtime`, `settings_store` and
`history_open`. Elsewhere the model ends where the program would go on or has ended:
time ends at `MaxTick` (`scheduler`, `ingress`), a closed radio (`cap_lora`),
an exited screen (`view_model`).

**Fairness.** `FairSpec` of `Scheduler` and `Ingress` assumes that `pump`
(`process_next`) is called again and again and that the tick advances. The main
loop calls `RadioRuntime::pump` in every pass and sleeps 5 ms
(`app/app.cpp:605-640`), with the tick of the steady clock (`app/app.cpp:316`).
No fairness is assumed of the transport, the policy or the storage.

`CapLora` assumes that a call once begun runs to its end, that the main loop calls
`try_receive` in every pass, and that the chip ends a transmission in its timeout at
the latest, which the driver programs into it. `LanRuntime` assumes weak fairness of
the loop and strong fairness of the clock, which every pass of the loop enables
again.

**Finding.** `airtime_burst`: `README.md:345` and `docs/phase6-cap-lora-1262.md:55` promise 6 s of
airtime per 60 s. The bucket holds 6 s and is refilled while it is drained, so a
60 s period that begins with a full bucket can carry almost 12 s. What the code
guarantees is `AirtimeBudget`: over every interval at most the capacity plus one
millisecond per ten elapsed.

## Proofs

| Theorem | Statement |
| --- | --- |
| `TwoNodesProofs` `TypeCorrect`, `OfferLimit`, `BroadcastMeaning`, `JitterSafe` | of `Scheduler`: `Spec => []TypeOK`, `[]OffersAtMostTwice`, `[]BroadcastSound`, `[]JitterInBounds` |
| `TwoNodesProofs` `BroadcastFinal`, `RepeatOnlyAfterBroadcast` | of `Scheduler`: `Spec => BroadcastNeverFails`, `RepeatAfterBroadcast` |
| `TwoNodesProofs` `PromiseIsKept` | `TwoSpec => KeepsPromise`: both ends implement `Delivery` |
| `TwoNodesProofs` `PassesMeet` | `TwoSpec => []EitherPassCompletes` |
| `IngressProofs` `IngressTypeCorrect`, `WindowIsFixed`, `OnlyWholeIsCommitted` | `Spec => []TypeOK`, `[]FixedWindow`, `[]CommittedWhole` |
| `IngressProofs` `OnlyStoredIsSuppressed`, `SuppressedHoldsNoSlot`, `QuarantineIsKept` | `Spec => []SuppressedIsStored`, `[]SuppressedTakesNoSlot`, `[]QuarantineHolds` |
| `AirtimePolicyProofs` `TypeCorrect`, `BudgetHolds`, `NeverDisabledByRecord`, `PromiseKept` | `Spec => []TypeOK`, `[]AirtimeBudget`, `OnlyRegressionDisables`, `[]AtMostTwoDeferrals` |
| `SessionProofs` `TypeCorrect`, `DurableState`, `SequencesUnique`, `ReadyIsDurable` | `Spec => []TypeOK`, `[]DurableStateLoads`, `[]SequenceNeverReused`, `[]MemoryIsDurable` |
| `SessionProofs` `NoRetransmission`, `QueuedStays`, `RecoveryNeedsFault` | `Spec => HandedOnce`, `QueuedKept`, `OnlyFaultsRequireRecovery` |
| `ViewModelProofs` `StoreIsAtomic` | of `SettingsStore`: `StoreSpec => ImplementsAtomicFile` |
| `ViewModelProofs` `ScreensShowLivePosts`, `DraftsGoByChoice` | `Spec => []ShowsLivePosts`, `DraftGoesByChoice` |
| `ViewModelProofs` `DraftsKeepLimits`, `SettingsShownAreStored` | `Spec => []DraftWithinLimits`, `[]ShownIsStored`, which no run checks |
| `HistoryOpenProofs` `HistoryOneWriter`, `OwnHistoryOpens` | `Spec => []OneWriter`, `[]WholeHistoryOpens` |
| `HistoryOpenProofs` `HistoryIsKept`, `ForeignHistoryUntouched` | `Spec => HistoryKept`, `ForeignUntouched` |
| `CapLoraProofs` `DriverKnowsChip`, `AcceptedGoesOut`, `EndedReceptionKept` | `Spec => []FlagsMatchChip`, `[]AcceptedIsAired`, `[]ReceptionKept` |
| `LanRuntimeProofs` `LanSentMatches` | `Spec => []SentMatchesState` |

All rest on the named assumptions about constants only:

* `SchedulerAssumption`, `PolicyAssumption`, `SessionAssumption`,
  `IngressAssumption`, `LanAssumption`, `CapLoraAssumption`: naturals where the code
  has unsigned values, capacities and timers that are not zero, a ledger at least as
  large as the timeline, an airtime bucket that fits the clock, finitely many posts,
  and values standing for "nothing" that are nothing else;
* `ViewModelAssumption`: limits and line counts are naturals, the locales and the
  mentions a draft may have are not zero, `None` is no post, and the default settings
  are among those that occur;
* `StoreAssumption`, `NoFileAssumption`, `LeafAssumption`: what stands for a missing
  or damaged file is no file;
* `HistoryAssumption`, `LeftoverAssumption`: the kinds of data directory found at
  first; a sound database of ours among them has one of our schemas;
* `TwoNodesAssumption`: posts of one sender have different keys
  (`SequenceNeverReused` of `Session`), what `decode_frame` refuses is no frame, there
  is a slot and a recent frame to keep, and window and deadline are equal.

*Scheduler.* The offer limit is not inductive by itself: the counters must be tied
to the pass and to the position in the train. The invariant says, of each pending
post, how often each fragment was tried in terms of its position and pass, that
the jitter index is bounded by the offers made so far, and that ids in the queue
are distinct. One lemma per way out of `pump` shows that the front keeps it and
that the other posts are untouched.

*AirtimePolicy.* The budget needs the exact relation between the tokens left, the
airtime spent in the window and the time that passed since the last refill; the
fraction of a token lost at a refill only helps. That two deferrals are enough needs
`Promise`: after the first one the gap is over when the datagram is due, because only a
transmission moves it, and after the second the tokens are there (`Funded`), because
nothing else takes them.

*Session.* `IInv` adds to the properties: memory and disk agree in a live session
(`Agreement`), each `step` is only reached with the files its predecessors wrote
(`StepsInOrder`), every issued sequence of the current install id is at most the
stored high-water mark (`WatermarkCovers`, which gives uniqueness), a post that
was handed over and is still Queued in a live session is in the outbox
(`HandedHeld`, which gives `HandedOnce`), and the timelines are finite. That the
session never refuses its own write needs `Inward` as well: timeline and ledger are
numbered alike, the own posts among the seen ones were issued, and what `compose`
tested before `persist_identity` still holds after it. A full timeline then has a
post to evict, found as the oldest of those that are not protected, and a ledger
no smaller than the timeline has an entry that is not in it.

*Ingress.* `CommittedWhole` needs that the fragments of a slot are of its key and
geometry and that a key has one slot (`SlotsSound`); `FixedWindow` that datagrams
wait in the order they came and no slot outlives the window of one still waiting
(`QueueInOrder`, `Windows`); `SuppressedTakesNoSlot` that a slot is freed in the step
that suppresses its frames (`RecentSound`, `NotSuppressed`); `QuarantineHolds` that a
barred key is in the quarantine and has no slot (`QuarantineSound`).

*TwoNodes.* `PairInv` says what the receiver owes to the sender's history: the frames
on the air, in the queue and in a slot are of fragments the transport accepted or failed
on, a slot is of one post, a post all of whose fragments were accepted is concluded, and a
fragment is in doubt only once the transport is closed, so that no more of its post is
sent. So what is stored is whole and Broadcast or in doubt, and every step maps to one of `Delivery` or to a stutter.
`CompleteInv` adds time: no queued post has a deadline beyond that of the slot that waits
for it, and a frame on the air finds its slot alive. So when a slot expires, nothing of
its post is on the air or will be sent; and of every post not yet stored the fragments
heard are in its slot or in the queue, or the post is over with one never heard. From the
same invariant no frame of the sender is stale, in conflict or quarantined. A frame
without a slot, and a post the session refuses, start the account of their post again.

*SettingsStore.* The settings file and all a power loss may bring back are whole
(`FilesWhole`), because the rename comes after the temporary file is written and synced
(`CallsInOrder`); then every system call is a stutter or a step of `AtomicFile`.

*ViewModel.* `Sound` says, of any view, what every handler needs and keeps: the type of
each member, that the post opened last is scrolled within its lines, that the draft keeps
its limits, and that there is a draft only in Compose and Mentions (`DraftInEditor`).
The last one is what the draft's property needs: a shortcut that opens Compose resets the
draft, and the shortcuts are taken on the other screens only. One lemma per handler shows
that it keeps `Sound` and either leaves the draft whole in the editor with the post it
answers or erases one piece of the part being edited (`KeepsDraft`, `ErasesPiece`), except
a question confirmed with Enter, which is Discard because Exit and DeleteData leave the
view model.
`reconcile_model` then turns every sound view into one of the timeline (`Live`): a detail
whose post was evicted, a Compose or Settings screen that returns to it, a selection that
is gone. That it leaves a modal alone, unless there is none, makes the confirmation in
`vm` the one the handler saw. The list of peers is not unfolded: a handler may change the
peer under the cursor to anything.

*HistoryOpen.* Which locks a process holds follows from where it is (`LocksHeld`), so one
process at most is past both. `Phase` says, for each place in that process, what the
files hold and what its connection may change: before the history is opened, outside a
transaction, in one, and before COMMIT. A kill may come at any place, so each of these
states leaves a history the next process opens.

*CapLora.* `Phases` gives the mode of the chip, its interrupts and its buffer at every
transfer of every call, `Failing` what is still true once a transfer has failed.
`ListensWell` and `Owed` say that a reception that ended is latched in the chip until
`poll` reads it, or is latched together with a receive error.

*LanRuntime.* A post is in the queue once (`HeldOnce`), its first pass is to come exactly
if it was not sent (`QueueAgrees`), and what was sent is recorded, unless the session
could not store it (`SentRecorded`).

*Induction.* The expiry of a deque and the retaining of frames are recursive functions
over its positions. Induction is used in the form of a fact about sets of numbers
(`SetInduction`, from the least number principle): a set that holds 0 and with each number
the next one holds all. `Iterated` gives from it that such a function exists, and hence
that `CHOOSE` finds it.

Only model-checked: the liveness properties (`EveryPostLeaves`, `SlotsFreed`,
`RadioRecovers`, `QueuedConcludes`), which need fairness. Not proved either: that nobody
mentions himself, which depends on the fold that collects the peers.

`DraftWithinLimits` and `ShownIsStored` are stated with the proofs: the one instance of
the settings and the single peer of `view_model` would say little about them.

## Plan

Every safety property of a run is proved; liveness stays with TLC.

Worth modelling later: the geometry of fragments (sizes and offsets under two MTUs), the
UTF-8 editor and the wrapping of the detail screen, the LAN policy's bucket, the
simulated bus, the accept and reject decisions of the settings' JSON.

## Not modelled

Bytes: the positions of header fields, payload sizes and offsets, CRC, the post codec,
UTF-8, JSON and the rules for names, except for what they accept or refuse. The LAN
policy's bucket and the simulated bus, a test double. The airtime formula of the LoRa
modem: a datagram is its airtime. The LVGL view, which draws a snapshot and keeps no
state of its own, input devices, screenshots, scripts, logging, fonts, translations,
packaging and third-party code. Corruption of files by anything but the program
itself: the code answers it with `RecoveryRequired`, which `LaunchFails` of `Session`
and the foreign and torn files of `HistoryOpen` cover.
