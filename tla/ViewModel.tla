------------------------------ MODULE ViewModel ------------------------------
(***************************************************************************)
(* viewmodel/messenger_view_model with the key handler of app/app.cpp: the *)
(* screens, the modals over them, the draft, and the timeline that changes *)
(* under them whenever the radio runtime commits a post.                   *)
(*                                                                         *)
(* `vm` holds the members of MessengerViewModel; handlers are functions    *)
(* from vm to vm, as the C++ handlers are, except those that ask the       *)
(* session for something.  Every handler runs between two reconcile_model  *)
(* calls: one at the start of handle, one in the snapshot that follows.    *)
(*                                                                         *)
(* The body of the draft is its length and cursor in scalars; a post is    *)
(* its identity and sender.                                                *)
(***************************************************************************)
EXTENDS Integers, FiniteSets, SequencesExt

CONSTANTS
  Posts, SenderOf,    \* posts that may arrive or be composed, their senders
  Self,               \* the own installation
  None,               \* no post, no sender
  MaxTimeline,        \* bound of the timeline
  MaxBody,            \* kMaxPostBodyBytes, in scalars
  MaxMentions,        \* kMaxMentions
  LocaleCount,        \* kLocaleCount
  Settings,           \* bound: the settings that occur
  DetailLines,        \* DetailLines[p]: maximum_scroll_line of its body
  StorageMayFail      \* bound: whether the session may demand recovery

ASSUME ViewModelAssumption ==
  /\ None \notin Posts /\ DOMAIN SenderOf = Posts
  /\ DetailLines \in [Posts -> Nat]
  /\ {MaxTimeline, MaxMentions, LocaleCount} \subseteq Nat \ {0}
  /\ MaxBody \in Nat
  /\ Settings \subseteq [locale : 0 .. LocaleCount - 1, skip_title : BOOLEAN]
  /\ [locale |-> 0, skip_title |-> FALSE] \in Settings
  /\ StorageMayFail \in BOOLEAN

VARIABLES
  vm,         \* the members of MessengerViewModel
  timeline,   \* posts of the timeline, newest first
  ready,      \* session.ready(); otherwise the session demands recovery
  stored,     \* locale and skip_title in the settings file
  running,    \* RunState::running
  composed    \* history: own posts composed or restored so far

vars == <<vm, timeline, ready, stored, running, composed>>

Letters == {"n", "r", "m", "s", "d"}
Keys == {"Home", "Up", "Down", "Left", "Right", "Enter", "Escape",
         "Backspace", "Delete", "Tab", "Control"} \cup Letters

Defaults == [locale |-> 0, skip_title |-> FALSE]

\* is_editable_scalar: "Control" stands for the characters it refuses.
Editable(key) == key \in Letters

\* MessengerViewModel's constructor: the newest post is selected.
Opened(started, shown, tl) ==
  LET first == IF shown.skip_title THEN "Timeline" ELSE "Menu"
  IN [screen |-> first, compose_return |-> "Timeline",
      settings_return |-> first,
      modal |-> [id |-> IF started THEN "None" ELSE "Recovery",
                 confirm |-> FALSE],
      selected |-> IF tl = << >> THEN None ELSE Head(tl),
      detail |-> None, scroll |-> 0,
      body |-> 0, cursor |-> 0, mentions |-> << >>, reply |-> None,
      peer |-> None,
      menu_item |-> "Talk", settings_item |-> "Language",
      locale |-> shown.locale, skip_title |-> shown.skip_title]

\* The timelines the session may have restored.
Restorable == {tl \in SeqOf(Posts, MaxTimeline) : IsInjective(tl)}

\* A session that demands recovery restored no post, and shows the settings
\* only if it got as far as loading them.
Init ==
  \E started \in BOOLEAN, saved \in Settings :
    /\ started \/ StorageMayFail
    /\ ready = started
    /\ stored = saved
    /\ timeline \in IF started THEN Restorable ELSE {<< >>}
    /\ running = TRUE
    /\ composed = {p \in ToSet(timeline) : SenderOf[p] = Self}
    /\ \E shown \in IF started THEN {saved} ELSE {saved, Defaults} :
         vm = Opened(started, shown, timeline)

-----------------------------------------------------------------------------
(***************************************************************************)
(* Helpers of the view model.                                              *)
(***************************************************************************)
InTimeline(p, tl) == p # None /\ Contains(tl, p)

Show(v, id) == [v EXCEPT !.modal = [id |-> id, confirm |-> FALSE]]

\* ensure_timeline_selection
EnsureSelection(v, tl) ==
  [v EXCEPT !.selected = IF InTimeline(@, tl) THEN @
                         ELSE IF tl = << >> THEN None ELSE Head(tl)]

\* The senders seen in the timeline, newest first, without the own one, then
\* the mentioned ones whose posts are gone.
Observed(v, tl) ==
  FoldLeft(LAMBDA found, s : IF s = Self \/ Contains(found, s)
                               THEN found ELSE Append(found, s),
           << >>, [i \in DOMAIN tl |-> SenderOf[tl[i]]] \o v.mentions)

PositionOf(s, found) ==
  IF Contains(found, s)
    THEN (CHOOSE i \in DOMAIN found : found[i] = s) - 1 ELSE 0

\* peers_ is computed anew before every use, so it is no state here; what
\* lives on is the peer under the cursor, which is looked for in the new list.
RefreshPeers(v, tl) ==
  LET found == Observed(v, tl)
  IN [v EXCEPT !.peer = IF found = << >> THEN None
                        ELSE found[PositionOf(@, found) + 1]]

\* reconcile_model
Mutant_LeaveDetail(v, tl) == v
LeaveDetail(v, tl) ==
  IF v.screen = "Detail" /\ ~InTimeline(v.detail, tl)
    THEN LET left == [v EXCEPT !.detail = None, !.scroll = 0,
                               !.screen = "Timeline"]
         IN IF v.modal.id = "None" THEN Show(left, "Status") ELSE left
    ELSE v

Reconcile(v, tl) ==
  LET w == LeaveDetail(EnsureSelection(v, tl), tl)
  IN IF w.screen = "Mentions" THEN RefreshPeers(w, tl) ELSE w

Dirty(v) == v.body > 0 \/ v.mentions # << >>

ResetDraft(v) ==
  [v EXCEPT !.body = 0, !.cursor = 0, !.mentions = << >>, !.reply = None]

OpenCompose(v, reply, mention) ==
  [ResetDraft(v) EXCEPT
     !.reply = reply,
     !.mentions = IF mention \in {None, Self} THEN << >> ELSE <<mention>>,
     !.compose_return = v.screen,
     !.screen = "Compose"]

CloseCompose(v) ==
  [ResetDraft(v) EXCEPT
     !.screen = IF \/ v.compose_return = "Detail"
                        /\ InTimeline(v.detail, timeline)
                   \/ v.compose_return = "Settings"
                  THEN v.compose_return ELSE "Timeline"]

OpenSettings(v) ==
  [v EXCEPT !.settings_return = v.screen, !.screen = "Settings",
            !.settings_item = "Language"]

-----------------------------------------------------------------------------
(***************************************************************************)
(* The key handlers that concern the view model alone.                     *)
(***************************************************************************)
\* handle_modal, without the answers that leave the view model: the answers
\* to a question, then every modal.
HandleQuestion(v, key) ==
  CASE key = "Left" -> [v EXCEPT !.modal.confirm = FALSE]
    [] key = "Right" -> [v EXCEPT !.modal.confirm = TRUE]
    [] key = "Enter" /\ v.modal.confirm -> CloseCompose(Show(v, "None"))
    [] \/ key = "Escape"
       \/ key = "Enter" /\ ~v.modal.confirm -> Show(v, "None")
    [] OTHER -> v

HandleModal(v, key) ==
  IF key = "Home" /\ v.modal.id \notin {"Exit", "Recovery"}
    THEN Show(v, "Exit")
  ELSE IF v.modal.id \in {"Status", "Error"}
    THEN IF key \in {"Escape", "Enter"} THEN Show(v, "None") ELSE v
  ELSE HandleQuestion(v, key)

\* handle_global_shortcut: which keys it takes, and what it does with them.
Target(v) == IF v.screen = "Detail" THEN v.detail ELSE v.selected

Mutant_IsShortcut(v, key) ==
  CASE v.screen = "Compose" -> FALSE
    [] v.screen = "Menu" -> key = "s"
    [] OTHER -> \/ key \in {"n", "m"}
                \/ key = "r" /\ Target(v) # None
                \/ key = "s" /\ v.screen # "Settings"
IsShortcut(v, key) ==
  CASE v.screen \in {"Compose", "Mentions"} -> FALSE
    [] v.screen = "Menu" -> key = "s"
    [] OTHER -> \/ key \in {"n", "m"}
                \/ key = "r" /\ Target(v) # None
                \/ key = "s" /\ v.screen # "Settings"

HandleShortcut(v, key) ==
  CASE key = "s" -> OpenSettings(v)
    [] key = "n" -> OpenCompose(v, None, None)
    [] key = "r" -> OpenCompose(v, Target(v), None)
    [] key = "m" -> OpenCompose(v, None,
                      IF InTimeline(Target(v), timeline)
                        THEN SenderOf[Target(v)] ELSE None)

HandleMenu(v, key) ==
  CASE key \in {"Up", "Down"} ->
         [v EXCEPT !.menu_item = IF @ = "Talk" THEN "Settings" ELSE "Talk"]
    [] key = "Enter" /\ v.menu_item = "Talk" -> [v EXCEPT !.screen = "Timeline"]
    [] key = "Enter" /\ v.menu_item = "Settings" -> OpenSettings(v)
    [] OTHER -> v

HandleTimeline(v, key) ==
  LET index == IF v.selected = None THEN 0
               ELSE PositionOf(v.selected, timeline) + 1
  IN CASE key = "Escape" -> [v EXCEPT !.screen = "Menu"]
       [] key = "Up" /\ index > 1 -> [v EXCEPT !.selected = timeline[index - 1]]
       [] key = "Down" /\ index > 0 /\ index < Len(timeline) ->
            [v EXCEPT !.selected = timeline[index + 1]]
       [] key = "Enter" /\ v.selected # None ->
            [v EXCEPT !.detail = v.selected, !.scroll = 0, !.screen = "Detail"]
       [] OTHER -> v

HandleDetail(v, key) ==
  CASE key = "Escape" -> [v EXCEPT !.screen = "Timeline", !.scroll = 0]
    [] key = "Up" /\ v.scroll > 0 -> [v EXCEPT !.scroll = @ - 1]
    [] key = "Down" /\ v.scroll < DetailLines[v.detail] ->
         [v EXCEPT !.scroll = @ + 1]
    [] OTHER -> v

\* handle_compose, without Enter.
HandleCompose(v, key) ==
  CASE Editable(key) /\ v.body < MaxBody ->
         [v EXCEPT !.body = @ + 1, !.cursor = @ + 1]
    [] \/ Editable(key) /\ v.body >= MaxBody
       \/ key = "Control" -> Show(v, "Error")
    [] key = "Left" /\ v.cursor > 0 -> [v EXCEPT !.cursor = @ - 1]
    [] key = "Right" /\ v.cursor < v.body -> [v EXCEPT !.cursor = @ + 1]
    [] key = "Backspace" /\ v.cursor > 0 ->
         [v EXCEPT !.body = @ - 1, !.cursor = @ - 1]
    [] key = "Delete" /\ v.cursor < v.body -> [v EXCEPT !.body = @ - 1]
    [] key = "Tab" -> [RefreshPeers(v, timeline) EXCEPT !.screen = "Mentions"]
    [] key = "Escape" -> IF Dirty(v) THEN Show(v, "Discard")
                                     ELSE CloseCompose(v)
    [] OTHER -> v

ToggleMention(v, peer) ==
  IF Contains(v.mentions, peer)
    THEN [v EXCEPT !.mentions = RemoveAt(@, PositionOf(peer, @) + 1)]
  ELSE IF Len(v.mentions) >= MaxMentions
    THEN Show(v, "Error")
  ELSE [v EXCEPT !.mentions = Append(@, peer)]

HandleMentions(v, key) ==
  LET w == RefreshPeers(v, timeline)
      peers == Observed(w, timeline)
      cursor == PositionOf(w.peer, peers)
  IN CASE key \in {"Escape", "Tab"} -> [w EXCEPT !.screen = "Compose"]
       [] key = "Up" /\ cursor > 0 -> [w EXCEPT !.peer = peers[cursor]]
       [] key = "Down" /\ cursor + 1 < Len(peers) ->
            [w EXCEPT !.peer = peers[cursor + 2]]
       [] key = "Enter" /\ peers # << >> -> ToggleMention(w, w.peer)
       [] OTHER -> w

\* handle_settings, without the keys that change a value.  settings_return is
\* never "Settings"; a Detail that is gone is left again by reconcile_model.
HandleSettings(v, key) ==
  CASE key = "d" -> Show(v, "DeleteData")
    [] key = "Escape" -> [v EXCEPT !.screen = v.settings_return]
    [] key \in {"Up", "Down"} ->
         [v EXCEPT !.settings_item =
            IF @ = "Language" THEN "SkipTitle" ELSE "Language"]
    [] OTHER -> v

\* handle
HandleScreen(v, key) ==
  CASE v.screen = "Menu" -> HandleMenu(v, key)
    [] v.screen = "Timeline" -> HandleTimeline(v, key)
    [] v.screen = "Detail" -> HandleDetail(v, key)
    [] v.screen = "Compose" -> HandleCompose(v, key)
    [] v.screen = "Mentions" -> HandleMentions(v, key)
    [] v.screen = "Settings" -> HandleSettings(v, key)

Handle(v, key) ==
  IF v.modal.id # "None" THEN HandleModal(v, key)
  ELSE IF key = "Home" THEN Show(v, "Exit")
  ELSE IF IsShortcut(v, key) THEN HandleShortcut(v, key)
  ELSE HandleScreen(v, key)

-----------------------------------------------------------------------------
(***************************************************************************)
(* The keys whose handling leaves the view model.                          *)
(***************************************************************************)
Current == Reconcile(vm, timeline)

Exits(v, key) ==
  \/ key = "Enter" /\ v.modal.id = "Exit" /\ v.modal.confirm
  \/ key = "Escape" /\ v.modal.id = "Recovery"
  \/ key = "Enter" /\ v.modal.id = "Recovery" /\ ~v.modal.confirm

Deletes(v, key) ==
  key = "Enter" /\ v.modal.id \in {"DeleteData", "Recovery"} /\ v.modal.confirm

Submits(v, key) ==
  key = "Enter" /\ v.modal.id = "None" /\ v.screen = "Compose"

Changes(v, key) ==
  /\ key \in {"Left", "Right", "Enter"}
  /\ v.modal.id = "None" /\ v.screen = "Settings"

Leaves(v, key) == \/ Exits(v, key) \/ Deletes(v, key)
                  \/ Submits(v, key) \/ Changes(v, key)

Press(key) ==
  /\ running
  /\ LET now == Current
     IN /\ ~Leaves(now, key)
        /\ vm' = Reconcile(Handle(now, key), timeline)
  /\ UNCHANGED <<timeline, ready, stored, running, composed>>

\* The view model ends with the application: a stopped one is left as it was
\* constructed, which nothing reads again.
ApproveExit(key) ==
  /\ running /\ Exits(Current, key)
  /\ running' = FALSE
  /\ vm' = Opened(TRUE, stored, timeline)
  /\ UNCHANGED <<timeline, ready, stored, composed>>

\* delete_all_local_data: it succeeds and the application stops, or it fails,
\* the session demands recovery, and the error is shown.
ApproveDelete(key) ==
  /\ running /\ Deletes(Current, key)
  /\ \/ /\ running' = FALSE
        /\ vm' = Opened(TRUE, stored, timeline)
     \/ /\ StorageMayFail
        /\ vm' = Reconcile(Show(Current, "Error"), timeline)
        /\ UNCHANGED running
  /\ ready' = FALSE
  /\ UNCHANGED <<timeline, stored, composed>>

\* A new post at the head; at the bound another one leaves (Session says
\* which; here it may be any that is neither new nor the reply parent).
Inserted(p, keep) ==
  LET rest == IF Len(timeline) < MaxTimeline THEN {timeline}
              ELSE {RemoveAt(timeline, i) :
                      i \in {j \in DOMAIN timeline : timeline[j] # keep}}
  IN {<<p>> \o tl : tl \in rest}

\* Enter in Compose: messenger_.compose.  An empty body and a reply to a
\* post that is gone are refused, storage may fail; the draft stays.
Refused(v) == Show(v, "Error")

ComposeRefused(key) ==
  /\ running /\ Submits(Current, key)
  /\ ready' \in IF StorageMayFail THEN {ready, FALSE} ELSE {ready}
  /\ vm' = Reconcile(Refused(Current), timeline)
  /\ UNCHANGED <<timeline, stored, running, composed>>

ComposeQueued(key) ==
  /\ running /\ Submits(Current, key)
  /\ ready /\ Current.body > 0
  /\ Current.reply = None \/ InTimeline(Current.reply, timeline)
  /\ \E p \in Posts \ composed :
       /\ SenderOf[p] = Self
       /\ composed' = composed \cup {p}
       /\ timeline' \in Inserted(p, Current.reply)
       /\ vm' = Reconcile(
            Show([ResetDraft(Current) EXCEPT !.selected = p, !.detail = None,
                    !.scroll = 0, !.screen = "Timeline"], "Status"),
            timeline')
  /\ UNCHANGED <<ready, stored, running>>

\* A changed value is stored before it is shown.
Candidate(v, key) ==
  IF v.settings_item = "SkipTitle"
    THEN [locale |-> v.locale, skip_title |-> ~v.skip_title]
    ELSE [locale |-> (IF key = "Left" THEN v.locale + LocaleCount - 1
                                      ELSE v.locale + 1) % LocaleCount,
          skip_title |-> v.skip_title]

NotStored(v, candidate) == Show(v, "Error")

ChangeSetting(key) ==
  /\ running /\ Changes(Current, key)
  /\ LET candidate == Candidate(Current, key)
     IN /\ candidate \in Settings
        /\ \/ /\ ready
              /\ stored' = candidate
              /\ vm' = [Current EXCEPT !.locale = candidate.locale,
                                       !.skip_title = candidate.skip_title]
              /\ UNCHANGED ready
           \/ /\ vm' = NotStored(Current, candidate)
              /\ \/ UNCHANGED <<stored, ready>>
                 \/ /\ StorageMayFail /\ ready
                    /\ ready' = FALSE /\ stored' \in {stored, candidate}
  /\ UNCHANGED <<timeline, running, composed>>

\* RadioRuntime::pump commits a received post; the main loop refreshes.
PostArrives ==
  /\ running /\ ready
  /\ \E p \in Posts :
       /\ SenderOf[p] # Self /\ ~Contains(timeline, p)
       /\ timeline' \in Inserted(p, None)
       /\ vm' = Reconcile(vm, timeline')
  /\ UNCHANGED <<ready, stored, running, composed>>

\* The window was closed.
CloseWindow ==
  /\ running /\ running' = FALSE
  /\ vm' = Opened(TRUE, stored, timeline)
  /\ UNCHANGED <<timeline, ready, stored, composed>>

Next == \/ \E key \in Keys : \/ Press(key) \/ ApproveExit(key)
                             \/ ApproveDelete(key) \/ ComposeRefused(key)
                             \/ ComposeQueued(key) \/ ChangeSetting(key)
        \/ PostArrives \/ CloseWindow

Spec == Init /\ [][Next]_vars

-----------------------------------------------------------------------------

\* After every pass the detail screen shows a post that exists and scrolls
\* within it, and the selection is a post of the timeline, whatever was
\* evicted meanwhile (view model lines 296-322, 576-596).
ShowsLivePosts ==
  running =>
    /\ vm.screen = "Detail" =>
         InTimeline(vm.detail, timeline) /\ vm.scroll <= DetailLines[vm.detail]
    /\ IF timeline = << >> THEN vm.selected = None
                           ELSE InTimeline(vm.selected, timeline)

\* The screens that edit the draft: README.md:119-121, one active
\* draft-editing context.
Editing == {"Compose", "Mentions"}

\* The draft is still being edited, and nothing of it is lost.
KeepsDraft(v, w) ==
  /\ w.screen \in Editing /\ w.reply = v.reply
  /\ w.body >= v.body /\ Len(w.mentions) >= Len(v.mentions)

\* One piece was erased on the screen that edits it, under no modal.
ErasesPiece(v, w) ==
  /\ v.modal.id = "None" /\ w.modal.id = "None"
  /\ w.screen = v.screen /\ w.reply = v.reply
  /\ \/ /\ v.screen = "Compose"
        /\ w.body = v.body - 1 /\ w.mentions = v.mentions
     \/ /\ v.screen = "Mentions"
        /\ w.body = v.body /\ Len(w.mentions) = Len(v.mentions) - 1

\* A draft that is dirty stays in the editor, with the post it answers, until
\* it was queued, its discarding was confirmed or the application ends: no
\* arriving post, modal, refused submission or letter key takes it away, and
\* an edit costs one piece of the part being edited (handle_modal 422-480,
\* handle_compose 598-661; README.md:119-121: "letter keys are never
\* interpreted as global shortcuts there").
DraftGoesByChoice ==
  [][ Dirty(vm) => \/ KeepsDraft(vm, vm')
                   \/ ErasesPiece(vm, vm')
                   \/ vm.modal = [id |-> "Discard", confirm |-> TRUE]
                   \/ composed' # composed
                   \/ ~running' ]_vars

=============================================================================
