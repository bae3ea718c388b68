--------------------------- MODULE ViewModelProofs ---------------------------
(***************************************************************************)
(* What the device shows and what it saves, for every value of the bounds. *)
(*                                                                         *)
(* ViewModel: the inductive invariant, the posts on the screens, the draft *)
(* and the settings shown.  SettingsStore: save and load implement an      *)
(* atomic file.                                                            *)
(***************************************************************************)
EXTENDS ViewModel, SettingsStore, TLAPS

-----------------------------------------------------------------------------
(* The view: what holds after every step. *)

\* The members of the view model.
Members == {"screen", "compose_return", "settings_return", "modal",
            "selected", "detail", "scroll", "body", "cursor", "mentions",
            "reply", "peer", "menu_item", "settings_item", "locale",
            "skip_title"}

Screens == {"Menu", "Timeline", "Detail", "Compose", "Mentions", "Settings"}

Modals == [id : {"None", "Status", "Error", "Exit", "Recovery", "Discard",
                 "DeleteData"},
           confirm : BOOLEAN]

\* What the settings screen shows.
Shown(v) == [locale |-> v.locale, skip_title |-> v.skip_title]

\* Type correctness: the screens, the modal over them, the posts they name.
ScreensTyped(v) ==
  /\ v.screen \in Screens
  /\ v.compose_return \in Screens \ Editing
  /\ v.settings_return \in {"Menu", "Timeline", "Detail"}
  /\ v.modal \in Modals
  /\ {v.selected, v.detail, v.reply} \subseteq Posts \cup {None}
  /\ v.menu_item \in {"Talk", "Settings"}
  /\ v.settings_item \in {"Language", "SkipTitle"}
  /\ Shown(v) \in Settings

\* The post that was opened last is scrolled within its lines.
ScrollInside(v) ==
  /\ v.scroll \in Nat
  /\ v.detail # None => v.scroll <= DetailLines[v.detail]

IsSequence(s) == s \in Seq({s[i] : i \in DOMAIN s})

NoRepeats(s) == \A i, j \in 1 .. Len(s) : s[i] = s[j] => i = j

\* The draft keeps the limits of a post, and its cursor.
DraftFits(v) ==
  /\ v.body \in 0 .. MaxBody /\ v.cursor \in 0 .. v.body
  /\ IsSequence(v.mentions) /\ Len(v.mentions) <= MaxMentions
  /\ NoRepeats(v.mentions)

\* There is a draft only on the screens that edit it.
DraftInEditor(v) == v.screen \notin Editing => v.body = 0 /\ v.mentions = << >>

Sound(v) == /\ DOMAIN v = Members
            /\ ScreensTyped(v) /\ ScrollInside(v)
            /\ DraftFits(v) /\ DraftInEditor(v)

\* What reconcile_model establishes for a timeline.
Live(v, tl) ==
  /\ v.screen = "Detail" => InTimeline(v.detail, tl)
  /\ IF tl = << >> THEN v.selected = None ELSE InTimeline(v.selected, tl)

\* While the session is ready the settings shown are the settings stored.
ShownIsStored == running /\ ready => Shown(vm) = stored

ViewIInv ==
  /\ timeline \in Seq(Posts) /\ stored \in Settings
  /\ running \in BOOLEAN /\ ready \in BOOLEAN
  /\ Sound(vm)
  /\ running => Live(vm, timeline)
  /\ ShownIsStored

-----------------------------------------------------------------------------
(* reconcile_model. *)

\* The newest post is in the timeline.
LEMMA HeadLives ==
  ASSUME NEW tl \in Seq(Posts), tl # << >>
  PROVE  InTimeline(Head(tl), tl)
<1>1. 1 \in 1 .. Len(tl) /\ Head(tl) = tl[1] /\ tl[1] \in Posts
  OBVIOUS
<1> QED
  BY <1>1, ViewModelAssumption DEF InTimeline, Contains

\* What is found in the timeline is a post.
LEMMA LivesTyped ==
  ASSUME NEW tl \in Seq(Posts), NEW p, InTimeline(p, tl)
  PROVE  p \in Posts /\ p # None
BY DEF InTimeline, Contains

\* ensure_timeline_selection leaves a selected post that exists (313-322).
LEMMA EnsureSelectionSound ==
  ASSUME NEW v, Sound(v), NEW tl \in Seq(Posts), NEW w, w = EnsureSelection(v, tl)
  PROVE  /\ Sound(w)
         /\ IF tl = << >> THEN w.selected = None ELSE InTimeline(w.selected, tl)
         /\ w.modal = v.modal /\ w.screen = v.screen
         /\ w.body = v.body /\ w.mentions = v.mentions /\ w.reply = v.reply
         /\ Shown(w) = Shown(v)
<1>a. DOMAIN v = Members
  BY DEF Sound
<1>1. PICK s : s = IF InTimeline(v.selected, tl) THEN v.selected
                   ELSE IF tl = << >> THEN None ELSE Head(tl)
  OBVIOUS
<1>2. w = [v EXCEPT !.selected = s]
  BY <1>1 DEF EnsureSelection
<1>3. /\ IF tl = << >> THEN s = None ELSE InTimeline(s, tl)
      /\ s \in Posts \cup {None}
  <2>1. ~InTimeline(v.selected, << >>)
    BY DEF InTimeline, Contains
  <2> QED
    BY <1>1, <2>1, HeadLives, LivesTyped
<1>4. w.selected = s
  BY <1>a, <1>2 DEF Members
<1>5. DOMAIN w = Members /\ \A f \in Members \ {"selected"} : w[f] = v[f]
  BY <1>a, <1>2
<1>6. Sound(w)
  BY <1>3, <1>4, <1>5
     DEF Members, Sound, ScreensTyped, ScrollInside, DraftFits, DraftInEditor,
         Shown
<1> QED
  BY <1>3, <1>4, <1>5, <1>6 DEF Members, Shown

\* A modal covers the screen and changes nothing else (401-420).
LEMMA ShowSound ==
  ASSUME NEW v, Sound(v), NEW id, [id |-> id, confirm |-> FALSE] \in Modals,
         NEW w, w = Show(v, id)
  PROVE  /\ Sound(w) /\ w.modal = [id |-> id, confirm |-> FALSE]
         /\ \A f \in Members \ {"modal"} : w[f] = v[f]
<1>1. DOMAIN v = Members
  BY DEF Sound
<1>2. /\ DOMAIN w = Members /\ \A f \in Members \ {"modal"} : w[f] = v[f]
      /\ w.modal = [id |-> id, confirm |-> FALSE]
  BY <1>1 DEF Show, Members
<1> QED
  BY <1>2
     DEF Members, Sound, ScreensTyped, ScrollInside, DraftFits, DraftInEditor,
         Shown

\* A detail screen whose post is gone is left for the timeline (299-309).
LEMMA LeaveDetailSound ==
  ASSUME NEW v, Sound(v), NEW tl \in Seq(Posts), NEW w, w = LeaveDetail(v, tl)
  PROVE  /\ Sound(w)
         /\ w.screen = "Detail" => InTimeline(w.detail, tl)
         /\ IF v.modal.id = "None" THEN w.modal.id \in {"None", "Status"}
                                   ELSE w.modal = v.modal
         /\ IF v.screen = "Detail" THEN w.screen \in {"Detail", "Timeline"}
                                   ELSE w.screen = v.screen /\ w.modal = v.modal
         /\ w.selected = v.selected
         /\ w.body = v.body /\ w.mentions = v.mentions /\ w.reply = v.reply
         /\ Shown(w) = Shown(v)
<1>a. DOMAIN v = Members
  BY DEF Sound
<1>1. CASE ~(v.screen = "Detail" /\ ~InTimeline(v.detail, tl))
  <2>1. w = v
    BY <1>1 DEF LeaveDetail
  <2> QED
    BY <1>1, <2>1
<1>2. CASE v.screen = "Detail" /\ ~InTimeline(v.detail, tl)
  <2>1. PICK left : left = [v EXCEPT !.detail = None, !.scroll = 0, !.screen = "Timeline"]
    OBVIOUS
  <2>2. /\ DOMAIN left = Members
        /\ \A f \in Members \ {"detail", "scroll", "screen"} : left[f] = v[f]
        /\ left.detail = None /\ left.scroll = 0 /\ left.screen = "Timeline"
    BY <1>a, <2>1 DEF Members
  <2>3. Sound(left)
    BY <1>2, <2>2
       DEF Members, Sound, ScreensTyped, ScrollInside, DraftFits,
           DraftInEditor, Shown, Screens, Editing
  <2>4. w = IF v.modal.id = "None" THEN Show(left, "Status") ELSE left
    BY <1>2, <2>1 DEF LeaveDetail
  <2>5. CASE v.modal.id = "None"
    <3>1. [id |-> "Status", confirm |-> FALSE] \in Modals
      BY DEF Modals
    <3> QED
      BY <1>2, <2>2, <2>3, <2>4, <2>5, <3>1, ShowSound DEF Members, Shown
  <2> QED
    BY <1>2, <2>2, <2>3, <2>4, <2>5 DEF Members, Shown
<1> QED
  BY <1>1, <1>2

\* refresh_peers moves the peer under the cursor only (324-362).
LEMMA RefreshPeersSound ==
  ASSUME NEW v, Sound(v), NEW tl, NEW w, w = RefreshPeers(v, tl)
  PROVE  /\ Sound(w)
         /\ \A f \in Members \ {"peer"} : w[f] = v[f]
<1>1. DOMAIN v = Members
  BY DEF Sound
<1>2. PICK p : p = IF Observed(v, tl) = << >> THEN None
                   ELSE Observed(v, tl)[PositionOf(v.peer, Observed(v, tl)) + 1]
  OBVIOUS
<1>3. w = [v EXCEPT !.peer = p]
  BY <1>2 DEF RefreshPeers
<1>4. DOMAIN w = Members /\ \A f \in Members \ {"peer"} : w[f] = v[f]
  BY <1>1, <1>3
<1> QED
  BY <1>4
     DEF Members, Sound, ScreensTyped, ScrollInside, DraftFits, DraftInEditor,
         Shown

\* What reconcile_model does to a view.
Reconciled(v, w, tl) ==
  /\ Sound(w) /\ Live(w, tl)
  /\ IF v.modal.id = "None" THEN w.modal.id \in {"None", "Status"}
                            ELSE w.modal = v.modal
  /\ IF v.screen = "Detail" THEN w.screen \in {"Detail", "Timeline"}
                            ELSE w.screen = v.screen /\ w.modal = v.modal
  /\ w.body = v.body /\ w.mentions = v.mentions /\ w.reply = v.reply
  /\ Shown(w) = Shown(v)

\* reconcile_model makes every view one of the timeline, and costs nothing of
\* the draft.
LEMMA ReconcileSound ==
  ASSUME NEW v, Sound(v), NEW tl \in Seq(Posts)
  PROVE  Reconciled(v, Reconcile(v, tl), tl)
<1>1. PICK a : a = EnsureSelection(v, tl)
  OBVIOUS
<1>2. PICK b : b = LeaveDetail(a, tl)
  OBVIOUS
<1>3. PICK c : c = RefreshPeers(b, tl)
  OBVIOUS
<1>4. Reconcile(v, tl) = IF b.screen = "Mentions" THEN c ELSE b
  BY <1>1, <1>2, <1>3 DEF Reconcile
<1>5. /\ Sound(a)
      /\ IF tl = << >> THEN a.selected = None ELSE InTimeline(a.selected, tl)
      /\ a.modal = v.modal /\ a.screen = v.screen
      /\ a.body = v.body /\ a.mentions = v.mentions /\ a.reply = v.reply
      /\ Shown(a) = Shown(v)
  BY <1>1, EnsureSelectionSound
<1>6. /\ Sound(b)
      /\ b.screen = "Detail" => InTimeline(b.detail, tl)
      /\ IF a.modal.id = "None" THEN b.modal.id \in {"None", "Status"}
                                   ELSE b.modal = a.modal
      /\ IF a.screen = "Detail" THEN b.screen \in {"Detail", "Timeline"}
                                ELSE b.screen = a.screen /\ b.modal = a.modal
      /\ b.selected = a.selected
      /\ b.body = a.body /\ b.mentions = a.mentions /\ b.reply = a.reply
      /\ Shown(b) = Shown(a)
  BY <1>2, <1>5, LeaveDetailSound
<1>7. Reconciled(v, b, tl)
  BY <1>5, <1>6 DEF Reconciled, Live
<1>8. Sound(c) /\ \A f \in Members \ {"peer"} : c[f] = b[f]
  BY <1>3, <1>6, RefreshPeersSound
<1>9. Reconciled(v, c, tl)
  BY <1>7, <1>8 DEF Reconciled, Live, Members, Shown
<1> QED
  BY <1>4, <1>7, <1>9

-----------------------------------------------------------------------------
(* Sequences: the mentions and the timeline. *)

LEMMA SequenceLen ==
  ASSUME NEW s, IsSequence(s)
  PROVE  Len(s) \in Nat
BY DEF IsSequence

LEMMA EmptySequence ==
  IsSequence(<< >>) /\ Len(<< >>) = 0 /\ NoRepeats(<< >>)
BY DEF IsSequence, NoRepeats

LEMMA OneSequence ==
  ASSUME NEW e
  PROVE  IsSequence(<<e>>) /\ Len(<<e>>) = 1 /\ NoRepeats(<<e>>)
<1>1. PICK s : s = <<e>>
  OBVIOUS
<1>2. DOMAIN s = 1 .. 1 /\ s[1] = e
  BY <1>1
<1>3. {s[i] : i \in DOMAIN s} = {e}
  BY <1>2
<1>4. s \in Seq({e}) /\ Len(s) = 1
  BY <1>1
<1> QED
  BY <1>1, <1>3, <1>4 DEF IsSequence, NoRepeats

\* A mention that is not there yet is added at the end.
LEMMA AppendSequence ==
  ASSUME NEW s, IsSequence(s), NEW e
  PROVE  /\ IsSequence(Append(s, e)) /\ Len(Append(s, e)) = Len(s) + 1
         /\ NoRepeats(s) /\ ~Contains(s, e) => NoRepeats(Append(s, e))
<1>1. PICK S : S = {s[i] : i \in DOMAIN s}
  OBVIOUS
<1>2. s \in Seq(S)
  BY <1>1 DEF IsSequence
<1>3. PICK T : T = S \cup {e}
  OBVIOUS
<1>4. s \in Seq(T) /\ e \in T
  BY <1>2, <1>3
<1>5. PICK t : t = Append(s, e)
  OBVIOUS
<1>6. /\ t \in Seq(T) /\ Len(t) = Len(s) + 1 /\ DOMAIN t = 1 .. Len(t)
  BY <1>4, <1>5
<1>7. \A i \in 1 .. Len(t) : t[i] \in {t[j] : j \in DOMAIN t}
  BY <1>6
<1>8. t \in Seq({t[j] : j \in DOMAIN t})
  BY <1>6, <1>7
<1>9. /\ t[Len(t)] = e /\ \A i \in 1 .. Len(s) : t[i] = s[i]
      /\ Len(s) \in Nat
  BY <1>4, <1>5
<1>10. ASSUME NoRepeats(s), ~Contains(s, e) PROVE NoRepeats(t)
  BY <1>6, <1>9, <1>10 DEF NoRepeats, Contains
<1> QED
  BY <1>5, <1>6, <1>8, <1>10 DEF IsSequence

\* Erasing one element leaves the others in order.
LEMMA RemoveAtSequence ==
  ASSUME NEW T, NEW s \in Seq(T), NEW i \in 1 .. Len(s)
  PROVE  /\ RemoveAt(s, i) \in Seq(T) /\ Len(RemoveAt(s, i)) = Len(s) - 1
         /\ NoRepeats(s) => NoRepeats(RemoveAt(s, i))
<1>1. PICK a : a = SubSeq(s, 1, i - 1)
  OBVIOUS
<1>2. PICK b : b = SubSeq(s, i + 1, Len(s))
  OBVIOUS
<1>3. a \in Seq(T) /\ Len(a) = i - 1
  BY <1>1
<1>4. b \in Seq(T) /\ Len(b) = Len(s) - i
  BY <1>2
<1>5. RemoveAt(s, i) = a \o b
  BY <1>1, <1>2 DEF RemoveAt
<1>6. a \o b \in Seq(T) /\ Len(a \o b) = Len(a) + Len(b)
  BY <1>3, <1>4
<1>7. PICK t : t = a \o b
  OBVIOUS
<1>8. /\ Len(t) = Len(s) - 1 /\ Len(s) \in Nat
      /\ \A k \in 1 .. Len(t) : t[k] = IF k < i THEN s[k] ELSE s[k + 1]
  <2>1. \A k \in 1 .. i - 1 : a[k] = s[k]
    BY <1>1
  <2>2. \A k \in 1 .. Len(s) - i : b[k] = s[k + i]
    BY <1>2
  <2>3. \A k \in 1 .. Len(t) : t[k] = IF k <= Len(a) THEN a[k] ELSE b[k - Len(a)]
    BY <1>3, <1>4, <1>7
  <2>4. Len(t) = Len(s) - 1 /\ Len(s) \in Nat
    BY <1>3, <1>4, <1>6, <1>7
  <2>5. ASSUME NEW k \in 1 .. Len(t) PROVE t[k] = IF k < i THEN s[k] ELSE s[k + 1]
    <3>1. CASE k < i
      <4>1. k \in 1 .. i - 1 /\ k <= Len(a)
        BY <1>3, <3>1
      <4> QED
        BY <2>1, <2>3, <3>1, <4>1
    <3>2. CASE ~(k < i)
      <4>1. PICK d : d = k - Len(a)
        OBVIOUS
      <4>2. d \in 1 .. Len(s) - i /\ ~(k <= Len(a)) /\ d + i = k + 1
        BY <1>3, <2>4, <3>2, <4>1
      <4> QED
        BY <2>2, <2>3, <3>2, <4>1, <4>2
    <3> QED
      BY <3>1, <3>2
  <2> QED
    BY <2>4, <2>5
<1>9. ASSUME NoRepeats(s) PROVE NoRepeats(t)
  BY <1>8, <1>9 DEF NoRepeats
<1> QED
  BY <1>3, <1>4, <1>5, <1>6, <1>7, <1>9

\* A sequence over any set is a sequence over its own elements.
LEMMA OwnElements ==
  ASSUME NEW T, NEW s \in Seq(T)
  PROVE  IsSequence(s)
<1>1. DOMAIN s = 1 .. Len(s)
  OBVIOUS
<1>2. \A i \in 1 .. Len(s) : s[i] \in {s[j] : j \in DOMAIN s}
  BY <1>1
<1> QED
  BY <1>2 DEF IsSequence

\* A position that is looked for and found is a position.
LEMMA FoundAt ==
  ASSUME NEW s, IsSequence(s), NEW e, Contains(s, e)
  PROVE  PositionOf(e, s) + 1 \in 1 .. Len(s) /\ s[PositionOf(e, s) + 1] = e
<1>1. PICK k : k = CHOOSE i \in DOMAIN s : s[i] = e
  OBVIOUS
<1>2. DOMAIN s = 1 .. Len(s) /\ Len(s) \in Nat
  BY DEF IsSequence
<1>3. k \in 1 .. Len(s) /\ s[k] = e
  BY <1>1, <1>2 DEF Contains
<1>4. PositionOf(e, s) = k - 1
  BY <1>1 DEF PositionOf
<1> QED
  BY <1>2, <1>3, <1>4

-----------------------------------------------------------------------------
(* What the handlers share. *)

\* What a handler may do to a view with a draft: keep it, or erase a piece.
Handled(v, w) ==
  /\ Sound(w) /\ Shown(w) = Shown(v)
  /\ Dirty(v) => KeepsDraft(v, w) \/ ErasesPiece(v, w)

LEMMA DraftCounts ==
  ASSUME NEW v, Sound(v)
  PROVE  v.body \in Nat /\ Len(v.mentions) \in Nat
BY SequenceLen, ViewModelAssumption DEF Sound, DraftFits

\* A screen that edits no draft has none.
LEMMA CleanElsewhere ==
  ASSUME NEW v, Sound(v), v.screen \notin Editing
  PROVE  ~Dirty(v)
BY DEF Sound, DraftInEditor, Dirty

\* A handler that leaves the draft alone, and the editor to it.
LEMMA SameDraftHandled ==
  ASSUME NEW v, Sound(v), NEW w, Sound(w), Shown(w) = Shown(v),
         w.body = v.body, w.mentions = v.mentions, w.reply = v.reply,
         v.screen \in Editing => w.screen \in Editing
  PROVE  Handled(v, w)
<1>1. v.body \in Nat /\ Len(v.mentions) \in Nat
  BY DraftCounts
<1>2. Dirty(v) => v.screen \in Editing
  BY CleanElsewhere
<1> QED
  BY <1>1, <1>2 DEF Handled, KeepsDraft

\* A handler of a screen that edits no draft has none to lose.
LEMMA EmptyDraftHandled ==
  ASSUME NEW v, Sound(v), v.screen \notin Editing,
         NEW w, Sound(w), Shown(w) = Shown(v)
  PROVE  Handled(v, w)
BY CleanElsewhere DEF Handled

\* A modal leaves the draft alone.
LEMMA ShowHandled ==
  ASSUME NEW v, Sound(v), NEW id, [id |-> id, confirm |-> FALSE] \in Modals
  PROVE  Handled(v, Show(v, id))
<1>1. PICK w : w = Show(v, id)
  OBVIOUS
<1>2. Sound(w) /\ \A f \in Members \ {"modal"} : w[f] = v[f]
  BY <1>1, ShowSound
<1>3. /\ w.body = v.body /\ w.mentions = v.mentions /\ w.reply = v.reply
      /\ w.screen = v.screen /\ Shown(w) = Shown(v)
  BY <1>2 DEF Members, Shown
<1> QED
  BY <1>1, <1>2, <1>3, SameDraftHandled

\* Every modal can be shown.
LEMMA ModalIds ==
  \A id \in {"None", "Status", "Error", "Exit", "Recovery", "Discard", "DeleteData"} :
    \A c \in BOOLEAN : [id |-> id, confirm |-> c] \in Modals
BY DEF Modals

\* Draft::reset.
LEMMA ResetDraftSound ==
  ASSUME NEW v, Sound(v), NEW w, w = ResetDraft(v)
  PROVE  /\ Sound(w) /\ w.body = 0 /\ w.cursor = 0 /\ w.mentions = << >>
         /\ w.reply = None
         /\ \A f \in Members \ {"body", "cursor", "mentions", "reply"} : w[f] = v[f]
<1>1. DOMAIN v = Members
  BY DEF Sound
<1>2. /\ DOMAIN w = Members
      /\ w.body = 0 /\ w.cursor = 0 /\ w.mentions = << >> /\ w.reply = None
      /\ \A f \in Members \ {"body", "cursor", "mentions", "reply"} : w[f] = v[f]
  BY <1>1 DEF ResetDraft, Members
<1>3. ScreensTyped(w)
  BY <1>2 DEF Members, Sound, ScreensTyped, Shown
<1>4. ScrollInside(w) /\ DraftInEditor(w)
  BY <1>2 DEF Members, Sound, ScrollInside, DraftInEditor
<1>5. DraftFits(w)
  BY <1>2, EmptySequence, ViewModelAssumption DEF DraftFits
<1> QED
  BY <1>2, <1>3, <1>4, <1>5 DEF Sound

\* open_compose starts a draft, on a screen that has none (373-387).
LEMMA OpenComposeSound ==
  ASSUME NEW v, Sound(v), v.screen \notin Editing,
         NEW reply \in Posts \cup {None}, NEW mention
  PROVE  Handled(v, OpenCompose(v, reply, mention))
<1>1. PICK r : r = ResetDraft(v)
  OBVIOUS
<1>2. PICK s : s = IF mention \in {None, Self} THEN << >> ELSE <<mention>>
  OBVIOUS
<1>3. PICK w : w = OpenCompose(v, reply, mention)
  OBVIOUS
<1>4. /\ Sound(r) /\ r.body = 0 /\ r.cursor = 0
      /\ \A f \in Members \ {"body", "cursor", "mentions", "reply"} : r[f] = v[f]
  BY <1>1, ResetDraftSound
<1>5. DOMAIN r = Members
  BY <1>4 DEF Sound
<1>6. w = [r EXCEPT !.reply = reply, !.mentions = s, !.compose_return = v.screen,
                    !.screen = "Compose"]
  BY <1>1, <1>2, <1>3 DEF OpenCompose
<1>7. /\ DOMAIN w = Members
      /\ w.reply = reply /\ w.mentions = s /\ w.compose_return = v.screen
      /\ w.screen = "Compose"
      /\ \A f \in Members \ {"reply", "mentions", "compose_return", "screen"} :
           w[f] = r[f]
  BY <1>5, <1>6 DEF Members
<1>8. ScreensTyped(w) /\ Shown(w) = Shown(v)
  BY <1>4, <1>7 DEF Members, Sound, ScreensTyped, Shown, Screens, Editing
<1>9. ScrollInside(w) /\ DraftInEditor(w)
  BY <1>4, <1>7 DEF Members, Sound, ScrollInside, DraftInEditor, Editing
<1>10. DraftFits(w)
  <2>1. IsSequence(s) /\ Len(s) <= 1 /\ Len(s) \in Nat /\ NoRepeats(s)
    BY <1>2, EmptySequence, OneSequence
  <2>2. MaxMentions \in Nat \ {0} /\ MaxBody \in Nat
    BY ViewModelAssumption
  <2>3. w.body = 0 /\ w.cursor = 0
    BY <1>4, <1>7 DEF Members
  <2> QED
    BY <1>7, <2>1, <2>2, <2>3 DEF DraftFits
<1> QED
  BY <1>3, <1>7, <1>8, <1>9, <1>10, EmptyDraftHandled DEF Sound

\* close_compose returns to a screen that edits no draft (389-399).
LEMMA CloseComposeSound ==
  ASSUME NEW v, Sound(v)
  PROVE  Sound(CloseCompose(v)) /\ Shown(CloseCompose(v)) = Shown(v)
<1>1. PICK r : r = ResetDraft(v)
  OBVIOUS
<1>2. PICK s : s = IF \/ v.compose_return = "Detail" /\ InTimeline(v.detail, timeline)
                      \/ v.compose_return = "Settings"
                   THEN v.compose_return ELSE "Timeline"
  OBVIOUS
<1>3. PICK w : w = CloseCompose(v)
  OBVIOUS
<1>4. /\ Sound(r) /\ r.body = 0 /\ r.cursor = 0 /\ r.mentions = << >>
      /\ \A f \in Members \ {"body", "cursor", "mentions", "reply"} : r[f] = v[f]
  BY <1>1, ResetDraftSound
<1>5. DOMAIN r = Members
  BY <1>4 DEF Sound
<1>6. w = [r EXCEPT !.screen = s]
  BY <1>1, <1>2, <1>3 DEF CloseCompose
<1>7. /\ DOMAIN w = Members /\ w.screen = s
      /\ \A f \in Members \ {"screen"} : w[f] = r[f]
  BY <1>5, <1>6 DEF Members
<1>8. s \in {"Detail", "Settings", "Timeline"}
  BY <1>2
<1>9. Sound(w)
  BY <1>4, <1>7, <1>8
     DEF Members, Sound, ScreensTyped, ScrollInside, DraftFits, DraftInEditor,
         Shown, Screens, Editing
<1>10. Shown(w) = Shown(v)
  BY <1>4, <1>7 DEF Members, Shown
<1> QED
  BY <1>3, <1>9, <1>10

LEMMA OpenSettingsSound ==
  ASSUME NEW v, Sound(v), v.screen \in {"Menu", "Timeline", "Detail"}
  PROVE  Handled(v, OpenSettings(v))
<1>1. PICK w : w = OpenSettings(v)
  OBVIOUS
<1>2. DOMAIN v = Members
  BY DEF Sound
<1>3. /\ DOMAIN w = Members /\ w.settings_return = v.screen
      /\ w.screen = "Settings" /\ w.settings_item = "Language"
      /\ \A f \in Members \ {"settings_return", "screen", "settings_item"} :
           w[f] = v[f]
  BY <1>1, <1>2 DEF OpenSettings, Members
<1>4. Sound(w) /\ Shown(w) = Shown(v)
  BY <1>3
     DEF Members, Sound, ScreensTyped, ScrollInside, DraftFits, DraftInEditor,
         Shown, Screens, Editing
<1> QED
  BY <1>1, <1>4, EmptyDraftHandled DEF Editing

-----------------------------------------------------------------------------
(* The key handlers, one screen after the other. *)

\* The shortcuts open Compose and Settings from the screens without a draft.
LEMMA HandleShortcutSound ==
  ASSUME NEW v, Sound(v), NEW key, IsShortcut(v, key)
  PROVE  Handled(v, HandleShortcut(v, key))
<1>1. v.screen \in Screens /\ v.selected \in Posts \cup {None}
      /\ v.detail \in Posts \cup {None}
  BY DEF Sound, ScreensTyped
<1>2. /\ v.screen \notin Editing /\ key \in {"n", "r", "m", "s"}
      /\ key = "s" => v.screen \in {"Menu", "Timeline", "Detail"}
  BY <1>1 DEF IsShortcut, Editing, Screens
<1>3. Target(v) \in Posts \cup {None}
  BY <1>1 DEF Target
<1>4. CASE key = "s"
  BY <1>2, <1>4, OpenSettingsSound DEF HandleShortcut
<1>5. CASE key = "n"
  <2>1. HandleShortcut(v, key) = OpenCompose(v, None, None)
    BY <1>5 DEF HandleShortcut
  <2> QED
    BY <1>2, <2>1, OpenComposeSound
<1>6. CASE key = "r"
  <2>1. HandleShortcut(v, key) = OpenCompose(v, Target(v), None)
    BY <1>6 DEF HandleShortcut
  <2> QED
    BY <1>2, <1>3, <2>1, OpenComposeSound
<1>7. CASE key = "m"
  <2>1. PICK mention : mention = IF InTimeline(Target(v), timeline)
                                   THEN SenderOf[Target(v)] ELSE None
    OBVIOUS
  <2>2. HandleShortcut(v, key) = OpenCompose(v, None, mention)
    BY <1>7, <2>1 DEF HandleShortcut
  <2> QED
    BY <1>2, <2>2, OpenComposeSound
<1> QED
  BY <1>2, <1>4, <1>5, <1>6, <1>7

LEMMA HandleMenuSound ==
  ASSUME NEW v, Sound(v), v.screen = "Menu", NEW key
  PROVE  Handled(v, HandleMenu(v, key))
<1>a. DOMAIN v = Members /\ v.menu_item \in {"Talk", "Settings"}
  BY DEF Sound, ScreensTyped
<1>1. CASE key \in {"Up", "Down"}
  <2>1. PICK w : w = HandleMenu(v, key)
    OBVIOUS
  <2>2. PICK m : m = IF v.menu_item = "Talk" THEN "Settings" ELSE "Talk"
    OBVIOUS
  <2>3. w = [v EXCEPT !.menu_item = m]
    BY <1>1, <2>1, <2>2 DEF HandleMenu
  <2>4. /\ DOMAIN w = Members /\ w.menu_item = m
        /\ \A f \in Members \ {"menu_item"} : w[f] = v[f]
    BY <1>a, <2>3 DEF Members
  <2>5. Sound(w) /\ Shown(w) = Shown(v)
    BY <2>2, <2>4
       DEF Members, Sound, ScreensTyped, ScrollInside, DraftFits,
           DraftInEditor, Shown
  <2> QED
    BY <2>1, <2>5, EmptyDraftHandled DEF Editing
<1>2. CASE key = "Enter" /\ v.menu_item = "Talk"
  <2>1. PICK w : w = [v EXCEPT !.screen = "Timeline"]
    OBVIOUS
  <2>2. HandleMenu(v, key) = w
    BY <1>2, <2>1 DEF HandleMenu
  <2>3. /\ DOMAIN w = Members /\ w.screen = "Timeline"
        /\ \A f \in Members \ {"screen"} : w[f] = v[f]
    BY <1>a, <2>1 DEF Members
  <2>4. Sound(w) /\ Shown(w) = Shown(v)
    BY <2>3
       DEF Members, Sound, ScreensTyped, ScrollInside, DraftFits,
           DraftInEditor, Shown, Screens, Editing
  <2> QED
    BY <2>2, <2>4, EmptyDraftHandled DEF Editing
<1>3. CASE key = "Enter" /\ v.menu_item = "Settings"
  <2>1. HandleMenu(v, key) = OpenSettings(v)
    BY <1>3 DEF HandleMenu
  <2> QED
    BY <2>1, OpenSettingsSound
<1>4. CASE key \notin {"Up", "Down", "Enter"}
  <2>1. HandleMenu(v, key) = v
    BY <1>4 DEF HandleMenu
  <2> QED
    BY <2>1, SameDraftHandled
<1> QED
  BY <1>a, <1>1, <1>2, <1>3, <1>4

\* The cursor of the timeline moves from post to post.
LEMMA HandleTimelineSound ==
  ASSUME NEW v, Sound(v), v.screen = "Timeline", Live(v, timeline),
         timeline \in Seq(Posts), NEW key
  PROVE  Handled(v, HandleTimeline(v, key))
<1>a. DOMAIN v = Members /\ v.selected \in Posts \cup {None}
  BY DEF Sound, ScreensTyped
<1>b. PICK index : index = IF v.selected = None THEN 0
                           ELSE PositionOf(v.selected, timeline) + 1
  OBVIOUS
<1>c. index \in 0 .. Len(timeline) /\ Len(timeline) \in Nat
  <2>1. CASE v.selected = None
    BY <1>b, <2>1
  <2>2. CASE v.selected # None
    <3>1. Contains(timeline, v.selected)
      BY <2>2 DEF Live, InTimeline
    <3>2. IsSequence(timeline)
      BY OwnElements
    <3>3. index = PositionOf(v.selected, timeline) + 1
      BY <1>b, <2>2
    <3>4. index \in 1 .. Len(timeline)
      BY <3>1, <3>2, <3>3, FoundAt
    <3> QED
      BY <3>4
  <2> QED
    BY <2>1, <2>2
<1>1. ASSUME NEW s \in Screens \ Editing, NEW p \in Posts \cup {None},
             NEW w, w = [v EXCEPT !.screen = s, !.selected = p]
      PROVE  Handled(v, w)
  <2>1. /\ DOMAIN w = Members /\ w.screen = s /\ w.selected = p
        /\ \A f \in Members \ {"screen", "selected"} : w[f] = v[f]
    BY <1>a, <1>1 DEF Members
  <2>2. Sound(w) /\ Shown(w) = Shown(v)
    BY <2>1
       DEF Members, Sound, ScreensTyped, ScrollInside, DraftFits,
           DraftInEditor, Shown, Editing
  <2> QED
    BY <2>2, EmptyDraftHandled DEF Editing
<1>2. CASE key = "Escape"
  <2>1. HandleTimeline(v, key) = [v EXCEPT !.screen = "Menu"]
    BY <1>2 DEF HandleTimeline
  <2>2. [v EXCEPT !.screen = "Menu"]
          = [v EXCEPT !.screen = "Menu", !.selected = v.selected]
    BY <1>a DEF Members
  <2> QED
    BY <1>1, <1>a, <2>1, <2>2 DEF Screens, Editing
<1>3. CASE key = "Up" /\ index > 1
  <2>1. HandleTimeline(v, key) = [v EXCEPT !.selected = timeline[index - 1]]
    BY <1>3, <1>b DEF HandleTimeline
  <2>2. timeline[index - 1] \in Posts
    BY <1>3, <1>c
  <2>3. [v EXCEPT !.selected = timeline[index - 1]]
          = [v EXCEPT !.screen = "Timeline", !.selected = timeline[index - 1]]
    BY <1>a DEF Members
  <2> QED
    BY <1>1, <2>1, <2>2, <2>3 DEF Screens, Editing
<1>4. CASE key = "Down" /\ index > 0 /\ index < Len(timeline)
  <2>1. HandleTimeline(v, key) = [v EXCEPT !.selected = timeline[index + 1]]
    BY <1>4, <1>b DEF HandleTimeline
  <2>2. timeline[index + 1] \in Posts
    BY <1>4, <1>c
  <2>3. [v EXCEPT !.selected = timeline[index + 1]]
          = [v EXCEPT !.screen = "Timeline", !.selected = timeline[index + 1]]
    BY <1>a DEF Members
  <2> QED
    BY <1>1, <2>1, <2>2, <2>3 DEF Screens, Editing
<1>5. CASE key = "Enter" /\ v.selected # None
  <2>1. PICK w : w = [v EXCEPT !.detail = v.selected, !.scroll = 0, !.screen = "Detail"]
    OBVIOUS
  <2>2. HandleTimeline(v, key) = w
    BY <1>5, <2>1 DEF HandleTimeline
  <2>3. /\ DOMAIN w = Members /\ w.detail = v.selected /\ w.scroll = 0
        /\ w.screen = "Detail"
        /\ \A f \in Members \ {"detail", "scroll", "screen"} : w[f] = v[f]
    BY <1>a, <2>1 DEF Members
  <2>4. ScrollInside(w)
    BY <1>5, <1>a, <2>3, ViewModelAssumption DEF ScrollInside
  <2>5. Sound(w) /\ Shown(w) = Shown(v)
    BY <2>3, <2>4
       DEF Members, Sound, ScreensTyped, DraftFits, DraftInEditor, Shown,
           Screens, Editing
  <2> QED
    BY <2>2, <2>5, EmptyDraftHandled DEF Editing
<1>6. CASE /\ key # "Escape" /\ ~(key = "Up" /\ index > 1)
           /\ ~(key = "Down" /\ index > 0 /\ index < Len(timeline))
           /\ ~(key = "Enter" /\ v.selected # None)
  <2>1. HandleTimeline(v, key) = v
    BY <1>6, <1>b DEF HandleTimeline
  <2> QED
    BY <2>1, SameDraftHandled
<1> QED
  BY <1>2, <1>3, <1>4, <1>5, <1>6

\* The detail screen scrolls between the first and the last line.
LEMMA HandleDetailSound ==
  ASSUME NEW v, Sound(v), v.screen = "Detail", Live(v, timeline),
         timeline \in Seq(Posts), NEW key
  PROVE  Handled(v, HandleDetail(v, key))
<1>a. DOMAIN v = Members /\ v.scroll \in Nat
  BY DEF Sound, ScrollInside
<1>b. v.detail \in Posts /\ DetailLines[v.detail] \in Nat /\ v.detail # None
  BY LivesTyped, ViewModelAssumption DEF Live
<1>1. ASSUME NEW s \in {"Timeline", "Detail"}, NEW n \in Nat,
             n <= DetailLines[v.detail],
             NEW w, w = [v EXCEPT !.screen = s, !.scroll = n]
      PROVE  Handled(v, w)
  <2>1. /\ DOMAIN w = Members /\ w.screen = s /\ w.scroll = n
        /\ \A f \in Members \ {"screen", "scroll"} : w[f] = v[f]
    BY <1>a, <1>1 DEF Members
  <2>2. ScrollInside(w)
    BY <1>1, <2>1 DEF Members, ScrollInside
  <2>3. Sound(w) /\ Shown(w) = Shown(v)
    BY <2>1, <2>2
       DEF Members, Sound, ScreensTyped, DraftFits, DraftInEditor, Shown,
           Screens, Editing
  <2> QED
    BY <2>3, EmptyDraftHandled DEF Editing
<1>2. CASE key = "Escape"
  <2>1. HandleDetail(v, key) = [v EXCEPT !.screen = "Timeline", !.scroll = 0]
    BY <1>2 DEF HandleDetail
  <2>2. 0 <= DetailLines[v.detail]
    BY <1>b
  <2> QED
    BY <1>1, <2>1, <2>2
<1>3. CASE key = "Up" /\ v.scroll > 0
  <2>1. HandleDetail(v, key) = [v EXCEPT !.scroll = v.scroll - 1]
    BY <1>3 DEF HandleDetail
  <2>2. v.scroll - 1 \in Nat /\ v.scroll - 1 <= DetailLines[v.detail]
    BY <1>3, <1>a, <1>b DEF Sound, ScrollInside
  <2>3. [v EXCEPT !.scroll = v.scroll - 1]
          = [v EXCEPT !.screen = "Detail", !.scroll = v.scroll - 1]
    BY <1>a DEF Members
  <2> QED
    BY <1>1, <2>1, <2>2, <2>3
<1>4. CASE key = "Down" /\ v.scroll < DetailLines[v.detail]
  <2>1. HandleDetail(v, key) = [v EXCEPT !.scroll = v.scroll + 1]
    BY <1>4 DEF HandleDetail
  <2>2. v.scroll + 1 \in Nat /\ v.scroll + 1 <= DetailLines[v.detail]
    BY <1>4, <1>a, <1>b
  <2>3. [v EXCEPT !.scroll = v.scroll + 1]
          = [v EXCEPT !.screen = "Detail", !.scroll = v.scroll + 1]
    BY <1>a DEF Members
  <2> QED
    BY <1>1, <2>1, <2>2, <2>3
<1>5. CASE /\ key # "Escape" /\ ~(key = "Up" /\ v.scroll > 0)
           /\ ~(key = "Down" /\ v.scroll < DetailLines[v.detail])
  <2>1. HandleDetail(v, key) = v
    BY <1>5 DEF HandleDetail
  <2> QED
    BY <2>1, SameDraftHandled
<1> QED
  BY <1>2, <1>3, <1>4, <1>5

LEMMA HandleSettingsSound ==
  ASSUME NEW v, Sound(v), v.screen = "Settings", NEW key
  PROVE  Handled(v, HandleSettings(v, key))
<1>a. DOMAIN v = Members /\ v.settings_return \in {"Menu", "Timeline", "Detail"}
  BY DEF Sound, ScreensTyped
<1>1. CASE key = "d"
  <2>1. HandleSettings(v, key) = Show(v, "DeleteData")
    BY <1>1 DEF HandleSettings
  <2> QED
    BY <2>1, ShowHandled, ModalIds
<1>2. CASE key = "Escape"
  <2>1. PICK w : w = [v EXCEPT !.screen = v.settings_return]
    OBVIOUS
  <2>2. HandleSettings(v, key) = w
    BY <1>2, <2>1 DEF HandleSettings
  <2>3. /\ DOMAIN w = Members /\ w.screen = v.settings_return
        /\ \A f \in Members \ {"screen"} : w[f] = v[f]
    BY <1>a, <2>1 DEF Members
  <2>4. Sound(w) /\ Shown(w) = Shown(v)
    BY <1>a, <2>3
       DEF Members, Sound, ScreensTyped, ScrollInside, DraftFits,
           DraftInEditor, Shown, Screens, Editing
  <2> QED
    BY <2>2, <2>4, EmptyDraftHandled DEF Editing
<1>3. CASE key \in {"Up", "Down"}
  <2>1. PICK m : m = IF v.settings_item = "Language" THEN "SkipTitle" ELSE "Language"
    OBVIOUS
  <2>2. PICK w : w = [v EXCEPT !.settings_item = m]
    OBVIOUS
  <2>3. HandleSettings(v, key) = w
    BY <1>3, <2>1, <2>2 DEF HandleSettings
  <2>4. /\ DOMAIN w = Members /\ w.settings_item = m
        /\ \A f \in Members \ {"settings_item"} : w[f] = v[f]
    BY <1>a, <2>2 DEF Members
  <2>5. Sound(w) /\ Shown(w) = Shown(v)
    BY <2>1, <2>4
       DEF Members, Sound, ScreensTyped, ScrollInside, DraftFits,
           DraftInEditor, Shown
  <2> QED
    BY <2>3, <2>5, EmptyDraftHandled DEF Editing
<1>4. CASE key \notin {"d", "Escape", "Up", "Down"}
  <2>1. HandleSettings(v, key) = v
    BY <1>4 DEF HandleSettings
  <2> QED
    BY <2>1, SameDraftHandled
<1> QED
  BY <1>1, <1>2, <1>3, <1>4

\* An edit of the body, by one scalar at most.
LEMMA BodyEdited ==
  ASSUME NEW v, Sound(v), v.screen = "Compose", v.modal.id = "None",
         NEW b \in 0 .. MaxBody, NEW c \in 0 .. b, b >= v.body - 1,
         NEW w, w = [v EXCEPT !.body = b, !.cursor = c]
  PROVE  Handled(v, w)
<1>1. DOMAIN v = Members
  BY DEF Sound
<1>2. /\ DOMAIN w = Members /\ w.body = b /\ w.cursor = c
      /\ \A f \in Members \ {"body", "cursor"} : w[f] = v[f]
  BY <1>1 DEF Members
<1>3. DraftFits(w)
  BY <1>2 DEF Members, Sound, DraftFits
<1>4. Sound(w) /\ Shown(w) = Shown(v)
  BY <1>2, <1>3
     DEF Members, Sound, ScreensTyped, ScrollInside, DraftInEditor, Shown,
         Editing
<1>5. v.body \in Nat /\ Len(v.mentions) \in Nat /\ b \in Nat
  BY DraftCounts, ViewModelAssumption
<1>6. /\ w.mentions = v.mentions /\ w.reply = v.reply
      /\ w.modal = v.modal /\ w.screen = v.screen
  BY <1>2 DEF Members
<1>7. b >= v.body \/ b = v.body - 1
  BY <1>5
<1> QED
  BY <1>2, <1>4, <1>5, <1>6, <1>7 DEF Handled, KeepsDraft, ErasesPiece, Editing

\* Every key in Compose costs one scalar at most; Escape asks, unless the draft
\* is empty.
LEMMA HandleComposeSound ==
  ASSUME NEW v, Sound(v), v.screen = "Compose", v.modal.id = "None", NEW key
  PROVE  Handled(v, HandleCompose(v, key))
<1>a. /\ DOMAIN v = Members /\ v.body \in 0 .. MaxBody /\ v.cursor \in 0 .. v.body
      /\ MaxBody \in Nat
  BY ViewModelAssumption DEF Sound, DraftFits
<1>b. v.body \in Nat /\ v.cursor \in Nat /\ v.cursor <= v.body /\ v.body <= MaxBody
  BY <1>a
<1> USE DEF Editable, Letters
<1>1. CASE Editable(key) /\ v.body < MaxBody
  <2>1. HandleCompose(v, key) = [v EXCEPT !.body = v.body + 1, !.cursor = v.cursor + 1]
    BY <1>1, <1>a, <1>b DEF HandleCompose
  <2>2. v.body + 1 \in 0 .. MaxBody /\ v.cursor + 1 \in 0 .. v.body + 1
        /\ v.body + 1 >= v.body - 1
    BY <1>1, <1>a, <1>b
  <2> QED
    BY <2>1, <2>2, BodyEdited
<1>2. CASE (Editable(key) /\ v.body >= MaxBody) \/ key = "Control"
  <2>1. HandleCompose(v, key) = Show(v, "Error")
    BY <1>2, <1>a, <1>b DEF HandleCompose
  <2> QED
    BY <2>1, ShowHandled, ModalIds
<1>3. CASE key = "Left" /\ v.cursor > 0
  <2>1. HandleCompose(v, key) = [v EXCEPT !.cursor = v.cursor - 1]
    BY <1>3 DEF HandleCompose
  <2>2. [v EXCEPT !.cursor = v.cursor - 1]
          = [v EXCEPT !.body = v.body, !.cursor = v.cursor - 1]
    BY <1>a DEF Members
  <2>3. v.cursor - 1 \in 0 .. v.body /\ v.body >= v.body - 1
    BY <1>3, <1>b
  <2> QED
    BY <1>a, <2>1, <2>2, <2>3, BodyEdited
<1>4. CASE key = "Right" /\ v.cursor < v.body
  <2>1. HandleCompose(v, key) = [v EXCEPT !.cursor = v.cursor + 1]
    BY <1>4 DEF HandleCompose
  <2>2. [v EXCEPT !.cursor = v.cursor + 1]
          = [v EXCEPT !.body = v.body, !.cursor = v.cursor + 1]
    BY <1>a DEF Members
  <2>3. v.cursor + 1 \in 0 .. v.body /\ v.body >= v.body - 1
    BY <1>4, <1>b
  <2> QED
    BY <1>a, <2>1, <2>2, <2>3, BodyEdited
<1>5. CASE key = "Backspace" /\ v.cursor > 0
  <2>1. HandleCompose(v, key) = [v EXCEPT !.body = v.body - 1, !.cursor = v.cursor - 1]
    BY <1>5 DEF HandleCompose
  <2>2. /\ v.body - 1 \in 0 .. MaxBody /\ v.cursor - 1 \in 0 .. v.body - 1
        /\ v.body - 1 >= v.body - 1
    BY <1>5, <1>a, <1>b
  <2> QED
    BY <2>1, <2>2, BodyEdited
<1>6. CASE key = "Delete" /\ v.cursor < v.body
  <2>1. HandleCompose(v, key) = [v EXCEPT !.body = v.body - 1]
    BY <1>6 DEF HandleCompose
  <2>2. [v EXCEPT !.body = v.body - 1]
          = [v EXCEPT !.body = v.body - 1, !.cursor = v.cursor]
    BY <1>a DEF Members
  <2>3. PICK b : b = v.body - 1
    OBVIOUS
  <2>4. b \in 0 .. MaxBody /\ v.cursor \in 0 .. b /\ b >= v.body - 1
    BY <1>6, <1>a, <1>b, <2>3
  <2>5. HandleCompose(v, key) = [v EXCEPT !.body = b, !.cursor = v.cursor]
    BY <2>1, <2>2, <2>3
  <2> QED
    BY <2>4, <2>5, BodyEdited
<1>7. CASE key = "Tab"
  <2>1. PICK r : r = RefreshPeers(v, timeline)
    OBVIOUS
  <2>2. Sound(r) /\ \A f \in Members \ {"peer"} : r[f] = v[f]
    BY <2>1, RefreshPeersSound
  <2>3. PICK w : w = [r EXCEPT !.screen = "Mentions"]
    OBVIOUS
  <2>4. HandleCompose(v, key) = w
    BY <1>7, <2>1, <2>3 DEF HandleCompose
  <2>5. DOMAIN r = Members
    BY <2>2 DEF Sound
  <2>6. /\ DOMAIN w = Members /\ w.screen = "Mentions"
        /\ \A f \in Members \ {"screen"} : w[f] = r[f]
    BY <2>3, <2>5 DEF Members
  <2>7. Sound(w) /\ Shown(w) = Shown(r)
    BY <2>2, <2>6
       DEF Members, Sound, ScreensTyped, ScrollInside, DraftFits,
           DraftInEditor, Shown, Screens, Editing
  <2>8. /\ Shown(r) = Shown(v) /\ w.body = v.body /\ w.mentions = v.mentions
        /\ w.reply = v.reply
    BY <2>2, <2>6 DEF Members, Shown
  <2> QED
    BY <2>4, <2>6, <2>7, <2>8, SameDraftHandled DEF Editing
<1>8. CASE key = "Escape" /\ Dirty(v)
  <2>1. HandleCompose(v, key) = Show(v, "Discard")
    BY <1>8 DEF HandleCompose
  <2> QED
    BY <2>1, ShowHandled, ModalIds
<1>9. CASE key = "Escape" /\ ~Dirty(v)
  <2>1. HandleCompose(v, key) = CloseCompose(v)
    BY <1>9 DEF HandleCompose
  <2>2. PICK w : w = CloseCompose(v)
    OBVIOUS
  <2>3. Sound(w) /\ Shown(w) = Shown(v)
    BY <2>2, CloseComposeSound
  <2> QED
    BY <1>9, <2>1, <2>2, <2>3 DEF Handled
<1>10. CASE /\ ~Editable(key)
            /\ key \notin {"Control", "Tab", "Escape"}
            /\ ~(key = "Left" /\ v.cursor > 0)
            /\ ~(key = "Right" /\ v.cursor < v.body)
            /\ ~(key = "Backspace" /\ v.cursor > 0)
            /\ ~(key = "Delete" /\ v.cursor < v.body)
  <2>1. HandleCompose(v, key) = v
    BY <1>10 DEF HandleCompose
  <2> QED
    BY <2>1, SameDraftHandled
<1>11. v.body < MaxBody \/ v.body >= MaxBody
  BY <1>a, <1>b
<1> QED
  BY <1>1, <1>2, <1>3, <1>4, <1>5, <1>6, <1>7, <1>8, <1>9, <1>10, <1>11
     DEF Dirty

\* An edit of the mentions, by one at most.
LEMMA MentionsEdited ==
  ASSUME NEW v, Sound(v), v.screen = "Mentions", v.modal.id = "None",
         NEW s, IsSequence(s), Len(s) <= MaxMentions, NoRepeats(s),
         Len(s) >= Len(v.mentions) - 1,
         NEW w, w = [v EXCEPT !.mentions = s]
  PROVE  Handled(v, w)
<1>1. DOMAIN v = Members
  BY DEF Sound
<1>2. /\ DOMAIN w = Members /\ w.mentions = s
      /\ \A f \in Members \ {"mentions"} : w[f] = v[f]
  BY <1>1 DEF Members
<1>3. DraftFits(w)
  BY <1>2 DEF Members, Sound, DraftFits
<1>4. Sound(w) /\ Shown(w) = Shown(v)
  BY <1>2, <1>3
     DEF Members, Sound, ScreensTyped, ScrollInside, DraftInEditor, Shown,
         Editing
<1>5. v.body \in Nat /\ Len(v.mentions) \in Nat /\ Len(s) \in Nat
  BY DraftCounts, SequenceLen
<1>6. /\ w.body = v.body /\ w.reply = v.reply
      /\ w.modal = v.modal /\ w.screen = v.screen
  BY <1>2 DEF Members
<1>7. Len(s) >= Len(v.mentions) \/ Len(s) = Len(v.mentions) - 1
  BY <1>5
<1> QED
  BY <1>2, <1>4, <1>5, <1>6, <1>7 DEF Handled, KeepsDraft, ErasesPiece, Editing

\* Enter on a peer adds or removes one mention.
LEMMA ToggleMentionSound ==
  ASSUME NEW v, Sound(v), v.screen = "Mentions", v.modal.id = "None", NEW peer
  PROVE  Handled(v, ToggleMention(v, peer))
<1>a. /\ IsSequence(v.mentions) /\ Len(v.mentions) <= MaxMentions
      /\ Len(v.mentions) \in Nat /\ MaxMentions \in Nat
      /\ NoRepeats(v.mentions)
  BY SequenceLen, ViewModelAssumption DEF Sound, DraftFits
<1>b. DOMAIN v = Members
  BY DEF Sound
<1>1. CASE Contains(v.mentions, peer)
  <2>1. PICK i : i = PositionOf(peer, v.mentions) + 1
    OBVIOUS
  <2>2. PICK s : s = RemoveAt(v.mentions, i)
    OBVIOUS
  <2>3. ToggleMention(v, peer) = [v EXCEPT !.mentions = s]
    BY <1>1, <2>1, <2>2 DEF ToggleMention
  <2>4. i \in 1 .. Len(v.mentions)
    BY <1>1, <1>a, <2>1, FoundAt
  <2>5. PICK T : v.mentions \in Seq(T)
    BY <1>a DEF IsSequence
  <2>6. s \in Seq(T) /\ Len(s) = Len(v.mentions) - 1 /\ NoRepeats(s)
    BY <1>a, <2>2, <2>4, <2>5, RemoveAtSequence
  <2>7. IsSequence(s)
    BY <2>6, OwnElements
  <2>8. Len(s) <= MaxMentions /\ Len(s) >= Len(v.mentions) - 1
    BY <1>a, <2>6
  <2> QED
    BY <2>3, <2>6, <2>7, <2>8, MentionsEdited
<1>2. CASE ~Contains(v.mentions, peer) /\ Len(v.mentions) >= MaxMentions
  <2>1. ToggleMention(v, peer) = Show(v, "Error")
    BY <1>2 DEF ToggleMention
  <2> QED
    BY <2>1, ShowHandled, ModalIds
<1>3. CASE ~Contains(v.mentions, peer) /\ ~(Len(v.mentions) >= MaxMentions)
  <2>1. PICK s : s = Append(v.mentions, peer)
    OBVIOUS
  <2>2. ToggleMention(v, peer) = [v EXCEPT !.mentions = s]
    BY <1>3, <2>1 DEF ToggleMention
  <2>3. IsSequence(s) /\ Len(s) = Len(v.mentions) + 1 /\ NoRepeats(s)
    BY <1>3, <1>a, <2>1, AppendSequence
  <2>4. Len(s) <= MaxMentions /\ Len(s) >= Len(v.mentions) - 1
    BY <1>3, <1>a, <2>3
  <2> QED
    BY <2>2, <2>3, <2>4, MentionsEdited
<1> QED
  BY <1>1, <1>2, <1>3

LEMMA HandleMentionsSound ==
  ASSUME NEW v, Sound(v), v.screen = "Mentions", v.modal.id = "None", NEW key
  PROVE  Handled(v, HandleMentions(v, key))
<1>1. PICK r : r = RefreshPeers(v, timeline)
  OBVIOUS
<1>2. PICK peers : peers = Observed(r, timeline)
  OBVIOUS
<1>3. PICK cursor : cursor = PositionOf(r.peer, peers)
  OBVIOUS
<1>4. HandleMentions(v, key) =
        CASE key \in {"Escape", "Tab"} -> [r EXCEPT !.screen = "Compose"]
          [] key = "Up" /\ cursor > 0 -> [r EXCEPT !.peer = peers[cursor]]
          [] key = "Down" /\ cursor + 1 < Len(peers) ->
               [r EXCEPT !.peer = peers[cursor + 2]]
          [] key = "Enter" /\ peers # << >> -> ToggleMention(r, r.peer)
          [] OTHER -> r
  BY <1>1, <1>2, <1>3 DEF HandleMentions
<1>5. Sound(r) /\ \A f \in Members \ {"peer"} : r[f] = v[f]
  BY <1>1, RefreshPeersSound
<1>6. /\ DOMAIN r = Members /\ r.screen = "Mentions" /\ r.modal = v.modal
      /\ r.body = v.body /\ r.mentions = v.mentions /\ r.reply = v.reply
      /\ Shown(r) = Shown(v)
  BY <1>5 DEF Members, Sound, Shown
<1>7. ASSUME NEW w, Handled(r, w) PROVE Handled(v, w)
  BY <1>6, <1>7 DEF Handled, Dirty, KeepsDraft, ErasesPiece
<1>8. CASE key \in {"Escape", "Tab"}
  <2>1. PICK w : w = [r EXCEPT !.screen = "Compose"]
    OBVIOUS
  <2>2. HandleMentions(v, key) = w
    BY <1>4, <1>8, <2>1
  <2>3. /\ DOMAIN w = Members /\ w.screen = "Compose"
        /\ \A f \in Members \ {"screen"} : w[f] = r[f]
    BY <1>6, <2>1 DEF Members
  <2>4. Sound(w) /\ Shown(w) = Shown(r)
    BY <1>5, <1>6, <2>3
       DEF Members, Sound, ScreensTyped, ScrollInside, DraftFits,
           DraftInEditor, Shown, Screens, Editing
  <2>5. w.body = r.body /\ w.mentions = r.mentions /\ w.reply = r.reply
    BY <2>3 DEF Members
  <2>6. Handled(r, w)
    BY <1>5, <2>3, <2>4, <2>5, SameDraftHandled DEF Editing
  <2> QED
    BY <1>7, <2>2, <2>6
<1>9. ASSUME NEW p, NEW w, w = [r EXCEPT !.peer = p]
      PROVE  Handled(v, w)
  <2>1. DOMAIN w = Members /\ \A f \in Members \ {"peer"} : w[f] = r[f]
    BY <1>6, <1>9 DEF Members
  <2>2. /\ Sound(w) /\ Shown(w) = Shown(r) /\ w.screen = r.screen
        /\ w.body = r.body /\ w.mentions = r.mentions /\ w.reply = r.reply
    BY <1>5, <2>1
       DEF Members, Sound, ScreensTyped, ScrollInside, DraftFits,
           DraftInEditor, Shown
  <2> QED
    BY <1>5, <1>7, <2>2, SameDraftHandled
<1>10. CASE key = "Up" /\ cursor > 0
  <2>1. HandleMentions(v, key) = [r EXCEPT !.peer = peers[cursor]]
    BY <1>4, <1>10
  <2> QED
    BY <1>9, <2>1
<1>11. CASE key = "Down" /\ cursor + 1 < Len(peers)
  <2>1. HandleMentions(v, key) = [r EXCEPT !.peer = peers[cursor + 2]]
    BY <1>4, <1>11
  <2> QED
    BY <1>9, <2>1
<1>12. CASE key = "Enter" /\ peers # << >>
  <2>1. HandleMentions(v, key) = ToggleMention(r, r.peer)
    BY <1>4, <1>12
  <2> QED
    BY <1>5, <1>6, <1>7, <2>1, ToggleMentionSound
<1>13. CASE /\ key \notin {"Escape", "Tab"} /\ ~(key = "Up" /\ cursor > 0)
            /\ ~(key = "Down" /\ cursor + 1 < Len(peers))
            /\ ~(key = "Enter" /\ peers # << >>)
  <2>1. HandleMentions(v, key) = r
    BY <1>4, <1>13
  <2> QED
    BY <1>5, <1>6, <2>1, SameDraftHandled DEF Editing
<1> QED
  BY <1>8, <1>10, <1>11, <1>12, <1>13

-----------------------------------------------------------------------------
(* The modals, and handle. *)

\* The user confirmed that the draft be discarded.
Chosen(v) == v.modal = [id |-> "Discard", confirm |-> TRUE]

HandledOrChosen(v, w) ==
  Sound(w) /\ Shown(w) = Shown(v) /\ (Handled(v, w) \/ Chosen(v))

\* The one question whose confirmation drops the draft is Discard: the others
\* leave the application or delete its data.
LEMMA HandleQuestionSound ==
  ASSUME NEW v, Sound(v), NEW key, ~Exits(v, key), ~Deletes(v, key),
         v.modal.id \in {"Exit", "Recovery", "Discard", "DeleteData"}
  PROVE  HandledOrChosen(v, HandleQuestion(v, key))
<1>a. DOMAIN v = Members /\ v.modal \in Modals
  BY DEF Sound, ScreensTyped
<1>b. /\ v.modal = [id |-> v.modal.id, confirm |-> v.modal.confirm]
      /\ v.modal.confirm \in BOOLEAN
  BY <1>a DEF Modals
<1>1. ASSUME NEW c \in BOOLEAN, NEW w, w = [v EXCEPT !.modal.confirm = c]
      PROVE  HandledOrChosen(v, w)
  <2>1. [v.modal EXCEPT !.confirm = c] \in Modals
    BY <1>a DEF Modals
  <2>2. /\ DOMAIN w = Members /\ w.modal \in Modals
        /\ \A f \in Members \ {"modal"} : w[f] = v[f]
    BY <1>1, <1>a, <2>1 DEF Members
  <2>3. Sound(w) /\ Shown(w) = Shown(v)
    BY <2>2
       DEF Members, Sound, ScreensTyped, ScrollInside, DraftFits,
           DraftInEditor, Shown
  <2>4. /\ w.body = v.body /\ w.mentions = v.mentions /\ w.reply = v.reply
        /\ w.screen = v.screen
    BY <2>2 DEF Members
  <2> QED
    BY <2>3, <2>4, SameDraftHandled DEF HandledOrChosen
<1>2. CASE key = "Left"
  <2>1. HandleQuestion(v, key) = [v EXCEPT !.modal.confirm = FALSE]
    BY <1>2 DEF HandleQuestion
  <2> QED
    BY <1>1, <2>1
<1>3. CASE key = "Right"
  <2>1. HandleQuestion(v, key) = [v EXCEPT !.modal.confirm = TRUE]
    BY <1>3 DEF HandleQuestion
  <2> QED
    BY <1>1, <2>1
<1>4. CASE key = "Enter" /\ v.modal.confirm
  <2>1. v.modal.id = "Discard"
    BY <1>4 DEF Exits, Deletes
  <2>2. Chosen(v)
    BY <1>4, <1>b, <2>1 DEF Chosen
  <2>3. PICK w : w = Show(v, "None")
    OBVIOUS
  <2>4. Handled(v, w)
    BY <2>3, ShowHandled, ModalIds
  <2>5. HandleQuestion(v, key) = CloseCompose(w)
    BY <1>4, <2>3 DEF HandleQuestion
  <2> QED
    BY <2>2, <2>4, <2>5, CloseComposeSound DEF HandledOrChosen, Handled
<1>5. CASE key = "Escape" \/ (key = "Enter" /\ ~v.modal.confirm)
  <2>1. HandleQuestion(v, key) = Show(v, "None")
    BY <1>5 DEF HandleQuestion
  <2> QED
    BY <2>1, ShowHandled, ModalIds DEF HandledOrChosen, Handled
<1>6. CASE key \notin {"Left", "Right", "Enter", "Escape"}
  <2>1. HandleQuestion(v, key) = v
    BY <1>6 DEF HandleQuestion
  <2> QED
    BY <2>1, SameDraftHandled DEF HandledOrChosen
<1> QED
  BY <1>b, <1>2, <1>3, <1>4, <1>5, <1>6

LEMMA HandleModalSound ==
  ASSUME NEW v, Sound(v), NEW key, ~Exits(v, key), ~Deletes(v, key),
         v.modal.id # "None"
  PROVE  HandledOrChosen(v, HandleModal(v, key))
<1>1. CASE key = "Home" /\ v.modal.id \notin {"Exit", "Recovery"}
  <2>1. HandleModal(v, key) = Show(v, "Exit")
    BY <1>1 DEF HandleModal
  <2> QED
    BY <2>1, ShowHandled, ModalIds DEF HandledOrChosen, Handled
<1>2. CASE /\ ~(key = "Home" /\ v.modal.id \notin {"Exit", "Recovery"})
           /\ v.modal.id \in {"Status", "Error"}
  <2>1. HandleModal(v, key) \in {Show(v, "None"), v}
    BY <1>2 DEF HandleModal
  <2>2. Handled(v, Show(v, "None")) /\ Handled(v, v)
    BY ShowHandled, ModalIds, SameDraftHandled
  <2> QED
    BY <2>1, <2>2 DEF HandledOrChosen, Handled
<1>3. CASE /\ ~(key = "Home" /\ v.modal.id \notin {"Exit", "Recovery"})
           /\ v.modal.id \notin {"Status", "Error"}
  <2>1. HandleModal(v, key) = HandleQuestion(v, key)
    BY <1>3 DEF HandleModal
  <2>2. v.modal.id \in {"Exit", "Recovery", "Discard", "DeleteData"}
    BY <1>3 DEF Sound, ScreensTyped, Modals
  <2> QED
    BY <2>1, <2>2, HandleQuestionSound
<1> QED
  BY <1>1, <1>2, <1>3

\* One key, on any screen and under any modal (223-247).
LEMMA HandleSound ==
  ASSUME NEW v, Sound(v), Live(v, timeline), timeline \in Seq(Posts),
         NEW key, ~Exits(v, key), ~Deletes(v, key)
  PROVE  HandledOrChosen(v, Handle(v, key))
<1>1. CASE v.modal.id # "None"
  BY <1>1, HandleModalSound DEF Handle
<1>2. CASE v.modal.id = "None"
  <2>1. CASE key = "Home"
    BY <1>2, <2>1, ShowHandled, ModalIds DEF Handle, HandledOrChosen, Handled
  <2>2. CASE key # "Home" /\ IsShortcut(v, key)
    BY <1>2, <2>2, HandleShortcutSound DEF Handle, HandledOrChosen, Handled
  <2>3. CASE key # "Home" /\ ~IsShortcut(v, key)
    <3>1. Handle(v, key) = HandleScreen(v, key)
      BY <1>2, <2>3 DEF Handle
    <3>2. v.screen \in Screens
      BY DEF Sound, ScreensTyped
    <3>3. Handled(v, HandleScreen(v, key))
      BY <1>2, <3>2, HandleMenuSound, HandleTimelineSound, HandleDetailSound,
         HandleComposeSound, HandleMentionsSound, HandleSettingsSound
         DEF HandleScreen, Screens
    <3> QED
      BY <3>1, <3>3 DEF HandledOrChosen, Handled
  <2> QED
    BY <2>1, <2>2, <2>3
<1> QED
  BY <1>1, <1>2

-----------------------------------------------------------------------------
(* The inductive invariant. *)

\* The constructor.
LEMMA OpenedSound ==
  ASSUME NEW started \in BOOLEAN, NEW shown \in Settings,
         NEW tl \in Seq(Posts), NEW w, w = Opened(started, shown, tl)
  PROVE  Sound(w) /\ Shown(w) = shown /\ Live(w, tl)
<1>1. shown \in [locale : 0 .. LocaleCount - 1, skip_title : BOOLEAN]
  BY ViewModelAssumption
<1>2. PICK first : first = IF shown.skip_title THEN "Timeline" ELSE "Menu"
  OBVIOUS
<1>3. first \in {"Timeline", "Menu"}
  BY <1>2
<1>4. PICK id : id = IF started THEN "None" ELSE "Recovery"
  OBVIOUS
<1>a. PICK newest : newest = IF tl = << >> THEN None ELSE Head(tl)
  OBVIOUS
<1>b. /\ newest \in Posts \cup {None}
      /\ IF tl = << >> THEN newest = None ELSE InTimeline(newest, tl)
  BY <1>a, HeadLives, LivesTyped
<1>5. w = [screen |-> first, compose_return |-> "Timeline",
           settings_return |-> first,
           modal |-> [id |-> id, confirm |-> FALSE],
           selected |-> newest, detail |-> None, scroll |-> 0,
           body |-> 0, cursor |-> 0, mentions |-> << >>, reply |-> None,
           peer |-> None,
           menu_item |-> "Talk", settings_item |-> "Language",
           locale |-> shown.locale, skip_title |-> shown.skip_title]
  BY <1>2, <1>4, <1>a DEF Opened
<1>6. Shown(w) = shown
  BY <1>1, <1>5 DEF Shown
<1>7. w.modal \in Modals
  BY <1>4, <1>5 DEF Modals
<1>8. DOMAIN w = Members
  BY <1>5 DEF Members
<1>9. ScreensTyped(w)
  BY <1>3, <1>5, <1>6, <1>7, <1>b DEF ScreensTyped, Screens, Editing
<1>10. ScrollInside(w) /\ DraftInEditor(w)
  BY <1>5 DEF ScrollInside, DraftInEditor
<1>11. DraftFits(w)
  BY <1>5, EmptySequence, ViewModelAssumption DEF DraftFits
<1> QED
  BY <1>3, <1>5, <1>6, <1>8, <1>9, <1>10, <1>11, <1>b DEF Sound, Live

LEMMA InsertedTyped ==
  ASSUME timeline \in Seq(Posts), NEW p \in Posts, NEW keep,
         NEW tl \in Inserted(p, keep)
  PROVE  tl \in Seq(Posts)
<1>1. PICK rest : /\ tl = <<p>> \o rest
                  /\ rest \in IF Len(timeline) < MaxTimeline THEN {timeline}
                              ELSE {RemoveAt(timeline, i) :
                                      i \in {j \in DOMAIN timeline : timeline[j] # keep}}
  BY DEF Inserted
<1>2. rest \in Seq(Posts)
  <2>1. CASE Len(timeline) < MaxTimeline
    BY <1>1, <2>1
  <2>2. CASE ~(Len(timeline) < MaxTimeline)
    <3>1. PICK i \in DOMAIN timeline : rest = RemoveAt(timeline, i)
      BY <1>1, <2>2
    <3> QED
      BY <3>1, RemoveAtSequence
  <2> QED
    BY <2>1, <2>2
<1>3. <<p>> \in Seq(Posts)
  OBVIOUS
<1> QED
  BY <1>1, <1>2, <1>3

LEMMA ViewInitIInv == Init => ViewIInv
<1> SUFFICES ASSUME Init PROVE ViewIInv
  OBVIOUS
<1>0. PICK started \in BOOLEAN, saved \in Settings :
        /\ ready = started /\ stored = saved /\ running = TRUE
        /\ timeline \in IF started THEN Restorable ELSE {<< >>}
        /\ \E shown \in IF started THEN {saved} ELSE {saved, Defaults} :
             vm = Opened(started, shown, timeline)
  BY DEF Init
<1>1. PICK shown \in IF started THEN {saved} ELSE {saved, Defaults} :
        vm = Opened(started, shown, timeline)
  BY <1>0
<1>2. shown \in Settings
  BY <1>0, <1>1, ViewModelAssumption DEF Defaults
<1>3. timeline \in Seq(Posts)
  <2>1. CASE ~started
    BY <1>0, <1>1, <2>1
  <2>2. CASE started
    <3>1. timeline \in UNION {[1 .. m -> Posts] : m \in 0 .. MaxTimeline}
      BY <1>0, <1>1, <2>2 DEF Restorable, SeqOf
    <3>2. PICK m \in 0 .. MaxTimeline : timeline \in [1 .. m -> Posts]
      BY <3>1
    <3>3. m \in Nat
      BY <3>2, ViewModelAssumption
    <3> QED
      BY <3>2, <3>3
  <2> QED
    BY <1>0, <1>1, <2>1, <2>2
<1>4. Sound(vm) /\ Shown(vm) = shown /\ Live(vm, timeline)
  BY <1>0, <1>1, <1>2, <1>3, OpenedSound
<1>5. ShownIsStored
  BY <1>0, <1>1, <1>4 DEF ShownIsStored
<1> QED
  BY <1>0, <1>1, <1>3, <1>4, <1>5 DEF ViewIInv

\* The view every handler starts from.
LEMMA CurrentSound ==
  ASSUME ViewIInv
  PROVE  Reconciled(vm, Current, timeline)
BY ReconcileSound DEF ViewIInv, Current

\* What the draft may lose in a step.
DraftStep ==
  \/ ~Dirty(vm)
  \/ KeepsDraft(vm, vm') \/ ErasesPiece(vm, vm')
  \/ Chosen(vm)
  \/ composed' # composed
  \/ ~running'

Step == ViewIInv' /\ DraftStep

\* A handler's view, reconciled with the timeline.
LEMMA ReconciledStep ==
  ASSUME ViewIInv, NEW h, HandledOrChosen(Current, h),
         NEW tl \in Seq(Posts), timeline' = tl, vm' = Reconcile(h, tl),
         ready' \in BOOLEAN, ready' => ready, UNCHANGED <<stored, running>>, running
  PROVE  Step
<1>1. PICK c : c = Current
  OBVIOUS
<1>2. PICK w : w = Reconcile(h, tl)
  OBVIOUS
<1>3. Reconciled(vm, c, timeline) /\ HandledOrChosen(c, h)
  BY <1>1, CurrentSound
<1>4. Reconciled(h, w, tl)
  BY <1>2, <1>3, ReconcileSound DEF HandledOrChosen
<1>5. Shown(w) = Shown(vm)
  BY <1>3, <1>4 DEF Reconciled, HandledOrChosen
<1>6. ShownIsStored'
  <2>1. vm' = w
    BY <1>2
  <2> QED
    BY <1>5, <2>1 DEF ViewIInv, ShownIsStored, Shown
<1>7. ViewIInv'
  <2>1. Sound(w) /\ Live(w, tl) /\ vm' = w
    BY <1>2, <1>4 DEF Reconciled
  <2> QED
    BY <1>6, <2>1 DEF ViewIInv
<1>8. DraftStep
  <2>1. vm' = w
    BY <1>2
  <2>2. ASSUME Dirty(vm)
        PROVE  /\ Dirty(c) /\ c.screen = vm.screen /\ c.modal = vm.modal
               /\ c.body = vm.body /\ c.mentions = vm.mentions
               /\ c.reply = vm.reply
    <3>1. vm.screen # "Detail"
      BY <2>2, CleanElsewhere DEF ViewIInv, Editing
    <3> QED
      BY <1>3, <2>2, <3>1 DEF Reconciled, Dirty
  <2>3. CASE Handled(c, h)
    <3>1. ASSUME h.screen \in Editing
          PROVE  /\ w.screen = h.screen /\ w.modal = h.modal
                 /\ w.body = h.body /\ w.mentions = h.mentions
                 /\ w.reply = h.reply
      BY <1>4, <3>1 DEF Reconciled, Editing
    <3>2. ASSUME Dirty(vm), KeepsDraft(c, h) PROVE KeepsDraft(vm, w)
      BY <2>2, <3>1, <3>2 DEF KeepsDraft
    <3>3. ASSUME Dirty(vm), ErasesPiece(c, h) PROVE ErasesPiece(vm, w)
      <4>1. h.screen \in Editing
        BY <3>3 DEF ErasesPiece, Editing
      <4> QED
        BY <2>2, <3>1, <3>3, <4>1 DEF ErasesPiece
    <3> QED
      BY <2>1, <2>2, <2>3, <3>2, <3>3 DEF Handled, DraftStep
  <2>4. CASE Chosen(c)
    <3>1. c.modal.id = "Discard" /\ c.modal = [id |-> "Discard", confirm |-> TRUE]
      BY <2>4 DEF Chosen
    <3>2. vm.modal = c.modal
      BY <1>3, <3>1 DEF Reconciled
    <3> QED
      BY <3>1, <3>2 DEF DraftStep, Chosen
  <2> QED
    BY <1>3, <2>3, <2>4 DEF HandledOrChosen
<1> QED
  BY <1>7, <1>8 DEF Step

\* The application ends.
LEMMA StopStep ==
  ASSUME ViewIInv, vm' = Opened(TRUE, stored, timeline), running' = FALSE,
         ready' \in BOOLEAN, UNCHANGED <<timeline, stored>>
  PROVE  Step
<1>1. PICK w : w = Opened(TRUE, stored, timeline)
  OBVIOUS
<1>2. Sound(w)
  BY <1>1, OpenedSound DEF ViewIInv
<1>3. ViewIInv'
  BY <1>1, <1>2 DEF ViewIInv, ShownIsStored
<1> QED
  BY <1>3 DEF Step, DraftStep

LEMMA PressStep ==
  ASSUME ViewIInv, NEW key, Press(key)
  PROVE  Step
<1>1. PICK h : h = Handle(Current, key)
  OBVIOUS
<1>2. Sound(Current) /\ Live(Current, timeline)
  BY CurrentSound DEF Reconciled
<1>3. ~Exits(Current, key) /\ ~Deletes(Current, key)
  BY DEF Press, Leaves
<1>4. HandledOrChosen(Current, h)
  BY <1>1, <1>2, <1>3, HandleSound DEF ViewIInv
<1>5. vm' = Reconcile(h, timeline)
  BY <1>1 DEF Press
<1> QED
  BY <1>4, <1>5, ReconciledStep DEF Press, ViewIInv

LEMMA ShowErrorHandled ==
  ASSUME ViewIInv
  PROVE  HandledOrChosen(Current, Show(Current, "Error"))
<1>1. Sound(Current)
  BY CurrentSound DEF Reconciled
<1>2. Handled(Current, Show(Current, "Error"))
  BY <1>1, ShowHandled, ModalIds
<1> QED
  BY <1>2 DEF HandledOrChosen, Handled

\* A deletion that fails shows the error and keeps the draft.
LEMMA ApproveDeleteStep ==
  ASSUME ViewIInv, NEW key, ApproveDelete(key)
  PROVE  Step
<1>1. CASE running' = FALSE /\ vm' = Opened(TRUE, stored, timeline)
  BY <1>1, StopStep DEF ApproveDelete
<1>2. CASE vm' = Reconcile(Show(Current, "Error"), timeline) /\ UNCHANGED running
  BY <1>2, ShowErrorHandled, ReconciledStep DEF ApproveDelete, ViewIInv
<1> QED
  BY <1>1, <1>2 DEF ApproveDelete

\* A refused submission keeps the draft.
LEMMA ComposeRefusedStep ==
  ASSUME ViewIInv, NEW key, ComposeRefused(key)
  PROVE  Step
<1>1. ready' \in BOOLEAN /\ (ready' => ready)
  BY DEF ComposeRefused, ViewIInv
<1>2. vm' = Reconcile(Show(Current, "Error"), timeline)
  BY DEF ComposeRefused, Refused
<1> QED
  BY <1>1, <1>2, ShowErrorHandled, ReconciledStep DEF ComposeRefused, ViewIInv

\* A queued post takes the draft with it and is selected.
LEMMA ComposeQueuedStep ==
  ASSUME ViewIInv, NEW key, ComposeQueued(key)
  PROVE  Step
<1>1. PICK p \in Posts \ composed :
        /\ composed' = composed \cup {p}
        /\ timeline' \in Inserted(p, Current.reply)
        /\ vm' = Reconcile(
             Show([ResetDraft(Current) EXCEPT !.selected = p, !.detail = None,
                     !.scroll = 0, !.screen = "Timeline"], "Status"),
             timeline')
  BY DEF ComposeQueued
<1>2. PICK tl : tl = timeline'
  OBVIOUS
<1>3. tl \in Seq(Posts)
  BY <1>1, <1>2, InsertedTyped DEF ViewIInv
<1>4. PICK r : r = ResetDraft(Current)
  OBVIOUS
<1>5. /\ Sound(r) /\ r.body = 0 /\ r.cursor = 0 /\ r.mentions = << >>
      /\ \A f \in Members \ {"body", "cursor", "mentions", "reply"} : r[f] = Current[f]
  BY <1>4, CurrentSound, ResetDraftSound DEF Reconciled
<1>6. DOMAIN r = Members
  BY <1>5 DEF Sound
<1>7. PICK s : s = [r EXCEPT !.selected = p, !.detail = None, !.scroll = 0,
                             !.screen = "Timeline"]
  OBVIOUS
<1>8. /\ DOMAIN s = Members /\ s.selected = p /\ s.detail = None /\ s.scroll = 0
      /\ s.screen = "Timeline"
      /\ \A f \in Members \ {"selected", "detail", "scroll", "screen"} : s[f] = r[f]
  BY <1>6, <1>7 DEF Members
<1>9. Sound(s) /\ Shown(s) = Shown(r)
  BY <1>5, <1>8
     DEF Members, Sound, ScreensTyped, ScrollInside, DraftFits, DraftInEditor,
         Shown, Screens, Editing
<1>10. PICK h : h = Show(s, "Status")
  OBVIOUS
<1>11. Sound(h) /\ Shown(h) = Shown(s)
  BY <1>9, <1>10, ShowHandled, ModalIds DEF Handled
<1>12. PICK w : w = Reconcile(h, tl)
  OBVIOUS
<1>13. Reconciled(h, w, tl)
  BY <1>3, <1>11, <1>12, ReconcileSound
<1>14. Shown(w) = Shown(vm)
  <2>1. Shown(r) = Shown(Current)
    BY <1>5 DEF Members, Shown
  <2> QED
    BY <1>9, <1>11, <1>13, <2>1, CurrentSound DEF Reconciled
<1>15. vm' = w
  BY <1>1, <1>2, <1>4, <1>7, <1>10, <1>12
<1>16. ShownIsStored'
  BY <1>14, <1>15 DEF ViewIInv, ShownIsStored, ComposeQueued, Shown
<1>17. ViewIInv'
  <2>1. Sound(w) /\ Live(w, tl)
    BY <1>13 DEF Reconciled
  <2> QED
    BY <1>2, <1>3, <1>15, <1>16, <2>1 DEF ViewIInv, ComposeQueued
<1> QED
  BY <1>1, <1>17 DEF Step, DraftStep

\* A setting is shown once it is stored.
LEMMA ChangeSettingStep ==
  ASSUME ViewIInv, NEW key, ChangeSetting(key)
  PROVE  Step
<1>a. PICK c : c = Current
  OBVIOUS
<1>b. Reconciled(vm, c, timeline)
  BY <1>a, CurrentSound
<1>c. PICK x : x = Candidate(c, key)
  OBVIOUS
<1>d. /\ x \in Settings
      /\ \/ /\ ready /\ stored' = x
            /\ vm' = [c EXCEPT !.locale = x.locale, !.skip_title = x.skip_title]
            /\ UNCHANGED ready
         \/ /\ vm' = Show(c, "Error")
            /\ \/ UNCHANGED <<stored, ready>>
               \/ ready' = FALSE /\ stored' \in {stored, x}
      /\ UNCHANGED <<timeline, running>>
  BY <1>a, <1>c DEF ChangeSetting, NotStored
<1>e. DOMAIN c = Members /\ Sound(c) /\ Live(c, timeline)
      /\ c.body = vm.body /\ c.mentions = vm.mentions /\ Shown(c) = Shown(vm)
  BY <1>b DEF Reconciled, Sound
<1>f. PICK w : w = vm'
  OBVIOUS
<1>g. ~Dirty(vm)
  <2>1. c.screen = "Settings"
    BY <1>a DEF ChangeSetting, Changes
  <2>2. ~Dirty(c)
    BY <1>e, <2>1, CleanElsewhere DEF Editing
  <2> QED
    BY <1>e, <2>2 DEF Dirty
<1>1. CASE /\ ready /\ stored' = x
           /\ vm' = [c EXCEPT !.locale = x.locale, !.skip_title = x.skip_title]
           /\ UNCHANGED ready
  <2>1. /\ DOMAIN w = Members /\ w.locale = x.locale /\ w.skip_title = x.skip_title
        /\ \A f \in Members \ {"locale", "skip_title"} : w[f] = c[f]
    BY <1>1, <1>e, <1>f DEF Members
  <2>2. x = [locale |-> x.locale, skip_title |-> x.skip_title]
    BY <1>d, ViewModelAssumption
  <2>3. Shown(w) = x
    BY <2>1, <2>2 DEF Shown
  <2>4. Sound(w)
    BY <1>d, <1>e, <2>1, <2>3
       DEF Members, Sound, ScreensTyped, ScrollInside, DraftFits,
           DraftInEditor
  <2>5. Live(w, timeline)
    BY <1>e, <2>1 DEF Members, Live
  <2>6. ShownIsStored'
    BY <1>1, <1>f, <2>3 DEF ShownIsStored, Shown
  <2>7. ViewIInv'
    BY <1>1, <1>d, <1>f, <2>4, <2>5, <2>6 DEF ViewIInv
  <2> QED
    BY <1>g, <2>7 DEF Step, DraftStep
<1>2. CASE /\ vm' = Show(c, "Error")
           /\ \/ UNCHANGED <<stored, ready>>
              \/ ready' = FALSE /\ stored' \in {stored, x}
  <2>1. Sound(w) /\ \A f \in Members \ {"modal"} : w[f] = c[f]
    <3>1. [id |-> "Error", confirm |-> FALSE] \in Modals
      BY ModalIds
    <3> QED
      BY <1>2, <1>e, <1>f, <3>1, ShowSound
  <2>2. Live(w, timeline) /\ Shown(w) = Shown(vm)
    BY <1>e, <2>1 DEF Members, Live, Shown
  <2>3. ShownIsStored'
    BY <1>2, <1>d, <1>f, <2>2 DEF ViewIInv, ShownIsStored, Shown
  <2>4. ViewIInv'
    BY <1>2, <1>d, <1>f, <2>1, <2>2, <2>3 DEF ViewIInv
  <2> QED
    BY <1>g, <2>4 DEF Step, DraftStep
<1> QED
  BY <1>d, <1>1, <1>2

\* A post that arrives, and the one it evicts, costs nothing of the draft.
LEMMA PostArrivesStep ==
  ASSUME ViewIInv, PostArrives
  PROVE  Step
<1>1. PICK p \in Posts : /\ timeline' \in Inserted(p, None)
                         /\ vm' = Reconcile(vm, timeline')
  BY DEF PostArrives
<1>2. PICK tl : tl = timeline'
  OBVIOUS
<1>3. tl \in Seq(Posts)
  BY <1>1, <1>2, InsertedTyped DEF ViewIInv
<1>4. PICK w : w = Reconcile(vm, tl)
  OBVIOUS
<1>5. Reconciled(vm, w, tl)
  BY <1>3, <1>4, ReconcileSound DEF ViewIInv
<1>6. vm' = w
  BY <1>1, <1>2, <1>4
<1>7. ShownIsStored'
  BY <1>5, <1>6 DEF ViewIInv, ShownIsStored, PostArrives, Shown, Reconciled
<1>8. ViewIInv'
  <2>1. Sound(w) /\ Live(w, tl)
    BY <1>5 DEF Reconciled
  <2> QED
    BY <1>2, <1>3, <1>6, <1>7, <2>1 DEF ViewIInv, PostArrives
<1>9. ASSUME Dirty(vm) PROVE KeepsDraft(vm, w)
  <2>1. vm.screen \in Editing /\ vm.screen # "Detail"
    BY <1>9, CleanElsewhere DEF ViewIInv, Editing
  <2>2. vm.body \in Nat /\ Len(vm.mentions) \in Nat
    BY DraftCounts DEF ViewIInv
  <2> QED
    BY <1>5, <2>1, <2>2 DEF Reconciled, KeepsDraft
<1> QED
  BY <1>6, <1>8, <1>9 DEF Step, DraftStep

LEMMA NextStep ==
  ASSUME ViewIInv, Next
  PROVE  Step
<1>1. ASSUME NEW key \in Keys, ApproveExit(key) PROVE Step
  BY <1>1, StopStep DEF ApproveExit, ViewIInv
<1>2. CASE CloseWindow
  BY <1>2, StopStep DEF CloseWindow, ViewIInv
<1> QED
  BY <1>1, <1>2, PressStep, ApproveDeleteStep, ComposeRefusedStep, ComposeQueuedStep,
     ChangeSettingStep, PostArrivesStep DEF Next

LEMMA StutterStep ==
  ASSUME ViewIInv, UNCHANGED vars
  PROVE  ViewIInv'
BY DEF ViewIInv, vars, ShownIsStored, Live, InTimeline

\* Every reachable view is sound: its screens, posts, draft and cursors fit
\* together on every screen and under every modal.
THEOREM ViewModelInvariant == Spec => []ViewIInv
<1>1. ViewIInv /\ [Next]_vars => ViewIInv'
  BY NextStep, StutterStep DEF Step
<1> QED
  BY <1>1, ViewInitIInv, PTL DEF Spec

\* For every timeline bound, set of posts and settings: the detail screen shows
\* a post that exists, within its lines, and the selection is a post of the
\* timeline, whatever was evicted meanwhile (reconcile_model, 296-322).
THEOREM ScreensShowLivePosts == Spec => []ShowsLivePosts
<1>1. ViewIInv => ShowsLivePosts
  <2> SUFFICES ASSUME ViewIInv, running PROVE ShowsLivePosts
    BY DEF ShowsLivePosts
  <2>1. vm.screen = "Detail" => vm.detail # None
    BY DEF ViewIInv, Live, InTimeline
  <2> QED
    BY <2>1 DEF ViewIInv, Sound, ScrollInside, Live, ShowsLivePosts
<1> QED
  BY <1>1, ViewModelInvariant, PTL

\* For every limit of the body and the mentions: a dirty draft stays in the
\* editor with the post it answers, and an edit costs one piece of the part
\* being edited, except for a queued post, a confirmed Discard and the end of
\* the application (handle_compose 598-661, handle_modal 422-480).
THEOREM DraftsGoByChoice == Spec => DraftGoesByChoice
<1>1. ViewIInv /\ [Next]_vars =>
        [ Dirty(vm) => \/ KeepsDraft(vm, vm')
                       \/ ErasesPiece(vm, vm')
                       \/ vm.modal = [id |-> "Discard", confirm |-> TRUE]
                       \/ composed' # composed
                       \/ ~running' ]_vars
  BY NextStep DEF Step, DraftStep, Chosen
<1> QED
  BY <1>1, ViewModelInvariant, PTL DEF Spec, DraftGoesByChoice

\* For every set of settings: what the settings screen shows is what the file
\* holds, until the session demands recovery (handle_settings, 719-757).
THEOREM SettingsShownAreStored == Spec => []ShownIsStored
<1>1. ViewIInv => ShownIsStored
  BY DEF ViewIInv
<1> QED
  BY <1>1, ViewModelInvariant, PTL

\* Within its limits, and nobody twice: what compose accepts of a draft.
DraftWithinLimits ==
  /\ vm.body <= MaxBody /\ vm.cursor <= vm.body
  /\ Len(vm.mentions) <= MaxMentions /\ NoRepeats(vm.mentions)

\* For every limit: whatever keys are pressed, the draft keeps the limits of a
\* post, with its cursor inside and nobody mentioned twice (handle_compose
\* 598-611, handle_mentions 677-691).
THEOREM DraftsKeepLimits == Spec => []DraftWithinLimits
<1>1. ViewIInv => DraftWithinLimits
  <2> SUFFICES ASSUME ViewIInv PROVE DraftWithinLimits
    OBVIOUS
  <2>1. /\ vm.body \in 0 .. MaxBody /\ vm.cursor \in 0 .. vm.body
        /\ Len(vm.mentions) <= MaxMentions /\ NoRepeats(vm.mentions)
    BY DEF ViewIInv, Sound, DraftFits
  <2> QED
    BY <2>1, ViewModelAssumption DEF DraftWithinLimits
<1> QED
  BY <1>1, ViewModelInvariant, PTL

-----------------------------------------------------------------------------
(* SettingsStore: the files that a save leaves behind. *)

\* What may lie under the name of the settings file: no file, or a whole one.
WholeFiles == {NoFile} \cup {Whole(v) : v \in Values}

\* The settings file is whole, and so is every one a power loss may bring back.
FilesWhole == finals \subseteq WholeFiles /\ final \in finals

\* The value under way is known exactly while a save is under way.
SaveUnderWay ==
  /\ pc \in {"idle", "directory", "removed", "created", "written", "synced",
            "closed", "renamed", "hardened"}
  /\ IF pc = "idle" THEN saving = NoFile ELSE saving \in Values

\* What the system calls of a save have put under the two names.
CallsInOrder ==
  /\ pc = "created" => \E n \in 0 .. Pieces :
       temporary = [value |-> saving, written |-> n, synced |-> 0]
  /\ pc = "written" =>
       temporary = [value |-> saving, written |-> Pieces, synced |-> 0]
  /\ pc \in {"synced", "closed"} => temporary = Whole(saving)
  /\ pc \in {"renamed", "hardened"} => final = Whole(saving)
  /\ pc = "hardened" => finals = {final}

StoreIInv == FilesWhole /\ SaveUnderWay /\ CallsInOrder

-----------------------------------------------------------------------------
(* Files. *)

\* Loading a whole file returns its value (load, 121-201).
LEMMA LoadWhole ==
  ASSUME NEW v \in Values
  PROVE  Whole(v) # NoFile /\ Load(Whole(v)) = v
BY StoreAssumption, NoFileAssumption DEF Whole, Load

\* A power loss does not change a file that is on the disk as a whole.
LEMMA WholeSurvives ==
  ASSUME NEW file \in WholeFiles
  PROVE  Survivors(file) = {file}
<1>1. CASE file = NoFile
  BY <1>1 DEF Survivors
<1>2. ASSUME NEW v \in Values, file = Whole(v)
      PROVE  Survivors(file) = {file}
  <2>1. file # NoFile
    BY <1>2, LoadWhole
  <2>2. file.synced .. file.written = {Pieces}
    BY <1>2, StoreAssumption DEF Whole
  <2>3. [file EXCEPT !.written = Pieces, !.synced = Pieces] = file
    <3>1. /\ file \in [value : Values, written : Nat, synced : Nat]
          /\ file.written = Pieces /\ file.synced = Pieces
      BY <1>2, StoreAssumption DEF Whole
    <3> QED
      BY <3>1, StoreAssumption
  <2>4. Survivors(file) =
          {[file EXCEPT !.written = n, !.synced = n] : n \in {Pieces}}
    BY <2>1, <2>2 DEF Survivors
  <2> QED
    BY <2>3, <2>4
<1> QED
  BY <1>1, <1>2 DEF WholeFiles

\* What a power loss may bring back of whole files is what they hold.
LEMMA PossibleWhole ==
  ASSUME NEW S, S \subseteq WholeFiles
  PROVE  UNION {{Load(f) : f \in Survivors(file)} : file \in S}
           = {Load(file) : file \in S}
<1>1. \A file \in S : {Load(f) : f \in Survivors(file)} = {Load(file)}
  BY WholeSurvives
<1> QED
  BY <1>1

-----------------------------------------------------------------------------
(* The inductive invariant. *)

LEMMA StoreInitIInv == StoreInit => StoreIInv
BY StoreAssumption
   DEF StoreInit, StoreIInv, FilesWhole, WholeFiles, SaveUnderWay, CallsInOrder

\* A step that leaves the settings file alone keeps it whole.
LEMMA StepFilesWhole ==
  ASSUME StoreIInv, [StoreNext]_storeVars
  PROVE  FilesWhole'
<1> USE DEF StoreIInv, FilesWhole
<1>1. CASE UNCHANGED <<final, finals>>
  BY <1>1 DEF WholeFiles, Whole
<1>2. CASE Rename
  <2>1. temporary \in WholeFiles
    BY <1>2 DEF Rename, CallsInOrder, SaveUnderWay, WholeFiles
  <2> QED
    BY <1>2, <2>1 DEF Rename, WholeFiles, Whole
<1>3. CASE SyncDirectory
  BY <1>3 DEF SyncDirectory, WholeFiles, Whole
<1>4. CASE PowerLoss
  <2>1. PICK file \in finals : final' \in Survivors(file)
    BY <1>4 DEF PowerLoss
  <2>2. final' = file
    BY <2>1, WholeSurvives
  <2> QED
    BY <1>4, <2>2 DEF PowerLoss, WholeFiles, Whole
<1> QED
  BY <1>1, <1>2, <1>3, <1>4
     DEF StoreNext, storeVars, OpenDirectory, RefuseSave, RemoveStale, CreateTemporary,
         Write, SyncTemporary, CloseTemporary, Finish, Fail, FailAfterReplace,
         Kill

LEMMA StepSaveUnderWay ==
  ASSUME StoreIInv, [StoreNext]_storeVars
  PROVE  SaveUnderWay'
BY DEF StoreIInv, SaveUnderWay, StoreNext, storeVars, OpenDirectory,
       RefuseSave, RemoveStale, CreateTemporary, Write, SyncTemporary, CloseTemporary, Rename,
       SyncDirectory, Finish, Fail, FailAfterReplace, Kill, PowerLoss

LEMMA StepCallsInOrder ==
  ASSUME StoreIInv, [StoreNext]_storeVars
  PROVE  CallsInOrder'
<1> USE DEF StoreIInv, CallsInOrder
<1>1. CASE UNCHANGED storeVars
  BY <1>1 DEF storeVars, Whole
<1>2. CASE pc' \in {"idle", "directory", "removed"}
  BY <1>2
<1>3. CASE RefuseSave
  BY <1>3, <1>2 DEF RefuseSave
<1>4. CASE CreateTemporary
  BY <1>4, StoreAssumption DEF CreateTemporary
<1>5. CASE Write
  <2>1. PICK k \in 0 .. Pieces :
          temporary = [value |-> saving, written |-> k, synced |-> 0]
    BY <1>5 DEF Write
  <2>2. PICK n \in k + 1 .. Pieces :
          /\ temporary' = [temporary EXCEPT !.written = n]
          /\ pc' = IF n = Pieces THEN "written" ELSE "created"
    BY <1>5, <2>1 DEF Write
  <2>3. temporary' = [value |-> saving, written |-> n, synced |-> 0]
    BY <2>1, <2>2
  <2>4. saving' = saving
    BY <1>5 DEF Write
  <2>5. n \in 0 .. Pieces
    BY <2>2, StoreAssumption
  <2> QED
    BY <2>2, <2>3, <2>4, <2>5
<1>6. CASE SyncTemporary
  BY <1>6 DEF SyncTemporary, Whole
<1>7. CASE CloseTemporary
  BY <1>7 DEF CloseTemporary, Whole
<1>8. CASE Rename
  BY <1>8 DEF Rename, Whole
<1>9. CASE SyncDirectory
  BY <1>9 DEF SyncDirectory, Whole
<1> QED
  BY <1>1, <1>2, <1>3, <1>4, <1>5, <1>6, <1>7, <1>8, <1>9
     DEF StoreNext, OpenDirectory, RemoveStale, Finish, Fail, FailAfterReplace,
         Kill, PowerLoss

\* Every reachable state has whole files and a save at a known call.
THEOREM StoreInvariant == StoreSpec => []StoreIInv
<1>1. StoreIInv /\ [StoreNext]_storeVars => StoreIInv'
  BY StepFilesWhole, StepSaveUnderWay, StepCallsInOrder DEF StoreIInv
<1> QED
  BY <1>1, StoreInitIInv, PTL DEF StoreSpec

-----------------------------------------------------------------------------
(* The refinement. *)

\* The abstract `possible`, as the refinement mapping gives it.
PossibleBar == UNION {{Load(f) : f \in Survivors(file)} : file \in finals}

LEMMA StoreInitRefines == StoreInit => Atomic!Init
<1> SUFFICES ASSUME StoreInit PROVE Atomic!Init
  OBVIOUS
<1>1. Load(final) \in Values \cup {NoFile}
  BY LoadWhole DEF StoreInit, Load
<1>2. finals \subseteq WholeFiles
  BY DEF StoreInit, WholeFiles
<1>3. PossibleBar = {Load(final)}
  BY <1>2, PossibleWhole DEF PossibleBar, StoreInit
<1> QED
  BY <1>1, <1>3 DEF StoreInit, Atomic!Init, PossibleBar

\* What the settings file may be is unchanged.
LEMMA SameFiles ==
  ASSUME UNCHANGED <<final, finals>>
  PROVE  UNCHANGED <<Load(final), PossibleBar>>
BY DEF PossibleBar, Load, Survivors

LEMMA StoreStepRefines ==
  ASSUME StoreIInv, StoreIInv', [StoreNext]_storeVars
  PROVE  [Atomic!Next]_(Atomic!vars)
<1>a. finals \subseteq WholeFiles /\ finals' \subseteq WholeFiles
  BY DEF StoreIInv, FilesWhole, WholeFiles, Whole
<1>b. PossibleBar = {Load(file) : file \in finals}
  BY <1>a, PossibleWhole DEF PossibleBar
<1>c. PossibleBar' = {Load(file) : file \in finals'}
  <2>1. PossibleBar' = UNION {{Load(f) : f \in Survivors(file)} : file \in finals'}
    BY DEF PossibleBar, Load, Survivors
  <2> QED
    BY <2>1, <1>a, PossibleWhole
<1>1. ASSUME NEW v \in Values, OpenDirectory(v) PROVE Atomic!Next
  <2>1. Atomic!Begin(v)
    BY <1>1, SameFiles
       DEF OpenDirectory, Atomic!Begin, PossibleBar, StoreIInv, SaveUnderWay
  <2> QED
    BY <2>1 DEF Atomic!Next
<1>2. CASE RefuseSave
  <2>1. Atomic!Refuse
    BY <1>2, SameFiles
       DEF RefuseSave, Atomic!Refuse, PossibleBar, StoreIInv, SaveUnderWay
  <2> QED
    BY <2>1 DEF Atomic!Next
<1>3. CASE RemoveStale \/ CreateTemporary \/ Write \/ SyncTemporary \/ CloseTemporary
  <2>1. UNCHANGED <<final, finals, saving, answer>>
    BY <1>3 DEF RemoveStale, CreateTemporary, Write, SyncTemporary, CloseTemporary
  <2>2. pc \notin {"renamed", "hardened"} /\ pc' \notin {"renamed", "hardened"}
    BY <1>3 DEF RemoveStale, CreateTemporary, Write, SyncTemporary, CloseTemporary
  <2> QED
    BY <2>1, <2>2, SameFiles DEF Atomic!vars, PossibleBar
<1>4. CASE Rename
  <2>1. temporary = Whole(saving) /\ saving \in Values /\ saving # NoFile
    BY <1>4, StoreAssumption DEF Rename, StoreIInv, SaveUnderWay, CallsInOrder
  <2>2. Load(temporary) = saving
    BY <2>1, LoadWhole
  <2>3. Load(final)' = Load(temporary)
    BY <1>4 DEF Rename, Load
  <2>4. PossibleBar' = PossibleBar \cup {saving}
    BY <1>4, <1>b, <1>c, <2>2 DEF Rename
  <2>5. Atomic!Replace
    BY <1>4, <2>1, <2>2, <2>3, <2>4 DEF Rename, Atomic!Replace, PossibleBar
  <2> QED
    BY <2>5 DEF Atomic!Next
<1>5. CASE SyncDirectory
  <2>1. Load(final)' = Load(final)
    BY <1>5 DEF SyncDirectory, Load
  <2>2. PossibleBar' = {Load(final)}
    BY <1>5, <1>c DEF SyncDirectory
  <2>3. Atomic!Harden
    BY <1>5, <2>1, <2>2 DEF SyncDirectory, Atomic!Harden, PossibleBar
  <2> QED
    BY <2>3 DEF Atomic!Next
<1>6. CASE Finish
  <2>1. saving \in Values /\ saving # NoFile /\ final = Whole(saving) /\ finals = {final}
    BY <1>6, StoreAssumption DEF Finish, StoreIInv, SaveUnderWay, CallsInOrder
  <2>2. PossibleBar = {saving}
    BY <2>1, <1>b, LoadWhole
  <2>3. UNCHANGED <<Load(final), PossibleBar>>
    BY <1>6, SameFiles DEF Finish
  <2>4. Atomic!Return
    BY <1>6, <2>1, <2>2, <2>3 DEF Finish, Atomic!Return, PossibleBar
  <2> QED
    BY <2>4 DEF Atomic!Next
<1>7. CASE Fail \/ FailAfterReplace
  <2>1. saving # NoFile
    BY <1>7, StoreAssumption DEF Fail, FailAfterReplace, StoreIInv, SaveUnderWay
  <2>2. UNCHANGED <<Load(final), PossibleBar>>
    BY <1>7, SameFiles DEF Fail, FailAfterReplace
  <2>3. Atomic!Return
    BY <1>7, <2>1, <2>2
       DEF Fail, FailAfterReplace, ReplacedAnswer, Atomic!Return, PossibleBar
  <2> QED
    BY <2>3 DEF Atomic!Next
<1>8. CASE Kill
  <2>1. UNCHANGED <<Load(final), PossibleBar>>
    BY <1>8, SameFiles DEF Kill
  <2>2. Atomic!Stop
    BY <1>8, <2>1 DEF Kill, Atomic!Stop, PossibleBar
  <2> QED
    BY <2>2 DEF Atomic!Next
<1>9. CASE PowerLoss
  <2>1. PICK file \in finals : final' \in Survivors(file)
    BY <1>9 DEF PowerLoss
  <2>2. final' = file
    BY <2>1, <1>a, WholeSurvives
  <2>3. Load(final)' = Load(final')
    BY DEF Load
  <2>4. Load(final)' \in PossibleBar
    BY <2>2, <2>3, <1>b
  <2>5. PossibleBar' = {Load(final)'}
    BY <1>9, <1>c, <2>3 DEF PowerLoss
  <2>6. Atomic!PowerLoss
    BY <1>9, <2>4, <2>5 DEF PowerLoss, Atomic!PowerLoss, PossibleBar
  <2> QED
    BY <2>6 DEF Atomic!Next
<1>10. CASE UNCHANGED storeVars
  BY <1>10, SameFiles DEF storeVars, Atomic!vars, PossibleBar
<1> QED
  BY <1>1, <1>2, <1>3, <1>4, <1>5, <1>6, <1>7, <1>8, <1>9, <1>10 DEF StoreNext

\* For every set of records and every number of writes a record takes, save
\* and load are an atomic file: the old value or the new one before and after
\* a power loss, and an answer that says which (save 203-384, load 121-201).
THEOREM StoreIsAtomic == StoreSpec => ImplementsAtomicFile
<1>1. StoreIInv /\ StoreIInv' /\ [StoreNext]_storeVars => [Atomic!Next]_(Atomic!vars)
  BY StoreStepRefines
<1> QED
  BY <1>1, StoreInitRefines, StoreInvariant, PTL
     DEF StoreSpec, ImplementsAtomicFile, Atomic!Spec
=============================================================================
